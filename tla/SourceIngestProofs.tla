-------------------------- MODULE SourceIngestProofs --------------------------
(***************************************************************************)
(* The safety properties of SourceIngest for every set of events, contents *)
(* and ingestions, however often the provider changes: what is stored is   *)
(* one moment of the provider, and no commit goes back behind it.          *)
(***************************************************************************)
EXTENDS SourceIngest, SequenceTheorems, WellFoundedInduction, TLAPS

HasRead(i) == ingest[i].pc \in {"fetched", "queued", "prepared"}
HasPlanned(i) == HasRead(i) \/ ingest[i].pc = "planned"

\* An ingestion that has the row, and whose row nobody has written since.
Underway(i) == (HasPlanned(i) \/ ingest[i].pc = "read") /\ ~ingest[i].moved

\* The row's coverage and the stored events come from the past, and only an account's
\* calendar has a token, which continues from the stored events.
CalendarIsKept ==
  /\ calendar.cover.day <= today
  /\ asOf <= Len(hist)
  /\ calendar.token # NoToken => kind = "oauth" /\ asOf >= 1 /\ calendar.token.at = asOf

\* The row an ingestion works with is still the row: a delta continues from the stored
\* events, in a window that reaches as far as the coverage; and its read is no older.
ReadStands(i) ==
  Underway(i) =>
    /\ ingest[i].token = calendar.token
    /\ ingest[i].pc = "read" => ingest[i].cover = calendar.cover
    /\ HasPlanned(i) => ingest[i].cover.day <= today
    /\ HasPlanned(i) /\ ~ingest[i].full =>
         /\ kind = "oauth" /\ ingest[i].token # NoToken
         /\ ingest[i].cover.range = calendar.cover.range
         /\ calendar.cover.day <= ingest[i].cover.day
    /\ HasRead(i) =>
         /\ ingest[i].answer # "none"
         /\ ingest[i].answer = "delta" => ~ingest[i].full
         /\ ingest[i].answer # "gone" =>
              ingest[i].at \in asOf..Len(hist) /\ ingest[i].at >= 1

IngestInv == /\ SourceIngestTypeOK
             /\ CalendarIsKept
             /\ \A i \in Ingests : ReadStands(i)
             /\ StoredIsOneMoment

-----------------------------------------------------------------------------
(* Types.                                                                   *)

Tokens == [at : Nat, version : Nat]
Covers == [day : Nat, range : Nat, known : BOOLEAN]
Records == [pc : {"idle", "locked", "read", "planned", "fetched", "queued", "prepared"},
            moved : BOOLEAN, token : Tokens, full : BOOLEAN, cover : Covers,
            at : Nat, version : Nat, answer : {"none", "gone", "delta", "full"}]
Moments == [Events -> Contents \cup {Absent}]

ProviderTyped == /\ kind \in {"oauth", "caldav", "ics"}
                 /\ hist \in Seq(Moments) /\ hist # <<>>
                 /\ today \in Nat /\ range \in Ranges /\ period \in Nat
CalendarTyped == calendar \in [token : Tokens, cover : Covers] /\ asOf \in Nat
StoredTyped == stored \in [Events -> Contents \cup {Absent, Invalid}]
IngestsTyped == ingest \in [Ingests -> Records]
HolderTyped == holder \subseteq Ingests /\ \A i, j \in holder : i = j
ChangesTyped == changesLeft \in 0..MaxChanges

LEMMA TypeParts ==
  /\ SourceIngestTypeOK <=> /\ ProviderTyped /\ CalendarTyped /\ StoredTyped
                            /\ IngestsTyped /\ HolderTyped /\ ChangesTyped
  /\ SourceIngestTypeOK' <=> /\ ProviderTyped' /\ CalendarTyped' /\ StoredTyped'
                             /\ IngestsTyped' /\ HolderTyped' /\ ChangesTyped'
<1> USE DEF SourceIngestTypeOK, ProviderTyped, CalendarTyped, StoredTyped, IngestsTyped,
        HolderTyped, ChangesTyped, Tokens, Covers, Records, Moments
<1>1. SourceIngestTypeOK <=> /\ ProviderTyped /\ CalendarTyped /\ StoredTyped
                             /\ IngestsTyped /\ HolderTyped /\ ChangesTyped
  BY Zenon
<1>2. SourceIngestTypeOK' <=> /\ ProviderTyped' /\ CalendarTyped' /\ StoredTyped'
                              /\ IngestsTyped' /\ HolderTyped' /\ ChangesTyped'
  BY Zenon
<1> QED
  BY <1>1, <1>2

LEMMA IdleIsARecord == IdleIngest \in Records /\ IdleIngest.pc = "idle"
BY DEF IdleIngest, Records, NoToken, NoCoverage, Tokens, Covers

\* The provider's history, by its moments.
LEMMA HistoryTyped ==
  ASSUME ProviderTyped
  PROVE  /\ Len(hist) \in Nat /\ Len(hist) >= 1
         /\ \A n \in 1..Len(hist) : hist[n] \in Moments
<1>1. Len(hist) \in Nat /\ \A n \in 1..Len(hist) : hist[n] \in Moments
  BY LenProperties, ElementOfSeq DEF ProviderTyped
<1>2. Len(hist) # 0
  BY EmptySeq DEF ProviderTyped
<1> QED
  BY <1>1, <1>2

\* One ingestion moves and the others do not.
LEMMA OneIngestion ==
  ASSUME IngestsTyped, NEW i \in Ingests, NEW r \in Records,
         ingest' = [ingest EXCEPT ![i] = r]
  PROVE  /\ IngestsTyped'
         /\ ingest'[i] = r
         /\ \A j \in Ingests \ {i} : ingest'[j] = ingest[j]
BY DEF IngestsTyped

-----------------------------------------------------------------------------
(* What a step does to the ingestions.                                      *)

LEMMA ReadMoves ==
  ASSUME IngestsTyped, CalendarTyped, NEW i \in Ingests, ReadSource(i)
  PROVE  /\ IngestsTyped'
         /\ ingest'[i].pc = "read" /\ ingest'[i].moved = FALSE
         /\ ingest'[i].token = calendar.token /\ ingest'[i].cover = calendar.cover
         /\ \A j \in Ingests \ {i} : ingest'[j] = ingest[j]
<1> DEFINE r == [ingest[i] EXCEPT !.pc = "read", !.moved = FALSE, !.token = calendar.token,
                                  !.cover = calendar.cover]
<1>1. ingest[i] \in Records /\ calendar.token \in Tokens /\ calendar.cover \in Covers
  BY DEF IngestsTyped, CalendarTyped
<1>2. /\ r \in Records /\ r.pc = "read" /\ r.moved = FALSE
      /\ r.token = calendar.token /\ r.cover = calendar.cover
  BY <1>1 DEF Records
<1>3. ingest' = [ingest EXCEPT ![i] = r]
  BY DEF ReadSource
<1> HIDE DEF r
<1> QED
  BY <1>2, <1>3, OneIngestion

LEMMA PlanMoves ==
  ASSUME IngestsTyped, ProviderTyped, NEW i \in Ingests, PlanIngest(i)
  PROVE  /\ IngestsTyped'
         /\ ingest'[i].pc = "planned" /\ ingest'[i].moved = ingest[i].moved
         /\ ingest'[i].token = ingest[i].token
         /\ ingest'[i].cover.day = today /\ ingest'[i].cover.range = range
         /\ ingest'[i].full \/ ~FullSyncDue(ingest[i].cover, ingest[i].token)
         /\ \A j \in Ingests \ {i} : ingest'[j] = ingest[j]
<1> DEFINE c == [day |-> today, range |-> range, known |-> TRUE]
           f == FullSyncDue(ingest[i].cover, ingest[i].token)
           r == [ingest[i] EXCEPT !.pc = "planned", !.full = f, !.cover = c]
<1>1. ingest[i] \in Records
  BY DEF IngestsTyped
<1>2. c \in Covers /\ c.day = today /\ c.range = range
  BY SourceIngestAssumption DEF ProviderTyped, Covers
<1>3. f \in BOOLEAN
  BY DEF FullSyncDue
<1>4. ingest' = [ingest EXCEPT ![i] = r]
  BY DEF PlanIngest
<1> HIDE DEF c, f
<1>5. /\ r \in Records /\ r.pc = "planned" /\ r.moved = ingest[i].moved
      /\ r.token = ingest[i].token /\ r.cover = c
  BY <1>1, <1>2, <1>3 DEF Records
<1>6. r.full = f
  BY <1>1 DEF Records
<1> HIDE DEF r
<1>7. /\ IngestsTyped' /\ ingest'[i] = r
      /\ \A j \in Ingests \ {i} : ingest'[j] = ingest[j]
  BY <1>4, <1>5, OneIngestion
<1>8. ingest'[i].full \/ ~f
  BY <1>3, <1>6, <1>7
<1> QED
  BY <1>2, <1>5, <1>7, <1>8 DEF f

LEMMA FetchMoves ==
  ASSUME IngestsTyped, ProviderTyped, NEW i \in Ingests, FetchEvents(i) \/ FetchAnswersGone(i)
  PROVE  /\ IngestsTyped'
         /\ ingest'[i].pc = "fetched" /\ ingest'[i].moved = ingest[i].moved
         /\ ingest'[i].token = ingest[i].token /\ ingest'[i].cover = ingest[i].cover
         /\ ingest'[i].full = ingest[i].full
         /\ \/ ingest'[i].answer = "gone"
            \/ ingest'[i].answer = "full" /\ ingest'[i].at = Len(hist)
            \/ ingest'[i].answer = "delta" /\ ingest'[i].at = Len(hist) /\ ~ingest[i].full
         /\ \A j \in Ingests \ {i} : ingest'[j] = ingest[j]
<1>1. ingest[i] \in Records /\ Len(hist) \in Nat /\ period \in Nat
  BY HistoryTyped DEF IngestsTyped, ProviderTyped
<1>2. CASE FetchEvents(i)
  <2> DEFINE a == IF ingest[i].full \/ ingest[i].token.version < period THEN "full" ELSE "delta"
             r == [ingest[i] EXCEPT !.pc = "fetched", !.at = Len(hist), !.version = period,
                                    !.answer = a]
  <2>1. ingest' = [ingest EXCEPT ![i] = r]
    BY <1>2 DEF FetchEvents
  <2>2. a = "full" \/ (a = "delta" /\ ~ingest[i].full)
    OBVIOUS
  <2> HIDE DEF a
  <2>3. /\ r \in Records /\ r.pc = "fetched" /\ r.moved = ingest[i].moved
        /\ r.token = ingest[i].token /\ r.cover = ingest[i].cover /\ r.full = ingest[i].full
        /\ r.answer = a /\ r.at = Len(hist)
    BY <1>1, <2>2 DEF Records
  <2> HIDE DEF r
  <2> QED
    BY <2>1, <2>2, <2>3, OneIngestion
<1>3. CASE FetchAnswersGone(i)
  <2> DEFINE r == [ingest[i] EXCEPT !.pc = "fetched", !.answer = "gone"]
  <2>1. ingest' = [ingest EXCEPT ![i] = r]
    BY <1>3 DEF FetchAnswersGone
  <2>2. /\ r \in Records /\ r.pc = "fetched" /\ r.moved = ingest[i].moved
        /\ r.token = ingest[i].token /\ r.cover = ingest[i].cover /\ r.full = ingest[i].full
        /\ r.answer = "gone"
    BY <1>1 DEF Records
  <2> HIDE DEF r
  <2> QED
    BY <2>1, <2>2, OneIngestion
<1> QED
  BY <1>2, <1>3

\* The lock, taken: the ingestion is not under way before it has read the row.
LEMMA LockMoves ==
  ASSUME IngestsTyped, NEW i \in Ingests, LockSource(i)
  PROVE  /\ IngestsTyped'
         /\ ingest'[i].pc = "locked"
         /\ \A j \in Ingests \ {i} : ingest'[j] = ingest[j]
<1> DEFINE r == [ingest[i] EXCEPT !.pc = "locked"]
<1>1. ingest[i] \in Records
  BY DEF IngestsTyped
<1>2. r \in Records /\ r.pc = "locked"
  BY <1>1 DEF Records
<1>3. ingest' = [ingest EXCEPT ![i] = r]
  BY DEF LockSource
<1> HIDE DEF r
<1> QED
  BY <1>2, <1>3, OneIngestion

LEMMA EndMoves ==
  ASSUME IngestsTyped, NEW i \in Ingests, EndIngest(i)
  PROVE  /\ IngestsTyped'
         /\ ingest'[i].pc = "idle"
         /\ \A j \in Ingests \ {i} : ingest'[j] = ingest[j]
BY IdleIsARecord, OneIngestion DEF EndIngest

\* A probe finds the lock held and lets the ingestion pass, or ends it.
LEMMA ProbeMoves ==
  ASSUME IngestsTyped, NEW i \in Ingests, ProbeCurrency(i)
  PROVE  /\ IngestsTyped'
         /\ \/ ingest'[i].pc = "idle"
            \/ /\ HasRead(i) /\ ingest'[i].pc \in {"queued", "prepared"}
               /\ ingest'[i].moved = ingest[i].moved /\ ingest'[i].token = ingest[i].token
               /\ ingest'[i].cover = ingest[i].cover /\ ingest'[i].full = ingest[i].full
               /\ ingest'[i].at = ingest[i].at /\ ingest'[i].answer = ingest[i].answer
         /\ \A j \in Ingests \ {i} : ingest'[j] = ingest[j]
<1>1. CASE i \in holder
  <2> DEFINE pc == IF ingest[i].pc = "fetched" THEN "queued" ELSE "prepared"
             r == [ingest[i] EXCEPT !.pc = pc]
  <2>1. ingest[i] \in Records /\ HasRead(i)
    BY DEF IngestsTyped, ProbeCurrency, HasRead
  <2>2. pc \in {"queued", "prepared"}
    OBVIOUS
  <2>3. ingest' = [ingest EXCEPT ![i] = r]
    BY <1>1 DEF ProbeCurrency
  <2> HIDE DEF pc
  <2>4. /\ r \in Records /\ r.pc = pc /\ r.moved = ingest[i].moved
        /\ r.token = ingest[i].token /\ r.cover = ingest[i].cover /\ r.full = ingest[i].full
        /\ r.at = ingest[i].at /\ r.answer = ingest[i].answer
    BY <2>1, <2>2 DEF Records
  <2> HIDE DEF r
  <2> QED
    BY <2>1, <2>2, <2>3, <2>4, OneIngestion
<1>2. CASE i \notin holder
  BY <1>2, EndMoves DEF ProbeCurrency
<1> QED
  BY <1>1, <1>2

\* A flush ends its ingestion and moves the row on under every other.
LEMMA FlushMoves ==
  ASSUME IngestsTyped, NEW i \in Ingests, FlushBy(i)
  PROVE  /\ IngestsTyped'
         /\ ingest'[i].pc = "idle"
         /\ \A j \in Ingests : ~Underway(j)'
<1>1. \A j \in Ingests : ingest[j] \in Records
  BY DEF IngestsTyped
<1>2. ingest'[i] = IdleIngest
  BY DEF FlushBy
<1>3. ASSUME NEW j \in Ingests \ {i}, ingest[j].pc = "idle"
      PROVE  ingest'[j] = ingest[j]
  BY <1>3 DEF FlushBy
<1>4. ASSUME NEW j \in Ingests \ {i}, ingest[j].pc # "idle"
      PROVE  ingest'[j] \in Records /\ ingest'[j].moved = TRUE
  <2>1. ingest'[j] = [ingest[j] EXCEPT !.moved = TRUE]
    BY <1>4 DEF FlushBy
  <2> QED
    BY <1>1, <2>1 DEF Records
<1>5. \A j \in Ingests : ingest'[j] \in Records
  BY <1>1, <1>2, <1>3, <1>4, IdleIsARecord
<1>6. ingest' = [j \in Ingests |-> ingest'[j]]
  BY DEF FlushBy
<1>7. IngestsTyped'
  BY <1>5, <1>6 DEF IngestsTyped
<1>8. \A j \in Ingests : ~Underway(j)'
  BY <1>2, <1>3, <1>4, IdleIsARecord DEF Underway, HasPlanned, HasRead
<1> QED
  BY <1>2, <1>7, <1>8, IdleIsARecord

\* An ingestion that is left alone stands while the row does.
LEMMA LeftAlone ==
  ASSUME SourceIngestTypeOK, NEW j \in Ingests, ReadStands(j), ingest'[j] = ingest[j],
         UNCHANGED <<kind, calendar, asOf>>,
         today' \in Nat, today <= today', Len(hist') \in Nat, Len(hist) <= Len(hist')
  PROVE  ReadStands(j)'
<1>1. /\ today \in Nat /\ Len(hist) \in Nat /\ asOf \in Nat
      /\ ingest[j] \in Records /\ ingest[j].cover \in Covers /\ ingest[j].at \in Nat
  BY TypeParts, HistoryTyped DEF ProviderTyped, CalendarTyped, IngestsTyped, Records
<1>2. ingest[j].cover.day \in Nat
  BY <1>1 DEF Covers
<1>3. ASSUME Underway(j)
      PROVE  /\ HasPlanned(j) => ingest[j].cover.day <= today'
             /\ HasRead(j) /\ ingest[j].answer # "gone" => ingest[j].at \in asOf..Len(hist')
  BY <1>1, <1>2, <1>3 DEF ReadStands
<1> QED
  BY <1>3 DEF ReadStands, Underway, HasPlanned, HasRead

\* The history only grows: what it held, it holds.
LEMMA HistoryGrows ==
  ASSUME ProviderTyped, NEW e \in Events, NEW c \in Contents \cup {Absent}, ProviderEdit(e, c)
  PROVE  /\ ProviderTyped'
         /\ Len(hist') = Len(hist) + 1
         /\ \A n \in 1..Len(hist) : hist'[n] = hist[n]
<1>1. /\ hist \in Seq(Moments) /\ Len(hist) \in 1..Len(hist) /\ Len(hist) \in Nat
      /\ Provider \in Moments
  BY HistoryTyped DEF ProviderTyped, Provider
<1>2. [Provider EXCEPT ![e] = c] \in Moments
  BY <1>1 DEF Moments
<1>3. hist' = Append(hist, [Provider EXCEPT ![e] = c])
  BY DEF ProviderEdit
<1>4. /\ hist' \in Seq(Moments) /\ Len(hist') = Len(hist) + 1
      /\ \A n \in 1..Len(hist) : hist'[n] = hist[n]
  BY <1>1, <1>2, <1>3, AppendProperties
<1>5. hist' # <<>>
  BY <1>1, <1>4, EmptySeq
<1>6. UNCHANGED <<kind, today, range, period>>
  BY DEF ProviderEdit
<1> QED
  BY <1>4, <1>5, <1>6 DEF ProviderTyped

\* A commit was read at a moment of the history, no earlier than what is stored.
LEMMA PersistReads ==
  ASSUME IngestInv, NEW i \in Ingests, Persist(i)
  PROVE  /\ ingest[i].pc = "prepared" /\ ingest[i].moved = FALSE /\ Underway(i)
         /\ ingest[i].answer \in {"full", "delta"}
         /\ ingest[i].at \in 1..Len(hist) /\ asOf <= ingest[i].at
         /\ hist[ingest[i].at] \in Moments
         /\ ingest[i] \in Records /\ UNCHANGED providerVars /\ asOf' = ingest[i].at
<1>1. /\ ingest[i].pc = "prepared" /\ ~ingest[i].moved /\ ~RereadDue(i)
      /\ UNCHANGED providerVars /\ asOf' = ingest[i].at
  BY DEF Persist
<1>2. ingest[i] \in Records /\ asOf \in Nat /\ ProviderTyped
  BY TypeParts DEF IngestInv, IngestsTyped, CalendarTyped
<1>3. Underway(i) /\ HasRead(i)
  BY <1>1 DEF Underway, HasPlanned, HasRead
<1>4. /\ ingest[i].answer # "none" /\ ingest[i].answer # "gone"
      /\ ingest[i].at \in asOf..Len(hist) /\ ingest[i].at >= 1
  BY <1>1, <1>3 DEF IngestInv, ReadStands, RereadDue
<1>5. ingest[i].at \in Nat /\ ingest[i].moved \in BOOLEAN
      /\ ingest[i].answer \in {"none", "gone", "delta", "full"}
  BY <1>2 DEF Records
<1>6. Len(hist) \in Nat /\ \A n \in 1..Len(hist) : hist[n] \in Moments
  BY <1>2, HistoryTyped
<1>7. ingest[i].at \in 1..Len(hist) /\ asOf <= ingest[i].at
  BY <1>2, <1>4, <1>5, <1>6
<1> QED
  BY <1>1, <1>2, <1>3, <1>4, <1>5, <1>6, <1>7

\* What the row holds after a commit.
LEMMA PersistTyped ==
  ASSUME IngestInv, NEW i \in Ingests, Persist(i)
  PROVE  CalendarTyped' /\ StoredTyped'
<1>1. /\ ingest[i] \in Records /\ ingest[i].at \in 1..Len(hist)
      /\ hist[ingest[i].at] \in Moments /\ asOf' = ingest[i].at
  BY PersistReads
<1>2. CalendarTyped /\ StoredTyped /\ Len(hist) \in Nat
  BY TypeParts, HistoryTyped DEF IngestInv
<1>3. /\ ingest[i].at \in Nat /\ ingest[i].version \in Nat /\ ingest[i].cover \in Covers
      /\ calendar.token \in Tokens /\ calendar.cover \in Covers
  BY <1>1, <1>2 DEF Records, CalendarTyped
<1>4. [at |-> ingest[i].at, version |-> ingest[i].version] \in Tokens
  BY <1>3 DEF Tokens
<1>5. NextToken(i) \in Tokens
  BY <1>3, <1>4 DEF NextToken
<1>6. calendar' = [token |-> NextToken(i),
                   cover |-> IF ingest[i].answer = "full"
                             THEN ingest[i].cover ELSE calendar.cover]
  BY DEF Persist
<1>7. CalendarTyped'
  BY <1>1, <1>3, <1>5, <1>6 DEF CalendarTyped
<1>8. stored' = [e \in Events |->
        IF e \in ToAdd(i) THEN hist[ingest[i].at][e]
        ELSE IF e \in ToRemove(i) THEN Absent ELSE stored[e]]
  BY DEF Persist
<1>9. \A e \in Events : stored'[e] \in Contents \cup {Absent, Invalid}
  BY <1>1, <1>2, <1>8 DEF StoredTyped, Moments
<1>10. StoredTyped'
  BY <1>8, <1>9 DEF StoredTyped
<1> QED
  BY <1>7, <1>10

LEMMA TypeStep ==
  ASSUME IngestInv, SourceIngestNext
  PROVE  SourceIngestTypeOK'
<1> USE TypeParts
<1>0. /\ ProviderTyped /\ CalendarTyped /\ StoredTyped /\ IngestsTyped /\ HolderTyped
      /\ ChangesTyped /\ MaxChanges \in Nat
  BY SourceIngestAssumption DEF IngestInv
<1>s. SpendChange => ChangesTyped'
  BY <1>0 DEF SpendChange, ChangesTyped
<1>1. ASSUME NEW e \in Events, NEW c \in Contents \cup {Absent}, ProviderEdit(e, c)
      PROVE  SourceIngestTypeOK'
  BY <1>0, <1>1, <1>s, HistoryGrows
  DEF ProviderEdit, calendarVars, CalendarTyped, StoredTyped, IngestsTyped, HolderTyped
<1>2. CASE DayPasses \/ RefreshPeriodPasses \/ \E r \in Ranges : RequireRange(r)
  <2>1. ProviderTyped'
    BY <1>0, <1>2 DEF DayPasses, RefreshPeriodPasses, RequireRange, ProviderTyped
  <2> QED
    BY <1>0, <1>2, <1>s, <2>1 DEF DayPasses, RefreshPeriodPasses, RequireRange, calendarVars,
       CalendarTyped, StoredTyped, IngestsTyped, HolderTyped
<1>3. ASSUME NEW e \in Events, RowTurnsInvalid(e)
      PROVE  SourceIngestTypeOK'
  BY <1>0, <1>3, <1>s DEF RowTurnsInvalid, providerVars, ProviderTyped,
     CalendarTyped, StoredTyped, IngestsTyped, HolderTyped
<1>4. CASE LockLapses
  BY <1>0, <1>4, <1>s DEF LockLapses, providerVars, calendarVars, ProviderTyped,
     CalendarTyped, StoredTyped, IngestsTyped, HolderTyped
<1>5. ASSUME NEW i \in Ingests,
             LockSource(i) \/ ReadSource(i) \/ PlanIngest(i) \/ FetchEvents(i)
             \/ FetchAnswersGone(i) \/ ProbeCurrency(i) \/ PersistMoved(i) \/ AbandonIngest(i)
      PROVE  SourceIngestTypeOK'
  <2>1. IngestsTyped'
    BY <1>0, <1>5, LockMoves, ReadMoves, PlanMoves, FetchMoves, ProbeMoves, EndMoves
    DEF PersistMoved, AbandonIngest
  <2>2. HolderTyped'
    BY <1>0, <1>5 DEF HolderTyped, LockSource, ReadSource, PlanIngest, FetchEvents,
       FetchAnswersGone, ProbeCurrency, PersistMoved, AbandonIngest, EndIngest
  <2>3. ChangesTyped'
    BY <1>0, <1>5, <1>s DEF ChangesTyped, LockSource, ReadSource, PlanIngest, FetchEvents,
       FetchAnswersGone, ProbeCurrency, PersistMoved, AbandonIngest
  <2>4. UNCHANGED <<providerVars, calendarVars>>
    BY <1>5 DEF LockSource, ReadSource, PlanIngest, FetchEvents,
       FetchAnswersGone, ProbeCurrency, PersistMoved, AbandonIngest
  <2> QED
    BY <1>0, <2>1, <2>2, <2>3, <2>4
    DEF providerVars, calendarVars, ProviderTyped, CalendarTyped, StoredTyped
<1>6. ASSUME NEW i \in Ingests, PersistReset(i)
      PROVE  SourceIngestTypeOK'
  <2>1. IngestsTyped'
    BY <1>0, <1>6, FlushMoves DEF PersistReset
  <2>2. NoToken \in Tokens
    BY DEF NoToken, Tokens
  <2>3. CalendarTyped'
    BY <1>0, <1>6, <2>2 DEF PersistReset, CalendarTyped
  <2>4. HolderTyped'
    BY <1>0, <1>6 DEF PersistReset, HolderTyped
  <2> QED
    BY <1>0, <1>6, <2>1, <2>3, <2>4
    DEF PersistReset, providerVars, ProviderTyped, StoredTyped, ChangesTyped
<1>7. ASSUME NEW i \in Ingests, Persist(i)
      PROVE  SourceIngestTypeOK'
  <2>1. IngestsTyped'
    BY <1>0, <1>7, FlushMoves DEF Persist
  <2>2. CalendarTyped' /\ StoredTyped'
    BY <1>7, PersistTyped
  <2>3. HolderTyped'
    BY <1>0, <1>7 DEF Persist, HolderTyped
  <2> QED
    BY <1>0, <1>7, <2>1, <2>2, <2>3 DEF Persist, providerVars, ProviderTyped, ChangesTyped
<1> QED
  BY <1>1, <1>2, <1>3, <1>4, <1>5, <1>6, <1>7 DEF SourceIngestNext, IngestStep

-----------------------------------------------------------------------------
(* The calendar's row and the reads.                                        *)

\* The steps around an ingestion that leave the row and the ingestions alone: time, and
\* the history, only go forward.
Around == \/ \E e \in Events, c \in Contents \cup {Absent} : ProviderEdit(e, c)
          \/ \E r \in Ranges : RequireRange(r)
          \/ \E e \in Events : RowTurnsInvalid(e)
          \/ DayPasses \/ RefreshPeriodPasses \/ LockLapses

LEMMA TimeGoesOn ==
  ASSUME IngestInv, Around
  PROVE  /\ UNCHANGED <<kind, calendar, asOf, ingest>>
         /\ today \in Nat /\ today' \in Nat /\ today <= today'
         /\ Len(hist) \in Nat /\ Len(hist') \in Nat /\ Len(hist) <= Len(hist')
         /\ \A n \in 1..Len(hist) : hist'[n] = hist[n]
<1>1. ProviderTyped /\ today \in Nat /\ Len(hist) \in Nat
  BY TypeParts, HistoryTyped DEF IngestInv, ProviderTyped
<1>2. ASSUME NEW e \in Events, NEW c \in Contents \cup {Absent}, ProviderEdit(e, c)
      PROVE  /\ UNCHANGED <<kind, calendar, asOf, ingest, today>>
             /\ Len(hist') = Len(hist) + 1 /\ \A n \in 1..Len(hist) : hist'[n] = hist[n]
  BY <1>1, <1>2, HistoryGrows DEF ProviderEdit, calendarVars
<1>3. CASE ~(\E e \in Events, c \in Contents \cup {Absent} : ProviderEdit(e, c))
  BY <1>1, <1>3 DEF Around, RequireRange, RowTurnsInvalid, DayPasses, RefreshPeriodPasses,
     LockLapses, providerVars, calendarVars
<1> QED
  BY <1>1, <1>2, <1>3

\* The steps of an ingestion before its commit touch nothing but it and the lock.
BeforeCommit(i) ==
  \/ LockSource(i) \/ ReadSource(i) \/ PlanIngest(i) \/ FetchEvents(i) \/ FetchAnswersGone(i)
  \/ ProbeCurrency(i) \/ PersistMoved(i) \/ AbandonIngest(i)

LEMMA RowIsLeft ==
  ASSUME NEW i \in Ingests, BeforeCommit(i)
  PROVE  UNCHANGED <<kind, hist, today, range, period, calendar, stored, asOf>>
BY DEF BeforeCommit, LockSource, ReadSource, PlanIngest, FetchEvents, FetchAnswersGone,
   ProbeCurrency, PersistMoved, AbandonIngest, providerVars, calendarVars

LEMMA StepKinds ==
  ASSUME SourceIngestNext
  PROVE  \/ Around
         \/ \E i \in Ingests : BeforeCommit(i) \/ PersistReset(i) \/ Persist(i)
BY DEF SourceIngestNext, IngestStep, Around, BeforeCommit

LEMMA CalendarStep ==
  ASSUME IngestInv, SourceIngestNext
  PROVE  CalendarIsKept'
<1>1. CalendarIsKept /\ CalendarTyped /\ ProviderTyped /\ today \in Nat
  BY TypeParts DEF IngestInv, ProviderTyped
<1>2. calendar.cover.day \in Nat /\ asOf \in Nat /\ Len(hist) \in Nat
  BY <1>1, HistoryTyped DEF CalendarTyped, Covers
<1>3. CASE Around
  BY <1>1, <1>2, <1>3, TimeGoesOn DEF CalendarIsKept
<1>4. ASSUME NEW i \in Ingests, BeforeCommit(i)
      PROVE  CalendarIsKept'
  BY <1>1, <1>4, RowIsLeft DEF CalendarIsKept
<1>5. ASSUME NEW i \in Ingests, PersistReset(i)
      PROVE  CalendarIsKept'
  <2>1. calendar'.token = NoToken /\ calendar'.cover = calendar.cover
    BY <1>1, <1>5 DEF PersistReset, CalendarTyped
  <2> QED
    BY <1>1, <1>5, <2>1 DEF PersistReset, providerVars, CalendarIsKept
<1>6. ASSUME NEW i \in Ingests, Persist(i)
      PROVE  CalendarIsKept'
  <2>1. /\ ingest[i].pc = "prepared" /\ Underway(i)
        /\ ingest[i].at \in 1..Len(hist) /\ asOf' = ingest[i].at /\ UNCHANGED providerVars
    BY <1>6, PersistReads
  <2>2. ingest[i].cover.day <= today
    BY <2>1 DEF IngestInv, ReadStands, HasPlanned, HasRead
  <2>3. /\ calendar'.token = NextToken(i)
        /\ calendar'.cover = ingest[i].cover \/ calendar'.cover = calendar.cover
    BY <1>6 DEF Persist
  <2>4. calendar'.token # NoToken => kind = "oauth" /\ calendar'.token.at = ingest[i].at
    BY <1>1, <2>3 DEF NextToken, CalendarIsKept
  <2>5. calendar'.cover.day <= today
    BY <1>1, <2>2, <2>3 DEF CalendarIsKept
  <2> QED
    BY <1>2, <2>1, <2>4, <2>5 DEF providerVars, CalendarIsKept
<1> QED
  BY <1>3, <1>4, <1>5, <1>6, StepKinds

LEMMA ReadsStep ==
  ASSUME IngestInv, SourceIngestNext, NEW j \in Ingests
  PROVE  ReadStands(j)'
<1>1. /\ SourceIngestTypeOK /\ CalendarIsKept /\ ReadStands(j) /\ ProviderTyped
      /\ CalendarTyped /\ IngestsTyped /\ today \in Nat
  BY TypeParts DEF IngestInv, ProviderTyped
<1>2. Len(hist) \in Nat /\ Len(hist) >= 1 /\ asOf \in Nat /\ asOf <= Len(hist)
  BY <1>1, HistoryTyped DEF CalendarTyped, CalendarIsKept
<1>3. CASE Around
  BY <1>1, <1>3, TimeGoesOn, LeftAlone
<1>4. ASSUME NEW i \in Ingests, BeforeCommit(i), ingest'[j] = ingest[j]
      PROVE  ReadStands(j)'
  BY <1>1, <1>2, <1>4, RowIsLeft, LeftAlone
<1>5. ASSUME ingest'[j].pc \in {"idle", "locked"}
      PROVE  ReadStands(j)'
  BY <1>5 DEF ReadStands, Underway, HasPlanned, HasRead
<1>6. ASSUME LockSource(j) \/ PersistMoved(j) \/ AbandonIngest(j)
      PROVE  ReadStands(j)'
  <2>1. ingest'[j].pc \in {"idle", "locked"}
    BY <1>1, <1>6, LockMoves, EndMoves DEF PersistMoved, AbandonIngest
  <2> QED
    BY <1>5, <2>1
<1>7. ASSUME ReadSource(j)
      PROVE  ReadStands(j)'
  BY <1>1, <1>7, ReadMoves, RowIsLeft
  DEF BeforeCommit, ReadStands, Underway, HasPlanned, HasRead
<1>8. ASSUME PlanIngest(j)
      PROVE  ReadStands(j)'
  <2>1. /\ ingest'[j].pc = "planned" /\ ingest'[j].moved = ingest[j].moved
        /\ ingest'[j].token = ingest[j].token
        /\ ingest'[j].cover.day = today /\ ingest'[j].cover.range = range
        /\ ingest'[j].full \/ ~FullSyncDue(ingest[j].cover, ingest[j].token)
    BY <1>1, <1>8, PlanMoves
  <2>2. UNCHANGED <<kind, hist, today, calendar, asOf>> /\ ingest[j].pc = "read"
    BY <1>8, RowIsLeft DEF BeforeCommit, PlanIngest
  <2>3. SUFFICES ASSUME Underway(j)'
                 PROVE  /\ ingest'[j].token = calendar.token
                        /\ ~ingest'[j].full =>
                             /\ kind = "oauth" /\ ingest'[j].token # NoToken
                             /\ ingest'[j].cover.range = calendar.cover.range
                             /\ calendar.cover.day <= ingest'[j].cover.day
    BY <1>1, <2>1, <2>2 DEF ReadStands, HasPlanned, HasRead
  <2>4. Underway(j)
    BY <2>1, <2>2, <2>3 DEF Underway
  <2>5. ingest[j].token = calendar.token /\ ingest[j].cover = calendar.cover
    BY <1>1, <2>2, <2>4 DEF ReadStands
  <2> QED
    BY <1>1, <2>1, <2>5 DEF FullSyncDue, CalendarIsKept
<1>9. ASSUME FetchEvents(j) \/ FetchAnswersGone(j)
      PROVE  ReadStands(j)'
  <2>1. /\ ingest'[j].pc = "fetched" /\ ingest'[j].moved = ingest[j].moved
        /\ ingest'[j].token = ingest[j].token /\ ingest'[j].cover = ingest[j].cover
        /\ ingest'[j].full = ingest[j].full
        /\ \/ ingest'[j].answer = "gone"
           \/ ingest'[j].answer = "full" /\ ingest'[j].at = Len(hist)
           \/ ingest'[j].answer = "delta" /\ ingest'[j].at = Len(hist) /\ ~ingest[j].full
    BY <1>1, <1>9, FetchMoves
  <2>2. UNCHANGED <<kind, hist, today, calendar, asOf>> /\ ingest[j].pc = "planned"
    BY <1>9, RowIsLeft DEF BeforeCommit, FetchEvents, FetchAnswersGone
  <2>3. Underway(j)' => Underway(j) /\ HasPlanned(j)
    BY <2>1, <2>2 DEF Underway, HasPlanned
  <2> QED
    BY <1>1, <1>2, <2>1, <2>2, <2>3 DEF ReadStands, HasPlanned, HasRead
<1>10. ASSUME ProbeCurrency(j)
       PROVE  ReadStands(j)'
  <2>1. \/ ingest'[j].pc = "idle"
        \/ /\ HasRead(j) /\ ingest'[j].pc \in {"queued", "prepared"}
           /\ ingest'[j].moved = ingest[j].moved /\ ingest'[j].token = ingest[j].token
           /\ ingest'[j].cover = ingest[j].cover /\ ingest'[j].full = ingest[j].full
           /\ ingest'[j].at = ingest[j].at /\ ingest'[j].answer = ingest[j].answer
    BY <1>1, <1>10, ProbeMoves
  <2>2. UNCHANGED <<kind, hist, today, calendar, asOf>>
    BY <1>10, RowIsLeft DEF BeforeCommit
  <2> QED
    BY <1>1, <1>5, <2>1, <2>2 DEF ReadStands, Underway, HasPlanned, HasRead
<1>11. ASSUME NEW i \in Ingests, BeforeCommit(i)
       PROVE  ReadStands(j)'
  <2>1. CASE i = j
    BY <1>6, <1>7, <1>8, <1>9, <1>10, <1>11, <2>1 DEF BeforeCommit
  <2>2. CASE i # j
    <3>1. ingest'[j] = ingest[j]
      <4>1. CASE LockSource(i) \/ ReadSource(i)
        BY <1>1, <2>2, <4>1, LockMoves, ReadMoves
      <4>2. CASE PlanIngest(i) \/ ProbeCurrency(i)
        BY <1>1, <2>2, <4>2, PlanMoves, ProbeMoves
      <4>3. CASE FetchEvents(i) \/ FetchAnswersGone(i)
        BY <1>1, <2>2, <4>3, FetchMoves
      <4>4. CASE PersistMoved(i) \/ AbandonIngest(i)
        BY <1>1, <2>2, <4>4, EndMoves DEF PersistMoved, AbandonIngest
      <4> QED
        BY <1>11, <4>1, <4>2, <4>3, <4>4 DEF BeforeCommit
    <3> QED
      BY <1>4, <1>11, <3>1
  <2> QED
    BY <2>1, <2>2
<1>12. ASSUME NEW i \in Ingests, PersistReset(i) \/ Persist(i)
       PROVE  ReadStands(j)'
  BY <1>1, <1>12, FlushMoves DEF PersistReset, Persist, ReadStands
<1> QED
  BY <1>3, <1>11, <1>12, StepKinds

-----------------------------------------------------------------------------
(* What is stored.                                                          *)

\* A stored row against what the provider had, in the days that have to answer.
RowStands(row, c, days) ==
  /\ row \in Contents => c # Absent /\ (row = c \/ Withheld(c))
  /\ (c # Absent /\ ~Withheld(c) /\ c.at \in days) => row \in {c, Invalid}

LEMMA OneMoment ==
  /\ StoredIsOneMoment <=>
       (asOf > 0 => \A e \in Events : RowStands(stored[e], hist[asOf][e], Answerable))
  /\ StoredIsOneMoment' <=>
       (asOf' > 0 => \A e \in Events : RowStands(stored'[e], hist'[asOf'][e], Answerable'))
BY DEF StoredIsOneMoment, RowStands, Withheld

\* The days that have to answer are never more than before while the row stays.
LEMMA FewerDays ==
  ASSUME CalendarTyped, CalendarIsKept, today \in Nat, today' \in Nat, today <= today',
         UNCHANGED calendar
  PROVE  Answerable' \subseteq Answerable
<1>1. calendar.cover.day \in Nat /\ calendar.cover.range \in Nat /\ calendar.cover.day <= today
  BY DEF CalendarTyped, Covers, CalendarIsKept
<1> QED
  BY <1>1 DEF Answerable, Window

LEMMA LeastOfNaturals ==
  ASSUME NEW T \in SUBSET Nat, T # {}
  PROVE  \E i \in T : \A j \in T : i <= j
<1>1. PICK i \in T : \A j \in T : <<j, i>> \notin OpToRel(<, Nat)
  BY NatLessThanWellFounded, WFMin, Zenon
<1>2. \A j \in T : ~(j < i)
  BY <1>1 DEF OpToRel
<1> QED
  BY <1>2

\* An event no moment of a stretch changes is at its end what it was at its start.
LEMMA UnchangedSince ==
  ASSUME NEW e, NEW m \in Nat, NEW n \in Nat, m <= n,
         \A k \in m + 1 .. n : hist[k][e] = hist[k - 1][e]
  PROVE  hist[n][e] = hist[m][e]
<1> DEFINE T == {k \in Nat : k \in m .. n /\ hist[k][e] # hist[m][e]}
<1>1. T = {}
  <2> SUFFICES ASSUME T # {} PROVE FALSE
    OBVIOUS
  <2>1. PICK k \in T : \A l \in T : k <= l
    BY LeastOfNaturals
  <2>2. k \in m + 1 .. n /\ k - 1 \in m .. n /\ k - 1 \in Nat
    BY <2>1
  <2>3. hist[k][e] = hist[k - 1][e] /\ k - 1 \notin T
    BY <2>1, <2>2
  <2> QED
    BY <2>1, <2>2, <2>3
<1> QED
  BY <1>1

\* A delta continues from the stored events, and its window holds every day that has to
\* answer; an event it does not report is as it was.
LEMMA DeltaContinues ==
  ASSUME IngestInv, NEW i \in Ingests, Persist(i), ingest[i].answer = "delta"
  PROVE  /\ asOf > 0
         /\ Answerable' = Answerable /\ Answerable \subseteq Window(ingest[i].cover)
         /\ \A e \in Events \ Changed(i) : hist[ingest[i].at][e] = hist[asOf][e]
         /\ \A e \in Events : stored[e] # Invalid
<1>1. /\ CalendarTyped /\ CalendarIsKept /\ today \in Nat /\ asOf \in Nat
  BY TypeParts DEF IngestInv, ProviderTyped, CalendarTyped
<1>2. /\ ingest[i].pc = "prepared" /\ Underway(i) /\ ingest[i] \in Records
      /\ ingest[i].at \in 1..Len(hist) /\ asOf <= ingest[i].at /\ UNCHANGED providerVars
  BY PersistReads
<1>3. /\ ingest[i].token = calendar.token /\ ingest[i].token # NoToken
      /\ ingest[i].cover.day <= today /\ ingest[i].cover.range = calendar.cover.range
      /\ calendar.cover.day <= ingest[i].cover.day
  BY <1>2 DEF IngestInv, ReadStands, HasPlanned, HasRead
<1>4. asOf >= 1 /\ ingest[i].token.at = asOf
  BY <1>1, <1>3 DEF CalendarIsKept
<1>5. calendar'.cover = calendar.cover /\ today' = today
  BY <1>2 DEF Persist, providerVars
<1>6. Answerable' = Answerable
  BY <1>5 DEF Answerable, Window
<1>7. /\ calendar.cover.day \in Nat /\ calendar.cover.range \in Nat
      /\ ingest[i].cover.day \in Nat /\ ingest[i].at \in Nat
  BY <1>1, <1>2 DEF CalendarTyped, Covers, Records
<1>8. Answerable \subseteq Window(ingest[i].cover)
  BY <1>1, <1>3, <1>7 DEF Answerable, Window
<1>9. ASSUME NEW e \in Events \ Changed(i)
      PROVE  hist[ingest[i].at][e] = hist[asOf][e]
  <2>1. \A n \in asOf + 1 .. ingest[i].at : hist[n][e] = hist[n - 1][e]
    BY <1>4, <1>9 DEF Changed
  <2> QED
    BY <1>1, <1>2, <1>7, <2>1, UnchangedSince
<1>10. \A e \in Events : stored[e] # Invalid
  BY DEF Persist, RereadDue
<1> QED
  BY <1>1, <1>4, <1>6, <1>8, <1>9, <1>10

\* A commit leaves every row standing against the moment it was read at.
LEMMA PersistStands ==
  ASSUME IngestInv, NEW i \in Ingests, Persist(i), NEW e \in Events
  PROVE  RowStands(stored'[e], hist[ingest[i].at][e], Answerable')
<1> DEFINE c == hist[ingest[i].at][e]
<1>1. /\ ingest[i].answer \in {"full", "delta"} /\ hist[ingest[i].at] \in Moments
      /\ StoredTyped /\ StoredIsOneMoment /\ Absent \notin Contents /\ Invalid \notin Contents
  BY PersistReads, TypeParts, SourceIngestAssumption DEF IngestInv
<1>2. c \in Contents \cup {Absent} /\ stored[e] \in Contents \cup {Absent, Invalid}
  BY <1>1 DEF Moments, StoredTyped
<1>3. stored'[e] = IF e \in ToAdd(i) THEN c
                   ELSE IF e \in ToRemove(i) THEN Absent ELSE stored[e]
  BY DEF Persist
<1>4. Answerable' \subseteq Window(ingest[i].cover)
  <2>1. CASE ingest[i].answer = "full"
    <3>1. calendar'.cover = ingest[i].cover
      BY <2>1 DEF Persist
    <3> QED
      BY <3>1 DEF Answerable, Window
  <2>2. CASE ingest[i].answer = "delta"
    BY <2>2, DeltaContinues
  <2> QED
    BY <1>1, <2>1, <2>2
<1>5. c \in Contents /\ c.at \in Answerable' => InWindow(i, c)
  BY <1>4 DEF InWindow
<1>6. CASE e \in Changed(i)
  <2>1. e \in Fetched(i) <=> c # Absent /\ InWindow(i, c)
    BY <1>6 DEF Fetched
  <2>2. e \in ToAdd(i) <=> e \in Fetched(i) /\ ~Withheld(c) /\ stored[e] # c
    BY DEF ToAdd
  <2>3. e \notin Fetched(i) /\ stored[e] # Absent => e \in ToRemove(i)
    BY <1>6 DEF ToRemove
  <2>4. e \in ToRemove(i) /\ e \in Fetched(i) =>
          stored[e] \in Contents /\ ~InWindow(i, stored[e])
    BY DEF ToRemove
  <2>5. stored'[e] \in Contents => c # Absent /\ (stored'[e] = c \/ Withheld(c))
    BY <1>1, <1>2, <1>3, <2>1, <2>2, <2>3
  <2>6. c # Absent /\ ~Withheld(c) /\ c.at \in Answerable' => stored'[e] = c
    BY <1>2, <1>3, <1>5, <2>1, <2>2, <2>4
  <2> QED
    BY <2>5, <2>6 DEF RowStands
<1>7. CASE e \notin Changed(i)
  <2>1. ingest[i].answer = "delta"
    BY <1>1, <1>7 DEF Changed
  <2>2. /\ asOf > 0 /\ Answerable' = Answerable /\ c = hist[asOf][e]
        /\ stored[e] # Invalid
    BY <1>7, <2>1, DeltaContinues
  <2>3. RowStands(stored[e], c, Answerable')
    BY <1>1, <2>2, OneMoment
  <2>4. e \notin ToAdd(i)
    BY <1>7 DEF ToAdd, Fetched
  <2>5. e \in ToRemove(i) => ~InWindow(i, stored[e])
    BY <1>7 DEF ToRemove
  <2> QED
    BY <1>1, <1>2, <1>3, <1>5, <2>2, <2>3, <2>4, <2>5 DEF RowStands
<1> QED
  BY <1>6, <1>7

LEMMA StoredStep ==
  ASSUME IngestInv, SourceIngestNext
  PROVE  StoredIsOneMoment'
<1>1. /\ SourceIngestTypeOK /\ CalendarIsKept /\ StoredIsOneMoment /\ ProviderTyped
      /\ CalendarTyped /\ StoredTyped /\ today \in Nat
  BY TypeParts DEF IngestInv, ProviderTyped
<1>2. asOf \in Nat /\ Len(hist) \in Nat /\ asOf <= Len(hist)
  BY <1>1, HistoryTyped DEF CalendarTyped, CalendarIsKept
<1>3. ASSUME UNCHANGED <<calendar, asOf>>, today' \in Nat, today <= today',
             \A n \in 1..Len(hist) : hist'[n] = hist[n],
             \A e \in Events : stored'[e] = stored[e] \/ stored'[e] = Invalid
      PROVE  StoredIsOneMoment'
  <2>1. Answerable' \subseteq Answerable
    BY <1>1, <1>3, FewerDays
  <2>2. SUFFICES ASSUME asOf > 0, NEW e \in Events
                 PROVE  RowStands(stored'[e], hist'[asOf][e], Answerable')
    BY <1>3, OneMoment
  <2>3. RowStands(stored[e], hist[asOf][e], Answerable) /\ hist'[asOf] = hist[asOf]
    BY <1>1, <1>2, <1>3, <2>2, OneMoment
  <2> QED
    BY <1>3, <2>1, <2>3, SourceIngestAssumption DEF RowStands
<1>4. CASE Around
  <2>1. \A e \in Events : stored'[e] = stored[e] \/ stored'[e] = Invalid
    BY <1>1, <1>4 DEF Around, ProviderEdit, RequireRange, RowTurnsInvalid, DayPasses,
       RefreshPeriodPasses, LockLapses, calendarVars, StoredTyped
  <2> QED
    BY <1>3, <1>4, <2>1, TimeGoesOn
<1>5. ASSUME NEW i \in Ingests, BeforeCommit(i)
      PROVE  StoredIsOneMoment'
  BY <1>1, <1>3, <1>5, RowIsLeft
<1>6. ASSUME NEW i \in Ingests, PersistReset(i)
      PROVE  StoredIsOneMoment'
  <2>1. /\ UNCHANGED <<hist, today, stored, asOf>> /\ calendar'.cover = calendar.cover
    BY <1>1, <1>6 DEF PersistReset, providerVars, CalendarTyped
  <2>2. Answerable' = Answerable
    BY <2>1 DEF Answerable, Window
  <2> QED
    BY <1>1, <2>1, <2>2, OneMoment
<1>7. ASSUME NEW i \in Ingests, Persist(i)
      PROVE  StoredIsOneMoment'
  <2>1. asOf' = ingest[i].at /\ hist' = hist
    BY <1>7, PersistReads DEF providerVars
  <2> QED
    BY <1>7, <2>1, PersistStands, OneMoment
<1> QED
  BY <1>4, <1>5, <1>6, <1>7, StepKinds

-----------------------------------------------------------------------------
(* The theorems.                                                            *)

LEMMA IngestInvInit ==
  ASSUME SourceIngestInit
  PROVE  IngestInv
<1> USE SourceIngestAssumption DEF SourceIngestInit
<1>1. SourceIngestTypeOK
  <2>1. [e \in Events |-> Absent] \in Moments
    BY DEF Moments
  <2>2. hist \in Seq(Moments) /\ hist # <<>>
    BY <2>1
  <2>3. IdleIngest \in Records /\ NoToken \in Tokens /\ NoCoverage \in Covers
    BY IdleIsARecord DEF NoToken, NoCoverage, Tokens, Covers
  <2> QED
    BY <2>2, <2>3, TypeParts DEF ProviderTyped, CalendarTyped, StoredTyped, IngestsTyped,
       HolderTyped, ChangesTyped
<1>2. Len(hist) = 1
  OBVIOUS
<1>3. CalendarIsKept
  BY <1>2 DEF CalendarIsKept, NoCoverage
<1>4. \A i \in Ingests : ReadStands(i)
  BY DEF ReadStands, Underway, HasPlanned, HasRead, IdleIngest
<1>5. StoredIsOneMoment
  BY DEF StoredIsOneMoment
<1> QED
  BY <1>1, <1>3, <1>4, <1>5 DEF IngestInv

LEMMA IngestInvStep ==
  ASSUME IngestInv, [SourceIngestNext]_ingestVars
  PROVE  IngestInv'
<1>1. CASE SourceIngestNext
  BY <1>1, TypeStep, CalendarStep, ReadsStep, StoredStep DEF IngestInv
<1>2. CASE UNCHANGED ingestVars
  <2> USE <1>2 DEF ingestVars, providerVars, calendarVars
  <2>1. SourceIngestTypeOK' /\ CalendarIsKept' /\ StoredIsOneMoment'
    BY DEF IngestInv, SourceIngestTypeOK, CalendarIsKept, StoredIsOneMoment, Answerable, Window
  <2>2. \A i \in Ingests : ReadStands(i)'
    BY DEF IngestInv, ReadStands, Underway, HasPlanned, HasRead
  <2> QED
    BY <2>1, <2>2 DEF IngestInv
<1> QED
  BY <1>1, <1>2

(* The inductive invariant: an ingestion whose row has not moved still works with the      *)
(* row's token and coverage, so what it commits continues from what is stored.             *)
THEOREM IngestInvariance == SourceIngestSpec => []IngestInv
<1>1. SourceIngestInit => IngestInv
  BY IngestInvInit
<1>2. IngestInv /\ [SourceIngestNext]_ingestVars => IngestInv'
  BY IngestInvStep
<1> QED
  BY <1>1, <1>2, PTL DEF SourceIngestSpec

(* Every ingestion, token, coverage and stored row is what its column or field can hold,  *)
(* and the Redis lock of ingest-sources.ts never has two holders.                         *)
THEOREM IngestTyped == SourceIngestSpec => []SourceIngestTypeOK
<1>1. IngestInv => SourceIngestTypeOK
  BY DEF IngestInv
<1> QED
  BY <1>1, IngestInvariance, PTL

(* event_states is the provider as of one moment, and the stored sync token continues from *)
(* that moment, whatever deltas, full reads, moved windows, lapsed locks and overtaken      *)
(* ingestions led there.                                                                    *)
THEOREM StoredAlwaysSound == SourceIngestSpec => []StoredIsSound
<1>1. IngestInv => StoredIsSound
  BY DEF IngestInv, StoredIsSound, CalendarIsKept, TokenContinuesStored
<1> QED
  BY <1>1, IngestInvariance, PTL

\* A row that a commit takes away is gone, outside the window that was read, or its
\* event has moved out of it.
LEMMA RemovedIsGone ==
  ASSUME IngestInv, NEW i \in Ingests, Persist(i)
  PROVE  RemovesOnlyWhatIsGone
<1>1. /\ ingest[i].pc = "prepared" /\ asOf' = ingest[i].at /\ hist' = hist
      /\ hist[ingest[i].at] \in Moments /\ Absent \notin Contents
  BY PersistReads, SourceIngestAssumption DEF providerVars
<1>2. ingest'[i].pc = "idle"
  BY IdleIsARecord DEF Persist, FlushBy
<1>3. SUFFICES ASSUME NEW e \in Events, stored[e] # Absent, stored'[e] = Absent
               PROVE  LET c == hist[ingest[i].at][e]
                      IN  \/ c = Absent
                          \/ c.at \notin Window(ingest[i].cover)
                          \/ stored[e] \in Contents /\ stored[e].at \notin Window(ingest[i].cover)
  BY <1>1, <1>2 DEF RemovesOnlyWhatIsGone
<1>4. e \in ToRemove(i) \/ (e \in ToAdd(i) /\ hist[ingest[i].at][e] = Absent)
  BY <1>3 DEF Persist
<1> QED
  BY <1>4 DEF ToRemove, ToAdd, Fetched, InWindow

LEMMA ForwardStep ==
  ASSUME IngestInv, [SourceIngestNext]_ingestVars
  PROVE  [NeverRewinds /\ RemovesOnlyWhatIsGone]_ingestVars
<1>1. SUFFICES ASSUME SourceIngestNext
               PROVE  NeverRewinds /\ RemovesOnlyWhatIsGone
  OBVIOUS
<1>2. asOf \in Nat /\ StoredTyped /\ Absent # Invalid
  BY TypeParts, SourceIngestAssumption DEF IngestInv, CalendarTyped
<1>3. CASE Around
  <2>1. \A e \in Events : stored'[e] = stored[e] \/ stored'[e] = Invalid
    BY <1>2, <1>3 DEF Around, ProviderEdit, RequireRange, RowTurnsInvalid, DayPasses,
       RefreshPeriodPasses, LockLapses, calendarVars, StoredTyped
  <2> QED
    BY <1>2, <1>3, <2>1, TimeGoesOn DEF NeverRewinds, RemovesOnlyWhatIsGone
<1>4. ASSUME NEW i \in Ingests, BeforeCommit(i) \/ PersistReset(i)
      PROVE  NeverRewinds /\ RemovesOnlyWhatIsGone
  <2>1. UNCHANGED <<stored, asOf>>
    BY <1>4, RowIsLeft DEF PersistReset
  <2> QED
    BY <1>2, <2>1 DEF NeverRewinds, RemovesOnlyWhatIsGone
<1>5. ASSUME NEW i \in Ingests, Persist(i)
      PROVE  NeverRewinds /\ RemovesOnlyWhatIsGone
  <2>1. asOf' >= asOf
    BY <1>2, <1>5, PersistReads
  <2> QED
    BY <1>5, <2>1, RemovedIsGone DEF NeverRewinds
<1> QED
  BY <1>1, <1>3, <1>4, <1>5, StepKinds

(* A commit never puts an older read over a newer one, and takes away only what the        *)
(* provider no longer has in the window that was read, or what lies outside that window.    *)
THEOREM CommitsGoForward == SourceIngestSpec => PersistsForward
<1>1. IngestInv /\ [SourceIngestNext]_ingestVars
        => [NeverRewinds /\ RemovesOnlyWhatIsGone]_ingestVars
  BY ForwardStep
<1> QED
  BY <1>1, IngestInvariance, PTL DEF SourceIngestSpec, PersistsForward

=============================================================================
