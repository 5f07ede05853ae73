---------------------------- MODULE SourceIngest ----------------------------
(* Reading one source calendar into event_states.                            *)
(*   services/cron/src/ingest/ingest-sources.ts   the lock, the row, the     *)
(*                                                persistence transaction    *)
(*   packages/calendar/src/core/sync-engine/ingest.ts     the diff           *)
(*   packages/calendar/src/core/source/event-diff.ts                         *)
(*   providers/{google,outlook,caldav}/source, ics        the fetchers       *)
(* An ingestion reads the calendar's row, asks the provider for what changed *)
(* since the row's sync token (or for the whole window), and writes the      *)
(* difference with the new token.  The Redis lock that keeps two ingestions  *)
(* apart can lapse at any moment, so the transaction compares ingestSeq with *)
(* what the row held when it was read.  Every flush adds one to ingestSeq and *)
(* it is only compared for equality, so an ingestion carries whether the row  *)
(* has moved since it was read rather than the number.                       *)
EXTENDS Naturals, Sequences, FiniteSets

CONSTANTS Events,         \* identities of provider events
          Contents,       \* what an event can be: [at : Nat, body : ...]
          OverBudget,     \* bodies of series over the recurrence budget
          Ranges,         \* how many days ahead a mapping can ask for
          Ingests,        \* ingestions that may overlap
          Absent, Invalid,   \* no event; a stored row that does not parse
          MaxChanges      \* bound: edits, days, refreshes and faults together

ASSUME SourceIngestAssumption ==
  /\ Contents \subseteq [at : Nat, body : {c.body : c \in Contents}]
  /\ Ranges \subseteq Nat /\ Ranges # {}
  /\ Absent \notin Contents /\ Invalid \notin Contents /\ Absent # Invalid
  /\ MaxChanges \in Nat

VARIABLES kind,           \* "oauth", "caldav" or "ics"
          hist,           \* hist[n]: the provider's events after n - 1 edits
          today,          \* the day the sync window is anchored to
          range,          \* the range the mappings require
          period,         \* the refresh period the token version is made of
          calendar,       \* the calendar's row
          stored,         \* stored[e]: the row of event_states
          ingest,         \* ingest[i]: an ingestion
          holder,         \* who holds the Redis lock: a set of at most one
          asOf,           \* history: the provider state stored was read from
          changesLeft     \* bound: what is left of MaxChanges

calendarVars == <<calendar, stored, asOf>>
providerVars == <<kind, hist, today, range, period>>
ingestVars == <<providerVars, calendarVars, ingest, holder, changesLeft>>

NoToken == [at |-> 0, version |-> 0]
NoCoverage == [day |-> 0, range |-> 0, known |-> FALSE]
IdleIngest == [pc |-> "idle", moved |-> FALSE, token |-> NoToken, full |-> FALSE,
               cover |-> NoCoverage, at |-> 0, version |-> 0, answer |-> "none"]

Provider == hist[Len(hist)]
Window(cover) == cover.day .. (cover.day + cover.range)

SourceIngestTypeOK ==
  /\ kind \in {"oauth", "caldav", "ics"}
  /\ hist \in Seq([Events -> Contents \cup {Absent}]) /\ hist # <<>>
  /\ today \in Nat /\ range \in Ranges /\ period \in Nat
  /\ calendar \in [token : [at : Nat, version : Nat],
                   cover : [day : Nat, range : Nat, known : BOOLEAN]]
  /\ stored \in [Events -> Contents \cup {Absent, Invalid}]
  /\ ingest \in [Ingests ->
       [pc : {"idle", "locked", "read", "planned", "fetched", "queued", "prepared"},
        moved : BOOLEAN, token : [at : Nat, version : Nat], full : BOOLEAN,
        cover : [day : Nat, range : Nat, known : BOOLEAN],
        at : Nat, version : Nat, answer : {"none", "gone", "delta", "full"}]]
  /\ holder \subseteq Ingests /\ \A i, j \in holder : i = j
  /\ asOf \in Nat
  /\ changesLeft \in 0..MaxChanges

SourceIngestInit ==
  /\ kind \in {"oauth", "caldav", "ics"}
  /\ hist = <<[e \in Events |-> Absent]>>
  /\ today = 0 /\ range \in Ranges /\ period = 1
  /\ calendar = [token |-> NoToken, cover |-> NoCoverage]
  /\ stored = [e \in Events |-> Absent]
  /\ ingest = [i \in Ingests |-> IdleIngest]
  /\ holder = {}
  /\ asOf = 0
  /\ changesLeft = MaxChanges

----------------------------------------------------------------------------
(* What happens around an ingestion.                                         *)

SpendChange == changesLeft > 0 /\ changesLeft' = changesLeft - 1

ProviderEdit(e, c) ==
  /\ c # Provider[e]
  /\ SpendChange
  /\ hist' = Append(hist, [Provider EXCEPT ![e] = c])
  /\ UNCHANGED <<kind, today, range, period, calendarVars, ingest, holder>>

DayPasses == /\ SpendChange
             /\ today' = today + 1
             /\ UNCHANGED <<kind, hist, range, period, calendarVars, ingest, holder>>

(* The version every token must have moves on once a week.                   *)
RefreshPeriodPasses ==
  /\ SpendChange
  /\ period' = period + 1
  /\ UNCHANGED <<kind, hist, today, range, calendarVars, ingest, holder>>

(* A destination's range is edited: getRequiredSourceRanges answers anew.    *)
RequireRange(r) ==
  /\ r # range
  /\ SpendChange
  /\ range' = r
  /\ UNCHANGED <<kind, hist, today, period, calendarVars, ingest, holder>>

(* A stored row stops parsing, as after a change of the stored format.       *)
RowTurnsInvalid(e) ==
  /\ stored[e] \in Contents
  /\ SpendChange
  /\ stored' = [stored EXCEPT ![e] = Invalid]
  /\ UNCHANGED <<providerVars, calendar, asOf, ingest, holder>>

LockLapses == /\ holder # {}
              /\ SpendChange
              /\ holder' = {}
              /\ UNCHANGED <<providerVars, calendarVars, ingest>>

----------------------------------------------------------------------------
(* One ingestion.                                                            *)

EndIngest(i) == /\ ingest' = [ingest EXCEPT ![i] = IdleIngest]
                /\ holder' = holder \ {i}

\* Mutant: the lock is set without NX.
LockAnyway(i) ==
  /\ ingest[i].pc = "idle"
  /\ holder' = holder \cup {i}
  /\ ingest' = [ingest EXCEPT ![i].pc = "locked"]
  /\ UNCHANGED <<providerVars, calendarVars, changesLeft>>

(* runSourceIngest: a lock that is held is a skip, so no step.               *)
LockSource(i) ==
  /\ ingest[i].pc = "idle"
  /\ holder = {}
  /\ holder' = {i}
  /\ ingest' = [ingest EXCEPT ![i].pc = "locked"]
  /\ UNCHANGED <<providerVars, calendarVars, changesLeft>>

ReadSource(i) ==
  /\ ingest[i].pc = "locked"
  /\ ingest' = [ingest EXCEPT ![i] =
       [@ EXCEPT !.pc = "read", !.moved = FALSE, !.token = calendar.token,
                 !.cover = calendar.cover]]
  /\ UNCHANGED <<providerVars, calendarVars, holder, changesLeft>>

\* Mutant: a token outlives the range it was issued under.
FullSyncDueOnce(cover, token) == kind # "oauth" \/ ~cover.known \/ token = NoToken

(* resolveOAuthIngestionState: a token serves only the coverage and the       *)
(* ranges it was issued under; every other source reads it all.               *)
FullSyncDue(cover, token) ==
  \/ kind # "oauth"
  \/ ~cover.known
  \/ cover.range # range
  \/ token = NoToken

PlanIngest(i) ==
  /\ ingest[i].pc = "read"
  /\ ingest' = [ingest EXCEPT ![i] =
       [@ EXCEPT !.pc = "planned",
                 !.full = FullSyncDue(ingest[i].cover, ingest[i].token),
                 !.cover = [day |-> today, range |-> range, known |-> TRUE]]]
  /\ UNCHANGED <<providerVars, calendarVars, holder, changesLeft>>

(* resolveSyncTokenForWindow and fetchCalendarEvents.                         *)
FetchEvents(i) ==
  /\ ingest[i].pc = "planned"
  /\ ingest' = [ingest EXCEPT ![i] =
       [@ EXCEPT !.pc = "fetched", !.at = Len(hist), !.version = period,
                 !.answer = IF ingest[i].full \/ ingest[i].token.version < period
                            THEN "full" ELSE "delta"]]
  /\ UNCHANGED <<providerVars, calendarVars, holder, changesLeft>>

(* The provider no longer knows the token, or answers without a next one.     *)
FetchAnswersGone(i) ==
  /\ ingest[i].pc = "planned"
  /\ kind = "oauth"
  /\ SpendChange
  /\ ingest' = [ingest EXCEPT ![i] = [@ EXCEPT !.pc = "fetched", !.answer = "gone"]]
  /\ UNCHANGED <<providerVars, calendarVars, holder>>

(* probeCurrency, before the flush is queued and again before it runs.        *)
ProbeCurrency(i) ==
  /\ ingest[i].pc \in {"fetched", "queued"}
  /\ IF i \in holder
     THEN /\ ingest' = [ingest EXCEPT ![i].pc =
                          IF @ = "fetched" THEN "queued" ELSE "prepared"]
          /\ UNCHANGED holder
     ELSE EndIngest(i)
  /\ UNCHANGED <<providerVars, calendarVars, changesLeft>>

(* A deadline, an error, a crash, or a feed with an empty body, which counts  *)
(* as unchanged: nothing is written.                                          *)
AbandonIngest(i) ==
  /\ ingest[i].pc # "idle"
  /\ SpendChange
  /\ EndIngest(i)
  /\ UNCHANGED <<providerVars, calendarVars>>

----------------------------------------------------------------------------
(* The persistence transaction.                                              *)

Withheld(c) == c.body \in OverBudget

(* filterSourceEventsToSyncWindow; a feed is retained whole.                  *)
InWindow(i, c) == kind = "ics" \/ c.at \in Window(ingest[i].cover)

(* What the provider reported as changed: everything, or all since the token. *)
Changed(i) ==
  IF ingest[i].answer = "full" THEN Events
  ELSE {e \in Events : \E n \in ingest[i].token.at + 1 .. ingest[i].at :
                         hist[n][e] # hist[n - 1][e]}

Fetched(i) == {e \in Changed(i) : /\ hist[ingest[i].at][e] # Absent
                                  /\ InWindow(i, hist[ingest[i].at][e])}

(* buildSourceEventsToAdd, on the events that are not withheld.               *)
ToAdd(i) == {e \in Fetched(i) : /\ ~Withheld(hist[ingest[i].at][e])
                                /\ stored[e] # hist[ingest[i].at][e]}

(* buildSourceEventStateIdsToRemove, on all that was fetched, and the rows a  *)
(* delta leaves behind the window.                                            *)
ToRemove(i) ==
  {e \in Events : stored[e] # Absent /\
     \/ e \in Changed(i) \ Fetched(i)
     \/ /\ ingest[i].answer = "delta"
        /\ stored[e] \in Contents
        /\ ~Withheld(stored[e])
        /\ ~InWindow(i, stored[e])}

\* Mutant: a flush does not move ingestSeq on.
FlushUnnumbered(i) == ingest' = [ingest EXCEPT ![i] = IdleIngest]

(* The flush adds one to ingestSeq: every other baseline has moved.           *)
FlushBy(i) ==
  ingest' = [j \in Ingests |-> IF j = i THEN IdleIngest
                               ELSE IF ingest[j].pc = "idle" THEN ingest[j]
                               ELSE [ingest[j] EXCEPT !.moved = TRUE]]

(* The whole transaction, under the advisory lock of the calendar.            *)
PersistMoved(i) ==                            \* IngestBaselineMovedError
  /\ ingest[i].pc = "prepared"
  /\ ingest[i].moved
  /\ EndIngest(i)
  /\ UNCHANGED <<providerVars, calendarVars, changesLeft>>

(* The token is unknown, or a delta meets a row that does not parse.          *)
RereadDue(i) == \/ ingest[i].answer = "gone"
                \/ /\ ingest[i].answer = "delta"
                   /\ \E e \in Events : stored[e] = Invalid

\* Mutant: a token the provider does not know is kept.
ResetKeepsToken(i) ==
  /\ ingest[i].pc = "prepared"
  /\ ~ingest[i].moved
  /\ RereadDue(i)
  /\ FlushBy(i)
  /\ holder' = holder \ {i}
  /\ UNCHANGED <<providerVars, calendar, stored, asOf, changesLeft>>

PersistReset(i) ==
  /\ ingest[i].pc = "prepared"
  /\ ~ingest[i].moved
  /\ RereadDue(i)
  /\ calendar' = [calendar EXCEPT !.token = NoToken]
  /\ FlushBy(i)
  /\ holder' = holder \ {i}
  /\ UNCHANGED <<providerVars, stored, asOf, changesLeft>>

NextToken(i) == IF kind = "oauth"
                THEN [at |-> ingest[i].at, version |-> ingest[i].version]
                ELSE calendar.token

Persist(i) ==
  /\ ingest[i].pc = "prepared"
  /\ ~ingest[i].moved
  /\ ~RereadDue(i)
  /\ stored' = [e \in Events |->
       IF e \in ToAdd(i) THEN hist[ingest[i].at][e]
       ELSE IF e \in ToRemove(i) THEN Absent ELSE stored[e]]
  /\ calendar' = [token |-> NextToken(i),
                  cover |-> IF ingest[i].answer = "full"
                            THEN ingest[i].cover ELSE calendar.cover]
  /\ asOf' = ingest[i].at
  /\ FlushBy(i)
  /\ holder' = holder \ {i}
  /\ UNCHANGED <<providerVars, changesLeft>>

----------------------------------------------------------------------------
IngestStep(i) == \/ LockSource(i) \/ ReadSource(i) \/ PlanIngest(i)
                 \/ FetchEvents(i) \/ ProbeCurrency(i)
                 \/ PersistMoved(i) \/ PersistReset(i) \/ Persist(i)

SourceIngestNext ==
  \/ \E e \in Events, c \in Contents \cup {Absent} : ProviderEdit(e, c)
  \/ \E r \in Ranges : RequireRange(r)
  \/ \E e \in Events : RowTurnsInvalid(e)
  \/ DayPasses \/ RefreshPeriodPasses \/ LockLapses
  \/ \E i \in Ingests : IngestStep(i) \/ FetchAnswersGone(i) \/ AbandonIngest(i)

SourceIngestSpec == SourceIngestInit /\ [][SourceIngestNext]_ingestVars

(* The schedule brings the calendar round again, and an ingestion that runs  *)
(* ends within its timeout.                                                  *)
SourceIngestFairSpec ==
  SourceIngestSpec /\ \A i \in Ingests : WF_ingestVars(IngestStep(i))

----------------------------------------------------------------------------
(* The days that both the coverage and today's window hold: what stored must *)
(* answer for.                                                               *)
Answerable == {d \in Window(calendar.cover) :
                 d \in Window([day |-> today, range |-> calendar.cover.range])}

(* The stored events are the provider's as of one moment: whatever sequence   *)
(* of deltas, full reads, moved windows, withheld series and overtaken        *)
(* ingestions led here, no stored event differs from what the provider had    *)
(* when the last committed read was made, and within the covered window none  *)
(* is missing.  A series over budget may be stored as it last was; a row that *)
(* stopped parsing counts as stored.                                          *)
StoredIsOneMoment ==
  asOf > 0 => \A e \in Events :
    LET c == hist[asOf][e] IN
    /\ stored[e] \in Contents => c # Absent /\ (stored[e] = c \/ Withheld(c))
    /\ (c # Absent /\ ~Withheld(c) /\ c.at \in Answerable)
         => stored[e] \in {c, Invalid}

(* The token continues from where the stored events stand: the next delta     *)
(* must start at the read they came from, or changes fall between the two.    *)
TokenContinuesStored == calendar.token # NoToken => calendar.token.at = asOf

(* What event_states and the calendar's row hold together is sound: one       *)
(* moment of the provider, and the token that continues from it.              *)
StoredIsSound == StoredIsOneMoment /\ TokenContinuesStored

(* An ingestion that was overtaken - its lock lapsed, another one read and    *)
(* committed - never puts the older read over the newer one.                  *)
NeverRewinds == asOf' >= asOf

(* A row leaves event_states only when the provider no longer has the event   *)
(* in the window the read was made for, or when the row itself lies outside   *)
(* that window; a series withheld for its size is kept as it was.             *)
RemovesOnlyWhatIsGone ==
  \A e \in Events : (stored[e] # Absent /\ stored'[e] = Absent) =>
    LET c == hist'[asOf'][e] IN
    \/ c = Absent
    \/ \E i \in Ingests :
         /\ ingest[i].pc = "prepared" /\ ingest'[i].pc = "idle"
         /\ \/ c.at \notin Window(ingest[i].cover)
            \/ stored[e] \in Contents /\ stored[e].at \notin Window(ingest[i].cover)

(* Persisting goes forward, and takes away nothing that is still there:       *)
(* NeverRewinds and RemovesOnlyWhatIsGone of every step.                      *)
PersistsForward == [][NeverRewinds /\ RemovesOnlyWhatIsGone]_ingestVars

(* However reads are lost, refused or overtaken, once things are quiet the    *)
(* stored events become the provider's in today's required window.  A row     *)
(* that stopped parsing is repaired by a full read, except where the series   *)
(* that would replace it is withheld.                                         *)
IngestConverges ==
  <>[](\A e \in Events :
         LET c == Provider[e] IN
         /\ stored[e] \in Contents => c # Absent /\ (stored[e] = c \/ Withheld(c))
         /\ stored[e] = Invalid => c # Absent /\ Withheld(c)
         /\ (c # Absent /\ ~Withheld(c) /\ c.at \in Answerable) => stored[e] = c)
=============================================================================
