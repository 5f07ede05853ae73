------------------------ MODULE IngestScheduleProofs ------------------------
(***************************************************************************)
(* Safety of the ingest schedule for any calendars, accounts and claims.   *)
(***************************************************************************)
EXTENDS IngestSchedule, TLAPS

\* A round whose lease has not lapsed is the one the row names.
LeaseHeld ==
  \A t \in Claim :
    Running(t) /\ ~claim[t].lapsed
      => leaseToken[claim[t].calendar] = t /\ leased[claim[t].calendar]

\* What the round that the row names remembers is not older than the last recorded read,
\* and nothing it remembers is ahead of the row.
ClaimIsLatest ==
  \A t \in Claim :
    Running(t) /\ leaseToken[claim[t].calendar] = t
      => served[claim[t].calendar] <= claim[t].wakeSeq

ClaimIsBehind ==
  \A t \in Claim :
    Running(t) => /\ claim[t].wakeSeq <= wakeSeq[claim[t].calendar]
                  /\ claim[t].releaseSeq <= releaseSeq[claim[t].calendar]

ServedIsBehind == \A c \in Calendar : served[c] <= wakeSeq[c]

\* Out of the schedule and parked as ineligible are the same thing.
OutIsIneligible == \A c \in Calendar : due[c] = "null" <=> parked[c] = "ineligible"

\* A row taken out of the schedule during a read has been released since.
OutIsReleased ==
  \A t \in Claim :
    /\ Running(t) /\ leaseToken[claim[t].calendar] = t
    /\ claim[t].releaseSeq = releaseSeq[claim[t].calendar]
    => due[claim[t].calendar] # "null"

IInv ==
  /\ TypeOK /\ LeaseHeld /\ ClaimIsLatest /\ ClaimIsBehind /\ ServedIsBehind
  /\ OutIsIneligible /\ OutIsReleased /\ NoWakeLost /\ EnabledIsScheduled

-----------------------------------------------------------------------------
\* The record of a token no round knows has its type.
LEMMA IdleType == Idle \in ClaimRecord /\ Idle.stage = "none"
BY ScheduleAssumption DEF Idle, ClaimRecord, Stage, Outcome

\* Marking a claim as lapsed keeps its type and the rest of it.
LEMMA LapsedType ==
  ASSUME NEW r \in ClaimRecord
  PROVE  /\ [r EXCEPT !.lapsed = TRUE] \in ClaimRecord
         /\ [r EXCEPT !.lapsed = TRUE].stage = r.stage
         /\ [r EXCEPT !.lapsed = TRUE].calendar = r.calendar
         /\ [r EXCEPT !.lapsed = TRUE].wakeSeq = r.wakeSeq
         /\ [r EXCEPT !.lapsed = TRUE].releaseSeq = r.releaseSeq
         /\ [r EXCEPT !.lapsed = TRUE].lapsed = TRUE
BY DEF ClaimRecord

\* The rows the insert trigger makes satisfy the invariant.
LEMMA InitIInv == Init => IInv
<1> SUFFICES ASSUME Init PROVE IInv
  OBVIOUS
<1>1. TypeOK
  BY IdleType, ScheduleAssumption DEF Init, TypeOK, Instant, ParkedReason
<1>2. \A t \in Claim : ~Running(t)
  BY IdleType DEF Init, Running
<1>3. ServedIsBehind /\ OutIsIneligible /\ NoWakeLost /\ EnabledIsScheduled
  BY DEF Init, ServedIsBehind, OutIsIneligible, NoWakeLost, EnabledIsScheduled
<1> QED
  BY <1>1, <1>2, <1>3 DEF IInv, LeaseHeld, ClaimIsLatest, ClaimIsBehind, OutIsReleased

-----------------------------------------------------------------------------
\* Every round still at work remembers what it remembered before.
ClaimsKept ==
  \A t \in Claim :
    Running(t)' => /\ Running(t)
                   /\ claim'[t].calendar = claim[t].calendar
                   /\ claim'[t].wakeSeq = claim[t].wakeSeq
                   /\ claim'[t].releaseSeq = claim[t].releaseSeq
                   /\ claim'[t].lapsed = claim[t].lapsed

\* A step of a round that does not write its row preserves the invariant.
LEMMA LocalStep ==
  ASSUME IInv, UNCHANGED <<rowVars, leaseVars, served>>, ClaimsKept, TypeOK'
  PROVE  IInv'
<1> USE DEF rowVars, leaseVars
<1>1. \A t \in Claim : claim[t].calendar \in Calendar
  BY DEF IInv, TypeOK, ClaimRecord
<1>2. LeaseHeld' /\ ClaimIsLatest' /\ ClaimIsBehind'
  BY <1>1 DEF IInv, ClaimsKept, LeaseHeld, ClaimIsLatest, ClaimIsBehind
<1>3. ServedIsBehind' /\ OutIsIneligible' /\ NoWakeLost' /\ EnabledIsScheduled'
  BY DEF IInv, ServedIsBehind, OutIsIneligible, NoWakeLost, EnabledIsScheduled
<1>4. OutIsReleased'
  BY <1>1 DEF IInv, ClaimsKept, OutIsReleased
<1> QED
  BY <1>2, <1>3, <1>4 DEF IInv

\* Releasing rows, by whichever trigger, preserves the invariant.
LEMMA ReleaseStep ==
  ASSUME NEW rows \in SUBSET Calendar, IInv, ReleaseRows(rows), ClaimsKept,
         UNCHANGED <<enabled, wakeDue, wakeSeq, leaseToken, leased, served>>,
         claim' \in [Claim -> ClaimRecord], demand' \in [Account -> BOOLEAN],
         reconnecting' \in [Account -> BOOLEAN], grant' \in [Account -> Nat],
         demandGrant' \in [Account -> Nat]
  PROVE  IInv'
<1>1. \A t \in Claim : claim[t].calendar \in Calendar /\ claim[t].releaseSeq \in Nat
  BY DEF IInv, TypeOK, ClaimRecord
<1>2. TypeOK'
  BY DEF IInv, TypeOK, ReleaseRows, Instant, ParkedReason
<1>3. \A c \in Calendar : /\ c \in rows => due'[c] = "now" /\ parked'[c] = "none"
                          /\ c \notin rows => due'[c] = due[c] /\ parked'[c] = parked[c]
  BY DEF ReleaseRows
<1>4. \A c \in Calendar : /\ releaseSeq'[c] >= releaseSeq[c]
                          /\ c \notin rows => releaseSeq'[c] = releaseSeq[c]
  BY DEF ReleaseRows, IInv, TypeOK
<1>5. LeaseHeld' /\ ClaimIsLatest'
  BY <1>1 DEF IInv, ClaimsKept, LeaseHeld, ClaimIsLatest
<1>6. ClaimIsBehind'
  <2> SUFFICES ASSUME NEW t \in Claim, Running(t)'
               PROVE  /\ claim'[t].wakeSeq <= wakeSeq'[claim'[t].calendar]
                      /\ claim'[t].releaseSeq <= releaseSeq'[claim'[t].calendar]
    BY DEF ClaimIsBehind
  <2>1. releaseSeq[claim[t].calendar] \in Nat /\ releaseSeq'[claim[t].calendar] \in Nat
    BY <1>1, <1>2 DEF IInv, TypeOK
  <2> QED
    BY <1>1, <1>4, <2>1 DEF IInv, ClaimsKept, ClaimIsBehind
<1>7. ServedIsBehind' /\ NoWakeLost'
  BY DEF IInv, ServedIsBehind, NoWakeLost
<1>8. OutIsIneligible' /\ EnabledIsScheduled'
  BY <1>3 DEF IInv, OutIsIneligible, EnabledIsScheduled
<1>9. OutIsReleased'
  <2> SUFFICES ASSUME NEW t \in Claim, Running(t)', leaseToken'[claim'[t].calendar] = t,
                      claim'[t].releaseSeq = releaseSeq'[claim'[t].calendar]
               PROVE  due'[claim'[t].calendar] # "null"
    BY DEF OutIsReleased
  <2> DEFINE c == claim[t].calendar
  <2>1. Running(t) /\ claim'[t].calendar = c /\ claim'[t].releaseSeq = claim[t].releaseSeq
    BY DEF ClaimsKept
  <2>2. CASE c \in rows
    BY <1>3, <2>1, <2>2
  <2>3. CASE c \notin rows
    BY <1>1, <1>3, <1>4, <2>1, <2>3 DEF IInv, OutIsReleased
  <2> QED
    BY <2>2, <2>3
<1> QED
  BY <1>2, <1>5, <1>6, <1>7, <1>8, <1>9 DEF IInv

\* claimIngests preserves the invariant: only an unleased row is taken, so every older
\* round over it has lapsed.
LEMMA ClaimStep ==
  ASSUME IInv, NEW t \in Claim, NEW c \in Calendar, NEW lane, ClaimIngest(lane, t, c)
  PROVE  IInv'
<1>1. /\ ~Running(t) /\ ~leased[c] /\ due[c] # "null"
      /\ due' = [due EXCEPT ![c] = "later"]
      /\ leased' = [leased EXCEPT ![c] = TRUE]
      /\ leaseToken' = [leaseToken EXCEPT ![c] = t]
      /\ UNCHANGED <<enabled, wakeDue, wakeSeq, failing, parked, releaseSeq, served>>
      /\ UNCHANGED <<demand, reconnecting, grant, demandGrant>>
  BY DEF ClaimIngest, Eligible, accountVars
<1>2. \A u \in Claim : claim[u].calendar \in Calendar
  BY DEF IInv, TypeOK, ClaimRecord
<1>3. /\ claim'[t].calendar = c /\ claim'[t].wakeSeq = wakeSeq[c]
      /\ claim'[t].releaseSeq = releaseSeq[c] /\ claim'[t].lapsed = FALSE
      /\ claim' \in [Claim -> ClaimRecord]
  BY DEF ClaimIngest, IInv, TypeOK, ClaimRecord, Idle, Stage, Outcome
<1>4. \A u \in Claim : u # t => claim'[u] = claim[u]
  BY DEF ClaimIngest, IInv, TypeOK
<1>5. TypeOK'
  BY <1>1, <1>3 DEF IInv, TypeOK, Instant
<1>6. \A u \in Claim : Running(u) /\ ~claim[u].lapsed => claim[u].calendar # c
  BY <1>1 DEF IInv, LeaseHeld
<1>7. LeaseHeld'
  BY <1>1, <1>2, <1>3, <1>4, <1>6 DEF IInv, TypeOK, LeaseHeld, Running
<1>8. ClaimIsLatest'
  <2> SUFFICES ASSUME NEW u \in Claim, Running(u)', leaseToken'[claim'[u].calendar] = u
               PROVE  served'[claim'[u].calendar] <= claim'[u].wakeSeq
    BY DEF ClaimIsLatest
  <2>1. CASE u = t
    BY <1>1, <1>3, <2>1 DEF IInv, ServedIsBehind
  <2>2. CASE u # t
    BY <1>1, <1>2, <1>4, <2>2 DEF IInv, TypeOK, ClaimIsLatest, Running
  <2> QED
    BY <2>1, <2>2
<1>9. ClaimIsBehind'
  <2> SUFFICES ASSUME NEW u \in Claim, Running(u)'
               PROVE  /\ claim'[u].wakeSeq <= wakeSeq'[claim'[u].calendar]
                      /\ claim'[u].releaseSeq <= releaseSeq'[claim'[u].calendar]
    BY DEF ClaimIsBehind
  <2>1. CASE u = t
    BY <1>1, <1>3, <2>1 DEF IInv, TypeOK
  <2>2. CASE u # t
    BY <1>1, <1>4, <2>2 DEF IInv, ClaimIsBehind, Running
  <2> QED
    BY <2>1, <2>2
<1>10. ServedIsBehind' /\ NoWakeLost'
  BY <1>1 DEF IInv, ServedIsBehind, NoWakeLost
<1>11. OutIsIneligible' /\ EnabledIsScheduled'
  BY <1>1 DEF IInv, TypeOK, OutIsIneligible, EnabledIsScheduled
<1>12. OutIsReleased'
  BY <1>1, <1>2, <1>3, <1>4 DEF IInv, TypeOK, OutIsReleased, Running
<1> QED
  BY <1>5, <1>7, <1>8, <1>9, <1>10, <1>11, <1>12 DEF IInv

\* completeIngests preserves the invariant: the row still names the round, so no later
\* read has been recorded, and a row parked meanwhile shows as released.
LEMMA CompleteStep ==
  ASSUME IInv, NEW t \in Claim, Complete(t)
  PROVE  IInv'
<1> DEFINE c == claim[t].calendar
<1>1. /\ claim[t].stage = "applied" /\ leaseToken[c] = t /\ Running(t)
      /\ leaseToken' = [leaseToken EXCEPT ![c] = NoClaim]
      /\ leased' = [leased EXCEPT ![c] = FALSE]
      /\ claim' = [claim EXCEPT ![t] = Idle]
      /\ UNCHANGED <<enabled, wakeSeq, releaseSeq>>
      /\ UNCHANGED <<demand, reconnecting, grant, demandGrant>>
  BY DEF Complete, EndRound, Running, accountVars
<1>2. /\ c \in Calendar /\ claim[t].wakeSeq \in Nat /\ claim[t].releaseSeq \in Nat
      /\ claim[t].failing \in BOOLEAN /\ claim[t].outcome \in Outcome
      /\ \A u \in Claim : claim[u].calendar \in Calendar
  BY DEF IInv, TypeOK, ClaimRecord
<1>3. \/ Released(t) /\ UNCHANGED <<due, parked, failing>>
      \/ /\ ~Released(t)
         /\ due' = [due EXCEPT ![c] = "later"]
         /\ parked' = [parked EXCEPT ![c] = ParkedAfter(claim[t].outcome)]
         /\ failing' = [failing EXCEPT ![c] = FailingAfter(claim[t].outcome, claim[t].failing)]
  BY DEF Complete
<1>4. ParkedAfter(claim[t].outcome) \in ParkedReason \ {"ineligible"}
  BY <1>2 DEF ParkedAfter, ParkedReason
<1>5. FailingAfter(claim[t].outcome, claim[t].failing) \in BOOLEAN
  BY <1>2 DEF FailingAfter, Outcome
<1>6. wakeDue' \in [Calendar -> Instant] /\ \A d \in Calendar : d # c => wakeDue'[d] = wakeDue[d]
  BY <1>2 DEF Complete, IInv, TypeOK, Instant
<1>7. /\ served' = [served EXCEPT ![c] = IF Attempted(claim[t].outcome)
                                           THEN claim[t].wakeSeq ELSE served[c]]
      /\ served' \in [Calendar -> Nat]
  BY <1>2 DEF Complete, IInv, TypeOK
<1>8. TypeOK'
  <2>1. claim' \in [Claim -> ClaimRecord]
    BY <1>1, IdleType DEF IInv, TypeOK
  <2>2. due' \in [Calendar -> Instant]
    BY <1>2, <1>3 DEF IInv, TypeOK, Instant
  <2>3. parked' \in [Calendar -> ParkedReason]
    BY <1>2, <1>3, <1>4 DEF IInv, TypeOK
  <2>4. failing' \in [Calendar -> BOOLEAN]
    BY <1>2, <1>3, <1>5 DEF IInv, TypeOK
  <2> QED
    BY <1>1, <1>2, <1>6, <1>7, <2>1, <2>2, <2>3, <2>4 DEF IInv, TypeOK
<1>9. \A u \in Claim : Running(u)' => u # t /\ Running(u) /\ claim'[u] = claim[u]
  BY <1>1, IdleType DEF Running, IInv, TypeOK
<1>10. LeaseHeld'
  BY <1>1, <1>2, <1>9 DEF IInv, TypeOK, LeaseHeld
<1>11. \A u \in Claim : Running(u)' /\ leaseToken'[claim'[u].calendar] = u
         => claim[u].calendar # c /\ leaseToken[claim[u].calendar] = u
  BY <1>1, <1>2, <1>9, ScheduleAssumption DEF IInv, TypeOK
<1>12. ClaimIsLatest'
  BY <1>2, <1>7, <1>9, <1>11 DEF IInv, TypeOK, ClaimIsLatest
<1>13. ClaimIsBehind'
  BY <1>1, <1>2, <1>9 DEF IInv, ClaimIsBehind
<1>14. ServedIsBehind'
  BY <1>1, <1>2, <1>7 DEF IInv, TypeOK, ServedIsBehind, ClaimIsBehind
<1>15. NoWakeLost'
  <2> SUFFICES ASSUME NEW d \in Calendar, wakeSeq'[d] > served'[d]
               PROVE  wakeDue'[d] # "null"
    BY DEF NoWakeLost
  <2>1. CASE d # c
    BY <1>1, <1>2, <1>6, <1>7, <2>1 DEF IInv, TypeOK, NoWakeLost
  <2>2. CASE d = c /\ ~Attempted(claim[t].outcome)
    BY <1>2, <2>2 DEF Complete, ConsumesWake, IInv, TypeOK
  <2>3. CASE d = c /\ Attempted(claim[t].outcome)
    <3>1. served'[c] = claim[t].wakeSeq /\ wakeSeq[c] > claim[t].wakeSeq
      BY <1>1, <1>2, <1>7, <2>3 DEF IInv, TypeOK
    <3>2. served[c] <= claim[t].wakeSeq
      BY <1>1 DEF IInv, ClaimIsLatest
    <3>3. wakeDue[c] # "null"
      BY <1>2, <3>1, <3>2 DEF IInv, TypeOK, NoWakeLost
    <3>4. ~ConsumesWake(t)
      BY <1>2, <3>1 DEF ConsumesWake, IInv, TypeOK
    <3>5. wakeDue'[c] = wakeDue[c]
      BY <1>2, <2>3, <3>4 DEF Complete, IInv, TypeOK
    <3> QED
      BY <2>3, <3>3, <3>5
  <2> QED
    BY <2>1, <2>2, <2>3
<1>16. OutIsIneligible' /\ EnabledIsScheduled'
  BY <1>1, <1>2, <1>3, <1>4 DEF IInv, TypeOK, OutIsIneligible, EnabledIsScheduled
<1>17. OutIsReleased'
  BY <1>1, <1>2, <1>3, <1>9, <1>11 DEF IInv, TypeOK, OutIsReleased
<1> QED
  BY <1>8, <1>10, <1>12, <1>13, <1>14, <1>15, <1>16, <1>17 DEF IInv

\* Marking the claim t as lapsed keeps everything else every round remembers.
LEMMA LapseKeeps ==
  ASSUME claim \in [Claim -> ClaimRecord], NEW t \in Claim,
         claim' = [claim EXCEPT ![t].lapsed = TRUE]
  PROVE  /\ claim' \in [Claim -> ClaimRecord]
         /\ claim'[t].lapsed = TRUE
         /\ \A u \in Claim : /\ claim'[u].stage = claim[u].stage
                             /\ claim'[u].calendar = claim[u].calendar
                             /\ claim'[u].wakeSeq = claim[u].wakeSeq
                             /\ claim'[u].releaseSeq = claim[u].releaseSeq
                             /\ u # t => claim'[u].lapsed = claim[u].lapsed
<1> DEFINE r == [claim[t] EXCEPT !.lapsed = TRUE]
<1>1. /\ r \in ClaimRecord /\ r.lapsed = TRUE
      /\ r.stage = claim[t].stage /\ r.calendar = claim[t].calendar
      /\ r.wakeSeq = claim[t].wakeSeq /\ r.releaseSeq = claim[t].releaseSeq
  BY LapsedType
<1>2. claim' = [claim EXCEPT ![t] = r]
  OBVIOUS
<1> HIDE DEF r
<1>3. claim' \in [Claim -> ClaimRecord] /\ claim'[t] = r
      /\ \A u \in Claim : u # t => claim'[u] = claim[u]
  BY <1>1, <1>2
<1>4. ASSUME NEW u \in Claim
      PROVE  /\ claim'[u].stage = claim[u].stage
             /\ claim'[u].calendar = claim[u].calendar
             /\ claim'[u].wakeSeq = claim[u].wakeSeq
             /\ claim'[u].releaseSeq = claim[u].releaseSeq
             /\ u # t => claim'[u].lapsed = claim[u].lapsed
  <2>1. CASE u = t
    BY <1>1, <1>3, <2>1
  <2>2. CASE u # t
    BY <1>3, <2>2
  <2> QED
    BY <2>1, <2>2
<1> QED
  BY <1>1, <1>3, <1>4

\* releaseIngests preserves the invariant; the round it belonged to counts as lapsed.
LEMMA GiveBackStep ==
  ASSUME IInv, NEW t \in Claim, ReleaseClaim(t)
  PROVE  IInv'
<1> DEFINE c == claim[t].calendar
<1>1. /\ Running(t) /\ leaseToken[c] = t
      /\ due' = [due EXCEPT ![c] = IF parked[c] = "ineligible" THEN "null" ELSE "now"]
      /\ leaseToken' = [leaseToken EXCEPT ![c] = NoClaim]
      /\ leased' = [leased EXCEPT ![c] = FALSE]
      /\ claim' = [claim EXCEPT ![t].lapsed = TRUE]
      /\ UNCHANGED <<enabled, wakeDue, wakeSeq, failing, parked, releaseSeq, served>>
      /\ UNCHANGED <<demand, reconnecting, grant, demandGrant>>
  BY DEF ReleaseClaim, accountVars
<1>2. c \in Calendar /\ \A u \in Claim : claim[u].calendar \in Calendar
  BY DEF IInv, TypeOK, ClaimRecord
<1>3. /\ claim' \in [Claim -> ClaimRecord]
      /\ claim'[t].lapsed = TRUE
      /\ \A u \in Claim : /\ claim'[u].stage = claim[u].stage
                          /\ claim'[u].calendar = claim[u].calendar
                          /\ claim'[u].wakeSeq = claim[u].wakeSeq
                          /\ claim'[u].releaseSeq = claim[u].releaseSeq
                          /\ u # t => claim'[u].lapsed = claim[u].lapsed
  BY <1>1, LapseKeeps DEF IInv, TypeOK
<1>4. TypeOK'
  BY <1>1, <1>2, <1>3 DEF IInv, TypeOK, Instant
<1>5. LeaseHeld'
  BY <1>1, <1>2, <1>3 DEF IInv, TypeOK, LeaseHeld, Running
<1>6. \A u \in Claim : leaseToken'[claim'[u].calendar] = u
        => claim[u].calendar # c /\ leaseToken[claim[u].calendar] = u
  BY <1>1, <1>2, <1>3, ScheduleAssumption DEF IInv, TypeOK
<1>7. ClaimIsLatest'
  BY <1>1, <1>3, <1>6 DEF IInv, ClaimIsLatest, Running
<1>8. ClaimIsBehind'
  BY <1>1, <1>3 DEF IInv, ClaimIsBehind, Running
<1>9. ServedIsBehind' /\ NoWakeLost'
  BY <1>1 DEF IInv, ServedIsBehind, NoWakeLost
<1>10. OutIsIneligible' /\ EnabledIsScheduled'
  BY <1>1, <1>2 DEF IInv, TypeOK, OutIsIneligible, EnabledIsScheduled
<1>11. OutIsReleased'
  BY <1>1, <1>2, <1>3, <1>6 DEF IInv, TypeOK, OutIsReleased, Running
<1> QED
  BY <1>4, <1>5, <1>7, <1>8, <1>9, <1>10, <1>11 DEF IInv

\* The end of a lease preserves the invariant: the round that held it counts as lapsed.
LEMMA LapseStep ==
  ASSUME IInv, NEW c \in Calendar, LeaseLapses(c)
  PROVE  IInv'
<1> DEFINE t == leaseToken[c]
<1>1. /\ leased' = [leased EXCEPT ![c] = FALSE]
      /\ UNCHANGED <<enabled, due, wakeDue, wakeSeq, failing, parked, releaseSeq, leaseToken>>
      /\ UNCHANGED <<demand, reconnecting, grant, demandGrant, served>>
  BY DEF LeaseLapses, rowVars, accountVars
<1>2. \A u \in Claim : claim[u].calendar \in Calendar
  BY DEF IInv, TypeOK, ClaimRecord
<1>3. /\ claim' \in [Claim -> ClaimRecord]
      /\ \A u \in Claim : /\ claim'[u].stage = claim[u].stage
                          /\ claim'[u].calendar = claim[u].calendar
                          /\ claim'[u].wakeSeq = claim[u].wakeSeq
                          /\ claim'[u].releaseSeq = claim[u].releaseSeq
                          /\ u # t => claim'[u].lapsed = claim[u].lapsed
      /\ t \in Claim /\ Reads(t, c) => claim'[t].lapsed = TRUE
      /\ t \in Claim /\ ~Reads(t, c) => claim'[t].lapsed = claim[t].lapsed
  <2>1. CASE t \in Claim /\ Reads(t, c)
    <3>1. claim' = [claim EXCEPT ![t].lapsed = TRUE]
      BY <2>1 DEF LeaseLapses
    <3> HIDE DEF t
    <3> QED
      BY <2>1, <3>1, LapseKeeps DEF IInv, TypeOK
  <2>2. CASE ~(t \in Claim /\ Reads(t, c))
    BY <2>2 DEF LeaseLapses, IInv, TypeOK
  <2> QED
    BY <2>1, <2>2
<1>4. TypeOK'
  BY <1>1, <1>3 DEF IInv, TypeOK
<1>5. LeaseHeld'
  <2> SUFFICES ASSUME NEW u \in Claim, Running(u)', ~claim'[u].lapsed
               PROVE  leaseToken'[claim'[u].calendar] = u /\ leased'[claim'[u].calendar]
    BY DEF LeaseHeld
  <2>1. Running(u) /\ ~claim[u].lapsed
    BY <1>3 DEF Running, Reads
  <2>2. leaseToken[claim[u].calendar] = u /\ leased[claim[u].calendar]
    BY <2>1 DEF IInv, LeaseHeld
  <2>3. claim[u].calendar # c
    BY <1>3, <2>1, <2>2 DEF Reads
  <2> QED
    BY <1>1, <1>2, <1>3, <2>2, <2>3 DEF IInv, TypeOK
<1>6. ClaimIsLatest' /\ ClaimIsBehind'
  BY <1>1, <1>3 DEF IInv, ClaimIsLatest, ClaimIsBehind, Running
<1>7. ServedIsBehind' /\ NoWakeLost' /\ OutIsIneligible' /\ EnabledIsScheduled'
  BY <1>1 DEF IInv, ServedIsBehind, NoWakeLost, OutIsIneligible, EnabledIsScheduled
<1>8. OutIsReleased'
  BY <1>1, <1>3 DEF IInv, OutIsReleased, Running
<1> QED
  BY <1>4, <1>5, <1>6, <1>7, <1>8 DEF IInv

-----------------------------------------------------------------------------
\* A wake preserves the invariant: it makes the row's wakeDueAt non-null as it counts up.
LEMMA WakeStep ==
  ASSUME IInv, NEW c \in Calendar, NEW d \in {"now", "later"}, WakeIngest(c, d)
  PROVE  IInv'
<1>1. /\ wakeDue' = [wakeDue EXCEPT ![c] = IF wakeDue[c] = "now" THEN "now" ELSE d]
      /\ wakeSeq' = [wakeSeq EXCEPT ![c] = wakeSeq[c] + 1]
      /\ UNCHANGED <<enabled, due, failing, parked, releaseSeq, leaseToken, leased, claim>>
      /\ UNCHANGED <<demand, reconnecting, grant, demandGrant, served>>
  BY DEF WakeIngest, leaseVars, accountVars
<1>2. \A u \in Claim : claim[u].calendar \in Calendar /\ claim[u].wakeSeq \in Nat
  BY DEF IInv, TypeOK, ClaimRecord
<1>3. TypeOK'
  BY <1>1 DEF IInv, TypeOK, Instant
<1>4. \A e \in Calendar : /\ wakeSeq[e] \in Nat /\ served[e] \in Nat
                          /\ wakeSeq'[e] = wakeSeq[e] \/ wakeSeq'[e] = wakeSeq[e] + 1
  BY <1>1 DEF IInv, TypeOK
<1>5. LeaseHeld' /\ ClaimIsLatest' /\ OutIsReleased'
  BY <1>1 DEF IInv, LeaseHeld, ClaimIsLatest, OutIsReleased, Running
<1>6. ClaimIsBehind'
  BY <1>1, <1>2, <1>4 DEF IInv, ClaimIsBehind, Running
<1>7. ServedIsBehind'
  BY <1>1, <1>4 DEF IInv, ServedIsBehind
<1>8. NoWakeLost'
  BY <1>1 DEF IInv, TypeOK, NoWakeLost
<1>9. OutIsIneligible' /\ EnabledIsScheduled'
  BY <1>1 DEF IInv, OutIsIneligible, EnabledIsScheduled
<1> QED
  BY <1>3, <1>5, <1>6, <1>7, <1>8, <1>9 DEF IInv

\* Counting releaseSeq up while the row is parked or put back preserves what the rounds
\* remember of it.
LEMMA TrackStep ==
  ASSUME IInv, NEW c \in Calendar,
         due' \in [Calendar -> Instant], parked' \in [Calendar -> ParkedReason],
         enabled' \in [Calendar -> BOOLEAN],
         releaseSeq' = [releaseSeq EXCEPT ![c] = @ + 1],
         \A e \in Calendar : e # c => /\ due'[e] = due[e] /\ parked'[e] = parked[e]
                                      /\ enabled'[e] = enabled[e],
         due'[c] = "null" <=> parked'[c] = "ineligible",
         enabled'[c] => due'[c] # "null",
         UNCHANGED <<wakeDue, wakeSeq, failing, leaseVars, claim, accountVars, served>>
  PROVE  IInv'
<1> USE DEF leaseVars, accountVars
<1>1. \A u \in Claim : claim[u].calendar \in Calendar /\ claim[u].releaseSeq \in Nat
  BY DEF IInv, TypeOK, ClaimRecord
<1>2. TypeOK'
  BY DEF IInv, TypeOK
<1>3. /\ releaseSeq \in [Calendar -> Nat]
      /\ releaseSeq'[c] = releaseSeq[c] + 1
      /\ \A e \in Calendar : e # c => releaseSeq'[e] = releaseSeq[e]
  BY DEF IInv, TypeOK
<1>4. LeaseHeld' /\ ClaimIsLatest'
  BY DEF IInv, LeaseHeld, ClaimIsLatest, Running
<1>5. ClaimIsBehind'
  BY <1>1, <1>3 DEF IInv, ClaimIsBehind, Running
<1>6. ServedIsBehind' /\ NoWakeLost'
  BY DEF IInv, ServedIsBehind, NoWakeLost
<1>7. OutIsIneligible' /\ EnabledIsScheduled'
  BY DEF IInv, OutIsIneligible, EnabledIsScheduled
<1>8. OutIsReleased'
  <2> SUFFICES ASSUME NEW u \in Claim, Running(u), leaseToken[claim[u].calendar] = u,
                      claim[u].releaseSeq = releaseSeq'[claim[u].calendar]
               PROVE  due'[claim[u].calendar] # "null"
    BY DEF OutIsReleased, Running
  <2>1. claim[u].releaseSeq <= releaseSeq[claim[u].calendar]
    BY DEF IInv, ClaimIsBehind
  <2>2. claim[u].calendar # c
    BY <1>1, <1>3, <2>1
  <2> QED
    BY <1>1, <1>3, <2>2 DEF IInv, OutIsReleased
<1> QED
  BY <1>2, <1>4, <1>5, <1>6, <1>7, <1>8 DEF IInv

\* track_calendar preserves the invariant when a calendar becomes readable ...
LEMMA EnableStep ==
  ASSUME IInv, NEW c \in Calendar, Enable(c)
  PROVE  IInv'
<1>1. /\ enabled' = [enabled EXCEPT ![c] = TRUE]
      /\ UNCHANGED <<wakeDue, wakeSeq, failing, leaseVars, claim, accountVars, served>>
  BY DEF Enable
<1>2. CASE parked[c] = "ineligible"
  <2>1. /\ due' = [due EXCEPT ![c] = "now"]
        /\ parked' = [parked EXCEPT ![c] = "none"]
        /\ releaseSeq' = [releaseSeq EXCEPT ![c] = @ + 1]
    BY <1>2 DEF Enable
  <2>2. due' \in [Calendar -> Instant] /\ parked' \in [Calendar -> ParkedReason]
        /\ enabled' \in [Calendar -> BOOLEAN]
    BY <1>1, <2>1 DEF IInv, TypeOK, Instant, ParkedReason
  <2>3. \A e \in Calendar : e # c => /\ due'[e] = due[e] /\ parked'[e] = parked[e]
                                     /\ enabled'[e] = enabled[e]
    BY <1>1, <2>1 DEF IInv, TypeOK
  <2>4. due'[c] = "now" /\ parked'[c] = "none"
    BY <2>1 DEF IInv, TypeOK
  <2> QED
    BY <1>1, <2>1, <2>2, <2>3, <2>4, TrackStep
<1>3. CASE parked[c] # "ineligible"
  <2>1. UNCHANGED <<due, parked, releaseSeq>> /\ due[c] # "null"
    BY <1>3 DEF Enable, IInv, OutIsIneligible
  <2>2. TypeOK'
    BY <1>1, <2>1 DEF IInv, TypeOK, leaseVars, accountVars
  <2>3. LeaseHeld' /\ ClaimIsLatest' /\ ClaimIsBehind' /\ OutIsReleased'
    BY <1>1, <2>1 DEF IInv, leaseVars, LeaseHeld, ClaimIsLatest, ClaimIsBehind,
                      OutIsReleased, Running
  <2>4. ServedIsBehind' /\ NoWakeLost' /\ OutIsIneligible'
    BY <1>1, <2>1 DEF IInv, ServedIsBehind, NoWakeLost, OutIsIneligible
  <2>5. EnabledIsScheduled'
    BY <1>1, <1>3, <2>1 DEF IInv, TypeOK, EnabledIsScheduled
  <2> QED
    BY <2>2, <2>3, <2>4, <2>5 DEF IInv
<1> QED
  BY <1>2, <1>3

\* ... and when it stops being readable.
LEMMA DisableStep ==
  ASSUME IInv, NEW c \in Calendar, Disable(c)
  PROVE  IInv'
<1>1. /\ enabled' = [enabled EXCEPT ![c] = FALSE]
      /\ due' = [due EXCEPT ![c] = "null"]
      /\ parked' = [parked EXCEPT ![c] = "ineligible"]
      /\ releaseSeq' = [releaseSeq EXCEPT ![c] = @ + 1]
      /\ UNCHANGED <<wakeDue, wakeSeq, failing, leaseVars, claim, accountVars, served>>
  BY DEF Disable
<1>2. due' \in [Calendar -> Instant] /\ parked' \in [Calendar -> ParkedReason]
      /\ enabled' \in [Calendar -> BOOLEAN]
  BY <1>1 DEF IInv, TypeOK, Instant, ParkedReason
<1>3. \A e \in Calendar : e # c => /\ due'[e] = due[e] /\ parked'[e] = parked[e]
                                   /\ enabled'[e] = enabled[e]
  BY <1>1 DEF IInv, TypeOK
<1>4. due'[c] = "null" /\ parked'[c] = "ineligible" /\ ~enabled'[c]
  BY <1>1 DEF IInv, TypeOK
<1> QED
  BY <1>1, <1>2, <1>3, <1>4, TrackStep

\* The passing of a due time and of a wake's deadline preserve the invariant.
LEMMA TimeStep ==
  ASSUME IInv, NEW c \in Calendar, DueArrives(c) \/ WakeArrives(c)
  PROVE  IInv'
<1>1. /\ UNCHANGED <<enabled, wakeSeq, failing, parked, releaseSeq, leaseToken, leased, claim>>
      /\ UNCHANGED <<demand, reconnecting, grant, demandGrant, served>>
  BY DEF DueArrives, WakeArrives, leaseVars, accountVars
<1>2. \A u \in Claim : claim[u].calendar \in Calendar
  BY DEF IInv, TypeOK, ClaimRecord
<1>3. /\ due' \in [Calendar -> Instant] /\ wakeDue' \in [Calendar -> Instant]
      /\ \A e \in Calendar : /\ due'[e] = "null" <=> due[e] = "null"
                             /\ wakeDue'[e] = "null" <=> wakeDue[e] = "null"
  BY DEF DueArrives, WakeArrives, IInv, TypeOK, Instant
<1>4. TypeOK'
  BY <1>1, <1>3 DEF IInv, TypeOK
<1>5. LeaseHeld' /\ ClaimIsLatest' /\ ClaimIsBehind'
  BY <1>1 DEF IInv, LeaseHeld, ClaimIsLatest, ClaimIsBehind, Running
<1>6. ServedIsBehind' /\ NoWakeLost' /\ OutIsIneligible' /\ EnabledIsScheduled'
  BY <1>1, <1>3 DEF IInv, ServedIsBehind, NoWakeLost, OutIsIneligible, EnabledIsScheduled
<1>7. OutIsReleased'
  BY <1>1, <1>2, <1>3 DEF IInv, OutIsReleased, Running
<1> QED
  BY <1>4, <1>5, <1>6, <1>7 DEF IInv

-----------------------------------------------------------------------------
\* Replacing what a round remembers, by nothing or by a record of the same claim, keeps
\* the claims.
LEMMA RecordKeeps ==
  ASSUME IInv, NEW t \in Claim, NEW r \in ClaimRecord, claim' = [claim EXCEPT ![t] = r],
         \/ r.stage = "none"
         \/ /\ Running(t) /\ r.calendar = claim[t].calendar /\ r.wakeSeq = claim[t].wakeSeq
            /\ r.releaseSeq = claim[t].releaseSeq /\ r.lapsed = claim[t].lapsed
  PROVE  ClaimsKept /\ claim' \in [Claim -> ClaimRecord]
<1>1. claim' \in [Claim -> ClaimRecord] /\ claim'[t] = r
      /\ \A u \in Claim : u # t => claim'[u] = claim[u]
  BY DEF IInv, TypeOK
<1> SUFFICES ASSUME NEW u \in Claim, Running(u)'
             PROVE  /\ Running(u)
                    /\ claim'[u].calendar = claim[u].calendar
                    /\ claim'[u].wakeSeq = claim[u].wakeSeq
                    /\ claim'[u].releaseSeq = claim[u].releaseSeq
                    /\ claim'[u].lapsed = claim[u].lapsed
  BY <1>1 DEF ClaimsKept
<1>2. CASE u = t
  BY <1>1, <1>2 DEF Running
<1>3. CASE u # t
  BY <1>1, <1>3 DEF Running
<1> QED
  BY <1>2, <1>3

\* A round that ends, moves on to another stage or stores its outcome keeps the claims.
LEMMA RoundKeeps ==
  ASSUME IInv, NEW t \in Claim, NEW s \in Stage, NEW g \in Nat, NEW o \in Outcome, Running(t),
         \/ claim' = [claim EXCEPT ![t] = Idle]
         \/ claim' = [claim EXCEPT ![t].stage = s, ![t].grant = g]
         \/ claim' = [claim EXCEPT ![t].stage = s, ![t].outcome = o]
  PROVE  ClaimsKept /\ claim' \in [Claim -> ClaimRecord]
<1>1. claim[t] \in ClaimRecord
  BY DEF IInv, TypeOK
<1>2. CASE claim' = [claim EXCEPT ![t] = Idle]
  BY <1>2, IdleType, RecordKeeps
<1>3. CASE claim' = [claim EXCEPT ![t].stage = s, ![t].grant = g]
  <2> DEFINE r == [claim[t] EXCEPT !.stage = s, !.grant = g]
  <2>1. /\ r \in ClaimRecord /\ r.calendar = claim[t].calendar /\ r.wakeSeq = claim[t].wakeSeq
        /\ r.releaseSeq = claim[t].releaseSeq /\ r.lapsed = claim[t].lapsed
    BY <1>1 DEF ClaimRecord
  <2>2. claim' = [claim EXCEPT ![t] = r]
    BY <1>3 DEF IInv, TypeOK
  <2> HIDE DEF r
  <2> QED
    BY <2>1, <2>2, RecordKeeps
<1>4. CASE claim' = [claim EXCEPT ![t].stage = s, ![t].outcome = o]
  <2> DEFINE r == [claim[t] EXCEPT !.stage = s, !.outcome = o]
  <2>1. /\ r \in ClaimRecord /\ r.calendar = claim[t].calendar /\ r.wakeSeq = claim[t].wakeSeq
        /\ r.releaseSeq = claim[t].releaseSeq /\ r.lapsed = claim[t].lapsed
    BY <1>1 DEF ClaimRecord
  <2>2. claim' = [claim EXCEPT ![t] = r]
    BY <1>4 DEF IInv, TypeOK
  <2> HIDE DEF r
  <2> QED
    BY <2>1, <2>2, RecordKeeps
<1> QED
  BY <1>2, <1>3, <1>4

\* The read of a claimed calendar, and the end of a round that records nothing, preserve
\* the invariant.
LEMMA ReadStep ==
  ASSUME IInv, NEW t \in Claim,
         \/ StartRead(t) \/ RefreshRejected(t) \/ (\E o \in Outcome : FinishRead(t, o))
         \/ RaiseDemand(t) \/ KeepDemand(t) \/ CompletionDropped(t) \/ Crash(t)
  PROVE  IInv'
<1> DEFINE a == AccountOf[claim[t].calendar]
<1>1. /\ claim[t] \in ClaimRecord /\ a \in Account
      /\ claim[t].grant \in Nat /\ grant[a] \in Nat
  BY ScheduleAssumption DEF IInv, TypeOK, ClaimRecord
<1>2. UNCHANGED <<rowVars, leaseVars, served>>
  BY DEF StartRead, RefreshRejected, FinishRead, RaiseDemand, KeepDemand,
         CompletionDropped, Crash
<1>3. Running(t)
  BY DEF StartRead, RefreshRejected, FinishRead, RaiseDemand, KeepDemand,
         CompletionDropped, Crash, Running
<1>4. ClaimsKept /\ claim' \in [Claim -> ClaimRecord]
  <2>1. CASE StartRead(t)
    <3>1. \/ claim' = [claim EXCEPT ![t].stage = "reading", ![t].grant = grant[a]]
          \/ \E o \in Outcome :
               claim' = [claim EXCEPT ![t].stage = "applied", ![t].outcome = o]
      BY <2>1 DEF StartRead, Outcome
    <3>2. {"reading", "applied"} \subseteq Stage /\ "ingested" \in Outcome
      BY DEF Stage, Outcome
    <3> HIDE DEF a
    <3> QED
      BY <1>1, <1>3, <3>1, <3>2, RoundKeeps
  <2>2. CASE RefreshRejected(t) \/ (\E o \in Outcome : FinishRead(t, o))
    <3>1. PICK o \in Outcome : claim' = [claim EXCEPT ![t].stage = "settled", ![t].outcome = o]
      BY <2>2 DEF RefreshRejected, FinishRead, Outcome
    <3>2. "settled" \in Stage
      BY DEF Stage
    <3> QED
      BY <1>1, <1>3, <3>1, <3>2, RoundKeeps
  <2>3. CASE RaiseDemand(t) \/ KeepDemand(t)
    <3>1. claim' = [claim EXCEPT ![t].stage = "applied", ![t].grant = 0]
      BY <2>3 DEF RaiseDemand, KeepDemand, Applied
    <3>2. "applied" \in Stage /\ "ingested" \in Outcome
      BY DEF Stage, Outcome
    <3> QED
      BY <1>3, <3>1, <3>2, RoundKeeps
  <2>4. CASE CompletionDropped(t) \/ Crash(t)
    <3>1. claim' = [claim EXCEPT ![t] = Idle]
      BY <2>4 DEF CompletionDropped, Crash, EndRound
    <3> QED
      BY <3>1, IdleType, RecordKeeps
  <2> QED
    BY <2>1, <2>2, <2>3, <2>4
<1>5. /\ demand' \in [Account -> BOOLEAN] /\ demandGrant' \in [Account -> Nat]
      /\ UNCHANGED <<reconnecting, grant>>
  <2>1. CASE RefreshRejected(t) \/ RaiseDemand(t)
    BY <1>1, <2>1 DEF RefreshRejected, RaiseDemand, IInv, TypeOK
  <2>2. CASE ~(RefreshRejected(t) \/ RaiseDemand(t))
    BY <2>2 DEF StartRead, FinishRead, KeepDemand, CompletionDropped, Crash, accountVars,
                IInv, TypeOK
  <2> QED
    BY <2>1, <2>2
<1>6. TypeOK'
  BY <1>2, <1>4, <1>5 DEF IInv, TypeOK, rowVars, leaseVars
<1> QED
  BY <1>2, <1>4, <1>6, LocalStep

\* The steps that fire a releasing trigger preserve the invariant.
LEMMA AccountStep ==
  ASSUME IInv, NEW a \in Account,
         \/ StoreGrant(a) \/ SettleGrant(a) \/ ReconnectCalDAV(a)
         \/ \E t \in Claim : /\ ClearDemand(t) \/ RefreshRotated(t)
                            /\ a = AccountOf[claim[t].calendar]
  PROVE  IInv'
<1>1. \A x \in Account : ReleasedByAccount(x) \subseteq Calendar
                         /\ ReleasedByCredential(x) \subseteq Calendar
  BY DEF ReleasedByAccount, ReleasedByCredential
<1>2. PICK rows \in SUBSET Calendar : ReleaseRows(rows)
  BY <1>1 DEF StoreGrant, SettleGrant, ReconnectCalDAV, ClearDemand, RefreshRotated
<1>3. UNCHANGED <<enabled, wakeDue, wakeSeq, leaseToken, leased, served>>
  BY DEF StoreGrant, SettleGrant, ReconnectCalDAV, ClearDemand, RefreshRotated, leaseVars
<1>4. ClaimsKept /\ claim' \in [Claim -> ClaimRecord]
  <2>1. CASE claim' = claim
    BY <2>1 DEF ClaimsKept, Running, IInv, TypeOK
  <2>2. CASE \E t \in Claim : ClearDemand(t)
    <3>1. PICK t \in Claim : ClearDemand(t)
      BY <2>2
    <3>2. Running(t) /\ claim' = [claim EXCEPT ![t].stage = "applied", ![t].grant = 0]
      BY <3>1 DEF ClearDemand, Applied, Running
    <3>3. "applied" \in Stage /\ "ingested" \in Outcome
      BY DEF Stage, Outcome
    <3> QED
      BY <3>2, <3>3, RoundKeeps
  <2> QED
    BY <2>1, <2>2 DEF StoreGrant, SettleGrant, ReconnectCalDAV, RefreshRotated
<1>5. demand' \in [Account -> BOOLEAN] /\ demandGrant' \in [Account -> Nat]
  <2>1. \/ UNCHANGED <<demand, demandGrant>>
        \/ ForgetDemand(a)
    BY DEF StoreGrant, SettleGrant, ReconnectCalDAV, ClearDemand, RefreshRotated, accountVars
  <2>2. CASE UNCHANGED <<demand, demandGrant>>
    BY <2>2 DEF IInv, TypeOK
  <2>3. CASE ForgetDemand(a)
    <3>1. demand' = [demand EXCEPT ![a] = FALSE] /\ demandGrant' = [demandGrant EXCEPT ![a] = 0]
      BY <2>3 DEF ForgetDemand
    <3>2. demand \in [Account -> BOOLEAN] /\ demandGrant \in [Account -> Nat]
      BY DEF IInv, TypeOK
    <3> QED
      BY ONLY <3>1, <3>2
  <2> QED
    BY <2>1, <2>2, <2>3
<1>6. reconnecting' \in [Account -> BOOLEAN] /\ grant' \in [Account -> Nat]
  <2>1. /\ \/ reconnecting' = reconnecting
           \/ \E b \in BOOLEAN : reconnecting' = [reconnecting EXCEPT ![a] = b]
        /\ grant' = grant \/ grant' = [grant EXCEPT ![a] = @ + 1]
    BY DEF StoreGrant, SettleGrant, ReconnectCalDAV, ClearDemand, RefreshRotated, accountVars
  <2> QED
    BY <2>1 DEF IInv, TypeOK
<1> QED
  BY <1>2, <1>3, <1>4, <1>5, <1>6, ReleaseStep

\* Every step preserves the invariant.
LEMMA NextIInv == IInv /\ [Next]_vars => IInv'
<1> SUFFICES ASSUME IInv, [Next]_vars PROVE IInv'
  OBVIOUS
<1>1. ASSUME NEW c \in Calendar, ClaimSomewhere(c) PROVE IInv'
  BY <1>1, ClaimStep DEF ClaimSomewhere
<1>2. ASSUME NEW c \in Calendar, Clock(c) PROVE IInv'
  BY <1>2, TimeStep, LapseStep DEF Clock
<1>3. ASSUME NEW c \in Calendar, Enable(c) \/ Disable(c) PROVE IInv'
  BY <1>3, EnableStep, DisableStep
<1>4. ASSUME NEW c \in Calendar, \E d \in {"now", "later"} : WakeIngest(c, d) PROVE IInv'
  BY <1>4, WakeStep
<1>5. ASSUME NEW t \in Claim, Round(t) PROVE IInv'
  <2>1. CASE Complete(t)
    BY <2>1, CompleteStep
  <2>2. CASE ClearDemand(t) \/ RefreshRotated(t)
    <3>1. AccountOf[claim[t].calendar] \in Account
      BY ScheduleAssumption DEF IInv, TypeOK, ClaimRecord
    <3> QED
      BY <2>2, <3>1, AccountStep
  <2>3. CASE \/ StartRead(t) \/ RefreshRejected(t) \/ (\E o \in Outcome : FinishRead(t, o))
             \/ RaiseDemand(t) \/ KeepDemand(t) \/ CompletionDropped(t)
    BY <2>3, ReadStep
  <2> QED
    BY <1>5, <2>1, <2>2, <2>3 DEF Round
<1>6. ASSUME NEW t \in Claim, ReleaseClaim(t) \/ Crash(t) PROVE IInv'
  BY <1>6, GiveBackStep, ReadStep
<1>7. ASSUME NEW a \in Account, StoreGrant(a) \/ SettleGrant(a) \/ ReconnectCalDAV(a)
      PROVE  IInv'
  BY <1>7, AccountStep
<1>8. CASE UNCHANGED vars
  <2>1. UNCHANGED <<rowVars, leaseVars, served>> /\ claim' = claim
        /\ UNCHANGED <<demand, reconnecting, grant, demandGrant>>
    BY <1>8 DEF vars, rowVars, leaseVars
  <2>2. TypeOK' /\ ClaimsKept
    BY <2>1 DEF IInv, TypeOK, rowVars, leaseVars, ClaimsKept, Running
  <2> QED
    BY <2>1, <2>2, LocalStep
<1> QED
  BY <1>1, <1>2, <1>3, <1>4, <1>5, <1>6, <1>7, <1>8 DEF Next

\* The invariant holds in every reachable state.
THEOREM Invariance == Spec => []IInv
BY InitIInv, NextIInv, PTL DEF Spec

-----------------------------------------------------------------------------
\* The rows, the claims in memory and the accounts keep their types, so no completion
\* stores a reason that is not one of parkedReason's.
THEOREM TypeCorrectness == Spec => []TypeOK
<1>1. IInv => TypeOK
  BY DEF IInv
<1> QED
  BY <1>1, Invariance, PTL

\* Two rounds whose leases run never read one calendar, because the lease in the row
\* names a single token.
THEOREM NoDoubleReadHolds == Spec => []NoDoubleRead
<1>1. IInv => NoDoubleRead
  BY DEF IInv, LeaseHeld, NoDoubleRead, Reads
<1> QED
  BY <1>1, Invariance, PTL

\* A wake that came after a read began outlives the completion of that read.
THEOREM NoWakeLostHolds == Spec => []NoWakeLost
<1>1. IInv => NoWakeLost
  BY DEF IInv
<1> QED
  BY <1>1, Invariance, PTL

\* No completion, release or trigger leaves an enabled calendar without a due time.
THEOREM EnabledStaysScheduled == Spec => []EnabledIsScheduled
<1>1. IInv => EnabledIsScheduled
  BY DEF IInv
<1> QED
  BY <1>1, Invariance, PTL

\* What ParkedStaysParked says of one step.
PutBackOnlyByTrigger ==
  \A c \in Calendar : due[c] = "null" /\ due'[c] # "null" => releaseSeq'[c] > releaseSeq[c]

\* The row of a calendar that was parked during a read shows releaseSeq ahead of the
\* round's, so its completion leaves it parked; no other step of a round makes it due.
THEOREM ParkedStaysParkedHolds == Spec => ParkedStaysParked
<1>1. ASSUME IInv, [Next]_vars PROVE PutBackOnlyByTrigger
  <2> SUFFICES ASSUME NEW c \in Calendar, due[c] = "null", due'[c] # "null"
               PROVE  releaseSeq'[c] > releaseSeq[c]
    BY DEF PutBackOnlyByTrigger
  <2>1. due \in [Calendar -> Instant] /\ releaseSeq \in [Calendar -> Nat]
        /\ \A t \in Claim : claim[t].calendar \in Calendar
    BY <1>1 DEF IInv, TypeOK, ClaimRecord
  <2>2. ASSUME NEW rows, ReleaseRows(rows) PROVE releaseSeq'[c] > releaseSeq[c]
    BY <2>1, <2>2 DEF ReleaseRows
  <2>3. ASSUME NEW e \in Calendar, ClaimSomewhere(e) PROVE FALSE
    BY <2>1, <2>3 DEF ClaimSomewhere, ClaimIngest, Eligible
  <2>4. ASSUME NEW e \in Calendar, Clock(e) PROVE FALSE
    BY <2>1, <2>4 DEF Clock, DueArrives, WakeArrives, LeaseLapses, rowVars
  <2>5. ASSUME NEW e \in Calendar, Enable(e) PROVE releaseSeq'[c] > releaseSeq[c]
    BY <2>1, <2>5 DEF Enable
  <2>6. ASSUME NEW e \in Calendar, Disable(e) PROVE FALSE
    BY <2>1, <2>6 DEF Disable
  <2>7. ASSUME NEW e \in Calendar, NEW d, WakeIngest(e, d) PROVE FALSE
    BY <2>7 DEF WakeIngest
  <2>8. ASSUME NEW t \in Claim, Complete(t) PROVE FALSE
    <3>1. /\ Running(t) /\ leaseToken[claim[t].calendar] = t
          /\ Released(t) => due' = due
          /\ ~Released(t) => due' = [due EXCEPT ![claim[t].calendar] = "later"]
      BY <2>8 DEF Complete, Running
    <3>2. ~Released(t) => due[claim[t].calendar] # "null"
      BY <1>1, <3>1 DEF IInv, OutIsReleased, Released
    <3> QED
      BY <2>1, <3>1, <3>2
  <2>9. ASSUME NEW t \in Claim, ReleaseClaim(t) PROVE FALSE
    <3>1. due' = [due EXCEPT ![claim[t].calendar] =
                    IF parked[claim[t].calendar] = "ineligible" THEN "null" ELSE "now"]
      BY <2>9 DEF ReleaseClaim
    <3> QED
      BY <1>1, <2>1, <3>1 DEF IInv, OutIsIneligible
  <2>10. ASSUME NEW t \in Claim, Round(t) PROVE releaseSeq'[c] > releaseSeq[c]
    <3>1. CASE ClearDemand(t) \/ RefreshRotated(t)
      BY <2>2, <3>1 DEF ClearDemand, RefreshRotated
    <3>2. CASE \/ StartRead(t) \/ RefreshRejected(t) \/ (\E o \in Outcome : FinishRead(t, o))
               \/ RaiseDemand(t) \/ KeepDemand(t) \/ CompletionDropped(t)
      BY <3>2 DEF StartRead, RefreshRejected, FinishRead, RaiseDemand, KeepDemand,
                  CompletionDropped, rowVars
    <3> QED
      BY <2>8, <2>10, <3>1, <3>2 DEF Round
  <2>11. ASSUME NEW t \in Claim, Crash(t) PROVE FALSE
    BY <2>11 DEF Crash, rowVars
  <2>12. ASSUME NEW a \in Account, StoreGrant(a) \/ SettleGrant(a) \/ ReconnectCalDAV(a)
         PROVE  releaseSeq'[c] > releaseSeq[c]
    BY <2>2, <2>12 DEF StoreGrant, SettleGrant, ReconnectCalDAV
  <2>13. CASE UNCHANGED vars
    BY <2>13 DEF vars
  <2> QED
    BY <1>1, <2>3, <2>4, <2>5, <2>6, <2>7, <2>9, <2>10, <2>11, <2>12, <2>13 DEF Next
<1>2. IInv /\ [Next]_vars => [PutBackOnlyByTrigger]_vars
  BY <1>1
<1>3. ParkedStaysParked <=> [][PutBackOnlyByTrigger]_vars
  BY DEF ParkedStaysParked, PutBackOnlyByTrigger
<1> QED
  BY <1>2, <1>3, Invariance, PTL DEF Spec
=============================================================================
