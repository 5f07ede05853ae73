--------------------------- MODULE IngestSchedule ---------------------------
(***************************************************************************)
(* The table source_ingest_schedule, by which the cron service decides     *)
(* which source calendar to read next                                      *)
(* (packages/database/src/database/ingest-schedule.ts and the triggers in  *)
(* packages/database/drizzle/0099 and 0102), with the rounds that claim,   *)
(* read and complete a calendar (services/cron/src/ingest) and the         *)
(* reauthentication demand the rounds raise on its account.                *)
(*                                                                         *)
(* A statement of Postgres is one step.  Statements that touch several     *)
(* rows do the same to each of them, so a claim here is one row of a       *)
(* batch: a calendar together with the token of its lease.  Tokens are     *)
(* fresh; a claim whose round is over stands for the next fresh token.     *)
(*                                                                         *)
(* A time is NULL, still to come or past: the model knows an instant only  *)
(* by its comparison with now().                                           *)
(***************************************************************************)
EXTENDS Naturals

CONSTANTS
  Calendar,
  Account,
  AccountOf,      \* AccountOf[c]: the account a calendar belongs to
  CalDAV,         \* accounts with a stored password; the others use OAuth
  Claim,          \* rows of claimed batches, each under a lease token of its own
  NoClaim,
  MaxWakes,       \* bound on wakeSeq
  MaxReleases,    \* bound on releaseSeq
  MaxGrants       \* bound on the credentials issued for an OAuth account

ASSUME ScheduleAssumption ==
  /\ Calendar # {}
  /\ AccountOf \in [Calendar -> Account]
  /\ CalDAV \subseteq Account
  /\ NoClaim \notin Claim
  /\ MaxWakes \in Nat /\ MaxReleases \in Nat /\ MaxGrants \in Nat

VARIABLES
  enabled,      \* enabled[c]: not disabled and able to pull
  due,          \* due[c]: dueAt
  wakeDue,      \* wakeDue[c]: wakeDueAt
  wakeSeq,
  failing,      \* failing[c]: failureCount > 0
  parked,       \* parked[c]: parkedReason
  releaseSeq,
  leaseToken,
  leased,       \* leased[c]: leasedUntil > now()
  claim,        \* claim[t]: what the round holds in memory about t
  demand,       \* demand[a]: needsReauthentication
  reconnecting, \* reconnecting[a]: the user's new grant is stored, the demand not yet cleared
  grant,        \* grant[a]: number of the stored credential of an OAuth account
  served,       \* history: the highest wakeSeq a recorded read has followed
  demandGrant   \* history: the credential that was rejected when the demand was raised

rowVars == <<enabled, due, wakeDue, wakeSeq, failing, parked, releaseSeq>>
leaseVars == <<leaseToken, leased>>
accountVars == <<demand, reconnecting, grant, demandGrant>>
vars == <<enabled, due, wakeDue, wakeSeq, failing, parked, releaseSeq, leaseToken,
          leased, claim, demand, reconnecting, grant, served, demandGrant>>

Instant == {"null", "later", "now"}
ParkedReason == {"none", "ineligible", "credential-rejected", "unresolvable"}

\* What a read can end with; "failed" backs off, "unbacked" retries after a minute,
\* "unattempted" stands for a held source lock and for a moved baseline.
Outcome == {"ingested", "unattempted", "unresolvable", "failed", "unbacked",
            "request-rejected", "credential-rejected"}
Stage == {"none", "claimed", "reading", "settled", "applied"}

ClaimRecord ==
  [stage : Stage, calendar : Calendar, wakeSeq : Nat, releaseSeq : Nat,
   failing : BOOLEAN, grant : Nat, outcome : Outcome, lapsed : BOOLEAN]

\* No round knows the token.
Idle == [stage |-> "none", calendar |-> CHOOSE c \in Calendar : TRUE, wakeSeq |-> 0,
         releaseSeq |-> 0, failing |-> FALSE, grant |-> 0, outcome |-> "unattempted",
         lapsed |-> FALSE]

\* The round of t is still at work.
Running(t) == claim[t].stage # "none"
Reads(t, c) == Running(t) /\ claim[t].calendar = c
EndRound(t) == claim' = [claim EXCEPT ![t] = Idle]
Applied(t) == claim' = [claim EXCEPT ![t].stage = "applied", ![t].grant = 0]

-----------------------------------------------------------------------------
\* The insert trigger gives every calendar a row: due at once, or parked.
Init ==
  /\ enabled \in [Calendar -> BOOLEAN]
  /\ due = [c \in Calendar |-> IF enabled[c] THEN "now" ELSE "null"]
  /\ wakeDue = [c \in Calendar |-> "null"]
  /\ wakeSeq = [c \in Calendar |-> 0]
  /\ failing = [c \in Calendar |-> FALSE]
  /\ parked = [c \in Calendar |-> IF enabled[c] THEN "none" ELSE "ineligible"]
  /\ releaseSeq = [c \in Calendar |-> 0]
  /\ leaseToken = [c \in Calendar |-> NoClaim]
  /\ leased = [c \in Calendar |-> FALSE]
  /\ claim = [t \in Claim |-> Idle]
  /\ demand = [a \in Account |-> FALSE]
  /\ reconnecting = [a \in Account |-> FALSE]
  /\ grant = [a \in Account |-> 0]
  /\ served = [c \in Calendar |-> 0]
  /\ demandGrant = [a \in Account |-> 0]

-----------------------------------------------------------------------------
(* claimIngests.                                                            *)

\* Mutant: a row that a trigger made due is claimed although it is leased.
EligibleWhenDue(lane, c) ==
  IF lane = "wake"
    THEN wakeDue[c] = "now" /\ due[c] # "null" /\ (~failing[c] \/ due[c] = "now")
    ELSE due[c] = "now"

\* Mutant: a row is claimed only when no token is on it, lapsed or not.
EligibleWithoutToken(lane, c) ==
  /\ leaseToken[c] = NoClaim
  /\ IF lane = "wake"
       THEN wakeDue[c] = "now" /\ due[c] # "null" /\ (~failing[c] \/ due[c] = "now")
       ELSE due[c] = "now"

\* buildEligibility.
Eligible(lane, c) ==
  /\ ~leased[c]
  /\ IF lane = "wake"
       THEN wakeDue[c] = "now" /\ due[c] # "null" /\ (~failing[c] \/ due[c] = "now")
       ELSE due[c] = "now"

\* The claimed row is due again when its lease ends, so a lost round is retried.
ClaimIngest(lane, t, c) ==
  /\ ~Running(t)
  /\ Eligible(lane, c)
  /\ due' = [due EXCEPT ![c] = "later"]
  /\ leased' = [leased EXCEPT ![c] = TRUE]
  /\ leaseToken' = [leaseToken EXCEPT ![c] = t]
  /\ claim' = [claim EXCEPT ![t] =
       [Idle EXCEPT !.stage = "claimed", !.calendar = c, !.wakeSeq = wakeSeq[c],
                    !.releaseSeq = releaseSeq[c], !.failing = failing[c]]]
  /\ UNCHANGED <<enabled, wakeDue, wakeSeq, failing, parked, releaseSeq, accountVars, served>>

-----------------------------------------------------------------------------
(* The read of a claimed calendar.                                          *)

\* runSourceIngest: the source row and its credential are read under the source lock.
\* A calendar that was disabled meanwhile is not found; the lock may be taken, and the
\* lock or a query that precedes the read may fail.
StartRead(t) ==
  LET c == claim[t].calendar IN
  /\ claim[t].stage = "claimed"
  /\ \/ /\ enabled[c]
        /\ claim' = [claim EXCEPT ![t].stage = "reading", ![t].grant = grant[AccountOf[c]]]
     \/ /\ ~enabled[c]
        /\ claim' = [claim EXCEPT ![t].stage = "applied", ![t].outcome = "unresolvable"]
     \/ \E o \in {"unattempted", "failed", "unbacked"} :
          claim' = [claim EXCEPT ![t].stage = "applied", ![t].outcome = o]
  /\ UNCHANGED <<rowVars, leaseVars, accountVars, served>>

FinishRead(t, o) ==
  /\ claim[t].stage = "reading"
  /\ o # "credential-rejected"
  /\ claim' = [claim EXCEPT ![t].stage = "settled", ![t].outcome = o]
  /\ UNCHANGED <<rowVars, leaseVars, accountVars, served>>

\* The token endpoint rejects the refresh token: the refresher raises the demand at
\* once and the read ends as credential-rejected.
RefreshRejected(t) ==
  LET a == AccountOf[claim[t].calendar] IN
  /\ claim[t].stage = "reading"
  /\ a \notin CalDAV
  /\ claim' = [claim EXCEPT ![t].stage = "settled", ![t].outcome = "credential-rejected"]
  /\ demand' = [demand EXCEPT ![a] = TRUE]
  /\ demandGrant' = [demandGrant EXCEPT ![a] = claim[t].grant]
  /\ UNCHANGED <<rowVars, leaseVars, reconnecting, grant, served>>

-----------------------------------------------------------------------------
(* The triggers that release rows: due now, not parked, not failing.        *)

\* release_account and release_caldav_credential.
ReleasedByAccount(a) ==
  {c \in Calendar : AccountOf[c] = a /\ (parked[c] = "credential-rejected" \/ failing[c])}

\* release_credential, on a rotated refresh token.
ReleasedByCredential(a) ==
  {c \in Calendar : AccountOf[c] = a /\ parked[c] = "credential-rejected"}

ReleaseRows(rows) ==
  /\ \A c \in rows : releaseSeq[c] < MaxReleases
  /\ due' = [c \in Calendar |-> IF c \in rows THEN "now" ELSE due[c]]
  /\ parked' = [c \in Calendar |-> IF c \in rows THEN "none" ELSE parked[c]]
  /\ failing' = [c \in Calendar |-> failing[c] /\ c \notin rows]
  /\ releaseSeq' = [c \in Calendar |->
                      IF c \in rows THEN releaseSeq[c] + 1 ELSE releaseSeq[c]]

ForgetDemand(a) ==
  /\ demand' = [demand EXCEPT ![a] = FALSE]
  /\ demandGrant' = [demandGrant EXCEPT ![a] = 0]

\* A refresh during the read that rotates the refresh token fires release_credential.
RefreshRotated(t) ==
  LET a == AccountOf[claim[t].calendar] IN
  /\ claim[t].stage = "reading"
  /\ a \notin CalDAV
  /\ ReleaseRows(ReleasedByCredential(a))
  /\ UNCHANGED <<enabled, wakeDue, wakeSeq, leaseVars, claim, accountVars, served>>

-----------------------------------------------------------------------------
(* applyReauthenticationDemands, when the reads of a group have settled.    *)

\* A rejected read raises the demand unless it stands already.
RaiseDemand(t) ==
  LET a == AccountOf[claim[t].calendar] IN
  /\ claim[t].stage = "settled"
  /\ claim[t].outcome \in {"credential-rejected", "request-rejected"}
  /\ demand' = [demand EXCEPT ![a] = TRUE]
  /\ demandGrant' = IF demand[a] THEN demandGrant
                    ELSE [demandGrant EXCEPT ![a] = claim[t].grant]
  /\ Applied(t)
  /\ UNCHANGED <<rowVars, leaseVars, reconnecting, grant, served>>

\* A successful read clears it, and clearing it fires release_account.
ClearDemand(t) ==
  LET a == AccountOf[claim[t].calendar] IN
  /\ claim[t].stage = "settled"
  /\ claim[t].outcome = "ingested"
  /\ ReleaseRows(IF demand[a] THEN ReleasedByAccount(a) ELSE {})
  /\ ForgetDemand(a)
  /\ Applied(t)
  /\ UNCHANGED <<enabled, wakeDue, wakeSeq, leaseVars, reconnecting, grant, served>>

\* An abstaining read, a rejected request on an account whose sibling still reads, and
\* a write that fails leave the demand as it is.
KeepDemand(t) ==
  /\ claim[t].stage = "settled"
  /\ Applied(t)
  /\ UNCHANGED <<rowVars, leaseVars, accountVars, served>>

-----------------------------------------------------------------------------
(* resolveIngestScheduleDecision and completeIngests.                       *)

Attempted(o) == o # "unattempted"

\* failureCount of the decision, from the count read when the row was claimed.
FailingAfter(o, before) ==
  CASE o = "ingested" -> FALSE
    [] o \in {"failed", "request-rejected", "credential-rejected"} -> TRUE
    [] OTHER -> before

\* Mutant: every outcome but success is stored as the reason.
ParkedAfterFailure(o) == IF o = "ingested" THEN "none" ELSE o

ParkedAfter(o) == IF o \in {"credential-rejected", "unresolvable"} THEN o ELSE "none"

\* Mutant: any attempted read consumes the wake, one that came during the read too.
ConsumesAnyWake(t) == Attempted(claim[t].outcome)

ConsumesWake(t) ==
  /\ Attempted(claim[t].outcome)
  /\ wakeSeq[claim[t].calendar] = claim[t].wakeSeq

\* Mutant: a release that came during the read is not noticed.
NeverReleased(t) == FALSE

\* A trigger has released or parked the row since it was claimed.
Released(t) == releaseSeq[claim[t].calendar] # claim[t].releaseSeq

\* An unattempted read leaves greatest(wakeDueAt, nextDue), which lies ahead even if no
\* wake was pending.
Complete(t) ==
  LET c == claim[t].calendar
      o == claim[t].outcome
  IN /\ claim[t].stage = "applied"
     /\ leaseToken[c] = t
     /\ IF Released(t)
          THEN UNCHANGED <<due, parked, failing>>
          ELSE /\ due' = [due EXCEPT ![c] = "later"]
               /\ parked' = [parked EXCEPT ![c] = ParkedAfter(o)]
               /\ failing' = [failing EXCEPT ![c] = FailingAfter(o, claim[t].failing)]
     /\ wakeDue' = [wakeDue EXCEPT ![c] =
          IF ConsumesWake(t) THEN "null"
          ELSE IF Attempted(o) THEN @ ELSE "later"]
     /\ leaseToken' = [leaseToken EXCEPT ![c] = NoClaim]
     /\ leased' = [leased EXCEPT ![c] = FALSE]
     /\ served' = [served EXCEPT ![c] = IF Attempted(o) THEN claim[t].wakeSeq ELSE @]
     /\ EndRound(t)
     /\ UNCHANGED <<enabled, wakeSeq, releaseSeq, accountVars>>

\* The row carries another token, or the write fails: the round is over and the row
\* waits for its lease to lapse.
CompletionDropped(t) ==
  /\ claim[t].stage = "applied"
  /\ EndRound(t)
  /\ UNCHANGED <<rowVars, leaseVars, accountVars, served>>

\* releaseIngests, when the scheduler stops before the round of t has ended.  The round
\* goes on in the dying process.
ReleaseClaim(t) ==
  LET c == claim[t].calendar IN
  /\ Running(t)
  /\ leaseToken[c] = t
  /\ due' = [due EXCEPT ![c] = IF parked[c] = "ineligible" THEN "null" ELSE "now"]
  /\ leaseToken' = [leaseToken EXCEPT ![c] = NoClaim]
  /\ leased' = [leased EXCEPT ![c] = FALSE]
  /\ claim' = [claim EXCEPT ![t].lapsed = TRUE]
  /\ UNCHANGED <<enabled, wakeDue, wakeSeq, failing, parked, releaseSeq, accountVars, served>>

Crash(t) ==
  /\ Running(t)
  /\ EndRound(t)
  /\ UNCHANGED <<rowVars, leaseVars, accountVars, served>>

-----------------------------------------------------------------------------
(* What happens to the row from outside the rounds.                         *)

\* wakeIngests, wakeUserIngests and the wake triggers; d is the debounced deadline.
WakeIngest(c, d) ==
  /\ due[c] # "null"
  /\ wakeSeq[c] < MaxWakes
  /\ wakeDue' = [wakeDue EXCEPT ![c] = IF @ = "now" THEN "now" ELSE d]
  /\ wakeSeq' = [wakeSeq EXCEPT ![c] = @ + 1]
  /\ UNCHANGED <<enabled, due, failing, parked, releaseSeq, leaseVars, claim, accountVars, served>>

\* Mutant: a re-enabled calendar is not made due.
EnableWithoutDue(c) ==
  /\ ~enabled[c]
  /\ releaseSeq[c] < MaxReleases
  /\ enabled' = [enabled EXCEPT ![c] = TRUE]
  /\ IF parked[c] = "ineligible"
       THEN /\ parked' = [parked EXCEPT ![c] = "none"]
            /\ releaseSeq' = [releaseSeq EXCEPT ![c] = @ + 1]
       ELSE UNCHANGED <<parked, releaseSeq>>
  /\ UNCHANGED <<due, wakeDue, wakeSeq, failing, leaseVars, claim, accountVars, served>>

\* track_calendar, on a calendar that becomes readable.
Enable(c) ==
  /\ ~enabled[c]
  /\ releaseSeq[c] < MaxReleases
  /\ enabled' = [enabled EXCEPT ![c] = TRUE]
  /\ IF parked[c] = "ineligible"
       THEN /\ due' = [due EXCEPT ![c] = "now"]
            /\ parked' = [parked EXCEPT ![c] = "none"]
            /\ releaseSeq' = [releaseSeq EXCEPT ![c] = @ + 1]
       ELSE UNCHANGED <<due, parked, releaseSeq>>
  /\ UNCHANGED <<wakeDue, wakeSeq, failing, leaseVars, claim, accountVars, served>>

\* track_calendar, on a calendar that stops being readable.
Disable(c) ==
  /\ enabled[c]
  /\ releaseSeq[c] < MaxReleases
  /\ enabled' = [enabled EXCEPT ![c] = FALSE]
  /\ due' = [due EXCEPT ![c] = "null"]
  /\ parked' = [parked EXCEPT ![c] = "ineligible"]
  /\ releaseSeq' = [releaseSeq EXCEPT ![c] = @ + 1]
  /\ UNCHANGED <<wakeDue, wakeSeq, failing, leaseVars, claim, accountVars, served>>

\* The user grants access again: the credential is stored first ...
StoreGrant(a) ==
  /\ a \notin CalDAV
  /\ grant[a] < MaxGrants
  /\ grant' = [grant EXCEPT ![a] = @ + 1]
  /\ reconnecting' = [reconnecting EXCEPT ![a] = TRUE]
  /\ ReleaseRows(ReleasedByCredential(a))
  /\ UNCHANGED <<enabled, wakeDue, wakeSeq, leaseVars, claim, demand, demandGrant, served>>

\* ... and a later transaction clears the demand.
SettleGrant(a) ==
  /\ reconnecting[a]
  /\ reconnecting' = [reconnecting EXCEPT ![a] = FALSE]
  /\ ForgetDemand(a)
  /\ ReleaseRows(IF demand[a] THEN ReleasedByAccount(a) ELSE {})
  /\ UNCHANGED <<enabled, wakeDue, wakeSeq, leaseVars, claim, grant, served>>

\* applyCalDAVReconnect does both in one transaction.
ReconnectCalDAV(a) ==
  /\ a \in CalDAV
  /\ ForgetDemand(a)
  /\ ReleaseRows(ReleasedByAccount(a))
  /\ UNCHANGED <<enabled, wakeDue, wakeSeq, leaseVars, claim, reconnecting, grant, served>>

DueArrives(c) ==
  /\ due[c] = "later"
  /\ due' = [due EXCEPT ![c] = "now"]
  /\ UNCHANGED <<enabled, wakeDue, wakeSeq, failing, parked, releaseSeq, leaseVars, claim,
                 accountVars, served>>

WakeArrives(c) ==
  /\ wakeDue[c] = "later"
  /\ wakeDue' = [wakeDue EXCEPT ![c] = "now"]
  /\ UNCHANGED <<enabled, due, wakeSeq, failing, parked, releaseSeq, leaseVars, claim,
                 accountVars, served>>

\* leasedUntil passes.  The token stays in the row until somebody claims it.
LeaseLapses(c) ==
  LET t == leaseToken[c] IN
  /\ leased[c]
  /\ leased' = [leased EXCEPT ![c] = FALSE]
  /\ claim' = IF t \in Claim /\ Reads(t, c)
                THEN [claim EXCEPT ![t].lapsed = TRUE] ELSE claim
  /\ UNCHANGED <<rowVars, leaseToken, accountVars, served>>

-----------------------------------------------------------------------------
ClaimSomewhere(c) == \E t \in Claim, lane \in {"fleet", "wake"} : ClaimIngest(lane, t, c)

Round(t) ==
  \/ StartRead(t) \/ RefreshRotated(t) \/ RefreshRejected(t)
  \/ (\E o \in Outcome : FinishRead(t, o))
  \/ RaiseDemand(t) \/ ClearDemand(t) \/ KeepDemand(t)
  \/ Complete(t) \/ CompletionDropped(t)

Clock(c) == DueArrives(c) \/ WakeArrives(c) \/ LeaseLapses(c)

Next ==
  \/ \E c \in Calendar :
       \/ ClaimSomewhere(c) \/ Clock(c) \/ Enable(c) \/ Disable(c)
       \/ \E d \in {"now", "later"} : WakeIngest(c, d)
  \/ \E t \in Claim : Round(t) \/ ReleaseClaim(t) \/ Crash(t)
  \/ \E a \in Account : StoreGrant(a) \/ SettleGrant(a) \/ ReconnectCalDAV(a)

Spec == Init /\ [][Next]_vars

\* Time passes, rounds end (every source has a timeout), and the lanes take the row that
\* is due longest first, so none is passed over for ever.
FairSpec ==
  /\ Spec
  /\ \A c \in Calendar :
       WF_vars(DueArrives(c)) /\ WF_vars(LeaseLapses(c)) /\ SF_vars(ClaimSomewhere(c))
  /\ \A t \in Claim : WF_vars(Round(t))

-----------------------------------------------------------------------------
\* Every variable has its type.
TypeOK ==
  /\ enabled \in [Calendar -> BOOLEAN]
  /\ due \in [Calendar -> Instant]
  /\ wakeDue \in [Calendar -> Instant]
  /\ wakeSeq \in [Calendar -> Nat]
  /\ failing \in [Calendar -> BOOLEAN]
  /\ parked \in [Calendar -> ParkedReason]
  /\ releaseSeq \in [Calendar -> Nat]
  /\ leaseToken \in [Calendar -> Claim \cup {NoClaim}]
  /\ leased \in [Calendar -> BOOLEAN]
  /\ claim \in [Claim -> ClaimRecord]
  /\ demand \in [Account -> BOOLEAN]
  /\ reconnecting \in [Account -> BOOLEAN]
  /\ grant \in [Account -> Nat]
  /\ served \in [Calendar -> Nat]
  /\ demandGrant \in [Account -> Nat]

\* Two rounds read one calendar at a time only if the lease of one has lapsed or was
\* given back, whatever a trigger makes of the row's due time during the read.
NoDoubleRead ==
  \A c \in Calendar : \A t, u \in Claim :
    Reads(t, c) /\ Reads(u, c) /\ t # u => claim[t].lapsed \/ claim[u].lapsed

\* A notification stays pending until a read that began after it has been recorded:
\* neither the completion of an older read nor a lost round drops it.
NoWakeLost ==
  \A c \in Calendar : wakeSeq[c] > served[c] => wakeDue[c] # "null"

\* An enabled calendar never falls out of the rotation, whichever rounds, releases and
\* triggers touch its row, so the loss of a round cannot strand it.
EnabledIsScheduled ==
  \A c \in Calendar : enabled[c] => due[c] # "null" /\ parked[c] # "ineligible"

\* Only a trigger on the calendar or on its account puts a parked calendar back: the
\* round that was reading it when it was parked does not, and a wake does not.
ParkedStaysParked ==
  [][\A c \in Calendar :
       due[c] = "null" /\ due'[c] # "null" => releaseSeq'[c] > releaseSeq[c]]_vars

\* An enabled calendar is read again and again: every round lost, dropped or rejected
\* on the way is followed by another claim.
EnabledIsClaimed ==
  \A c \in Calendar : enabled[c] /\ ~leased[c] ~> leased[c] \/ ~enabled[c]

\* Contradicted by release_account, which makes due every failing calendar of the
\* account: a calendar that is not readable is parked.
DisabledIsParked ==
  \A c \in Calendar : ~enabled[c] => due[c] = "null" /\ parked[c] = "ineligible"

\* Contradicted by a round that settles late: once the user has granted access again, a
\* demand is due to the new credential.
GrantSettlesDemand ==
  \A a \in Account \ CalDAV :
    demand[a] /\ ~reconnecting[a] => demandGrant[a] = grant[a]
=============================================================================
