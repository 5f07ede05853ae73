------------------------------ MODULE SyncLock ------------------------------
(***************************************************************************)
(* The Redis lock that serialises the runs over one calendar               *)
(* (packages/sync/src/sync-lock.ts).  Each calendar has three Redis keys:  *)
(* the lock, the signal (the latest waiter) and the stack of waiters.      *)
(* Every Lua script is one atomic step; between two scripts the caller is  *)
(* suspended in an await and any other caller, an expiry, an abort or a    *)
(* crash may come in between.                                              *)
(*                                                                         *)
(* A request is one call of acquire: it owns a fresh holder id, so the     *)
(* model identifies the two.  Keys are calendar ids, the id of the         *)
(* mapping-mutation lock of a user among them.                             *)
(***************************************************************************)
EXTENDS Naturals, Sequences, FiniteSets

CONSTANTS
  Request,       \* calls of acquire, each with its own holder id
  Key,           \* calendar ids that are locked
  KeyOf,         \* KeyOf[r]: the calendar id passed to acquire
  Blocker,       \* Blocker[r]: the blockerCalendarId passed, or NoKey
  Preempting,    \* requests of the class "preempting"; others are "background"
  MayStall,      \* requests whose renewal may stop for longer than the lock TTL
  MayCrash,      \* requests whose process may die
  NoKey,
  NoRequest

ASSUME RequestAssumption ==
  /\ NoRequest \notin Request
  /\ NoKey \notin Key
  /\ KeyOf \in [Request -> Key]
  /\ Blocker \in [Request -> Key \cup {NoKey}]
  /\ Preempting \subseteq Request
  /\ MayStall \subseteq Request
  /\ MayCrash \subseteq Request

VARIABLES
  lock,      \* lock[k]: the holder id stored under the lock key
  signal,    \* signal[k]: the latest waiter
  waiters,   \* waiters[k]: the waiter stack, newest first
  pc,        \* pc[r]: where the call stands
  result,    \* result[r]: the local `result` of the polling loop, "none" before it
  aborted,   \* aborted[r]: the caller's AbortSignal has fired
  late,      \* late[r]: pollDeadline has passed
  renewErr,  \* renewErr[r]: renewalState holds an error
  outcome,   \* outcome[r]: how the call or the run of its holder ended
  lost,      \* history: the lock of r expired while its process was alive
  covered    \* history: another request was confirmed on the key after r asked

redisVars == <<lock, signal, waiters>>
vars == <<lock, signal, waiters, pc, result, aborted, late, renewErr, outcome,
          lost, covered>>

\* Program points of a call of acquire and of the life of its handle.
Polling == {"poll", "getSignal", "getLock", "reacquire"}
Stages == {"idle", "acquire", "provisional", "confirm", "cancel", "finally",
           "held", "release", "done", "crashed"} \cup Polling
Outcomes == {"none", "skipped", "unconfirmed", "aborted", "timeout", "acquired",
             "superseded", "renewalFailed", "finished"}

\* A process that still runs the call or holds the handle.
Alive(r) == pc[r] \notin {"idle", "done", "crashed"}

-----------------------------------------------------------------------------
(* The Redis commands the scripts use on the waiter stack.  LPUSH is always *)
(* preceded by LREM of the same id, so an id occurs at most once.           *)

Members(s) == {s[i] : i \in 1..Len(s)}

LRem(s, r) ==
  IF r \notin Members(s) THEN s
  ELSE LET at == CHOOSE i \in 1..Len(s) : s[i] = r
       IN [i \in 1..(Len(s) - 1) |-> IF i < at THEN s[i] ELSE s[i + 1]]

LPush(s, r) == <<r>> \o s

LIndex0(s) == IF s = <<>> THEN NoRequest ELSE s[1]

-----------------------------------------------------------------------------
Init ==
  /\ lock = [k \in Key |-> NoRequest]
  /\ signal = [k \in Key |-> NoRequest]
  /\ waiters = [k \in Key |-> <<>>]
  /\ pc = [r \in Request |-> "idle"]
  /\ result = [r \in Request |-> "none"]
  /\ aborted = [r \in Request |-> FALSE]
  /\ late = [r \in Request |-> FALSE]
  /\ renewErr = [r \in Request |-> FALSE]
  /\ outcome = [r \in Request |-> "none"]
  /\ lost = [r \in Request |-> FALSE]
  /\ covered = [r \in Request |-> FALSE]

Goto(r, stage) == pc' = [pc EXCEPT ![r] = stage]
End(r, why) == outcome' = [outcome EXCEPT ![r] = why]

\* acquire() is called; an already aborted signal returns before any script runs.
Call(r) ==
  /\ pc[r] = "idle"
  /\ IF aborted[r]
       THEN Goto(r, "done") /\ End(r, "aborted")
       ELSE Goto(r, "acquire") /\ UNCHANGED outcome
  /\ UNCHANGED <<lock, signal, waiters, result, aborted, late, renewErr, lost, covered>>

\* ACQUIRE_OR_SIGNAL_SCRIPT, for the first attempt and for every later one.
IsBlocked(r) == Blocker[r] # NoKey /\ lock[Blocker[r]] # NoRequest

\* Mutant: LPUSH without the LREM that precedes it.
PushWithoutRemoval(r) ==
  LET k == KeyOf[r] IN
  /\ waiters' = [waiters EXCEPT ![k] = LPush(@, r)]
  /\ signal' = [signal EXCEPT ![k] = r]

PushWaiter(r) ==
  LET k == KeyOf[r] IN
  /\ waiters' = [waiters EXCEPT ![k] = LPush(LRem(@, r), r)]
  /\ signal' = [signal EXCEPT ![k] = r]

AcquireBlocked(r) ==
  /\ pc[r] \in {"acquire", "reacquire"}
  /\ IsBlocked(r)
  /\ result' = [result EXCEPT ![r] = "blocked"]
  /\ Goto(r, "poll")
  /\ UNCHANGED <<redisVars, aborted, late, renewErr, outcome, lost, covered>>

AcquireFree(r) ==
  /\ pc[r] \in {"acquire", "reacquire"}
  /\ ~IsBlocked(r)
  /\ lock[KeyOf[r]] = NoRequest
  /\ PushWaiter(r)
  /\ lock' = [lock EXCEPT ![KeyOf[r]] = r]
  /\ Goto(r, "provisional")
  /\ UNCHANGED <<result, aborted, late, renewErr, outcome, lost, covered>>

AcquireQueued(r) ==
  /\ pc[r] \in {"acquire", "reacquire"}
  /\ ~IsBlocked(r)
  /\ lock[KeyOf[r]] # NoRequest
  /\ PushWaiter(r)
  /\ result' = [result EXCEPT ![r] = "queued"]
  /\ Goto(r, "poll")
  /\ UNCHANGED <<lock, aborted, late, renewErr, outcome, lost, covered>>

\* createConfirmedHandle reads the abort signal before it sends the confirmation.
CheckProvisional(r) ==
  /\ pc[r] = "provisional"
  /\ IF aborted[r]
       THEN Goto(r, "cancel") /\ End(r, "aborted")
       ELSE Goto(r, "confirm") /\ UNCHANGED outcome
  /\ UNCHANGED <<redisVars, result, aborted, late, renewErr, lost, covered>>

\* CONFIRM_ACQUISITION_SCRIPT: commit only if no newer waiter has pushed itself,
\* and drop every older waiter together with the signal.
Confirmable(r) ==
  LET k == KeyOf[r] IN
  /\ lock[k] = r
  /\ signal[k] = r
  /\ LIndex0(waiters[k]) = r

\* Those who pushed themselves on the stack after r: none when r is the head.
NewerThan(r) ==
  LET s == waiters[KeyOf[r]]
  IN  {s[i] : i \in {j \in 1..Len(s) : \A l \in 1..j : s[l] # r}}

\* Requests whose first attempt has reached Redis.
Registered(r) == pc[r] \notin {"idle", "acquire"}

Confirm(r) ==
  /\ pc[r] = "confirm"
  /\ Confirmable(r)
  /\ signal' = [signal EXCEPT ![KeyOf[r]] = NoRequest]
  /\ waiters' = [waiters EXCEPT ![KeyOf[r]] = <<>>]
  /\ covered' = [q \in Request |->
                   \/ covered[q]
                   \/ /\ q # r /\ KeyOf[q] = KeyOf[r] /\ Registered(q)
                      /\ q \notin NewerThan(r)]
  /\ Goto(r, "held")
  /\ End(r, "acquired")
  /\ UNCHANGED <<lock, result, aborted, late, renewErr, lost>>

ConfirmFails(r) ==
  /\ pc[r] = "confirm"
  /\ ~Confirmable(r)
  /\ Goto(r, "cancel")
  /\ End(r, "unconfirmed")
  /\ UNCHANGED <<redisVars, result, aborted, late, renewErr, lost, covered>>

\* Mutant: the cancelled waiter deletes the signal instead of promoting the next one.
CancelWithoutPromotion(r) ==
  LET k == KeyOf[r] IN
  /\ lock' = IF lock[k] = r THEN [lock EXCEPT ![k] = NoRequest] ELSE lock
  /\ waiters' = [waiters EXCEPT ![k] = LRem(@, r)]
  /\ signal' = [signal EXCEPT ![k] = NoRequest]

\* Mutant: the lock key is deleted whoever holds it.
CancelDeletesAnyLock(r) ==
  LET k == KeyOf[r]
      rest == LRem(waiters[k], r)
  IN /\ lock' = [lock EXCEPT ![k] = NoRequest]
     /\ waiters' = [waiters EXCEPT ![k] = rest]
     /\ signal' = [signal EXCEPT ![k] = LIndex0(rest)]

\* Mutant: the whole stack is deleted with the cancelled waiter.
CancelDropsStack(r) ==
  LET k == KeyOf[r] IN
  /\ lock' = IF lock[k] = r THEN [lock EXCEPT ![k] = NoRequest] ELSE lock
  /\ waiters' = [waiters EXCEPT ![k] = <<>>]
  /\ signal' = [signal EXCEPT ![k] = NoRequest]

\* CANCEL_WAITER_SCRIPT: give up the lock if held, leave the stack, and make the
\* previous waiter the signalled one.
CancelWaiter(r) ==
  LET k == KeyOf[r]
      rest == LRem(waiters[k], r)
  IN /\ lock' = IF lock[k] = r THEN [lock EXCEPT ![k] = NoRequest] ELSE lock
     /\ waiters' = [waiters EXCEPT ![k] = rest]
     /\ signal' = [signal EXCEPT ![k] = LIndex0(rest)]

\* cancelWaiter from createConfirmedHandle; inside the polling loop the finally
\* block cancels once more.
CancelProvisional(r) ==
  /\ pc[r] = "cancel"
  /\ CancelWaiter(r)
  /\ Goto(r, IF result[r] = "none" THEN "done" ELSE "finally")
  /\ UNCHANGED <<result, aborted, late, renewErr, outcome, lost, covered>>

CancelFinally(r) ==
  /\ pc[r] = "finally"
  /\ CancelWaiter(r)
  /\ Goto(r, "done")
  /\ UNCHANGED <<result, aborted, late, renewErr, outcome, lost, covered>>

\* Mutant: the loop has no deadline.
PollStopsOnAbort(r) ==
  /\ pc[r] = "poll"
  /\ aborted[r]
  /\ Goto(r, "finally")
  /\ End(r, "aborted")
  /\ UNCHANGED <<redisVars, result, aborted, late, renewErr, lost, covered>>

\* One turn of the polling loop: deadline, abort signal, then the signal key
\* (skipped while the last answer was "blocked"), then the lock key.
PollStops(r) ==
  /\ pc[r] = "poll"
  /\ late[r] \/ aborted[r]
  /\ Goto(r, "finally")
  /\ End(r, IF late[r] THEN "timeout" ELSE "aborted")
  /\ UNCHANGED <<redisVars, result, aborted, late, renewErr, lost, covered>>

PollContinues(r) ==
  /\ pc[r] = "poll"
  /\ ~late[r] /\ ~aborted[r]
  /\ Goto(r, IF result[r] = "blocked" THEN "reacquire" ELSE "getSignal")
  /\ UNCHANGED <<redisVars, result, aborted, late, renewErr, outcome, lost, covered>>

GetSignal(r) ==
  LET currentWaiter == signal[KeyOf[r]] IN
  /\ pc[r] = "getSignal"
  /\ IF currentWaiter = NoRequest
       THEN Goto(r, "finally") /\ End(r, "skipped")
       ELSE /\ Goto(r, IF currentWaiter = r THEN "getLock" ELSE "poll")
            /\ UNCHANGED outcome
  /\ UNCHANGED <<redisVars, result, aborted, late, renewErr, lost, covered>>

GetLock(r) ==
  /\ pc[r] = "getLock"
  /\ Goto(r, IF lock[KeyOf[r]] = NoRequest THEN "reacquire" ELSE "poll")
  /\ UNCHANGED <<redisVars, result, aborted, late, renewErr, outcome, lost, covered>>

-----------------------------------------------------------------------------
(* The handle of a confirmed request.                                       *)

\* Mutant: the signal key is read instead of the stack.
IsCurrentBySignal(r) ==
  LET k == KeyOf[r] IN
  /\ lock[k] = r
  /\ signal[k] = r \/ signal[k] \notin Preempting

\* IS_CURRENT_SCRIPT: still the holder, and no preempting waiter in the stack.
IsCurrent(r) ==
  LET k == KeyOf[r] IN
  /\ lock[k] = r
  /\ \A w \in Members(waiters[k]) : w = r \/ w \notin Preempting

\* The comparison with which RELEASE_SCRIPT begins.
HoldsLock(r) == lock[KeyOf[r]] = r

\* The renewal timer runs RENEW_SCRIPT; a Redis error is kept in renewalState until
\* a later renewal succeeds.
RenewFails(r) ==
  /\ pc[r] = "held"
  /\ r \in MayStall
  /\ renewErr' = [renewErr EXCEPT ![r] = TRUE]
  /\ UNCHANGED <<redisVars, pc, result, aborted, late, outcome, lost, covered>>

RenewSucceeds(r) ==
  /\ pc[r] = "held"
  /\ renewErr' = [renewErr EXCEPT ![r] = FALSE]
  /\ UNCHANGED <<redisVars, pc, result, aborted, late, outcome, lost, covered>>

\* isCurrent and isHeld throw while a renewal error is recorded; otherwise isCurrent
\* answers with its script, and a run that is not current any more stops and releases.
StopRun(r) ==
  /\ pc[r] = "held"
  /\ renewErr[r] \/ ~IsCurrent(r)
  /\ Goto(r, "release")
  /\ End(r, IF renewErr[r] THEN "renewalFailed" ELSE "superseded")
  /\ UNCHANGED <<redisVars, result, aborted, late, renewErr, lost, covered>>

FinishRun(r) ==
  /\ pc[r] = "held"
  /\ Goto(r, "release")
  /\ End(r, "finished")
  /\ UNCHANGED <<redisVars, result, aborted, late, renewErr, lost, covered>>

\* RELEASE_SCRIPT.
Release(r) ==
  /\ pc[r] = "release"
  /\ lock' = IF HoldsLock(r) THEN [lock EXCEPT ![KeyOf[r]] = NoRequest] ELSE lock
  /\ Goto(r, "done")
  /\ UNCHANGED <<signal, waiters, result, aborted, late, renewErr, outcome, lost, covered>>

-----------------------------------------------------------------------------
(* What the caller does not control.                                        *)

Abort(r) ==
  /\ pc[r] \in Polling \cup {"idle", "acquire", "provisional"}
  /\ ~aborted[r]
  /\ aborted' = [aborted EXCEPT ![r] = TRUE]
  /\ UNCHANGED <<redisVars, pc, result, late, renewErr, outcome, lost, covered>>

DeadlinePasses(r) ==
  /\ pc[r] \in Polling
  /\ ~late[r]
  /\ late' = [late EXCEPT ![r] = TRUE]
  /\ UNCHANGED <<redisVars, pc, result, aborted, renewErr, outcome, lost, covered>>

\* The process of r dies, or a script's reply is lost and acquire or release rejects
\* without another script: what r left in Redis stays until it expires.
Crash(r) ==
  /\ r \in MayCrash
  /\ Alive(r)
  /\ Goto(r, "crashed")
  /\ UNCHANGED <<redisVars, result, aborted, late, renewErr, outcome, lost, covered>>

\* LOCK_TTL_SECONDS pass without a renewal: nobody renews for a dead process, and a
\* live one may be paused or cut off from Redis (MayStall).
LockExpires(k) ==
  LET r == lock[k] IN
  /\ r # NoRequest
  /\ pc[r] = "crashed" \/ (r \in MayStall /\ Alive(r))
  /\ lock' = [lock EXCEPT ![k] = NoRequest]
  /\ lost' = [lost EXCEPT ![r] = Alive(r)]
  /\ UNCHANGED <<signal, waiters, pc, result, aborted, late, renewErr, outcome, covered>>

\* SIGNAL_TTL_SECONDS pass.  Signal and stack get the same TTL in the same script, and
\* it exceeds the longest wait, so they outlive every waiter that is still polling.
WaitersExpire(k) ==
  /\ waiters[k] # <<>>
  /\ \A w \in Members(waiters[k]) : pc[w] = "crashed"
  /\ signal' = [signal EXCEPT ![k] = NoRequest]
  /\ waiters' = [waiters EXCEPT ![k] = <<>>]
  /\ UNCHANGED <<lock, pc, result, aborted, late, renewErr, outcome, lost, covered>>

-----------------------------------------------------------------------------
\* The steps acquire takes by itself.
Attempt(r) == AcquireBlocked(r) \/ AcquireFree(r) \/ AcquireQueued(r)

Poll(r) == PollStops(r) \/ PollContinues(r) \/ GetSignal(r) \/ GetLock(r)

Settle(r) ==
  CheckProvisional(r) \/ Confirm(r) \/ ConfirmFails(r)
    \/ CancelProvisional(r) \/ CancelFinally(r)

Acquiring(r) == Call(r) \/ Attempt(r) \/ Poll(r) \/ Settle(r)

Holding(r) ==
  RenewFails(r) \/ RenewSucceeds(r) \/ StopRun(r) \/ FinishRun(r) \/ Release(r)

Environment(r) == Abort(r) \/ DeadlinePasses(r) \/ Crash(r)

Next ==
  \/ \E r \in Request : Acquiring(r) \/ Holding(r) \/ Environment(r)
  \/ \E k \in Key : LockExpires(k) \/ WaitersExpire(k)

Spec == Init /\ [][Next]_vars

\* A live call keeps running, poll deadlines pass, a run asks isCurrent between two
\* pieces of work and releases when it ends, and the lock of a dead process expires.
Fairness ==
  /\ \A r \in Request :
       /\ WF_vars(Attempt(r) \/ Poll(r) \/ Settle(r))
       /\ WF_vars(DeadlinePasses(r))
       /\ WF_vars(StopRun(r))
       /\ WF_vars(Release(r))
  /\ \A k \in Key :
       WF_vars(lock[k] # NoRequest /\ pc[lock[k]] = "crashed" /\ LockExpires(k))

FairSpec == Spec /\ Fairness

\* The same calls when nobody aborts or gives up: each waits as long as it takes.
PatientNext == \E r \in Request : Acquiring(r) \/ Holding(r)

\* Runs of preempting requests end, background runs go on until they are told to stop.
BusyStep(r) == \/ Attempt(r) \/ Poll(r) \/ Settle(r)
               \/ StopRun(r) \/ (r \in Preempting /\ FinishRun(r)) \/ Release(r)

BusySpec == Init /\ [][PatientNext]_vars /\ \A r \in Request : WF_vars(BusyStep(r))

-----------------------------------------------------------------------------
\* acquire returned a handle for r.
WasGranted(r) == outcome[r] \in {"acquired", "superseded", "finished"}

NoDuplicates(s) == \A i, j \in 1..Len(s) : s[i] = s[j] => i = j

\* Every variable has its type, and the stack holds an id at most once.
TypeOK ==
  /\ lock \in [Key -> Request \cup {NoRequest}]
  /\ signal \in [Key -> Request \cup {NoRequest}]
  /\ waiters \in [Key -> Seq(Request)]
  /\ \A k \in Key : NoDuplicates(waiters[k])
  /\ pc \in [Request -> Stages]
  /\ result \in [Request -> {"none", "blocked", "queued"}]
  /\ aborted \in [Request -> BOOLEAN]
  /\ late \in [Request -> BOOLEAN]
  /\ renewErr \in [Request -> BOOLEAN]
  /\ outcome \in [Request -> Outcomes]
  /\ lost \in [Request -> BOOLEAN]
  /\ covered \in [Request -> BOOLEAN]

\* The signal key always names the top of the waiter stack, so a waiter that finds no
\* signal knows that nobody waits (get signalKey in acquire).
SignalIsHead == \A k \in Key : signal[k] = LIndex0(waiters[k])

Owning == {"provisional", "confirm", "held", "release"}

\* A handle tells the truth: isHeld is false exactly when the lease has lapsed under a
\* live process.  In particular nobody but the holder or the TTL takes the key away,
\* and a lapsed holder's release leaves its successor's lock alone.
HeldIsTruthful ==
  \A r \in Request : pc[r] \in Owning => (HoldsLock(r) <=> ~lost[r])

\* Two runs over one calendar overlap only if one of them has outlived its lease.
MutualExclusion ==
  \A q, r \in Request :
    /\ KeyOf[q] = KeyOf[r]
    /\ pc[q] = "held" /\ pc[r] = "held"
    /\ ~lost[q] /\ ~lost[r]
    => q = r

Queued(r) == pc[r] \in Polling /\ result[r] = "queued"

\* A live waiter stays in the stack until a run that began after it asked has been
\* confirmed: no interleaving of replacement, cancellation and expiry forgets it.
NoWaiterForgotten ==
  \A r \in Request :
    Queued(r) /\ ~covered[r] => r \in Members(waiters[KeyOf[r]])

\* A call that gives up because it found no signal was overtaken by a confirmed run.
SkippedIsCovered ==
  \A r \in Request : outcome[r] = "skipped" => covered[r]

\* A preempting waiter is visible to the holder however many background waiters queue
\* behind it: isCurrent is false for every run it waits for.
PreemptorVisible ==
  \A h, p \in Request :
    /\ pc[h] = "held" /\ h # p /\ KeyOf[h] = KeyOf[p]
    /\ p \in Preempting /\ Queued(p) /\ ~covered[p]
    => ~IsCurrent(h)

\* A confirmation that fails while the lease is intact fails because of a newer waiter.
RevokedByNewerWaiter ==
  [][\A r \in Request :
       pc[r] = "confirm" /\ pc'[r] = "cancel" /\ ~lost[r]
         => LIndex0(waiters[KeyOf[r]]) \notin {r, NoRequest}]_vars

\* Every call of acquire returns, whatever the other callers do, even when the newest
\* waiter has died and leaves the others waiting for a signal that never comes: a
\* request is one call, so in the end nobody is inside acquire any more.
AcquireReturns ==
  <>[](\A r \in Request : pc[r] \in {"idle", "held", "release", "done", "crashed"})

Served(r) == covered[r] \/ WasGranted(r)

\* A preempting request is served even if background runs never end by themselves:
\* the holder stops for it, or a run that began after it asked has taken its place.
\* The latter counts as served although its acquire may then answer acquired: false, and
\* the caller has to ask again.
PreemptorServed ==
  \A p \in Preempting : <>[](Registered(p) => Served(p))

\* When nobody aborts, times out or dies, every request that registers gets the lock
\* or is followed by a confirmed run that began after it asked, unless a background
\* run goes on for ever.
EveryRequestServed ==
  \A r \in Request :
    \/ <>[](Registered(r) => Served(r))
    \/ <>[](\E h \in Request \ Preempting : pc[h] = "held")

\* While runs come for ever, preempting callers are served, and so is everyone whom
\* no run that is under way keeps waiting.
LockServes == PreemptorServed /\ EveryRequestServed
=============================================================================
