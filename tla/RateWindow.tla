----------------------------- MODULE RateWindow -----------------------------
(* A sliding window of requests per minute shared through Redis, and the      *)
(* queue of those it has refused.                                             *)
(*   packages/calendar/src/core/utils/redis-rate-limiter.ts (the scripts and  *)
(*     createRedisRateLimiter)                                                *)
(* A script runs alone.  A waiter polls at least every QUEUE_POLL_CEILING_MS, *)
(* a third of QUEUE_HEAD_GRACE_MS, so a head that polls is never silent for   *)
(* the grace.  The score of a token is the clock of its client, read before   *)
(* the script runs, and ties go by the token: a token may land before others  *)
(* that joined earlier.  A waiter that was noted at the head and is then      *)
(* behind such a token is not taken off the notes by its polls.               *)
EXTENDS Naturals, Sequences, FiniteSets, SequencesExt

CONSTANTS Takers,          \* the calls of acquire on one key
          Need,            \* Need[t]: the requests it asks for
          LimitOf,         \* LimitOf[t]: requestsPerMinute of its limiter
          Interactive,     \* takers whose limiter has priority
          MaxPassed,       \* joins whose earlier clock lets them land before one token
          MaxStops         \* bound: takers that stop without leaving the queue

ASSUME RateWindowAssumption ==
  /\ Need \in [Takers -> Nat \ {0}] /\ LimitOf \in [Takers -> Nat]
  /\ \A t \in Takers : Need[t] <= LimitOf[t]
  /\ Interactive \subseteq Takers /\ MaxPassed \in Nat /\ MaxStops \in Nat

VARIABLES taker,           \* taker[t]: where the call is
          spent,           \* entries of the window's sorted set
          line,            \* the queue, by join score
          noticed,         \* tokens in the blocked set
          silent,          \* those of them noticed QUEUE_HEAD_GRACE_MS ago
          passed,          \* passed[t]: tokens that have joined before t's since it joined
          stops            \* bound: what is left of MaxStops

windowVars == <<taker, spent, line, noticed, silent, passed, stops>>

HasRoom(t) == spent + Need[t] <= LimitOf[t]
Living == {t \in Takers : taker[t] = "parked"}

RateWindowTypeOK ==
  /\ taker \in [Takers -> {"idle", "parked", "stopped"}]
  /\ spent \in Nat
  /\ line \in Seq(Takers) /\ IsInjective(line)
  /\ silent \subseteq noticed /\ noticed \subseteq ToSet(line)
  /\ passed \in [Takers -> 0..MaxPassed]
  /\ stops \in 0..MaxStops

RateWindowInit ==
  /\ taker = [t \in Takers |-> "idle"]
  /\ spent = 0 /\ line = <<>> /\ noticed = {} /\ silent = {}
  /\ passed = [t \in Takers |-> 0]
  /\ stops = MaxStops

----------------------------------------------------------------------------
(* ZREM: the queue without t, which is in it once or not at all.              *)
Without(s, t) == IF t \in ToSet(s) THEN RemoveAt(s, CHOOSE i \in DOMAIN s : s[i] = t) ELSE s

\* Mutant: a head is dropped before its grace has passed.
ReapedAtOnce(t) == IF line # <<>> /\ Head(line) # t /\ Head(line) \in noticed THEN Tail(line) ELSE line

(* headAfterReaping, for the caller t: a head other than t is noted the first *)
(* time, and dropped once the grace has passed.                               *)
Reaped(t) == IF line # <<>> /\ Head(line) # t /\ Head(line) \in silent THEN Tail(line) ELSE line
Noted(t) == IF line # <<>> /\ Head(line) # t
            THEN IF Head(line) \in silent THEN noticed \ {Head(line)} ELSE noticed \cup {Head(line)}
            ELSE noticed

(* A stopped taker that is dropped is gone.                                   *)
StoppedGone(reaped) == [t \in Takers |-> IF taker[t] = "stopped" /\ t \notin ToSet(reaped)
                                     THEN "idle" ELSE taker[t]]

(* Tokens that are no longer queued have been passed by none.                 *)
PassedIn(q) == [t \in Takers |-> IF t \in ToSet(q) THEN passed[t] ELSE 0]

(* The first call, without a token: granted when there is room and no queue.  *)
(* With no room the queue is not looked at.                                   *)
FirstCall(t) ==
  /\ taker[t] = "idle" /\ t \notin Interactive
  /\ IF HasRoom(t)
     THEN LET reaped == Reaped(t) IN
          /\ line' = reaped
          /\ noticed' = Noted(t)
          /\ silent' = silent \cap ToSet(reaped)
          /\ passed' = PassedIn(reaped)
          /\ taker' = [StoppedGone(reaped) EXCEPT ![t] = IF reaped = <<>> THEN "idle" ELSE "parked"]
          /\ spent' = IF reaped = <<>> THEN spent + Need[t] ELSE spent
     ELSE /\ taker' = [taker EXCEPT ![t] = "parked"]
          /\ UNCHANGED <<spent, line, noticed, silent, passed>>
  /\ UNCHANGED stops

(* ZADD NX: where the token of t lands in queue q, before tokens that the     *)
(* clocks' skew still lets it pass.                                           *)
Landings(q) == {i \in 1..Len(q) + 1 : \A j \in i..Len(q) : passed[q[j]] < MaxPassed}
Joined(q, t) == IF t \in ToSet(q) THEN {q} ELSE {InsertAt(q, i, t) : i \in Landings(q)}

Behind(q, t, s) == \E i, j \in 1..Len(q) : q[i] = t /\ q[j] = s /\ i < j

(* A later call, with its token: the head's poll is its proof of life.        *)
QueuedCall(t) ==
  LET reaped == Reaped(t)
      atHead == reaped = <<>> \/ Head(reaped) = t
      left == IF reaped # <<>> /\ Head(reaped) = t THEN {t} ELSE {}
      granted == atHead /\ HasRoom(t)
  IN  /\ taker[t] = "parked" /\ t \notin Interactive
      /\ line' \in IF granted THEN {Without(reaped, t)} ELSE Joined(reaped, t)
      /\ passed' = [s \in Takers |-> IF t \notin ToSet(line) /\ Behind(line', t, s)
                                     THEN passed[s] + 1 ELSE PassedIn(line')[s]]
      /\ noticed' = (Noted(t) \ left) \cap ToSet(line')
      /\ silent' = (silent \ left) \cap ToSet(line')
      /\ spent' = IF granted THEN spent + Need[t] ELSE spent
      /\ taker' = [StoppedGone(line') EXCEPT ![t] = IF granted THEN "idle" ELSE "parked"]
      /\ UNCHANGED stops

(* PRIORITY_ACQUIRE_SCRIPT knows no queue; an interactive call gives up.      *)
InteractiveCall(t) ==
  /\ t \in Interactive
  /\ HasRoom(t)
  /\ spent' = spent + Need[t]
  /\ stops > 0 /\ stops' = stops - 1
  /\ UNCHANGED <<taker, line, noticed, silent, passed>>

(* The signal fires while it sleeps: LEAVE_QUEUE_SCRIPT.                      *)
LeaveQueue(t) ==
  /\ taker[t] = "parked"
  /\ taker' = [taker EXCEPT ![t] = "idle"]
  /\ line' = Without(line, t)
  /\ noticed' = noticed \ {t}
  /\ silent' = silent \ {t}
  /\ passed' = [passed EXCEPT ![t] = 0]
  /\ UNCHANGED <<spent, stops>>

(* The process dies, or the script that leaves the queue fails.               *)
StopPolling(t) ==
  /\ taker[t] = "parked"
  /\ stops > 0 /\ stops' = stops - 1
  /\ taker' = [taker EXCEPT ![t] = IF t \in ToSet(line) THEN "stopped" ELSE "idle"]
  /\ UNCHANGED <<spent, line, noticed, silent, passed>>

(* Of those who poll, the note of a head goes with its next poll; that of one *)
(* who has been passed stays, however often it polls.                         *)
GracePasses(t) ==
  /\ t \in noticed \ silent
  /\ taker[t] = "stopped" \/ t # Head(line)
  /\ silent' = silent \cup {t}
  /\ UNCHANGED <<taker, spent, line, noticed, passed, stops>>

(* An entry is a minute old.                                                  *)
EntryExpires ==
  /\ spent > 0
  /\ spent' = spent - 1
  /\ UNCHANGED <<taker, line, noticed, silent, passed, stops>>

----------------------------------------------------------------------------
RateWindowNext ==
  \/ \E t \in Takers : \/ FirstCall(t) \/ QueuedCall(t) \/ InteractiveCall(t)
                       \/ LeaveQueue(t) \/ StopPolling(t) \/ GracePasses(t)
  \/ EntryExpires

(* Waiters poll, and time passes for entries and for the silent.              *)
RateWindowFairness ==
  /\ \A t \in Takers : WF_windowVars(QueuedCall(t) \/ GracePasses(t))
  /\ WF_windowVars(EntryExpires)

RateWindowSpec == RateWindowInit /\ [][RateWindowNext]_windowVars
RateWindowFairSpec == RateWindowSpec /\ RateWindowFairness

----------------------------------------------------------------------------
(* A waiter that polls and that no token has passed is never dropped from the  *)
(* queue: only its own grant or departure takes it out.  One that was noted at *)
(* the head and passed there may be dropped while it polls, and joins again.   *)
LivingKeepTheirPlace ==
  [][\A t \in Living \cap ToSet(line) :
       t \notin ToSet(line') => taker'[t] = "idle" \/ passed[t] > 0]_windowVars

(* A call that is granted overtakes no one who stands before it and still      *)
(* polls: not a newcomer that would fit where the head does not, and not when  *)
(* a silent head is dropped between the two - unless that head is one that has *)
(* been passed.                                                                *)
NoLivingOvertaken ==
  [][(spent' > spent /\ stops' = stops) =>
       LET granted == {t \in Living : taker'[t] = "idle"}
           dropped == {t \in Living : passed[t] > 0 /\ t \notin ToSet(line')} IN
       \A q \in (Living \cap ToSet(line)) \ (granted \cup dropped) :
         \E t \in granted : Behind(line, t, q)]_windowVars

(* Whoever polls is served, a large request too: small ones cannot slip past   *)
(* it, and a head that has stopped is got rid of.  Only joins that pass it     *)
(* again and again, each time it has joined again, can keep it waiting.        *)
WindowServes ==
  \A t \in Takers : \/ []<>(taker[t] # "parked")
                    \/ []<>(passed[t] = 0) /\ []<>(passed[t] > 0)

(* The window is fair: no living waiter is overtaken or dropped by one that    *)
(* came after it, but for the passed.                                          *)
WindowIsFair == NoLivingOvertaken /\ LivingKeepTheirPlace
=============================================================================
