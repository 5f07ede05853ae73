---------------------------- MODULE SyncPromise ----------------------------
(* What the push queue promises the caller who changed something and asked   *)
(* for a push: every destination the change reaches gets a run that begins   *)
(* after the change and is not taken back, unless the promise was visibly    *)
(* lost (a caller or a worker died) or the destination is paused.  No queue, *)
(* no request row, no acknowledgement: those are how PushQueue keeps it.     *)
(* What the run does is not promised here: it may push, it may skip a        *)
(* destination in backoff, and it may fail.                                  *)
CONSTANT Destinations     \* the destination calendars of one user

VARIABLES owed,           \* owed[d]: a change since which no run of d has begun
          lost,           \* lost[d]: nobody asked, or a fault undid the asking
          paused          \* the destinations the user has paused

promiseVars == <<owed, lost, paused>>

PromiseInit == /\ owed = [d \in Destinations |-> FALSE]
               /\ lost = [d \in Destinations |-> FALSE]
               /\ paused = {}

(* A change reaches every destination, and whoever made it asks for a push:  *)
(* the promise is made anew.                                                 *)
PromiseAsk == /\ owed' = [d \in Destinations |-> TRUE]
              /\ lost' = [d \in Destinations |-> FALSE]
              /\ UNCHANGED paused

(* A change for which nobody asks: the promises that stood before still do.  *)
PromiseUnasked == /\ owed' = [d \in Destinations |-> TRUE]
                  /\ lost' = [d \in Destinations |-> lost[d] \/ ~owed[d]]
                  /\ UNCHANGED paused

(* A run of d begins while one is owed.                                      *)
PromiseServe(d) == /\ owed[d]
                   /\ owed' = [owed EXCEPT ![d] = FALSE]
                   /\ lost' = [lost EXCEPT ![d] = FALSE]
                   /\ UNCHANGED paused

(* A run of d that had begun is taken back or cut short.                     *)
PromiseReopen(d) == /\ owed' = [owed EXCEPT ![d] = TRUE]
                    /\ \/ UNCHANGED lost
                       \/ lost' = [lost EXCEPT ![d] = TRUE]
                    /\ UNCHANGED paused

(* A fault between a change and its run; lost promises are named in lost.    *)
PromiseLose == /\ lost' \in [Destinations -> BOOLEAN]
               /\ \A d \in Destinations : lost[d] => lost'[d]
               /\ UNCHANGED <<owed, paused>>

(* A run that begins while none is owed clears an old loss.                  *)
PromiseIdleRun(d) == /\ ~owed[d]
                     /\ lost' = [lost EXCEPT ![d] = FALSE]
                     /\ UNCHANGED <<owed, paused>>

PromisePause(d) == /\ paused' = paused \cup {d}
                   /\ UNCHANGED <<owed, lost>>

(* Nothing is asked for a destination that resumes: it waits for the tick.   *)
PromiseResume(d) == /\ paused' = paused \ {d}
                    /\ lost' = [lost EXCEPT ![d] = TRUE]
                    /\ UNCHANGED owed

PromiseNext == \/ PromiseAsk
               \/ PromiseUnasked
               \/ PromiseLose
               \/ \E d \in Destinations :
                    \/ PromiseServe(d)
                    \/ PromiseReopen(d)
                    \/ PromiseIdleRun(d)
                    \/ PromisePause(d)
                    \/ PromiseResume(d)

(* A promise that stands is kept: neither lost nor paused, d gets its run.   *)
KeptServe(d) == /\ ~lost[d]
                /\ d \notin paused
                /\ PromiseServe(d)

PromiseSafety == PromiseInit /\ [][PromiseNext]_promiseVars

PromiseSpec == /\ PromiseSafety
               /\ \A d \in Destinations : WF_promiseVars(KeptServe(d))
=============================================================================
