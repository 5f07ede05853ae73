----------------------------- MODULE MCEgressParts -----------------------------
(* The parts behind writing to a destination, the lock among them in the      *)
(* setting in which nobody gives up.  Each is modelled with its own view of   *)
(* what it shares with the others, so it is enough to let one of them move.   *)
(* `part` names it; the others rest in their initial state.                   *)
EXTENDS SyncLock, PushQueue, SyncHold, DestinationAttempt, MappingChange

CONSTANTS b1, b2, p1, m1, dest, mut

VARIABLE part

Parts == {"lock", "push", "hold", "attempt", "mapping"}

partVars == <<vars, pushVars, holdVars, attemptVars, mappingVars, part>>

MCRequest == {b1, b2, p1, m1}
MCKey == {dest, mut}
MCKeyOf == [r \in MCRequest |-> IF r = m1 THEN mut ELSE dest]
MCBlocker == [r \in MCRequest |-> IF r \in {b1, b2} THEN mut ELSE NoKey]
MCPreempting == {p1, m1}

MCChanges == {[by |-> "source", of |-> 1, kind |-> "replace", ids |-> {2}],
              [by |-> "target", of |-> 2, kind |-> "add", ids |-> {1, 2}]}
MCMaps == {<<1, 1>>}

PartsInit ==
  /\ part \in Parts
  /\ Init /\ PushQueueInit /\ SyncHoldInit /\ DestinationAttemptInit /\ MappingInit
  /\ part # "attempt" => copied = mapped

(* p moves and the others rest.                                               *)
Only(p) ==
  /\ part = p /\ UNCHANGED part
  /\ p # "lock" => UNCHANGED vars
  /\ p # "push" => UNCHANGED pushVars
  /\ p # "hold" => UNCHANGED holdVars
  /\ p # "attempt" => UNCHANGED attemptVars
  /\ p # "mapping" => UNCHANGED mappingVars

PartsNext ==
  \/ Only("lock") /\ PatientNext
  \/ Only("push") /\ PushQueueNext
  \/ Only("hold") /\ SyncHoldNext
  \/ Only("attempt") /\ DestinationAttemptNext
  \/ Only("mapping") /\ MappingNext

(* Each part's fairness, for the behaviours in which it moves.  Only one part *)
(* moves in a behaviour, so a condition on one part and a condition on        *)
(* another are one condition on their disjunction: FairStep(i) joins the i-th *)
(* conditions of all parts, and Number counts the members of each set.        *)
Number(x) == CASE x \in {b1, "a1", "m1"} -> 1 [] x \in {b2, "a2", "m2"} -> 2
               [] x = p1 -> 3 [] x = m1 -> 4

Moves(p) == part = p /\ UNCHANGED part

movingVars ==
  CASE part = "lock" -> vars
    [] part = "push" -> pushVars
    [] part = "hold" -> holdVars
    [] part = "attempt" -> attemptVars
    [] part = "mapping" -> mappingVars

FairStep(i) ==
  \/ Moves("lock") /\ \E r \in Request : i = Number(r) /\ BusyStep(r)
  \/ /\ Moves("push")
     /\ \/ i = 1 /\ \E c \in ApiCalls : ApiStep(c)
        \/ i = 2 /\ \E n \in Drains : DrainStep(n)
        \/ \E d \in Destinations : \/ i = 2 + d /\ RunStep(d)
                                   \/ i = 4 + d /\ ContinuationStep(d)
  \/ /\ Moves("hold")
     /\ \/ \E d \in Targets, id \in JobIds :
             /\ i = (IF d = "d1" THEN 0 ELSE 2) + (IF id = "j1" THEN 1 ELSE 2)
             /\ WatchdogFires(d, id)
        \/ i = 5 /\ ReleaseFires
  \/ /\ Moves("attempt")
     /\ \/ \E a \in Attempts : i = Number(a) /\ AttemptStep(a)
        \/ i = 3 /\ MutationLeaves
        \/ i = 4 /\ LeaseOfDeadLapses
        \/ i = 5 /\ BackoffElapses
        \/ i = 6 /\ WritableAgain
  \/ /\ Moves("mapping")
     /\ \/ \E m \in Mutations : i = Number(m) /\ MutationStep(m)
        \/ \E d \in MapTargets : i = 2 + d /\ PushStep(d)
        \/ i = 5 /\ \E k \in Keys : DeadLeaseLapses(k)

PartsFairness ==
  /\ \A i \in 1..6 : WF_movingVars(FairStep(i))
  /\ \A m \in Mutations :
       SF_movingVars(Moves("mapping") /\ \E d \in MapTargets : LockDestination(m, d))

PartsSpec == PartsInit /\ [][PartsNext]_partVars /\ PartsFairness

(* The way out settles: the changes of a user's mappings do not wait for each *)
(* other for ever, a user is not held as syncing for ever, and a destination  *)
(* that works gets out of its backoff.                                        *)
WritingSettles == ChangesSettle /\ HoldIsReleased /\ HealthyRecovers

(* The variables of every part keep their kinds.                              *)
EgressTypeOK ==
  /\ PushQueueTypeOK /\ SyncHoldTypeOK /\ DestinationAttemptTypeOK /\ MappingTypeOK
=============================================================================
