----------------------------- MODULE MCSyncLock -----------------------------
(* Small instances of SyncLock in one run.  In some behaviours nobody asks    *)
(* for the mapping mutation's lock, and two background runs of a calendar     *)
(* contend with a preempting request for it; in the others a background run   *)
(* is blocked by a mapping mutation.  `absent` are the requests that are      *)
(* never made.                                                                *)
EXTENDS SyncLock

CONSTANTS b1, b2, p1, m1, dest, mut

VARIABLE absent

FaultRequest == {b1, b2, p1, m1}
FaultKey == {dest, mut}
FaultKeyOf == [r \in FaultRequest |-> IF r = m1 THEN mut ELSE dest]
FaultBlocker == [r \in FaultRequest |-> IF r = b2 THEN mut ELSE NoKey]
FaultPreempting == {p1, m1}

FaultVars == <<vars, absent>>

FaultInit == Init /\ absent \in {{m1}, {b1, p1}}

FaultNext ==
  Next /\ UNCHANGED absent /\ \A r \in absent : pc'[r] = "idle" /\ ~aborted'[r]

\* SyncLock's Fairness with fewer conditions.  A call is at one await at a time,
\* so its steps, of which no two are enabled together, share a condition; so do
\* b1 and m1, which are never both made; and only b1, which may die, leaves a
\* lock that has to expire.
Made == {{b1, m1}, {b2}, {p1}}

OwnStep(r) == Attempt(r) \/ Poll(r) \/ Settle(r) \/ StopRun(r) \/ Release(r)

FaultFairness ==
  /\ \A g \in Made : /\ WF_vars(\E r \in g : OwnStep(r))
                     /\ WF_vars(\E r \in g : DeadlinePasses(r))
  /\ WF_vars(lock[dest] # NoRequest /\ pc[lock[dest]] = "crashed" /\ LockExpires(dest))

FaultSpec == FaultInit /\ [][FaultNext]_FaultVars /\ FaultFairness
=============================================================================
