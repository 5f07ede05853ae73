--------------------------- MODULE OutlookPermits ---------------------------
(* The bound on concurrent requests to one Outlook account: a gate within a   *)
(* process, then one of a few leased slots shared by all processes.           *)
(*   packages/calendar/src/core/utils/leased-semaphore.ts                     *)
(*   packages/calendar/src/core/utils/redis-rate-limiter.ts (the account gate *)
(*     and createOutlookRequestLimiter)                                       *)
(* A slot's key holds no owner the client could compare: a release is fenced  *)
(* by time.  A lease is in date until safeToDeleteUntil, which the key of the *)
(* slot outlives by RELEASE_SAFETY_MS.                                        *)
EXTENDS Naturals, Sequences, FiniteSets

CONSTANTS Requests,
          Hosts,           \* the processes
          HostOf,          \* HostOf[r]
          SlotKeys,        \* capacity of the semaphore
          GateWidth,       \* OUTLOOK_ACCOUNT_CONCURRENCY, as the gate reads it
          MaxOrphans       \* bound: SET whose reply is lost, and processes that die

ASSUME OutlookPermitsAssumption ==
  /\ IsFiniteSet(Requests) /\ IsFiniteSet(SlotKeys)
  /\ HostOf \in [Requests -> Hosts]
  /\ GateWidth \in Nat \ {0} /\ MaxOrphans \in Nat

VARIABLES call,            \* call[r]: where it is
          gateActive,      \* gate.active of each process
          gateWaiters,     \* gate.waiters, settled ones included
          slotKey,         \* slotKey[s]: {}, or the lease it was set for
          lease,           \* lease[r]: the slot it was granted, in a set
          inDate,          \* requests whose lease is in date
          orphans          \* bound: what is left of MaxOrphans

permitVars == <<call, gateActive, gateWaiters, slotKey, lease, inDate, orphans>>

NoOwner == "orphan"
InGate == {"leasing", "sending", "deleting"}
Through(h) == {r \in Requests : HostOf[r] = h /\ call[r] \in {"leasing", "sending"}}

OutlookPermitsTypeOK ==
  /\ call \in [Requests -> {"idle", "waiting", "aborted"} \cup InGate]
  /\ gateActive \in [Hosts -> 0..GateWidth]
  /\ gateWaiters \in [Hosts -> Seq(Requests)]
  /\ slotKey \in [SlotKeys -> SUBSET (Requests \cup {NoOwner})]
  /\ lease \in [Requests -> SUBSET SlotKeys]
  /\ inDate \subseteq Requests
  /\ orphans \in 0..MaxOrphans

OutlookPermitsInit ==
  /\ call = [r \in Requests |-> "idle"]
  /\ gateActive = [h \in Hosts |-> 0]
  /\ gateWaiters = [h \in Hosts |-> <<>>]
  /\ slotKey = [s \in SlotKeys |-> {}]
  /\ lease = [r \in Requests |-> {}]
  /\ inDate = {}
  /\ orphans = MaxOrphans

----------------------------------------------------------------------------

(* enterAccountGate.                                                         *)
EnterGate(r) ==
  /\ call[r] = "idle"
  /\ IF gateActive[HostOf[r]] < GateWidth
     THEN /\ gateActive' = [gateActive EXCEPT ![HostOf[r]] = @ + 1]
          /\ call' = [call EXCEPT ![r] = "leasing"]
          /\ UNCHANGED gateWaiters
     ELSE /\ gateWaiters' = [gateWaiters EXCEPT ![HostOf[r]] = Append(@, r)]
          /\ call' = [call EXCEPT ![r] = "waiting"]
          /\ UNCHANGED gateActive
  /\ UNCHANGED <<slotKey, lease, inDate, orphans>>

(* Its signal fires while it waits: the waiter is settled where it stands.    *)
AbortWaiting(r) ==
  /\ call[r] = "waiting"
  /\ call' = [call EXCEPT ![r] = "aborted"]
  /\ UNCHANGED <<gateActive, gateWaiters, slotKey, lease, inDate, orphans>>

(* leaveAccountGate, by r: the first waiter that is not settled takes over.   *)
Unsettled(ws) == {i \in 1..Len(ws) : call[ws[i]] = "waiting"}
First(ws) == CHOOSE i \in Unsettled(ws) : \A j \in Unsettled(ws) : i <= j
LeaveGate(r, next) ==
  LET h == HostOf[r]
      ws == gateWaiters[h]
      n == IF Unsettled(ws) = {} THEN Len(ws) ELSE First(ws)
      dropped == {ws[i] : i \in 1..n}
  IN  /\ gateWaiters' = [gateWaiters EXCEPT ![h] = SubSeq(@, n + 1, Len(@))]
      /\ gateActive' = [gateActive EXCEPT ![h] = IF Unsettled(ws) = {} THEN @ - 1 ELSE @]
      /\ call' = [q \in Requests |->
           CASE q = r -> next
             [] q # r /\ q \in dropped -> IF call[q] = "waiting" THEN "leasing" ELSE "idle"
             [] OTHER -> call[q]]

----------------------------------------------------------------------------
(* tryAcquire: SET NX PX of a slot that has no key.                           *)
TakeLease(r, s) ==
  /\ call[r] = "leasing"
  /\ slotKey[s] = {}
  /\ slotKey' = [slotKey EXCEPT ![s] = {r}]
  /\ lease' = [lease EXCEPT ![r] = {s}]
  /\ inDate' = inDate \cup {r}
  /\ call' = [call EXCEPT ![r] = "sending"]
  /\ UNCHANGED <<gateActive, gateWaiters, orphans>>

(* The signal fires between two attempts, or Redis fails.                     *)
LeaseFails(r) ==
  /\ call[r] = "leasing"
  /\ LeaveGate(r, "idle")
  /\ UNCHANGED <<slotKey, lease, inDate, orphans>>

(* The SET takes effect and its reply is lost.                                *)
LeaseReplyLost(r, s) ==
  /\ call[r] = "leasing"
  /\ slotKey[s] = {}
  /\ orphans > 0 /\ orphans' = orphans - 1
  /\ slotKey' = [slotKey EXCEPT ![s] = {NoOwner}]
  /\ LeaveGate(r, "idle")
  /\ UNCHANGED <<lease, inDate>>

\* Mutant: the key is deleted however old the lease is.
ReleaseLate(r) ==
  /\ call[r] = "sending"
  /\ LeaveGate(r, "deleting")
  /\ UNCHANGED <<lease, slotKey, inDate, orphans>>

(* release, after the request: the gate is left, and the key deleted if the  *)
(* lease is in date.                                                          *)
ReleasePermit(r) ==
  /\ call[r] = "sending"
  /\ LeaveGate(r, IF r \in inDate THEN "deleting" ELSE "idle")
  /\ lease' = IF r \in inDate THEN lease ELSE [lease EXCEPT ![r] = {}]
  /\ UNCHANGED <<slotKey, inDate, orphans>>

DeleteKey(r) ==
  /\ call[r] = "deleting"
  /\ slotKey' = [s \in SlotKeys |-> IF s \in lease[r] THEN {} ELSE slotKey[s]]
  /\ lease' = [lease EXCEPT ![r] = {}]
  /\ inDate' = inDate \ {r}
  /\ call' = [call EXCEPT ![r] = "idle"]
  /\ UNCHANGED <<gateActive, gateWaiters, orphans>>

----------------------------------------------------------------------------
(* The clock passes safeToDeleteUntil.                                        *)
LeaseRunsOut(r) ==
  /\ call[r] = "sending"
  /\ r \in inDate
  /\ inDate' = inDate \ {r}
  /\ UNCHANGED <<call, gateActive, gateWaiters, slotKey, lease, orphans>>

(* The key lapses: not before its lease is out of date, and a DEL that was     *)
(* sent in time arrives within RELEASE_SAFETY_MS.                             *)
KeyLapses(s) ==
  /\ slotKey[s] # {}
  /\ slotKey[s] \cap inDate = {}
  /\ slotKey' = [slotKey EXCEPT ![s] = {}]
  /\ UNCHANGED <<call, gateActive, gateWaiters, lease, inDate, orphans>>

(* A process dies: its gate is gone with it, its keys are left to lapse.       *)
HostDies(h) ==
  LET mine == {r \in Requests : HostOf[r] = h} IN
  /\ \E r \in mine : call[r] # "idle"
  /\ orphans > 0 /\ orphans' = orphans - 1
  /\ call' = [r \in Requests |-> IF r \in mine THEN "idle" ELSE call[r]]
  /\ gateActive' = [gateActive EXCEPT ![h] = 0]
  /\ gateWaiters' = [gateWaiters EXCEPT ![h] = <<>>]
  /\ slotKey' = [s \in SlotKeys |-> IF slotKey[s] \cap mine # {} THEN {NoOwner} ELSE slotKey[s]]
  /\ lease' = [r \in Requests |-> IF r \in mine THEN {} ELSE lease[r]]
  /\ inDate' = inDate \ mine

----------------------------------------------------------------------------
OutlookPermitsNext ==
  \/ \E r \in Requests : \/ EnterGate(r) \/ AbortWaiting(r) \/ LeaseFails(r)
                         \/ ReleasePermit(r) \/ DeleteKey(r) \/ LeaseRunsOut(r)
                         \/ \E s \in SlotKeys : TakeLease(r, s) \/ LeaseReplyLost(r, s)
  \/ \E s \in SlotKeys : KeyLapses(s)
  \/ \E h \in Hosts : HostDies(h)

RequestStep(r) == \/ LeaseFails(r) \/ ReleasePermit(r) \/ DeleteKey(r)
                  \/ \E s \in SlotKeys : TakeLease(r, s)

(* A request ends within its timeout, keys lapse, and Redis is polled; no    *)
(* poll is sure to find a free slot before the signal fires.                  *)
OutlookPermitsFairness ==
  /\ \A r \in Requests : WF_permitVars(RequestStep(r))
  /\ \A s \in SlotKeys : WF_permitVars(KeyLapses(s))

OutlookPermitsSpec == OutlookPermitsInit /\ [][OutlookPermitsNext]_permitVars
OutlookPermitsFairSpec == OutlookPermitsSpec /\ OutlookPermitsFairness

----------------------------------------------------------------------------
(* However late a lease is released, the requests under way with a lease in    *)
(* date are never more than the slots: nobody deletes a key that has been      *)
(* taken over, so no third request gets in.                                  *)
CapacityHeld == Cardinality(inDate) <= Cardinality(SlotKeys)

(* A request's lease in date is the key in its slot, so each key is deleted by*)
(* its owner or lapses, and never both.                                        *)
LeaseOwnsItsKey == \A r \in inDate : \A s \in lease[r] : slotKey[s] = {r}

(* The gate of a process counts exactly who is through it, whoever fails,      *)
(* aborts or is handed a place; and while someone waits it is full.            *)
GateIsExact ==
  \A h \in Hosts :
    /\ gateActive[h] = Cardinality(Through(h))
    /\ (\E r \in Requests : HostOf[r] = h /\ call[r] = "waiting") => gateActive[h] = GateWidth

(* Permits hold: leases and gates are owned and counted exactly.               *)
PermitsHold == CapacityHeld /\ LeaseOwnsItsKey /\ GateIsExact

(* Whoever waits at the gate gets through or gives up.                         *)
GateFlows == \A r \in Requests : []<>(call[r] # "waiting")
=============================================================================
