-------------------------- MODULE EgressPartsProofs --------------------------
(***************************************************************************)
(* The parts behind writing to a destination: the safety properties of     *)
(* SyncLock, MappingChange, SyncHold and DestinationAttempt for every      *)
(* value of their constants, and what follows for MCEgressParts, in which  *)
(* any of the parts moves while the others rest.                           *)
(***************************************************************************)
EXTENDS MCEgressParts, PushQueueProofs, FiniteSetTheorems, TLAPS

----------------------------------------------------------------------------
(***************************************************************************)
(* The safety properties of SyncLock, for every set of requests and keys.  *)
(* The inductive invariant adds to the properties where the owner of a     *)
(* lock key and the members of a stack may stand in their calls.           *)
(***************************************************************************)

\* The owner of a lock key asked for that key, has not lost it, and stands between
\* its acquisition and the script that gives the key up (or died there).
LockOwner ==
  \A k \in Key : lock[k] # NoRequest =>
    /\ KeyOf[lock[k]] = k
    /\ pc[lock[k]] \in Owning \cup {"cancel", "crashed"}
    /\ ~lost[lock[k]]

\* A request in a stack asked for that key and has not been answered.
StackMembers ==
  \A k \in Key : \A w \in Members(waiters[k]) :
    /\ KeyOf[w] = k
    /\ pc[w] \in Polling \cup {"provisional", "confirm", "cancel", "finally", "crashed"}

\* A request that owns the key provisionally is still in the stack.
ProvisionalStacked ==
  \A r \in Request : pc[r] \in {"provisional", "confirm"} /\ ~lost[r] =>
    r \in Members(waiters[KeyOf[r]])

\* What the polling loop remembers, and that a lapsed request never polls again.
LoopState ==
  \A r \in Request :
    /\ pc[r] \in Polling => result[r] # "none"
    /\ pc[r] \in {"getSignal", "getLock"} => result[r] = "queued"
    /\ lost[r] => pc[r] \notin Polling \cup {"idle", "acquire"}

LockInv ==
  /\ TypeOK
  /\ SignalIsHead
  /\ HeldIsTruthful
  /\ NoWaiterForgotten
  /\ SkippedIsCovered
  /\ LockOwner
  /\ StackMembers
  /\ ProvisionalStacked
  /\ LoopState

-----------------------------------------------------------------------------
(* The commands on the waiter stack.                                        *)

\* LREM of an id from a stack without duplicates removes exactly that id.
LEMMA LRemProperties ==
  ASSUME NEW s \in Seq(Request), NoDuplicates(s), NEW r \in Request
  PROVE  /\ LRem(s, r) \in Seq(Request)
         /\ NoDuplicates(LRem(s, r))
         /\ Members(LRem(s, r)) = Members(s) \ {r}
<1>1. CASE r \notin Members(s)
  BY <1>1 DEF LRem
<1>2. CASE r \in Members(s)
  <2> DEFINE at == CHOOSE i \in 1..Len(s) : s[i] = r
             t == [i \in 1..(Len(s) - 1) |-> IF i < at THEN s[i] ELSE s[i + 1]]
  <2>1. at \in 1..Len(s) /\ s[at] = r
    BY <1>2 DEF Members
  <2>2. LRem(s, r) = t
    BY <1>2 DEF LRem
  <2> HIDE DEF at
  <2>3. Len(s) \in Nat /\ Len(s) - 1 \in Nat
    BY <2>1
  <2>4. \A i \in 1..(Len(s) - 1) : t[i] \in Request
    BY <2>1, <2>3
  <2>5. t \in Seq(Request) /\ Len(t) = Len(s) - 1
    BY <2>3, <2>4
  <2>6. NoDuplicates(t)
    BY <2>1, <2>3, <2>5 DEF NoDuplicates
  <2>7. \A x \in Members(t) : x \in Members(s) /\ x # r
    BY <2>1, <2>3, <2>5 DEF NoDuplicates, Members
  <2>8. ASSUME NEW x \in Members(s), x # r
        PROVE  x \in Members(t)
    <3>1. PICK i \in 1..Len(s) : s[i] = x
      BY DEF Members
    <3>2. CASE i < at
      BY <2>1, <2>3, <2>5, <3>1, <3>2 DEF Members
    <3>3. CASE i > at
      <4>1. i - 1 \in 1..(Len(s) - 1) /\ ~(i - 1 < at) /\ (i - 1) + 1 = i
        BY <2>1, <2>3, <3>1, <3>3
      <4>2. t[i - 1] = x
        BY <4>1, <3>1
      <4> QED BY <2>5, <4>1, <4>2 DEF Members
    <3> QED BY <2>1, <2>8, <3>1, <3>2, <3>3
  <2> QED BY <2>2, <2>5, <2>6, <2>7, <2>8
<1> QED BY <1>1, <1>2

\* LPUSH of a new id puts it on top and keeps the others.
LEMMA LPushProperties ==
  ASSUME NEW s \in Seq(Request), NoDuplicates(s),
         NEW r \in Request, r \notin Members(s)
  PROVE  /\ LPush(s, r) \in Seq(Request)
         /\ NoDuplicates(LPush(s, r))
         /\ Members(LPush(s, r)) = Members(s) \cup {r}
         /\ LIndex0(LPush(s, r)) = r
<1> DEFINE t == <<r>> \o s
<1>1. /\ t \in Seq(Request)
      /\ Len(t) = Len(s) + 1
      /\ t[1] = r
      /\ \A i \in 1..Len(s) : t[i + 1] = s[i]
  OBVIOUS
<1>2. t # <<>>
  BY <1>1
<1>3. \A i \in 1..Len(t) : i = 1 \/ (i - 1 \in 1..Len(s) /\ t[i] = s[i - 1])
  <2> TAKE i \in 1..Len(t)
  <2> SUFFICES ASSUME i # 1 PROVE i - 1 \in 1..Len(s) /\ t[i] = s[i - 1]
    OBVIOUS
  <2>1. i - 1 \in 1..Len(s) /\ (i - 1) + 1 = i
    BY <1>1
  <2> QED BY <1>1, <2>1
<1> HIDE DEF t
<1>4. \A i \in 1..Len(t) : i # 1 => t[i] \in Members(s)
  BY <1>3 DEF Members
<1>5. NoDuplicates(t)
  <2> SUFFICES ASSUME NEW i \in 1..Len(t), NEW j \in 1..Len(t), t[i] = t[j]
               PROVE  i = j
    BY DEF NoDuplicates
  <2>1. CASE i = 1 \/ j = 1
    BY <1>1, <1>4, <2>1
  <2>2. CASE i # 1 /\ j # 1
    <3>1. i - 1 \in 1..Len(s) /\ j - 1 \in 1..Len(s) /\ s[i - 1] = s[j - 1]
      BY <1>3, <2>2
    <3>2. i - 1 = j - 1
      BY <3>1 DEF NoDuplicates
    <3> QED BY <3>2
  <2> QED BY <2>1, <2>2
<1>6. Members(t) = Members(s) \cup {r}
  <2>1. ASSUME NEW x \in Members(t) PROVE x \in Members(s) \cup {r}
    <3>1. PICK i \in 1..Len(t) : t[i] = x
      BY DEF Members
    <3> QED BY <1>1, <1>4, <3>1
  <2>2. ASSUME NEW i \in 1..Len(s) PROVE s[i] \in Members(t)
    <3>1. i + 1 \in 1..Len(t) /\ t[i + 1] = s[i]
      BY <1>1
    <3> QED BY <3>1 DEF Members
  <2>3. r \in Members(t)
    <3>1. 1 \in 1..Len(t)
      BY <1>1
    <3> QED BY <1>1, <3>1 DEF Members
  <2>4. Members(s) \subseteq Members(t)
    BY <2>2 DEF Members
  <2> QED BY <2>1, <2>3, <2>4
<1> QED BY <1>1, <1>2, <1>5, <1>6 DEF LPush, LIndex0, t

\* The top of a stack: none exactly when the stack is empty.
LEMMA HeadProperties ==
  ASSUME NEW s \in Seq(Request)
  PROVE  /\ LIndex0(s) = NoRequest <=> s = <<>>
         /\ s # <<>> => LIndex0(s) \in Members(s)
BY RequestAssumption DEF LIndex0, Members

\* An empty stack has no newest waiter.
LEMMA EmptyStack ==
  /\ <<>> \in Seq(Request)
  /\ NoDuplicates(<<>>)
  /\ Members(<<>>) = {}
  /\ LIndex0(<<>>) = NoRequest
BY DEF NoDuplicates, Members, LIndex0

-----------------------------------------------------------------------------
(* The inductive invariant.                                                  *)

\* With no key and no request under way the invariant holds.
LEMMA InitIInv == Init => LockInv
<1> SUFFICES ASSUME Init PROVE LockInv
  OBVIOUS
<1> USE RequestAssumption, EmptyStack DEF Init
<1>1. TypeOK
  BY DEF TypeOK, Stages, Outcomes
<1>2. SignalIsHead /\ StackMembers /\ LockOwner
  BY DEF SignalIsHead, StackMembers, LockOwner
<1>3. HeldIsTruthful /\ NoWaiterForgotten /\ ProvisionalStacked /\ LoopState
  BY DEF HeldIsTruthful, NoWaiterForgotten, ProvisionalStacked, LoopState, Owning,
         Queued, Polling
<1>4. SkippedIsCovered
  BY DEF SkippedIsCovered
<1> QED BY <1>1, <1>2, <1>3, <1>4 DEF LockInv

\* A step that leaves Redis and the histories alone and only moves a call on.
LEMMA LocalStep ==
  ASSUME LockInv, NEW r \in Request,
         UNCHANGED <<lock, signal, waiters, lost, covered>>,
         \/ Call(r) \/ AcquireBlocked(r) \/ CheckProvisional(r) \/ ConfirmFails(r)
         \/ PollStops(r) \/ PollContinues(r) \/ GetSignal(r) \/ GetLock(r)
         \/ RenewFails(r) \/ RenewSucceeds(r) \/ StopRun(r) \/ FinishRun(r)
         \/ Abort(r) \/ DeadlinePasses(r) \/ Crash(r)
  PROVE  LockInv'
<1> USE RequestAssumption DEF LockInv, Goto, End, Polling, Call, AcquireBlocked,
        CheckProvisional, ConfirmFails, PollStops, PollContinues, GetSignal, GetLock,
        RenewFails, RenewSucceeds, StopRun, FinishRun, Abort, DeadlinePasses, Crash
<1>1. TypeOK'
  <2>1. \E stage \in Stages : pc' = [pc EXCEPT ![r] = stage]
    BY DEF TypeOK, Stages
  <2>2. result' \in [Request -> {"none", "blocked", "queued"}]
    BY DEF TypeOK
  <2>3. outcome' \in [Request -> Outcomes]
    BY DEF TypeOK, Outcomes
  <2>4. /\ aborted' \in [Request -> BOOLEAN]
        /\ late' \in [Request -> BOOLEAN]
        /\ renewErr' \in [Request -> BOOLEAN]
    BY DEF TypeOK
  <2>5. pc' \in [Request -> Stages]
    BY <2>1 DEF TypeOK
  <2> QED BY <2>2, <2>3, <2>4, <2>5 DEF TypeOK
<1>2. SignalIsHead'
  BY DEF SignalIsHead
<1>3. HeldIsTruthful'
  BY DEF TypeOK, HeldIsTruthful, HoldsLock, Owning
<1>4. NoWaiterForgotten'
  BY DEF TypeOK, NoWaiterForgotten, Queued
<1>5. LockOwner'
  BY DEF TypeOK, LockOwner, Owning, Alive
<1>6. StackMembers'
  <2>1. pc[r] \in Polling \cup {"provisional", "confirm", "cancel", "finally", "crashed"}
          => pc'[r] \in Polling \cup {"provisional", "confirm", "cancel", "finally", "crashed"}
    BY DEF TypeOK, Alive
  <2>2. \A q \in Request : q # r => pc'[q] = pc[q]
    BY DEF TypeOK
  <2>3. \A k \in Key : \A w \in Members(waiters[k]) : w \in Request
    BY DEF TypeOK, Members
  <2> QED BY <2>1, <2>2, <2>3 DEF StackMembers
<1>7. ProvisionalStacked'
  BY DEF TypeOK, ProvisionalStacked
<1>8. LoopState'
  <2>1. /\ pc'[r] \in Polling => result'[r] # "none"
        /\ pc'[r] \in {"getSignal", "getLock"} => result'[r] = "queued"
    BY DEF TypeOK, LoopState
  <2>2. lost[r] => pc'[r] \notin Polling \cup {"idle", "acquire"}
    BY DEF TypeOK, LoopState
  <2>3. \A q \in Request : q # r => pc'[q] = pc[q] /\ result'[q] = result[q]
    BY DEF TypeOK
  <2> QED BY <2>1, <2>2, <2>3 DEF LoopState
<1>9. SkippedIsCovered'
  BY HeadProperties, EmptyStack DEF TypeOK, SkippedIsCovered, SignalIsHead,
     NoWaiterForgotten, LoopState, Queued
<1> QED BY <1>1, <1>2, <1>3, <1>4, <1>5, <1>6, <1>7, <1>8, <1>9

\* The remaining steps change Redis.  Each keeps the parts of the invariant below; the
\* types of the variables it assigns and the stack lemmas are the only facts needed.
LEMMA EnterStackStep ==
  ASSUME LockInv, NEW r \in Request, AcquireFree(r) \/ AcquireQueued(r)
  PROVE  LockInv'
<1> DEFINE k == KeyOf[r]
           below == LRem(waiters[k], r)
<1>1. k \in Key /\ waiters[k] \in Seq(Request) /\ NoDuplicates(waiters[k])
  BY RequestAssumption DEF LockInv, TypeOK
<1>2. /\ below \in Seq(Request)
      /\ NoDuplicates(below)
      /\ Members(below) = Members(waiters[k]) \ {r}
  BY <1>1, LRemProperties
<1>3. /\ LPush(below, r) \in Seq(Request)
      /\ NoDuplicates(LPush(below, r))
      /\ Members(LPush(below, r)) = Members(waiters[k]) \cup {r}
      /\ LIndex0(LPush(below, r)) = r
  <2>1. r \notin Members(below)
    BY <1>2
  <2>2. Members(LPush(below, r)) = Members(below) \cup {r}
    BY <1>2, <2>1, LPushProperties
  <2> QED BY <1>2, <2>1, <2>2, LPushProperties
<1> DEFINE top == LPush(below, r)
<1>4. /\ waiters' = [waiters EXCEPT ![k] = top]
      /\ signal' = [signal EXCEPT ![k] = r]
  BY DEF AcquireFree, AcquireQueued, PushWaiter
<1> HIDE DEF below, top, k
<1> USE RequestAssumption DEF LockInv, Goto
<1>5. /\ pc[r] \in {"acquire", "reacquire"}
      /\ UNCHANGED <<aborted, late, renewErr, outcome, lost, covered>>
  BY DEF AcquireFree, AcquireQueued
<1>6. \/ /\ lock[k] = NoRequest /\ lock' = [lock EXCEPT ![k] = r]
         /\ pc' = [pc EXCEPT ![r] = "provisional"]
         /\ result' = result
      \/ /\ lock[k] # NoRequest /\ lock' = lock
         /\ pc' = [pc EXCEPT ![r] = "poll"]
         /\ result' = [result EXCEPT ![r] = "queued"]
  BY DEF AcquireFree, AcquireQueued, k
<1>7. TypeOK'
  <2>1. /\ lock' \in [Key -> Request \cup {NoRequest}]
        /\ signal' \in [Key -> Request \cup {NoRequest}]
        /\ waiters' \in [Key -> Seq(Request)]
    BY <1>1, <1>3, <1>4, <1>6 DEF TypeOK, top
  <2>2. \A j \in Key : NoDuplicates(waiters'[j])
    BY <1>1, <1>3, <1>4 DEF TypeOK, top
  <2>3. "provisional" \in Stages /\ "poll" \in Stages
    BY DEF Stages, Polling
  <2>4. pc' \in [Request -> Stages]
    BY <1>6, <2>3, ZenonT(60) DEF TypeOK
  <2>5. result' \in [Request -> {"none", "blocked", "queued"}]
    BY <1>6 DEF TypeOK
  <2> QED BY <1>5, <2>1, <2>2, <2>4, <2>5 DEF TypeOK
<1>8. SignalIsHead'
  BY <1>1, <1>3, <1>4 DEF SignalIsHead, TypeOK, top
<1>9. /\ \A q \in Request : r # q => pc'[q] = pc[q] /\ result'[q] = result[q]
      /\ \A j \in Key : j # k => lock'[j] = lock[j]
      /\ \A j \in Key : Members(waiters'[j]) =
           IF j = k THEN Members(waiters[k]) \cup {r} ELSE Members(waiters[j])
  BY <1>1, <1>3, <1>4, <1>6, ZenonT(60) DEF TypeOK, top
<1>10. /\ pc'[r] \in {"provisional", "poll"}
       /\ pc'[r] = "poll" => result'[r] = "queued"
       /\ ~lost[r] /\ ~lost'[r]
  BY <1>5, <1>6 DEF TypeOK, LoopState, Polling
<1>11. LockOwner'
  <2>1. \A j \in Key : lock[j] # r
    BY <1>5 DEF LockOwner, Owning
  <2>2. \A j \in Key : lock[j] \in Request \cup {NoRequest}
    BY DEF TypeOK
  <2>3. lock'[k] = lock[k] \/ (lock'[k] = r /\ pc'[r] = "provisional" /\ KeyOf[r] = k)
    BY <1>1, <1>6 DEF TypeOK, k
  <2> QED BY <1>1, <1>5, <1>9, <1>10, <2>1, <2>2, <2>3 DEF LockOwner, Owning
<1>12. HeldIsTruthful'
  <2>1. \A q \in Request : q # r => (lock'[KeyOf[q]] = q <=> lock[KeyOf[q]] = q)
    BY <1>1, <1>6, <1>9 DEF TypeOK
  <2>2. pc'[r] = "provisional" => lock'[KeyOf[r]] = r
    BY <1>1, <1>6 DEF TypeOK, k
  <2> QED BY <1>5, <1>9, <1>10, <2>1, <2>2 DEF HeldIsTruthful, HoldsLock, Owning
<1>13. StackMembers'
  <2>1. \A j \in Key : \A w \in Members(waiters[j]) : w \in Request
    BY DEF TypeOK, Members
  <2> QED BY <1>5, <1>9, <1>10, <2>1 DEF StackMembers, Polling, k
<1>14. ProvisionalStacked' /\ NoWaiterForgotten'
  BY <1>5, <1>9, <1>10 DEF ProvisionalStacked, NoWaiterForgotten, Queued, k
<1>15. LoopState' /\ SkippedIsCovered'
  BY <1>5, <1>9, <1>10 DEF LoopState, SkippedIsCovered, Polling
<1> QED BY <1>7, <1>8, <1>11, <1>12, <1>13, <1>14, <1>15

\* The confirmation of an acquisition preserves the invariant.
LEMMA ConfirmStep ==
  ASSUME LockInv, NEW r \in Request, Confirm(r)
  PROVE  LockInv'
<1> DEFINE k == KeyOf[r]
<1> USE RequestAssumption DEF LockInv
<1>1. /\ k \in Key /\ pc[r] = "confirm" /\ lock[k] = r
      /\ pc' = [pc EXCEPT ![r] = "held"]
      /\ outcome' = [outcome EXCEPT ![r] = "acquired"]
      /\ signal' = [signal EXCEPT ![k] = NoRequest]
      /\ waiters' = [waiters EXCEPT ![k] = <<>>]
      /\ UNCHANGED <<lock, result, aborted, late, renewErr, lost>>
      /\ covered' = [q \in Request |->
                       covered[q] \/ (q # r /\ KeyOf[q] = k /\ Registered(q))]
  <2>1. Confirm(r) /\ waiters[k] \in Seq(Request) /\ r # NoRequest
    BY DEF TypeOK
  <2>2. waiters[k] # <<>> /\ waiters[k][1] = r
    BY <2>1 DEF Confirm, Confirmable, LIndex0
  <2>3. \A j \in 1..Len(waiters[k]) : 1 \in 1..j
    BY <2>1
  <2>4. NewerThan(r) = {}
    BY <2>2, <2>3 DEF NewerThan
  <2> QED
    BY <2>1, <2>4 DEF Confirm, Confirmable, Goto, End
<1>2. TypeOK'
  <2>1. "held" \in Stages /\ "acquired" \in Outcomes
    BY DEF Stages, Outcomes
  <2>2. covered' \in [Request -> BOOLEAN]
    BY <1>1 DEF TypeOK
  <2>3. /\ signal' \in [Key -> Request \cup {NoRequest}]
        /\ waiters' \in [Key -> Seq(Request)]
        /\ \A j \in Key : NoDuplicates(waiters'[j])
    BY <1>1, EmptyStack DEF TypeOK
  <2>4. pc' \in [Request -> Stages] /\ outcome' \in [Request -> Outcomes]
    BY <1>1, <2>1 DEF TypeOK
  <2> QED BY <1>1, <2>2, <2>3, <2>4 DEF TypeOK
<1>3. SignalIsHead'
  BY <1>1, EmptyStack DEF SignalIsHead, TypeOK
<1>4. /\ \A q \in Request : r # q => pc'[q] = pc[q] /\ outcome'[q] = outcome[q]
      /\ pc'[r] = "held" /\ outcome'[r] = "acquired"
      /\ \A j \in Key : Members(waiters'[j]) = IF j = k THEN {} ELSE Members(waiters[j])
  BY <1>1, EmptyStack DEF TypeOK
<1>5. /\ \A q \in Request : covered[q] => covered'[q]
      /\ \A q \in Request : r # q /\ KeyOf[q] = k /\ Registered(q) => covered'[q]
  BY <1>1 DEF TypeOK
<1> HIDE DEF k
<1>6. LockOwner' /\ HeldIsTruthful'
  BY <1>1, <1>4 DEF LockOwner, HeldIsTruthful, HoldsLock, Owning, TypeOK
<1>7. StackMembers'
  <2>1. \A j \in Key : \A w \in Members(waiters[j]) : w \in Request
    BY DEF TypeOK, Members
  <2> QED BY <1>1, <1>4, <2>1 DEF StackMembers, k
<1>8. ProvisionalStacked'
  <2>1. \A q \in Request : q # r /\ KeyOf[q] = k /\ pc[q] \in Owning => lost[q]
    BY <1>1 DEF HeldIsTruthful, HoldsLock
  <2> QED BY <1>1, <1>4, <2>1 DEF ProvisionalStacked, Owning
<1>9. NoWaiterForgotten'
  <2> SUFFICES ASSUME NEW q \in Request, Queued(q)', ~covered'[q]
               PROVE  q \in Members(waiters'[KeyOf[q]])
    BY DEF NoWaiterForgotten
  <2>1. q # r
    BY <1>4 DEF Queued, Polling
  <2>2. Queued(q) /\ ~covered[q]
    BY <1>1, <1>4, <1>5, <2>1 DEF Queued
  <2>3. Registered(q)
    BY <2>2 DEF Queued, Polling, Registered
  <2>4. KeyOf[q] # k
    BY <1>5, <2>1, <2>3
  <2> QED BY <1>4, <2>2, <2>4 DEF NoWaiterForgotten
<1>10. LoopState' /\ SkippedIsCovered'
  BY <1>1, <1>4, <1>5 DEF LoopState, SkippedIsCovered, Polling
<1> QED BY <1>2, <1>3, <1>6, <1>7, <1>8, <1>9, <1>10

\* Cancelling an unconfirmed acquisition, which removes its waiter, preserves the invariant.
LEMMA CancelStep ==
  ASSUME LockInv, NEW r \in Request, CancelProvisional(r) \/ CancelFinally(r)
  PROVE  LockInv'
<1> DEFINE k == KeyOf[r]
           rest == LRem(waiters[k], r)
<1> USE RequestAssumption DEF LockInv
<1>1. /\ k \in Key /\ waiters[k] \in Seq(Request) /\ NoDuplicates(waiters[k])
      /\ pc[r] \in {"cancel", "finally"}
  BY DEF TypeOK, CancelProvisional, CancelFinally
<1>2. /\ rest \in Seq(Request)
      /\ NoDuplicates(rest)
      /\ Members(rest) = Members(waiters[k]) \ {r}
  BY <1>1, LRemProperties
<1>3. LIndex0(rest) \in Request \cup {NoRequest}
  BY <1>2 DEF LIndex0
<1>4. /\ waiters' = [waiters EXCEPT ![k] = rest]
      /\ signal' = [signal EXCEPT ![k] = LIndex0(rest)]
      /\ lock' = IF lock[k] = r THEN [lock EXCEPT ![k] = NoRequest] ELSE lock
      /\ UNCHANGED <<result, aborted, late, renewErr, outcome, lost, covered>>
  BY DEF CancelProvisional, CancelFinally, CancelWaiter
<1>5. pc' = [pc EXCEPT ![r] = "done"] \/ pc' = [pc EXCEPT ![r] = "finally"]
  BY DEF CancelProvisional, CancelFinally, Goto
<1> HIDE DEF rest, k
<1>6. TypeOK'
  <2>1. "done" \in Stages /\ "finally" \in Stages
    BY DEF Stages
  <2>2. /\ waiters' \in [Key -> Seq(Request)]
        /\ \A j \in Key : NoDuplicates(waiters'[j])
    BY <1>1, <1>2, <1>4 DEF TypeOK
  <2>3. signal' \in [Key -> Request \cup {NoRequest}]
    BY <1>1, <1>3, <1>4 DEF TypeOK
  <2>4. lock' \in [Key -> Request \cup {NoRequest}]
    BY <1>1, <1>4 DEF TypeOK
  <2>5. pc' \in [Request -> Stages]
    BY <1>5, <2>1 DEF TypeOK
  <2> QED BY <1>4, <2>2, <2>3, <2>4, <2>5 DEF TypeOK
<1>7. SignalIsHead'
  BY <1>1, <1>4 DEF SignalIsHead, TypeOK
<1>8. /\ \A q \in Request : r # q => pc'[q] = pc[q]
      /\ pc'[r] \in {"done", "finally"}
      /\ \A j \in Key : Members(waiters'[j]) =
           IF j = k THEN Members(waiters[k]) \ {r} ELSE Members(waiters[j])
      /\ \A j \in Key : lock'[j] = IF j = k /\ lock[k] = r THEN NoRequest ELSE lock[j]
  BY <1>1, <1>2, <1>4, <1>5 DEF TypeOK
<1>9. LockOwner'
  <2>1. \A j \in Key : lock[j] = r => j = k
    BY DEF LockOwner, k
  <2>2. \A j \in Key : lock'[j] # r /\ (lock'[j] = NoRequest \/ lock'[j] = lock[j])
    BY <1>1, <1>8, <2>1
  <2>3. \A j \in Key : lock[j] \in Request \cup {NoRequest}
    BY DEF TypeOK
  <2> QED BY <1>4, <1>8, <2>2, <2>3 DEF LockOwner
<1>10. HeldIsTruthful'
  BY <1>1, <1>4, <1>8 DEF HeldIsTruthful, HoldsLock, Owning
<1>11. StackMembers'
  <2>1. \A j \in Key : \A w \in Members(waiters[j]) : w \in Request
    BY DEF TypeOK, Members
  <2>2. \A j \in Key : \A w \in Members(waiters[j]) : w = r => j = k
    BY DEF StackMembers, k
  <2>3. \A j \in Key : \A w \in Members(waiters'[j]) : w # r /\ w \in Members(waiters[j])
    BY <1>8, <2>2
  <2> QED BY <1>8, <2>1, <2>3 DEF StackMembers
<1>12. ProvisionalStacked' /\ NoWaiterForgotten'
  BY <1>1, <1>4, <1>8 DEF ProvisionalStacked, NoWaiterForgotten, Queued, Polling
<1>13. LoopState' /\ SkippedIsCovered'
  BY <1>1, <1>4, <1>8 DEF LoopState, SkippedIsCovered, Polling
<1> QED BY <1>6, <1>7, <1>9, <1>10, <1>11, <1>12, <1>13

\* Releasing the lock, or finding that it was lost, preserves the invariant.
LEMMA ReleaseStep ==
  ASSUME LockInv, NEW r \in Request, Release(r)
  PROVE  LockInv'
<1> USE RequestAssumption DEF LockInv
<1>1. /\ KeyOf[r] \in Key /\ pc[r] = "release"
      /\ pc' = [pc EXCEPT ![r] = "done"]
      /\ lock' = IF HoldsLock(r) THEN [lock EXCEPT ![KeyOf[r]] = NoRequest] ELSE lock
      /\ UNCHANGED <<signal, waiters, result, aborted, late, renewErr, outcome, lost, covered>>
  BY DEF Release, Goto
<1>2. TypeOK'
  <2>1. "done" \in Stages
    BY DEF Stages
  <2> QED BY <1>1, <2>1 DEF TypeOK
<1>3. /\ \A q \in Request : r # q => pc'[q] = pc[q]
      /\ pc'[r] = "done"
      /\ \A j \in Key : lock'[j] = IF j = KeyOf[r] /\ lock[j] = r THEN NoRequest ELSE lock[j]
  BY <1>1 DEF TypeOK, HoldsLock
<1>4. LockOwner'
  <2>1. \A j \in Key : lock[j] = r => j = KeyOf[r]
    BY DEF LockOwner
  <2>2. \A j \in Key : lock'[j] # r /\ (lock'[j] = NoRequest \/ lock'[j] = lock[j])
    BY <1>1, <1>3, <2>1
  <2>3. \A j \in Key : lock[j] \in Request \cup {NoRequest}
    BY DEF TypeOK
  <2> QED BY <1>1, <1>3, <2>2, <2>3 DEF LockOwner
<1>5. HeldIsTruthful'
  BY <1>1, <1>3 DEF HeldIsTruthful, HoldsLock, Owning
<1>6. StackMembers'
  <2>1. \A j \in Key : \A w \in Members(waiters[j]) : w \in Request
    BY DEF TypeOK, Members
  <2>2. \A j \in Key : \A w \in Members(waiters[j]) : w # r
    BY <1>1 DEF StackMembers, Polling
  <2> QED BY <1>1, <1>3, <2>1, <2>2 DEF StackMembers
<1>7. SignalIsHead' /\ ProvisionalStacked' /\ NoWaiterForgotten'
  BY <1>1, <1>3 DEF SignalIsHead, ProvisionalStacked, NoWaiterForgotten, Queued, Polling
<1>8. LoopState' /\ SkippedIsCovered'
  BY <1>1, <1>3 DEF LoopState, SkippedIsCovered, Polling
<1> QED BY <1>2, <1>4, <1>5, <1>6, <1>7, <1>8

\* The expiry of the lock key preserves the invariant: its owner counts as having lost it.
LEMMA LockExpiryStep ==
  ASSUME LockInv, NEW k \in Key, LockExpires(k)
  PROVE  LockInv'
<1> DEFINE r == lock[k]
<1> USE RequestAssumption DEF LockInv
<1>1. /\ r \in Request /\ KeyOf[r] = k
      /\ lock' = [lock EXCEPT ![k] = NoRequest]
      /\ lost' = [lost EXCEPT ![r] = Alive(r)]
      /\ UNCHANGED <<signal, waiters, pc, result, aborted, late, renewErr, outcome, covered>>
      /\ pc[r] \in Owning \cup {"cancel", "crashed"}
  BY DEF LockExpires, LockOwner, TypeOK
<1>2. Alive(r) <=> pc[r] # "crashed"
  BY <1>1 DEF Alive, Owning
<1>3. TypeOK'
  <2>1. Alive(r) \in BOOLEAN
    BY DEF Alive
  <2> QED BY <1>1, <2>1 DEF TypeOK
<1>4. /\ lock'[k] = NoRequest
      /\ \A j \in Key : j # k => lock'[j] = lock[j] /\ lock[j] # r
      /\ lost'[r] = Alive(r)
      /\ \A q \in Request : q # r => lost'[q] = lost[q]
  BY <1>1 DEF TypeOK, LockOwner
<1> HIDE DEF r
<1>5. LockOwner'
  BY <1>1, <1>4 DEF LockOwner, TypeOK
<1>6. HeldIsTruthful'
  <2>1. ASSUME NEW q \in Request, q # r PROVE lock'[KeyOf[q]] = q <=> lock[KeyOf[q]] = q
    BY <1>4, <2>1 DEF r
  <2> QED BY <1>1, <1>2, <1>4, <2>1 DEF HeldIsTruthful, HoldsLock, Owning
<1>7. SignalIsHead' /\ StackMembers' /\ NoWaiterForgotten' /\ SkippedIsCovered'
  BY <1>1 DEF SignalIsHead, StackMembers, NoWaiterForgotten, SkippedIsCovered, Queued
<1>8. ProvisionalStacked'
  BY <1>1, <1>2, <1>4 DEF ProvisionalStacked
<1>9. LoopState'
  BY <1>1, <1>4 DEF LoopState, Owning, Polling
<1> QED BY <1>3, <1>5, <1>6, <1>7, <1>8, <1>9

\* The expiry of the waiter stack preserves the invariant.
LEMMA WaitersExpiryStep ==
  ASSUME LockInv, NEW k \in Key, WaitersExpire(k)
  PROVE  LockInv'
<1> USE RequestAssumption, EmptyStack DEF LockInv
<1>1. /\ signal' = [signal EXCEPT ![k] = NoRequest]
      /\ waiters' = [waiters EXCEPT ![k] = <<>>]
      /\ \A w \in Members(waiters[k]) : pc[w] = "crashed"
      /\ UNCHANGED <<lock, pc, result, aborted, late, renewErr, outcome, lost, covered>>
  BY DEF WaitersExpire
<1>2. TypeOK'
  BY <1>1 DEF TypeOK
<1>3. SignalIsHead'
  BY <1>1 DEF SignalIsHead, TypeOK
<1>4. \A j \in Key : Members(waiters'[j]) = IF j = k THEN {} ELSE Members(waiters[j])
  BY <1>1 DEF TypeOK
<1>5. StackMembers' /\ ProvisionalStacked' /\ NoWaiterForgotten'
  BY <1>1, <1>4 DEF StackMembers, ProvisionalStacked, NoWaiterForgotten, Queued, Polling
<1>6. LockOwner' /\ HeldIsTruthful' /\ LoopState' /\ SkippedIsCovered'
  BY <1>1 DEF LockOwner, HeldIsTruthful, HoldsLock, LoopState, SkippedIsCovered
<1> QED BY <1>2, <1>3, <1>5, <1>6

\* Every step preserves the invariant.
LEMMA NextIInv == LockInv /\ [Next]_vars => LockInv'
<1> SUFFICES ASSUME LockInv, [Next]_vars PROVE LockInv'
  OBVIOUS
<1>1. ASSUME NEW r \in Request, Acquiring(r) PROVE LockInv'
  <2>1. CASE Call(r) \/ Poll(r) \/ AcquireBlocked(r) \/ CheckProvisional(r) \/ ConfirmFails(r)
    BY <2>1, LocalStep
       DEF Call, Poll, PollStops, PollContinues, GetSignal, GetLock, AcquireBlocked,
           CheckProvisional, ConfirmFails, redisVars
  <2>2. CASE AcquireFree(r) \/ AcquireQueued(r)
    BY <2>2, EnterStackStep
  <2>3. CASE Confirm(r)
    BY <2>3, ConfirmStep
  <2>4. CASE CancelProvisional(r) \/ CancelFinally(r)
    BY <2>4, CancelStep
  <2> QED BY <1>1, <2>1, <2>2, <2>3, <2>4 DEF Acquiring, Attempt, Settle
<1>2. ASSUME NEW r \in Request, Holding(r) PROVE LockInv'
  <2>1. CASE RenewFails(r) \/ RenewSucceeds(r) \/ StopRun(r) \/ FinishRun(r)
    BY <2>1, LocalStep DEF RenewFails, RenewSucceeds, StopRun, FinishRun, redisVars
  <2>2. CASE Release(r)
    BY <2>2, ReleaseStep
  <2> QED BY <1>2, <2>1, <2>2 DEF Holding
<1>3. ASSUME NEW r \in Request, Environment(r) PROVE LockInv'
  BY <1>3, LocalStep DEF Environment, Abort, DeadlinePasses, Crash, redisVars
<1>4. ASSUME NEW k \in Key, LockExpires(k) \/ WaitersExpire(k) PROVE LockInv'
  BY <1>4, LockExpiryStep, WaitersExpiryStep
<1>5. CASE UNCHANGED vars
  BY <1>5 DEF vars, LockInv, TypeOK, SignalIsHead, HeldIsTruthful, HoldsLock, NoWaiterForgotten,
     Queued, SkippedIsCovered, LockOwner, StackMembers, ProvisionalStacked, LoopState
<1> QED BY <1>1, <1>2, <1>3, <1>4, <1>5 DEF Next

\* Everything LockInv says holds in every reachable state.
THEOREM LockInvariance == Spec => []LockInv
BY InitIInv, NextIInv, PTL DEF Spec

-----------------------------------------------------------------------------
(* What the lock promises its callers.                                       *)

\* The type invariant.
THEOREM LockTyped == Spec => []TypeOK
<1>1. LockInv => TypeOK
  BY DEF LockInv
<1> QED BY LockInvariance, <1>1, PTL

\* Runs over one calendar do not overlap unless one has outlived its lease, because
\* the key names its owner (HeldIsTruthful) and names one request only.
THEOREM MutualExclusionHolds == Spec => []MutualExclusion
<1>1. LockInv => MutualExclusion
  BY DEF LockInv, HeldIsTruthful, MutualExclusion, HoldsLock, Owning
<1> QED BY LockInvariance, <1>1, PTL

\* isHeld tells a run the truth about its lease.
THEOREM HandleTruthful == Spec => []HeldIsTruthful
<1>1. LockInv => HeldIsTruthful
  BY DEF LockInv
<1> QED BY LockInvariance, <1>1, PTL

\* A waiter that finds no signal key knows that nobody waits: the signal is the head
\* of the stack through every push, promotion, confirmation and expiry.
THEOREM SignalNamesHead == Spec => []SignalIsHead
<1>1. LockInv => SignalIsHead
  BY DEF LockInv
<1> QED BY LockInvariance, <1>1, PTL

\* No live waiter is forgotten.
THEOREM WaitersAreKept == Spec => []NoWaiterForgotten
<1>1. LockInv => NoWaiterForgotten
  BY DEF LockInv
<1> QED BY LockInvariance, <1>1, PTL

\* A call that leaves for want of a signal was overtaken by a confirmed run.
THEOREM SkippingIsSafe == Spec => []SkippedIsCovered
<1>1. LockInv => SkippedIsCovered
  BY DEF LockInv
<1> QED BY LockInvariance, <1>1, PTL

\* The holder sees every preempting waiter: it is in the stack isCurrent reads.
THEOREM PreemptionIsVisible == Spec => []PreemptorVisible
<1>1. LockInv => PreemptorVisible
  BY DEF LockInv, NoWaiterForgotten, PreemptorVisible, IsCurrent
<1> QED BY LockInvariance, <1>1, PTL

\* A confirmation with an intact lease is revoked only by a newer waiter.
THEOREM OnlyNewerWaitersRevoke == Spec => RevokedByNewerWaiter
<1> DEFINE Revocation ==
      \A r \in Request :
        pc[r] = "confirm" /\ pc'[r] = "cancel" /\ ~lost[r]
          => LIndex0(waiters[KeyOf[r]]) \notin {r, NoRequest}
<1>1. LockInv /\ [Next]_vars => [Revocation]_vars
  <2> SUFFICES ASSUME LockInv, Next, NEW r \in Request,
                      pc[r] = "confirm", pc'[r] = "cancel", ~lost[r]
               PROVE  LIndex0(waiters[KeyOf[r]]) \notin {r, NoRequest}
    BY DEF vars
  <2>1. KeyOf[r] \in Key /\ waiters[KeyOf[r]] \in Seq(Request)
    BY RequestAssumption DEF LockInv, TypeOK
  <2>2. r \in Members(waiters[KeyOf[r]]) /\ lock[KeyOf[r]] = r
    BY DEF LockInv, ProvisionalStacked, HeldIsTruthful, HoldsLock, Owning
  <2>3. LIndex0(waiters[KeyOf[r]]) # NoRequest
    BY <2>1, <2>2, HeadProperties, EmptyStack
  <2>4. ~Confirmable(r)
    BY ZenonT(60) DEF LockInv, TypeOK, Next, Acquiring, Attempt, Poll, Settle, Holding, Environment,
       Call, AcquireBlocked, AcquireFree, AcquireQueued, PollStops, PollContinues,
       GetSignal, GetLock, CheckProvisional, Confirm, ConfirmFails, CancelProvisional,
       CancelFinally, RenewFails, RenewSucceeds, StopRun, FinishRun, Release, Abort,
       DeadlinePasses, Crash, LockExpires, WaitersExpire, Goto
  <2>5. signal[KeyOf[r]] = LIndex0(waiters[KeyOf[r]])
    BY <2>1 DEF LockInv, SignalIsHead
  <2> QED BY <2>2, <2>3, <2>4, <2>5 DEF Confirmable
<1> QED BY LockInvariance, <1>1, PTL DEF Spec, RevokedByNewerWaiter

----------------------------------------------------------------------------
(***************************************************************************)
(* The safety properties of MappingChange for every set of sources,        *)
(* destinations, calls and changes: the limit of the plan, and that a run  *)
(* writes what its mappings say for as long as no lease has lapsed.        *)
(***************************************************************************)

\* Where a call has the user's lock, and where a run has its destination's.
UnderUserLock == {"resolve", "lock", "commit", "release", "unlock"}

\* The call that has the user's lock is the only one that knows its destinations.
UserLockOwned ==
  \A m \in Mutations : mutation[m].pc \in UnderUserLock => mapLock[UserKey] = m

NobodyDied == \A m \in Mutations : mutation[m].pc # "dead"

\* Held locks are this call's, and a run that is under way has its own.
DestinationsOwned ==
  /\ \A m \in Mutations : \A d \in mutation[m].held : mapLock[d] = m
  /\ \A d \in MapTargets : push[d].pc # "idle" => mapLock[d] = Run

\* What the call resolved is still what its change will touch, and all of it is locked
\* when it commits.
ResolvedStands ==
  \A m \in Mutations :
    /\ mutation[m].pc \in {"lock", "commit"} =>
         mutation[m].todo = DestinationsOf(mutation[m].change)
    /\ mutation[m].pc = "commit" => mutation[m].held = mutation[m].todo

\* What a run has read is what is mapped.
ReadStands ==
  \A d \in MapTargets :
    push[d].pc \in {"read", "gate", "write"} => push[d].sources = MappedTo(d, maps)

LocksTrusted == UserLockOwned /\ NobodyDied /\ DestinationsOwned /\ ResolvedStands /\ ReadStands

MapInv == /\ MappingTypeOK
          /\ LimitHeld
          /\ leases = MaxLeases => LocksTrusted

-----------------------------------------------------------------------------
(* Types.                                                                   *)

\* The records of the calls and of the runs.
MutationRecords == [pc : {"new", "user", "resolve", "lock", "commit", "release", "unlock", "done",
                "dead"},
          change : Changes \cup {NoChange},
          todo : SUBSET MapTargets, held : SUBSET MapTargets]
Runs == [pc : {"idle", "locked", "read", "gate", "write", "release"},
         sources : SUBSET MapSources]

\* What a call carries agrees with where it stands.
MutationIsWhole(m) ==
  /\ mutation[m].held \subseteq mutation[m].todo
  /\ mutation[m].todo # {} => mutation[m].pc \in {"lock", "commit"}
  /\ mutation[m].pc \in {"user", "resolve", "lock", "commit"} => mutation[m].change \in Changes

LocksTyped == /\ mapLock \in [Keys -> Mutations \cup {Free, Run}]
              /\ mapLock[UserKey] # Run
MutationsTyped == /\ mutation \in [Mutations -> MutationRecords]
              /\ \A m \in Mutations : MutationIsWhole(m)
RunsTyped == push \in [MapTargets -> Runs] /\ pushed \in [MapTargets -> SUBSET MapSources]
RowsTyped == maps \subseteq MapSources \X MapTargets /\ leases \in 0..MaxLeases

LEMMA MappingTypeParts ==
  /\ MappingTypeOK <=> LocksTyped /\ MutationsTyped /\ RunsTyped /\ RowsTyped
  /\ MappingTypeOK' <=> LocksTyped' /\ MutationsTyped' /\ RunsTyped' /\ RowsTyped'
BY DEF MappingTypeOK, LocksTyped, MutationsTyped, RunsTyped, RowsTyped, MutationIsWhole, MutationRecords, Runs

\* The user's key is no destination, and no call has the name of a free lock or of a run.
LEMMA KeysApart ==
  /\ UserKey \notin MapTargets /\ UserKey \in Keys /\ MapTargets \subseteq Keys
  /\ Free \notin Mutations /\ Run \notin Mutations /\ Free # Run
BY MappingAssumption DEF Keys, Free, Run

\* What a change names.
LEMMA ChangeShape ==
  ASSUME NEW c \in Changes
  PROVE  /\ c.kind \in {"replace", "add", "remove"}
         /\ \/ c.by = "source" /\ c.of \in MapSources /\ c.ids \subseteq MapTargets
            \/ c.by = "target" /\ c.of \in MapTargets /\ c.ids \subseteq MapSources
BY MappingAssumption DEF ChangesOf

LEMMA IdleTyped ==
  ASSUME NEW place \in {"release", "unlock", "done", "dead"}
  PROVE  [IdleMutation EXCEPT !.pc = place] \in MutationRecords
BY DEF IdleMutation, MutationRecords

\* A step of one call.
LEMMA OneMutation ==
  ASSUME MutationsTyped, NEW m \in Mutations, mutation' = [mutation EXCEPT ![m] = mutation'[m]],
         mutation'[m] \in MutationRecords, MutationIsWhole(m)'
  PROVE  MutationsTyped'
BY DEF MutationsTyped, MutationIsWhole

LEMMA MoveTyped ==
  ASSUME MutationsTyped, NEW m \in Mutations,
         NEW place \in {"resolve", "commit", "release", "unlock", "done", "dead"}, MoveTo(m, place),
         place = "resolve" => mutation[m].change \in Changes /\ mutation[m].todo = {},
         place = "commit" => mutation[m].change \in Changes
  PROVE  MutationsTyped' /\ mutation'[m].pc = place
<1>1. mutation[m] \in MutationRecords /\ MutationIsWhole(m)
  BY DEF MutationsTyped
<1>2. CASE place \in {"release", "unlock", "done", "dead"}
  <2>1. /\ mutation' = [mutation EXCEPT ![m] = mutation'[m]]
        /\ mutation'[m] = [IdleMutation EXCEPT !.pc = place]
    BY <1>2 DEF MoveTo, MutationsTyped
  <2>2. MutationIsWhole(m)' /\ mutation'[m].pc = place
    BY <1>2, <2>1 DEF MutationIsWhole, IdleMutation
  <2> QED BY <1>2, <2>1, <2>2, IdleTyped, OneMutation
<1>3. CASE place \in {"resolve", "commit"}
  <2>1. /\ mutation' = [mutation EXCEPT ![m] = mutation'[m]]
        /\ mutation'[m] = [mutation[m] EXCEPT !.pc = place]
    BY <1>3 DEF MoveTo, MutationsTyped
  <2>2. mutation'[m] \in MutationRecords /\ mutation'[m].pc = place
    BY <1>1, <1>3, <2>1 DEF MutationRecords
  <2>3. /\ mutation'[m].todo = mutation[m].todo /\ mutation'[m].held = mutation[m].held
        /\ mutation'[m].change = mutation[m].change
    BY <1>1, <2>1 DEF MutationRecords
  <2>4. MutationIsWhole(m)'
    BY <1>1, <1>3, <2>2, <2>3 DEF MutationIsWhole
  <2> QED BY <2>1, <2>2, <2>4, OneMutation
<1> QED BY <1>2, <1>3

LEMMA MappingStartsTyped == MappingInit => MappingTypeOK
BY MappingAssumption, KeysApart
   DEF MappingInit, MappingTypeOK, IdleMutation, IdlePush, MappedTo

LEMMA CallTypes ==
  ASSUME MappingTypeOK, NEW m \in Mutations,
         \/ \E c \in Changes : AskChange(m, c)
         \/ MutationStep(m) \/ GiveUpLocks(m) \/ MutatorDies(m)
  PROVE  MappingTypeOK'
<1>1. /\ LocksTyped /\ MutationsTyped /\ RunsTyped /\ RowsTyped
      /\ mutation[m] \in MutationRecords /\ MutationIsWhole(m)
  BY MappingTypeParts DEF MutationsTyped
<1>2. RunsTyped'
  BY <1>1 DEF RunsTyped, AskChange, MutationStep, GiveUpLocks, MutatorDies, LockUser,
     ResolveDestinations, LockDestination, CheckLocksHeld, CommitChange, ReleaseDestinations,
     ReleaseUser
<1>3. LocksTyped'
  BY <1>1, KeysApart DEF LocksTyped, AskChange, MutationStep, GiveUpLocks, MutatorDies, LockUser,
     ResolveDestinations, LockDestination, CheckLocksHeld, CommitChange, ReleaseDestinations,
     ReleaseUser
<1>4. MutationsTyped'
  <2>1. ASSUME NEW c \in Changes, AskChange(m, c) PROVE MutationsTyped'
    <3>1. /\ mutation' = [mutation EXCEPT ![m] = mutation'[m]]
          /\ mutation'[m] = [mutation[m] EXCEPT !.pc = "user", !.change = c]
      BY <1>1, <2>1 DEF AskChange, MutationsTyped, MutationRecords
    <3>2. mutation[m].todo = {} /\ mutation[m].held = {}
      BY <1>1, <2>1 DEF AskChange, AtM, MutationIsWhole
    <3>3. mutation'[m] \in MutationRecords /\ MutationIsWhole(m)'
      BY <1>1, <3>1, <3>2 DEF MutationRecords, MutationIsWhole
    <3> QED BY <1>1, <3>1, <3>3, OneMutation
  <2>2. ASSUME ResolveDestinations(m) PROVE MutationsTyped'
    <3>1. mutation[m].change \in Changes
      BY <1>1, <2>2 DEF ResolveDestinations, AtM, MutationIsWhole
    <3>2. /\ mutation' = [mutation EXCEPT ![m] = mutation'[m]]
          /\ mutation'[m] = [mutation[m] EXCEPT !.pc = "lock",
                                                !.todo = DestinationsOf(mutation[m].change)]
      BY <1>1, <2>2 DEF ResolveDestinations, MutationsTyped, MutationRecords
    <3>3. DestinationsOf(mutation[m].change) \subseteq MapTargets
      BY <3>1, ChangeShape DEF DestinationsOf
    <3>4. mutation[m].held = {}
      BY <1>1, <2>2 DEF ResolveDestinations, AtM, MutationIsWhole
    <3>5. /\ mutation'[m] \in MutationRecords /\ mutation'[m].pc = "lock" /\ mutation'[m].held = {}
          /\ mutation'[m].change = mutation[m].change
      BY <1>1, <3>2, <3>3, <3>4 DEF MutationRecords
    <3>6. MutationIsWhole(m)'
      BY <3>1, <3>5 DEF MutationIsWhole
    <3> QED BY <1>1, <3>2, <3>5, <3>6, OneMutation
  <2>3. ASSUME NEW d \in MapTargets, LockDestination(m, d) PROVE MutationsTyped'
    <3>1. /\ mutation' = [mutation EXCEPT ![m] = mutation'[m]]
          /\ mutation'[m] = [mutation[m] EXCEPT !.held = mutation[m].held \cup {d}]
      BY <1>1, <2>3 DEF LockDestination, MutationsTyped, MutationRecords
    <3>2. d \in mutation[m].todo
      BY <2>3 DEF LockDestination, NextToLock, ToLock
    <3>3. mutation'[m] \in MutationRecords /\ MutationIsWhole(m)'
      BY <1>1, <3>1, <3>2 DEF MutationRecords, MutationIsWhole
    <3> QED BY <1>1, <3>1, <3>3, OneMutation
  <2>4. ASSUME \/ LockUser(m) \/ CheckLocksHeld(m) \/ CommitChange(m) \/ ReleaseDestinations(m)
               \/ ReleaseUser(m) \/ GiveUpLocks(m) \/ MutatorDies(m)
        PROVE  MutationsTyped'
    <3>1. \E place \in {"resolve", "commit", "release", "unlock", "done", "dead"} :
            /\ MoveTo(m, place)
            /\ place = "resolve" => mutation[m].change \in Changes /\ mutation[m].todo = {}
            /\ place = "commit" => mutation[m].change \in Changes
      BY <1>1, <2>4 DEF LockUser, CheckLocksHeld, CommitChange, ReleaseDestinations,
         ReleaseUser, GiveUpLocks, MutatorDies, AtM, MutationIsWhole
    <3> QED BY <1>1, <3>1, MoveTyped
  <2> QED BY <2>1, <2>2, <2>3, <2>4 DEF MutationStep
<1>5. RowsTyped'
  <2>1. CASE CommitChange(m)
    <3>1. mutation[m].change \in Changes
      BY <1>1, <2>1 DEF CommitChange, AtM, MutationIsWhole
    <3> DEFINE c == mutation[m].change
               previous == PreviousIds(c)
               next == NextIds(c, previous)
    <3>2. PairsOf(c, next) \subseteq MapSources \X MapTargets
      BY <1>1, <3>1, ChangeShape DEF PairsOf, NextIds, PreviousIds, MappedTo, RowsTyped
    <3> QED BY <1>1, <2>1, <3>2 DEF CommitChange, RowsTyped
  <2>2. CASE ~CommitChange(m)
    BY <1>1, <2>2, MappingAssumption
       DEF RowsTyped, AskChange, MutationStep, GiveUpLocks, MutatorDies, LockUser,
       ResolveDestinations, LockDestination, CheckLocksHeld, ReleaseDestinations, ReleaseUser
  <2> QED BY <2>1, <2>2
<1> QED BY <1>2, <1>3, <1>4, <1>5, MappingTypeParts

LEMMA RunTypes ==
  ASSUME MappingTypeOK, NEW d \in MapTargets, StartPush(d) \/ PushStep(d)
  PROVE  MappingTypeOK'
<1>1. LocksTyped /\ MutationsTyped /\ RunsTyped /\ RowsTyped
  BY MappingTypeParts
<1>2. MutationsTyped' /\ RowsTyped'
  BY <1>1 DEF MutationsTyped, MutationIsWhole, RowsTyped, StartPush, PushStep, ReadMappings,
     RereadMappings, PushGate, WritePush, ReleasePush
<1>3. LocksTyped'
  BY <1>1, KeysApart DEF LocksTyped, StartPush, PushStep, ReadMappings, RereadMappings, PushGate,
     WritePush, ReleasePush
<1>4. RunsTyped'
  <2>1. push[d] \in Runs /\ pushed \in [MapTargets -> SUBSET MapSources]
    BY <1>1 DEF RunsTyped
  <2>2. push' = [push EXCEPT ![d] = push'[d]]
    BY <1>1 DEF RunsTyped, StartPush, PushStep, ReadMappings, RereadMappings, PushGate, WritePush,
       ReleasePush
  <2>3. push'[d] \in Runs
    <3>1. CASE ReadMappings(d) \/ ReleasePush(d)
      <4>1. MappedTo(d, maps) \in SUBSET MapSources
        BY DEF MappedTo
      <4>2. [pc |-> "read", sources |-> MappedTo(d, maps)] \in Runs /\ IdlePush \in Runs
        BY <4>1 DEF Runs, IdlePush
      <4> QED BY <1>1, <3>1, <4>2 DEF RunsTyped, ReadMappings, ReleasePush
    <3>2. CASE StartPush(d) \/ RereadMappings(d) \/ PushGate(d) \/ WritePush(d)
      <4>1. \E place \in {"locked", "gate", "write", "release"} :
              push'[d] = [push[d] EXCEPT !.pc = place]
        BY <1>1, <3>2 DEF RunsTyped, Runs, StartPush, RereadMappings, PushGate, WritePush
      <4> QED BY <2>1, <4>1 DEF Runs
    <3> QED BY <3>1, <3>2 DEF PushStep
  <2>4. pushed' \in [MapTargets -> SUBSET MapSources]
    BY <2>1 DEF Runs, StartPush, PushStep, ReadMappings, RereadMappings, PushGate, WritePush,
       ReleasePush
  <2> QED BY <1>1, <2>2, <2>3, <2>4 DEF RunsTyped
<1> QED BY <1>2, <1>3, <1>4, MappingTypeParts

LEMMA MappingStepTyped == MappingTypeOK /\ [MappingNext]_mappingVars => MappingTypeOK'
<1> SUFFICES ASSUME MappingTypeOK, [MappingNext]_mappingVars PROVE MappingTypeOK'
  OBVIOUS
<1>1. ASSUME NEW k \in Keys, MapLeaseLapses(k) PROVE MappingTypeOK'
  BY <1>1, KeysApart, MappingAssumption, MappingTypeParts
     DEF MapLeaseLapses, LocksTyped, MutationsTyped, MutationIsWhole, RunsTyped, RowsTyped
<1>2. CASE UNCHANGED mappingVars
  BY <1>2 DEF mappingVars, MappingTypeOK
<1> QED BY <1>1, <1>2, CallTypes, RunTypes DEF MappingNext

-----------------------------------------------------------------------------
(* The limit: a change replaces all the mappings of the calendar it names.   *)

LEMMA MapsFinite ==
  ASSUME MappingTypeOK
  PROVE  IsFiniteSet(maps) /\ Cardinality(maps) \in Nat
<1>1. IsFiniteSet(MapSources \X MapTargets)
  BY FS_Product, MappingAssumption
<1> QED BY <1>1, FS_Subset, FS_CardinalityType, MappingTypeParts DEF RowsTyped

\* As many mappings as there are calendars on the other side.
LEMMA PairsCount ==
  ASSUME NEW c \in Changes, NEW ids, IsFiniteSet(ids)
  PROVE  /\ IsFiniteSet(PairsOf(c, ids))
         /\ Cardinality(PairsOf(c, ids)) = Cardinality(ids)
<1>1. IsFiniteSet({c.of}) /\ Cardinality({c.of}) = 1 /\ Cardinality(ids) \in Nat
  BY FS_Singleton, FS_CardinalityType
<1>2. CASE c.by = "source"
  <2>1. PairsOf(c, ids) = {c.of} \X ids
    BY <1>2 DEF PairsOf
  <2> QED BY <1>1, <2>1, FS_Product
<1>3. CASE c.by # "source"
  <2>1. PairsOf(c, ids) = ids \X {c.of}
    BY <1>3 DEF PairsOf
  <2>2. /\ IsFiniteSet(ids \X {c.of})
        /\ Cardinality(ids \X {c.of}) = Cardinality(ids) * Cardinality({c.of})
    BY <1>1, FS_Product
  <2>3. Cardinality(ids) * 1 = Cardinality(ids)
    BY <1>1
  <2> QED BY <1>1, <2>1, <2>2, <2>3
<1> QED BY <1>2, <1>3

LEMMA CommitCounts ==
  ASSUME MappingTypeOK, NEW c \in Changes, NEW next,
         IsFiniteSet(next),
         next \subseteq IF c.by = "source" THEN MapTargets ELSE MapSources
  PROVE  LET previous == PreviousIds(c)
             new == (maps \ PairsOf(c, previous)) \cup PairsOf(c, next)
         IN  /\ Cardinality(previous) \in Nat
             /\ Cardinality(new) = Cardinality(maps) - Cardinality(previous)
                                     + Cardinality(next)
<1> DEFINE previous == PreviousIds(c)
           old == PairsOf(c, previous)
           added == PairsOf(c, next)
<1>1. IsFiniteSet(maps) /\ maps \subseteq MapSources \X MapTargets
  BY MapsFinite, MappingTypeParts DEF RowsTyped
<1>2. previous \subseteq IF c.by = "source" THEN MapTargets ELSE MapSources
  BY DEF PreviousIds, MappedTo
<1>3. IsFiniteSet(previous)
  <2>1. IsFiniteSet(MapSources) /\ IsFiniteSet(MapTargets)
    BY MappingAssumption
  <2> QED BY <1>2, <2>1, FS_Subset
<1>4. old \subseteq maps /\ added \cap (maps \ old) = {}
  BY <1>1, ChangeShape DEF PairsOf, PreviousIds, MappedTo
<1>5. /\ IsFiniteSet(old) /\ Cardinality(old) = Cardinality(previous)
      /\ IsFiniteSet(added) /\ Cardinality(added) = Cardinality(next)
  BY <1>3, PairsCount
<1> HIDE DEF previous, old, added
<1>6. IsFiniteSet(maps \ old) /\ Cardinality(maps \ old) = Cardinality(maps) - Cardinality(old)
  <2>1. maps \cap old = old
    BY <1>4
  <2> QED BY <1>1, <2>1, FS_Difference, ZenonT(60)
<1>7. Cardinality((maps \ old) \cup added) = Cardinality(maps \ old) + Cardinality(added)
  <2>1. Cardinality((maps \ old) \cap added) = 0
    <3>1. (maps \ old) \cap added = {}
      BY <1>4
    <3> QED BY <3>1, FS_EmptySet
  <2>2. Cardinality(maps \ old) \in Nat /\ Cardinality(added) \in Nat
    BY <1>5, <1>6, FS_CardinalityType
  <2>3. Cardinality((maps \ old) \cup added)
          = Cardinality(maps \ old) + Cardinality(added) - Cardinality((maps \ old) \cap added)
    BY <1>5, <1>6, FS_Union
  <2> QED BY <2>1, <2>2, <2>3
<1>8. Cardinality(maps) \in Nat /\ Cardinality(previous) \in Nat /\ Cardinality(next) \in Nat
  BY <1>1, <1>3, FS_CardinalityType
<1> QED BY <1>5, <1>6, <1>7, <1>8 DEF previous, old, added

LEMMA CommitLimit ==
  ASSUME MappingTypeOK, LimitHeld, NEW m \in Mutations, CommitChange(m)
  PROVE  LimitHeld'
<1> DEFINE c == mutation[m].change
           previous == PreviousIds(c)
           next == NextIds(c, previous)
<1>1. c \in Changes
  BY MappingTypeParts DEF MutationsTyped, MutationIsWhole, CommitChange, AtM
<1>2. next \subseteq IF c.by = "source" THEN MapTargets ELSE MapSources
  BY <1>1, ChangeShape DEF NextIds, PreviousIds, MappedTo
<1>3. IsFiniteSet(next)
  <2>1. IsFiniteSet(MapSources) /\ IsFiniteSet(MapTargets)
    BY MappingAssumption
  <2> QED BY <1>2, <2>1, FS_Subset
<1>4. CASE ExceedsMappingLimit(previous, next)
  BY <1>4 DEF CommitChange, LimitHeld
<1>5. CASE ~ExceedsMappingLimit(previous, next)
  <2>1. maps' = (maps \ PairsOf(c, previous)) \cup PairsOf(c, next)
    BY <1>5 DEF CommitChange
  <2>2. /\ Cardinality(previous) \in Nat
        /\ Cardinality(maps') = Cardinality(maps) - Cardinality(previous) + Cardinality(next)
    BY <1>1, <1>2, <1>3, <2>1, CommitCounts
  <2>3. Cardinality(maps) \in Nat /\ Cardinality(next) \in Nat
    BY <1>3, MapsFinite, FS_CardinalityType
  <2> HIDE DEF previous, next, c
  <2> QED BY <1>5, <2>2, <2>3, MappingAssumption DEF ExceedsMappingLimit, LimitHeld
<1> QED BY <1>4, <1>5

-----------------------------------------------------------------------------
(* The locks, as long as no lease has lapsed.                                *)

\* Who moves: the other calls and the other runs stay where they are.
LEMMA CallFrame ==
  ASSUME MappingTypeOK, NEW m \in Mutations,
         \/ \E c \in Changes : AskChange(m, c)
         \/ MutationStep(m) \/ GiveUpLocks(m)
  PROVE  /\ UNCHANGED <<push, pushed, leases>>
         /\ \A x \in Mutations : x # m => mutation'[x] = mutation[x]
BY MappingTypeParts DEF MutationsTyped, AskChange, MutationStep, GiveUpLocks, LockUser, ResolveDestinations,
   LockDestination, CheckLocksHeld, CommitChange, ReleaseDestinations, ReleaseUser, MoveTo

\* What MoveTo does to the call.
LEMMA MoveShape ==
  ASSUME MappingTypeOK, NEW m \in Mutations, NEW place, MoveTo(m, place)
  PROVE  /\ mutation'[m].pc = place
         /\ place \in {"release", "unlock", "done", "dead"} => mutation'[m].held = {}
         /\ place \notin {"release", "unlock", "done", "dead"} =>
              /\ mutation'[m].held = mutation[m].held /\ mutation'[m].todo = mutation[m].todo
              /\ mutation'[m].change = mutation[m].change
<1>1. mutation[m] \in MutationRecords /\ mutation \in [Mutations -> MutationRecords]
  BY MappingTypeParts DEF MutationsTyped
<1> QED BY <1>1 DEF MoveTo, MutationRecords, IdleMutation

\* Only one call stands under the user's lock, so that nobody changes the mappings while
\* another has resolved its destinations.
LEMMA UserLockStep ==
  ASSUME MappingTypeOK, UserLockOwned, NobodyDied, NEW m \in Mutations,
         \/ \E c \in Changes : AskChange(m, c)
         \/ MutationStep(m) \/ GiveUpLocks(m)
  PROVE  UserLockOwned' /\ NobodyDied'
<1>1. mutation[m] \in MutationRecords /\ mutation \in [Mutations -> MutationRecords]
      /\ mapLock \in [Keys -> Mutations \cup {Free, Run}]
  BY MappingTypeParts DEF MutationsTyped, LocksTyped
<1>2. \A x \in Mutations : x # m => mutation'[x] = mutation[x]
  BY CallFrame
<1>3. mutation'[m].pc # "dead"
  BY <1>1, MoveShape DEF NobodyDied, AskChange, MutationStep, GiveUpLocks, LockUser,
     ResolveDestinations, LockDestination, CheckLocksHeld, CommitChange, ReleaseDestinations,
     ReleaseUser, MutationRecords
<1>4. ASSUME LockUser(m) PROVE UserLockOwned'
  <2>1. mapLock[UserKey] = Free /\ mapLock'[UserKey] = m
    BY <1>1, <1>4, KeysApart DEF LockUser
  <2> QED BY <1>2, <2>1, KeysApart DEF UserLockOwned
<1>5. ASSUME ReleaseUser(m) PROVE UserLockOwned'
  <2>1. mutation'[m].pc = "done"
    BY <1>5, MoveShape DEF ReleaseUser
  <2>2. mapLock[UserKey] # m => mapLock'[UserKey] = mapLock[UserKey]
    BY <1>5, KeysApart DEF ReleaseUser
  <2> QED BY <1>2, <2>1, <2>2 DEF UserLockOwned, UnderUserLock, ReleaseUser, AtM, NobodyDied
<1>6. ASSUME ~LockUser(m) /\ ~ReleaseUser(m) PROVE UserLockOwned'
  <2>1. mapLock'[UserKey] = mapLock[UserKey]
    BY <1>1, <1>6, KeysApart DEF AskChange, MutationStep, GiveUpLocks, ResolveDestinations,
       LockDestination, CheckLocksHeld, CommitChange, ReleaseDestinations
  <2>2. mutation'[m].pc \in UnderUserLock => mutation[m].pc \in UnderUserLock
    BY <1>1, <1>6, MoveShape DEF AskChange, MutationStep, GiveUpLocks, ResolveDestinations,
       LockDestination, CheckLocksHeld, CommitChange, ReleaseDestinations, UnderUserLock, AtM,
       MutationRecords
  <2>3. mutation'[m].pc \in UnderUserLock => mapLock'[UserKey] = m
    BY <2>1, <2>2 DEF UserLockOwned
  <2> QED BY <1>2, <2>1, <2>3 DEF UserLockOwned
<1>7. NobodyDied'
  BY <1>2, <1>3 DEF NobodyDied
<1> QED BY <1>4, <1>5, <1>6, <1>7

\* Destinations are locked while they are free and given up only by their holders.
LEMMA DestinationLockStep ==
  ASSUME MappingTypeOK, UserLockOwned, DestinationsOwned, NEW m \in Mutations,
         \/ \E c \in Changes : AskChange(m, c)
         \/ MutationStep(m) \/ GiveUpLocks(m)
  PROVE  DestinationsOwned'
<1>1. /\ mutation[m] \in MutationRecords /\ mutation \in [Mutations -> MutationRecords]
      /\ mapLock \in [Keys -> Mutations \cup {Free, Run}]
      /\ \A x \in Mutations : mutation[x].held \subseteq MapTargets
      /\ mutation[m].todo # {} => mutation[m].pc \in {"lock", "commit"}
      /\ mutation[m].held \subseteq mutation[m].todo
  BY MappingTypeParts DEF MutationsTyped, LocksTyped, MutationRecords, MutationIsWhole
<1>2. UNCHANGED push /\ \A x \in Mutations : x # m => mutation'[x] = mutation[x]
  BY CallFrame
<1>3. ASSUME NEW d \in MapTargets, LockDestination(m, d) PROVE DestinationsOwned'
  <2>1. mutation'[m].held = mutation[m].held \cup {d}
    BY <1>1, <1>3 DEF LockDestination, MutationRecords
  <2>2. mapLock[d] = Free /\ mapLock' = [mapLock EXCEPT ![d] = m]
    BY <1>3 DEF LockDestination
  <2>3. \A x \in Mutations : d \notin mutation[x].held
    BY <2>2, KeysApart DEF DestinationsOwned
  <2>4. push[d].pc = "idle"
    BY <2>2, KeysApart DEF DestinationsOwned
  <2>5. mapLock'[d] = m /\ \A e \in MapTargets : e # d => mapLock'[e] = mapLock[e]
    BY <1>1, <2>2, KeysApart
  <2>6. \A x \in Mutations : \A e \in mutation'[x].held : mapLock'[e] = x
    <3> SUFFICES ASSUME NEW x \in Mutations, NEW e \in mutation'[x].held
                 PROVE  mapLock'[e] = x
      OBVIOUS
    <3>1. CASE x = m
      BY <1>1, <2>1, <2>5, <3>1 DEF DestinationsOwned
    <3>2. CASE x # m
      BY <1>1, <1>2, <2>3, <2>5, <3>2 DEF DestinationsOwned
    <3> QED BY <3>1, <3>2
  <2> QED BY <1>2, <2>4, <2>5, <2>6 DEF DestinationsOwned
<1>4. CASE ReleaseDestinations(m) \/ ReleaseUser(m)
  <2>1. mutation'[m].held = {}
    BY <1>4, MoveShape DEF ReleaseDestinations, ReleaseUser
  <2>2. \A d \in MapTargets : mapLock[d] # m => mapLock'[d] = mapLock[d]
    BY <1>4, KeysApart DEF ReleaseDestinations, ReleaseUser
  <2> QED BY <1>1, <1>2, <2>1, <2>2, KeysApart DEF DestinationsOwned
<1>5. CASE ~(ReleaseDestinations(m) \/ ReleaseUser(m) \/ \E d \in MapTargets : LockDestination(m, d))
  <2>1. \A d \in MapTargets : mapLock'[d] = mapLock[d]
    BY <1>1, <1>5, KeysApart DEF AskChange, MutationStep, GiveUpLocks, LockUser,
       ResolveDestinations, CheckLocksHeld, CommitChange
  <2>2. mutation'[m].held \subseteq mutation[m].held
    BY <1>1, <1>5, MoveShape DEF AskChange, MutationStep, GiveUpLocks, LockUser,
       ResolveDestinations, CheckLocksHeld, CommitChange, MutationRecords
  <2> QED BY <1>1, <1>2, <2>1, <2>2 DEF DestinationsOwned
<1> QED BY <1>3, <1>4, <1>5

\* A change touches the runs of the destinations it names, and of no other.
LEMMA CommitTouches ==
  ASSUME MappingTypeOK, NEW m \in Mutations, CommitChange(m), NEW d \in MapTargets,
         d \notin DestinationsOf(mutation[m].change)
  PROVE  MappedTo(d, maps') = MappedTo(d, maps)
<1> DEFINE c == mutation[m].change
           previous == PreviousIds(c)
           next == NextIds(c, previous)
<1>1. c \in Changes
  BY MappingTypeParts DEF MutationsTyped, MutationIsWhole, CommitChange, AtM
<1>2. \/ maps' = maps
      \/ maps' = (maps \ PairsOf(c, previous)) \cup PairsOf(c, next)
  BY DEF CommitChange
<1>3. CASE c.by = "source"
  <2>1. d \notin previous /\ d \notin next
    BY <1>1, <1>3, ChangeShape DEF DestinationsOf, PreviousIds, NextIds
  <2> HIDE DEF previous, next, c
  <2>2. \A s : <<s, d>> \in maps' <=> <<s, d>> \in maps
    BY <1>2, <1>3, <2>1 DEF PairsOf
  <2> QED BY <2>2 DEF MappedTo
<1>4. CASE c.by # "source"
  <2>1. d # c.of
    BY <1>4 DEF DestinationsOf
  <2> HIDE DEF previous, next, c
  <2>2. \A s : <<s, d>> \in maps' <=> <<s, d>> \in maps
    BY <1>2, <1>4, <2>1 DEF PairsOf
  <2> QED BY <2>2 DEF MappedTo
<1> QED BY <1>3, <1>4

LEMMA ResolvedStep ==
  ASSUME MappingTypeOK, LocksTrusted, NEW m \in Mutations,
         \/ \E c \in Changes : AskChange(m, c)
         \/ MutationStep(m) \/ GiveUpLocks(m)
  PROVE  ResolvedStands' /\ ReadStands'
<1>1. /\ mutation[m] \in MutationRecords /\ mutation \in [Mutations -> MutationRecords]
      /\ mutation[m].held \subseteq mutation[m].todo
  BY MappingTypeParts DEF MutationsTyped, MutationIsWhole
<1>2. UNCHANGED push /\ \A x \in Mutations : x # m => mutation'[x] = mutation[x]
  BY CallFrame
<1>3. CASE CommitChange(m)
  <2>1. mutation[m].pc = "commit" /\ mutation'[m].pc = "release"
    BY <1>3, MoveShape DEF CommitChange, AtM
  <2>2. \A x \in Mutations : x # m => mutation[x].pc \notin {"lock", "commit"}
    BY <2>1, KeysApart DEF LocksTrusted, UserLockOwned, UnderUserLock
  <2>3. ResolvedStands'
    BY <1>2, <2>1, <2>2 DEF ResolvedStands
  <2>4. \A d \in DestinationsOf(mutation[m].change) : mapLock[d] = m
    BY <2>1 DEF LocksTrusted, ResolvedStands, DestinationsOwned
  <2>5. \A d \in MapTargets : push[d].pc # "idle" => MappedTo(d, maps') = MappedTo(d, maps)
    BY <1>3, <2>4, CommitTouches, KeysApart DEF LocksTrusted, DestinationsOwned
  <2>6. ReadStands'
    <3>1. ASSUME NEW d \in MapTargets, push[d].pc \in {"read", "gate", "write"}
          PROVE  push[d].sources = MappedTo(d, maps')
      BY <2>5, <3>1 DEF LocksTrusted, ReadStands
    <3> QED BY <1>2, <3>1 DEF ReadStands, MappedTo
  <2> QED BY <2>3, <2>6
<1>4. CASE ~CommitChange(m)
  <2>1. maps' = maps
    BY <1>4 DEF AskChange, MutationStep, GiveUpLocks, LockUser, ResolveDestinations,
       LockDestination, CheckLocksHeld, ReleaseDestinations, ReleaseUser
  <2>2. ReadStands'
    BY <1>2, <2>1 DEF LocksTrusted, ReadStands, MappedTo
  <2>3. \A c : DestinationsOf(c)' = DestinationsOf(c)
    BY <2>1 DEF DestinationsOf
  <2> DEFINE Resolved ==
               /\ mutation'[m].pc \in {"lock", "commit"} =>
                    mutation'[m].todo = DestinationsOf(mutation'[m].change)
               /\ mutation'[m].pc = "commit" => mutation'[m].held = mutation'[m].todo
  <2>4. Resolved
    <3>1. CASE ResolveDestinations(m)
      <4>1. /\ mutation'[m].pc = "lock" /\ mutation'[m].change = mutation[m].change
            /\ mutation'[m].todo = DestinationsOf(mutation[m].change)
        BY <1>1, <3>1 DEF ResolveDestinations, MutationRecords
      <4> QED BY <4>1
    <3>2. ASSUME NEW d \in MapTargets, LockDestination(m, d) PROVE Resolved
      <4>1. /\ mutation[m].pc = "lock" /\ mutation'[m].pc = "lock"
            /\ mutation'[m].change = mutation[m].change /\ mutation'[m].todo = mutation[m].todo
        BY <1>1, <3>2 DEF LockDestination, AtM, MutationRecords
      <4> QED BY <4>1 DEF LocksTrusted, ResolvedStands
    <3>3. CASE CheckLocksHeld(m)
      <4>1. /\ mutation[m].pc = "lock" /\ mutation[m].held = mutation[m].todo
            /\ mutation[m].todo = DestinationsOf(mutation[m].change)
        BY <1>1, <3>3 DEF CheckLocksHeld, AtM, ToLock, LocksTrusted, ResolvedStands
      <4> QED BY <3>3, <4>1, MoveShape DEF CheckLocksHeld
    <3>4. CASE LockUser(m) \/ ReleaseDestinations(m) \/ ReleaseUser(m) \/ GiveUpLocks(m)
      <4>1. mutation'[m].pc \notin {"lock", "commit"}
        BY <3>4, MoveShape DEF LockUser, ReleaseDestinations, ReleaseUser, GiveUpLocks
      <4> QED BY <4>1
    <3>5. ASSUME NEW c \in Changes, AskChange(m, c) PROVE mutation'[m].pc = "user"
      BY <1>1, <3>5 DEF AskChange, MutationRecords
    <3> QED BY <1>4, <3>1, <3>2, <3>3, <3>4, <3>5 DEF MutationStep
  <2>5. ResolvedStands'
    BY <1>2, <2>3, <2>4 DEF LocksTrusted, ResolvedStands
  <2> QED BY <2>2, <2>5
<1> QED BY <1>3, <1>4

\* A run takes its destination while it is free, and reads under its lock.
LEMMA PushRunStep ==
  ASSUME MappingTypeOK, LocksTrusted, NEW d \in MapTargets, StartPush(d) \/ PushStep(d)
  PROVE  LocksTrusted'
<1>1. /\ UNCHANGED <<maps, mutation, leases>>
      /\ \A e \in MapTargets : e # d => push'[e] = push[e]
  BY MappingTypeParts DEF RunsTyped, StartPush, PushStep, ReadMappings, RereadMappings, PushGate,
     WritePush, ReleasePush
<1>2. push[d] \in Runs /\ push \in [MapTargets -> Runs]
      /\ mapLock \in [Keys -> Mutations \cup {Free, Run}]
      /\ \A m \in Mutations : mutation[m].held \subseteq MapTargets
  BY MappingTypeParts DEF RunsTyped, LocksTyped, MutationsTyped, MutationRecords
<1>3. \A k \in Keys : k # d => mapLock'[k] = mapLock[k]
  BY <1>2 DEF StartPush, PushStep, ReadMappings, RereadMappings, PushGate, WritePush, ReleasePush
<1>4. /\ mapLock[d] \notin {Free, Run} => mapLock'[d] = mapLock[d]
      /\ push'[d].pc # "idle" => mapLock'[d] = Run
  <2>1. CASE StartPush(d)
    BY <1>2, <2>1, KeysApart DEF StartPush
  <2>2. CASE ReleasePush(d)
    BY <1>2, <2>2, KeysApart DEF ReleasePush, IdlePush
  <2>3. CASE ReadMappings(d) \/ RereadMappings(d) \/ PushGate(d) \/ WritePush(d)
    <3>1. UNCHANGED mapLock /\ push[d].pc # "idle"
      BY <2>3 DEF ReadMappings, RereadMappings, PushGate, WritePush
    <3> QED BY <3>1 DEF LocksTrusted, DestinationsOwned
  <2> QED BY <2>1, <2>2, <2>3 DEF PushStep
<1>5. push'[d].pc \in {"read", "gate", "write"} => push'[d].sources = MappedTo(d, maps)
  <2>1. CASE StartPush(d)
    BY <1>2, <2>1 DEF StartPush, Runs
  <2>2. CASE ReadMappings(d)
    BY <1>2, <2>2 DEF ReadMappings
  <2>3. CASE RereadMappings(d) \/ PushGate(d)
    <3>1. push[d].pc \in {"read", "gate"} /\ push'[d].sources = push[d].sources
      BY <1>2, <2>3 DEF RereadMappings, PushGate, Runs
    <3> QED BY <3>1 DEF LocksTrusted, ReadStands
  <2>4. CASE WritePush(d) \/ ReleasePush(d)
    <3>1. push'[d].pc \in {"release", "idle"}
      BY <1>2, <2>4 DEF WritePush, ReleasePush, IdlePush, Runs
    <3> QED BY <3>1
  <2> QED BY <2>1, <2>2, <2>3, <2>4 DEF PushStep
<1>6. UserLockOwned' /\ NobodyDied' /\ ResolvedStands'
  <2>1. mapLock'[UserKey] = mapLock[UserKey]
    BY <1>3, KeysApart
  <2> QED BY <1>1, <2>1 DEF LocksTrusted, UserLockOwned, NobodyDied, ResolvedStands, DestinationsOf
<1>7. DestinationsOwned'
  <2>1. ASSUME NEW m \in Mutations, NEW e \in mutation[m].held PROVE mapLock'[e] = m
    <3>1. mapLock[e] = m /\ e \in MapTargets /\ m \notin {Free, Run}
      BY <1>2, <2>1, KeysApart DEF LocksTrusted, DestinationsOwned
    <3> QED BY <1>3, <1>4, <3>1, KeysApart
  <2>2. ASSUME NEW e \in MapTargets, push'[e].pc # "idle" PROVE mapLock'[e] = Run
    BY <1>1, <1>3, <1>4, <2>2, KeysApart DEF LocksTrusted, DestinationsOwned
  <2> QED BY <1>1, <2>1, <2>2 DEF DestinationsOwned
<1>8. ReadStands'
  <2>1. ASSUME NEW e \in MapTargets, push'[e].pc \in {"read", "gate", "write"}
        PROVE  push'[e].sources = MappedTo(e, maps)
    BY <1>1, <1>5, <2>1 DEF LocksTrusted, ReadStands
  <2> QED BY <1>1, <2>1 DEF ReadStands, MappedTo
<1> QED BY <1>6, <1>7, <1>8 DEF LocksTrusted

-----------------------------------------------------------------------------
(* The invariant and what follows from it.                                   *)

LEMMA InitMapInv == MappingInit => MapInv
<1> SUFFICES ASSUME MappingInit PROVE MapInv
  OBVIOUS
<1>1. MappingTypeOK
  BY MappingStartsTyped
<1>2. LimitHeld
  BY MappingAssumption DEF MappingInit, LimitHeld
<1>3. \A m \in Mutations : mutation[m] = IdleMutation
  BY DEF MappingInit
<1>4. \A d \in MapTargets : push[d] = IdlePush
  BY DEF MappingInit
<1>5. LocksTrusted
  BY <1>3, <1>4
     DEF LocksTrusted, UserLockOwned, NobodyDied, DestinationsOwned, ResolvedStands, ReadStands,
         UnderUserLock, IdleMutation, IdlePush
<1> QED BY <1>1, <1>2, <1>5 DEF MapInv

\* No step gives leases back.
LEMMA LeasesFall ==
  ASSUME MappingTypeOK, [MappingNext]_mappingVars, leases' = MaxLeases
  PROVE  leases = MaxLeases
<1>1. leases \in 0..MaxLeases /\ MaxLeases \in Nat
  BY MappingAssumption, MappingTypeParts DEF RowsTyped
<1>2. leases' = leases \/ leases' = leases - 1
  BY DEF MappingNext, mappingVars, AskChange, MutationStep, GiveUpLocks, MutatorDies, LockUser,
     ResolveDestinations, LockDestination, CheckLocksHeld, CommitChange, ReleaseDestinations,
     ReleaseUser, MapLeaseLapses, StartPush, PushStep, ReadMappings, RereadMappings, PushGate,
     WritePush, ReleasePush
<1> QED BY <1>1, <1>2

LEMMA NextMapInv == MapInv /\ [MappingNext]_mappingVars => MapInv'
<1> SUFFICES ASSUME MapInv, [MappingNext]_mappingVars PROVE MapInv'
  OBVIOUS
<1>1. MappingTypeOK /\ LimitHeld /\ MappingTypeOK'
  BY MappingStepTyped DEF MapInv
<1>2. LimitHeld'
  <2>1. CASE \E m \in Mutations : CommitChange(m)
    BY <1>1, <2>1, CommitLimit
  <2>2. CASE maps' = maps
    BY <1>1, <2>2 DEF LimitHeld
  <2> QED BY <2>1, <2>2
          DEF MappingNext, mappingVars, AskChange, MutationStep, GiveUpLocks, MutatorDies,
              LockUser, ResolveDestinations, LockDestination, CheckLocksHeld,
              ReleaseDestinations, ReleaseUser, MapLeaseLapses, StartPush, PushStep,
              ReadMappings, RereadMappings, PushGate, WritePush, ReleasePush
<1>3. ASSUME leases' = MaxLeases PROVE LocksTrusted'
  <2>1. leases = MaxLeases /\ LocksTrusted /\ leases \in Nat
    BY <1>1, <1>3, LeasesFall, MappingAssumption DEF MapInv
  <2>2. ASSUME NEW m \in Mutations,
               \/ \E c \in Changes : AskChange(m, c)
               \/ MutationStep(m) \/ GiveUpLocks(m)
        PROVE  LocksTrusted'
    BY <1>1, <2>1, <2>2, UserLockStep, DestinationLockStep, ResolvedStep DEF LocksTrusted
  <2>3. ~(\E m \in Mutations : MutatorDies(m))
    BY <1>3, <2>1 DEF MutatorDies
  <2>4. ~(\E k \in Keys : MapLeaseLapses(k))
    <3> SUFFICES ASSUME NEW k \in Keys, MapLeaseLapses(k) PROVE FALSE
      OBVIOUS
    <3>1. mapLock[k] \in Mutations /\ mutation[mapLock[k]].pc = "dead"
      BY <1>1, <1>3, <2>1, MappingTypeParts DEF MapLeaseLapses, LocksTyped, AtM
    <3> QED BY <2>1, <3>1 DEF LocksTrusted, NobodyDied
  <2>5. CASE UNCHANGED mappingVars
    BY <2>1, <2>5
       DEF mappingVars, LocksTrusted, UserLockOwned, NobodyDied, DestinationsOwned,
           ResolvedStands, ReadStands, DestinationsOf, MappedTo
  <2>6. ASSUME NEW d \in MapTargets, StartPush(d) \/ PushStep(d) PROVE LocksTrusted'
    BY <1>1, <2>1, <2>6, PushRunStep
  <2> QED BY <2>2, <2>3, <2>4, <2>5, <2>6 DEF MappingNext
<1> QED BY <1>1, <1>2, <1>3 DEF MapInv

\* Everything MapInv says holds in every reachable state.
THEOREM MapInvariance == MappingSpec => []MapInv
BY InitMapInv, NextMapInv, PTL DEF MappingSpec

\* The variables keep their kinds.
THEOREM MappingTyped == MappingSpec => []MappingTypeOK
<1>1. MapInv => MappingTypeOK
  BY DEF MapInv
<1> QED BY MapInvariance, <1>1, PTL

\* The user never has more mappings than the plan allows, whichever changes overlap and
\* whichever locks lapse: the count is taken inside the transaction.
THEOREM LimitAlwaysHeld == MappingSpec => []LimitHeld
<1>1. MapInv => LimitHeld
  BY DEF MapInv
<1> QED BY MapInvariance, <1>1, PTL

\* As long as no lease has lapsed, a run writes what is mapped at that moment: the call
\* that would change it does not get the lock of the destination before the run ends.
THEOREM RunsWriteWhatIsMapped == MappingSpec => PushesWhatIsMapped
<1> DEFINE Writes ==
      \A d \in MapTargets :
        /\ leases = MaxLeases
        /\ push[d].pc = "write" /\ push'[d].pc # "write"
        => pushed'[d] = MappedTo(d, maps)
<1>1. MapInv /\ [MappingNext]_mappingVars => [Writes]_mappingVars
  <2> SUFFICES ASSUME MapInv, MappingNext, NEW d \in MapTargets, leases = MaxLeases,
                      push[d].pc = "write", push'[d].pc # "write"
               PROVE  pushed'[d] = MappedTo(d, maps)
    BY DEF mappingVars
  <2>1. MappingTypeOK /\ push[d].sources = MappedTo(d, maps)
    BY DEF MapInv, LocksTrusted, ReadStands
  <2>2. push \in [MapTargets -> Runs] /\ pushed \in [MapTargets -> SUBSET MapSources]
    BY <2>1, MappingTypeParts DEF RunsTyped
  <2>3. \A e \in MapTargets : StartPush(e) \/ PushStep(e) => e = d
    BY <2>2 DEF StartPush, PushStep, ReadMappings, RereadMappings, PushGate, WritePush,
       ReleasePush
  <2>4. WritePush(d)
    <3>1. ~UNCHANGED push
      OBVIOUS
    <3>2. StartPush(d) \/ PushStep(d)
      BY <2>3, <3>1 DEF MappingNext, AskChange, MutationStep, GiveUpLocks, MutatorDies, LockUser,
         ResolveDestinations, LockDestination, CheckLocksHeld, CommitChange,
         ReleaseDestinations, ReleaseUser, MapLeaseLapses
    <3> QED BY <3>2 DEF StartPush, PushStep, ReadMappings, RereadMappings, PushGate, ReleasePush
  <2> QED BY <2>1, <2>2, <2>4 DEF WritePush
<1> QED BY MapInvariance, <1>1, PTL DEF MappingSpec, PushesWhatIsMapped

----------------------------------------------------------------------------
(***************************************************************************)
(* The safety properties of SyncHold for every set of destinations and of  *)
(* jobs, and whatever number of operations a run may have.                 *)
(***************************************************************************)

(* The books of the hold: what is counted is what is active, a release is     *)
(* pending only when nothing is, no calendar has done more than it has to do, *)
(* and a user who is held and was told something was told the mark.           *)
EntryType == [status : {"none", "idle", "syncing"}, processed : 0..MaxTotal, total : 0..MaxTotal]
SaidType == [syncing : BOOLEAN, percent : 0..Whole]
NoneOverdone(es) == \A d \in Targets : es[d].processed <= es[d].total
Counted == Cardinality({d \in Targets : activeJob[d] # NoJob})

HoldTypes ==
  /\ onWorker \subseteq Targets \X JobIds
  /\ activeJob \in [Targets -> SUBSET JobIds]
  /\ watchdog \in [Targets -> SUBSET JobIds]
  /\ releasing \in BOOLEAN /\ closed \in BOOLEAN /\ held \in BOOLEAN /\ spoke \in BOOLEAN
  /\ entry \in [Targets -> EntryType]
  /\ highWater \in 0..Whole
  /\ said \in SaidType
  /\ jobsLeft \in 0..MaxJobs

CountHolds == activeCount = Counted
HeldHolds == /\ held <=> (activeCount > 0 \/ releasing)
             /\ releasing => activeCount = 0
ToldHolds == held /\ spoke => said.syncing /\ said.percent = highWater

HoldInv == HoldTypes /\ CountHolds /\ HeldHolds /\ NoneOverdone(entry) /\ ToldHolds

----------------------------------------------------------------------------
(* Sums.                                                                      *)

UnitsOf(amount) == UNION {{d} \X (1..amount[d]) : d \in Targets}

\* A sum of at most MaxTotal for each destination is a number.
LEMMA SumIsNumber ==
  ASSUME NEW n \in [Targets -> 0..MaxTotal]
  PROVE  /\ IsFiniteSet(UnitsOf(n))
         /\ Sum(n) \in Nat
         /\ Sum(n) = Cardinality(UnitsOf(n))
<1>1. IsFiniteSet(Targets) /\ MaxTotal \in Nat
  BY SyncHoldAssumption
<1>2. IsFiniteSet(1..MaxTotal)
  BY <1>1, FS_Interval
<1>3. IsFiniteSet(Targets \X (1..MaxTotal))
  BY <1>1, <1>2, FS_Product
<1>4. UnitsOf(n) \in SUBSET (Targets \X (1..MaxTotal))
  <2>1. \A d \in Targets : {d} \X (1..n[d]) \subseteq Targets \X (1..MaxTotal)
    BY <1>1
  <2> QED
    BY <2>1 DEF UnitsOf
<1>5. IsFiniteSet(UnitsOf(n))
  BY <1>3, <1>4, FS_Subset
<1>6. Cardinality(UnitsOf(n)) \in Nat
  BY <1>5, FS_CardinalityType
<1> QED
  BY <1>5, <1>6 DEF Sum, UnitsOf

\* Amounts that are nowhere larger have no larger sum.
LEMMA SumIsMonotone ==
  ASSUME NEW m \in [Targets -> 0..MaxTotal], NEW n \in [Targets -> 0..MaxTotal],
         \A d \in Targets : m[d] <= n[d]
  PROVE  Sum(m) <= Sum(n)
<1>1. UnitsOf(m) \in SUBSET UnitsOf(n)
  <2>1. \A d \in Targets : {d} \X (1..m[d]) \subseteq {d} \X (1..n[d])
    BY SyncHoldAssumption
  <2> QED
    BY <2>1 DEF UnitsOf
<1>2. IsFiniteSet(UnitsOf(n))
  BY SumIsNumber
<1>3. Cardinality(UnitsOf(m)) <= Cardinality(UnitsOf(n))
  BY <1>1, <1>2, FS_Subset
<1> QED
  BY <1>3, SumIsNumber

\* A share of the whole is no more than the whole.
LEMMA ShareOfWhole ==
  ASSUME NEW done \in Nat, NEW total \in Nat, total # 0, done <= total
  PROVE  ((Whole * done) \div total) \in 0..Whole
<1> DEFINE q == (Whole * done) \div total
<1>1. 12 * done \in Nat /\ 12 * done <= 12 * total
  OBVIOUS
<1>2. q \in Int /\ total * q <= 12 * done /\ 12 * done < total * (q + 1)
  BY <1>1 DEF Whole
<1>3. q <= 12
  BY <1>1, <1>2
<1>4. q >= 0
  BY <1>1, <1>2
<1> QED
  BY <1>2, <1>3, <1>4 DEF Whole

\* What is published of entries that are sound is an aggregate; a user who is
\* held is syncing, and one who is syncing is not told less than the mark.
LEMMA SnapshotSound ==
  ASSUME NEW es \in [Targets -> EntryType], NoneOverdone(es),
         NEW h \in BOOLEAN, NEW hw \in 0..Whole
  PROVE  /\ Snapshot(es, h, hw) \in SaidType
         /\ h => Snapshot(es, h, hw).syncing
         /\ Snapshot(es, h, hw).syncing => Snapshot(es, h, hw).percent >= hw
<1> DEFINE syncing == h \/ \E d \in Targets : es[d].status = "syncing"
           totals == [d \in Targets |-> es[d].total]
           dones == [d \in Targets |-> es[d].processed]
           total == Sum(totals)
           done == Sum(dones)
           raw == IF total = 0 THEN IF syncing THEN 0 ELSE Whole ELSE (Whole * done) \div total
           percent == IF syncing /\ raw < hw THEN hw ELSE raw
<1>1. totals \in [Targets -> 0..MaxTotal] /\ dones \in [Targets -> 0..MaxTotal]
  BY DEF EntryType
<1>2. \A d \in Targets : dones[d] <= totals[d]
  BY DEF NoneOverdone
<1>3. total \in Nat /\ done \in Nat /\ done <= total
  <2> HIDE DEF totals, dones
  <2> QED
    BY <1>1, <1>2, SumIsNumber, SumIsMonotone
<1>4. Snapshot(es, h, hw) = [syncing |-> syncing, percent |-> percent]
  BY DEF Snapshot
<1>5. syncing \in BOOLEAN
  OBVIOUS
<1>6. raw \in 0..Whole
  <2> HIDE DEF total, done, syncing
  <2>1. CASE total = 0
    BY <2>1 DEF Whole
  <2>2. CASE total # 0
    BY <1>3, <2>2, ShareOfWhole
  <2> QED
    BY <2>1, <2>2
<1>7. percent \in 0..Whole /\ (syncing => percent >= hw)
  <2> HIDE DEF raw, syncing
  <2> QED
    BY <1>5, <1>6 DEF Whole
<1>8. h => syncing
  OBVIOUS
<1> HIDE DEF syncing, percent
<1> QED
  BY <1>4, <1>5, <1>7, <1>8 DEF SaidType

----------------------------------------------------------------------------
(* Counting the active destinations.                                          *)

\* A destination that becomes active counts one more, one that settles one less.
LEMMA CountMoves ==
  ASSUME HoldTypes, NEW d \in Targets, NEW new \in SUBSET JobIds,
         activeJob' = [activeJob EXCEPT ![d] = new]
  PROVE  /\ Counted \in Nat
         /\ activeJob[d] = NoJob /\ new # NoJob => Counted' = Counted + 1
         /\ activeJob[d] # NoJob => Counted > 0
         /\ activeJob[d] # NoJob /\ new # NoJob => Counted' = Counted
         /\ activeJob[d] # NoJob /\ new = NoJob => Counted' = Counted - 1
<1> DEFINE S == {x \in Targets : activeJob[x] # NoJob}
           T == {x \in Targets : activeJob'[x] # NoJob}
<1>0. Counted = Cardinality(S) /\ Counted' = Cardinality(T)
  BY DEF Counted
<1> USE DEF HoldTypes
<1>1. IsFiniteSet(S)
  <2>1. S \in SUBSET Targets
    OBVIOUS
  <2> QED
    BY <2>1, SyncHoldAssumption, FS_Subset
<1>2. Cardinality(S) \in Nat
  BY <1>1, FS_CardinalityType
<1>3. ASSUME activeJob[d] = NoJob, new # NoJob PROVE Cardinality(T) = Cardinality(S) + 1
  <2>1. T = S \cup {d} /\ d \notin S
    BY <1>3
  <2> HIDE DEF S, T
  <2> QED
    BY <1>1, <2>1, FS_AddElement
<1>4. ASSUME activeJob[d] # NoJob, new # NoJob PROVE Cardinality(T) = Cardinality(S)
  <2>1. T = S
    BY <1>4
  <2> QED
    BY <2>1
<1>5. ASSUME activeJob[d] # NoJob, new = NoJob PROVE Cardinality(T) = Cardinality(S) - 1
  <2>1. T = S \ {d} /\ d \in S
    BY <1>5
  <2> HIDE DEF S, T
  <2> QED
    BY <1>1, <2>1, FS_RemoveElement
<1>6. ASSUME activeJob[d] # NoJob PROVE Cardinality(S) > 0
  <2>1. d \in S
    BY <1>6
  <2> HIDE DEF S
  <2>2. Cardinality(S) # 0
    BY <1>1, <2>1, FS_EmptySet
  <2> QED
    BY <1>2, <2>2
<1> HIDE DEF S, T
<1> QED
  BY <1>0, <1>2, <1>3, <1>4, <1>5, <1>6

\* The count is a number that no set of destinations exceeds.
LEMMA CountBounded ==
  ASSUME HoldTypes, CountHolds
  PROVE  activeCount \in 0..Cardinality(Targets)
<1>1. {d \in Targets : activeJob[d] # NoJob} \in SUBSET Targets
  OBVIOUS
<1>2. /\ Cardinality({d \in Targets : activeJob[d] # NoJob}) <= Cardinality(Targets)
      /\ IsFiniteSet({d \in Targets : activeJob[d] # NoJob})
  BY <1>1, SyncHoldAssumption, FS_Subset
<1>3. Cardinality({d \in Targets : activeJob[d] # NoJob}) \in Nat /\ Cardinality(Targets) \in Nat
  BY <1>2, SyncHoldAssumption, FS_CardinalityType
<1> QED
  BY <1>2, <1>3 DEF CountHolds, Counted

----------------------------------------------------------------------------
(* The steps.                                                                 *)

\* Nobody is held at first.
LEMMA HoldStarts == SyncHoldInit => HoldInv
<1> SUFFICES ASSUME SyncHoldInit PROVE HoldInv
  OBVIOUS
<1>1. HoldTypes
  <2>1. NoEntry \in EntryType
    BY SyncHoldAssumption DEF NoEntry, EntryType
  <2>2. [syncing |-> FALSE, percent |-> Whole] \in SaidType /\ 0 \in 0..Whole
    BY DEF SaidType, Whole
  <2>3. jobsLeft \in 0..MaxJobs
    BY SyncHoldAssumption DEF SyncHoldInit
  <2>4. NoJob \in SUBSET JobIds
    BY DEF NoJob
  <2> QED
    BY <2>1, <2>2, <2>3, <2>4 DEF SyncHoldInit, HoldTypes
<1>2. CountHolds
  <2>1. {d \in Targets : activeJob[d] # NoJob} = {}
    BY DEF SyncHoldInit
  <2> QED
    BY <2>1, FS_EmptySet DEF SyncHoldInit, CountHolds, Counted
<1> QED
  BY <1>1, <1>2 DEF SyncHoldInit, HoldInv, HeldHolds, NoneOverdone, ToldHolds, NoEntry

\* A user who starts over.
LEMMA BeginKeeps ==
  ASSUME HoldInv, BeginRun
  PROVE  /\ held' = TRUE /\ spoke' = FALSE /\ highWater' \in 0..Whole /\ said' = said
         /\ entry' \in [Targets -> EntryType] /\ NoneOverdone(entry')
BY SyncHoldAssumption DEF BeginRun, NoneOverdone, NoEntry, EntryType, Whole

\* A user who is let go of is told an aggregate.
LEMMA ReleaseKeeps ==
  ASSUME HoldInv, ReleaseRun
  PROVE  /\ held' = FALSE /\ said' \in SaidType
         /\ UNCHANGED <<entry, highWater, spoke>>
<1>1. Snapshot(entry, FALSE, highWater) \in SaidType
  BY SnapshotSound DEF HoldInv, HoldTypes
<1> QED
  BY <1>1 DEF ReleaseRun

\* onActive: counted once, whatever was active or pending.
LEMMA JobActiveKeeps ==
  ASSUME HoldInv, NEW d \in Targets, NEW id \in JobIds, JobActive(d, id)
  PROVE  HoldInv'
<1> USE DEF HoldInv
<1>1. /\ onWorker' \subseteq Targets \X JobIds /\ jobsLeft' \in 0..MaxJobs
      /\ watchdog' \in [Targets -> SUBSET JobIds] /\ releasing' = FALSE /\ closed' = closed
      /\ activeJob' = [activeJob EXCEPT ![d] = {id}]
  BY SyncHoldAssumption DEF JobActive, HoldTypes
<1>2. activeJob' \in [Targets -> SUBSET JobIds]
  BY <1>1 DEF HoldTypes
<1>0. {id} \in SUBSET JobIds /\ {id} # NoJob /\ HoldTypes
  BY DEF NoJob
<1>c. /\ Counted \in Nat
      /\ activeJob[d] = NoJob => Counted' = Counted + 1
      /\ activeJob[d] # NoJob => Counted > 0 /\ Counted' = Counted
  BY <1>0, <1>1, CountMoves
<1>3. CASE activeJob[d] # NoJob
  <2>1. UNCHANGED <<activeCount, aggregateVars>>
    BY <1>3 DEF JobActive
  <2>2. CountHolds'
    <3>1. Counted' = Counted
      BY <1>3, <1>c
    <3> QED
      BY <2>1, <3>1 DEF CountHolds
  <2>3. activeCount > 0
    BY <1>3, <1>c DEF CountHolds
  <2> QED
    BY <1>1, <1>2, <2>1, <2>2, <2>3
       DEF HoldTypes, aggregateVars, HeldHolds, NoneOverdone, ToldHolds
<1>4. CASE activeJob[d] = NoJob
  <2>1. activeCount' = activeCount + 1
    BY <1>4 DEF JobActive
  <2>2. CountHolds' /\ activeCount \in Nat
    <3>1. Counted' = Counted + 1 /\ Counted \in Nat
      BY <1>4, <1>c
    <3> QED
      BY <2>1, <3>1 DEF CountHolds
  <2>3. CASE activeCount = 0 /\ ~releasing
    <3>1. BeginRun
      BY <1>4, <2>3 DEF JobActive
    <3>2. /\ held' = TRUE /\ spoke' = FALSE /\ highWater' \in 0..Whole /\ said' = said
          /\ entry' \in [Targets -> EntryType] /\ NoneOverdone(entry')
      BY <3>1, BeginKeeps
    <3>3. HoldTypes'
      BY <1>1, <1>2, <3>2 DEF HoldTypes
    <3>4. HeldHolds'
      BY <1>1, <2>1, <2>2, <3>2 DEF HeldHolds
    <3> QED
      BY <2>2, <3>2, <3>3, <3>4 DEF ToldHolds, NoneOverdone
  <2>4. CASE ~(activeCount = 0 /\ ~releasing)
    <3>1. UNCHANGED aggregateVars
      BY <1>4, <2>4 DEF JobActive
    <3>2. held
      BY <2>2, <2>4 DEF HeldHolds
    <3> QED
      <4>1. HoldTypes'
        BY <1>1, <1>2, <3>1 DEF HoldTypes, aggregateVars
      <4>2. HeldHolds'
        BY <1>1, <2>1, <2>2, <3>1, <3>2 DEF HeldHolds, aggregateVars
      <4> QED
        BY <2>2, <3>1, <4>1, <4>2 DEF NoneOverdone, ToldHolds, aggregateVars
  <2> QED
    BY <2>3, <2>4
<1> QED
  BY <1>3, <1>4

\* Settling takes one from the count, once for every job.
LEMMA SettledKeeps ==
  ASSUME HoldInv, NEW d \in Targets, NEW id \in JobIds, OnSettled(d, id),
         UNCHANGED <<closed, aggregateVars, jobsLeft>>, onWorker' \subseteq onWorker
  PROVE  HoldInv'
<1> USE DEF HoldInv
<1>1. CASE id \in activeJob[d]
  <2>1. /\ activeJob' = [activeJob EXCEPT ![d] = NoJob]
        /\ watchdog' = [watchdog EXCEPT ![d] = NoJob]
        /\ activeCount' = IF activeCount > 0 THEN activeCount - 1 ELSE 0
        /\ releasing' = (releasing \/ activeCount' = 0)
    BY <1>1 DEF OnSettled
  <2>2. /\ Counted' = Counted - 1 /\ Counted > 0 /\ Counted \in Nat
    BY <1>1, <2>1, CountMoves DEF NoJob
  <2>3. CountHolds' /\ activeCount > 0 /\ activeCount' = activeCount - 1 /\ activeCount \in Nat
    BY <2>1, <2>2 DEF CountHolds
  <2>4. HoldTypes'
    BY <2>1 DEF HoldTypes, NoJob, aggregateVars
  <2>5. HeldHolds'
    <3>1. held /\ ~releasing /\ held' = held
      BY <2>3 DEF HeldHolds, aggregateVars
    <3>2. releasing' = (activeCount' = 0)
      BY <2>1, <3>1
    <3>3. CASE activeCount' = 0
      BY <3>1, <3>2, <3>3 DEF HeldHolds
    <3>4. CASE activeCount' # 0
      <4>1. activeCount' > 0
        BY <2>3, <3>4
      <4> QED
        BY <3>1, <3>2, <3>4, <4>1 DEF HeldHolds
    <3> QED
      BY <3>3, <3>4
  <2> QED
    BY <2>3, <2>4, <2>5 DEF NoneOverdone, ToldHolds, aggregateVars
<1>2. CASE id \notin activeJob[d]
  BY <1>2 DEF OnSettled, HoldTypes, CountHolds, Counted, HeldHolds, NoneOverdone, ToldHolds, aggregateVars
<1> QED
  BY <1>1, <1>2

\* completed and failed, whether or not the event is heard.
LEMMA JobSettlesKeeps ==
  ASSUME HoldInv, NEW d \in Targets, NEW id \in JobIds, NEW told \in BOOLEAN, JobSettles(d, id, told)
  PROVE  HoldInv'
<1>1. CASE told
  BY <1>1, SettledKeeps DEF JobSettles
<1>2. CASE ~told
  BY <1>2 DEF JobSettles, HoldInv, HoldTypes, CountHolds, Counted, HeldHolds, NoneOverdone, ToldHolds, aggregateVars
<1> QED
  BY <1>1, <1>2

\* The watchdog settles what is active, and forgets what is not.
LEMMA WatchdogKeeps ==
  ASSUME HoldInv, NEW d \in Targets, NEW id \in JobIds, WatchdogFires(d, id)
  PROVE  HoldInv'
<1>1. CASE id \in activeJob[d]
  BY <1>1, SettledKeeps DEF WatchdogFires
<1>2. CASE id \notin activeJob[d]
  BY <1>2 DEF WatchdogFires, HoldInv, HoldTypes, CountHolds, Counted, HeldHolds, NoneOverdone, ToldHolds,
              aggregateVars, NoJob
<1> QED
  BY <1>1, <1>2

\* The debounced release fires only when nothing is counted.
LEMMA ReleaseFiresKeeps == ASSUME HoldInv, ReleaseFires PROVE HoldInv'
<1> USE DEF HoldInv
<1>1. releasing /\ activeCount = 0 /\ ReleaseRun
  BY DEF ReleaseFires, HeldHolds
<1>2. held' = FALSE /\ said' \in SaidType /\ UNCHANGED <<entry, highWater, spoke>>
  BY <1>1, ReleaseKeeps
<1>3. releasing' = FALSE /\ UNCHANGED <<onWorker, activeJob, watchdog, activeCount, closed, jobsLeft>>
  BY DEF ReleaseFires
<1>4. HoldTypes' /\ CountHolds'
  BY <1>2, <1>3 DEF HoldTypes, CountHolds, Counted
<1>5. HeldHolds'
  BY <1>1, <1>2, <1>3 DEF HeldHolds
<1> QED
  BY <1>2, <1>4, <1>5 DEF NoneOverdone, ToldHolds

\* close() releases what was about to be released.
LEMMA CloseKeeps == ASSUME HoldInv, CloseWorker PROVE HoldInv'
<1> USE DEF HoldInv
<1>1. /\ releasing' = FALSE /\ closed' = TRUE /\ watchdog' = [d \in Targets |-> NoJob]
      /\ UNCHANGED <<onWorker, activeJob, activeCount, jobsLeft>>
  BY DEF CloseWorker
<1>2. CountHolds'
  BY <1>1 DEF CountHolds, Counted
<1>3. watchdog' \in [Targets -> SUBSET JobIds]
  BY <1>1 DEF NoJob
<1>4. CASE releasing
  <2>1. activeCount = 0 /\ ReleaseRun
    BY <1>4 DEF CloseWorker, HeldHolds
  <2>2. held' = FALSE /\ said' \in SaidType /\ UNCHANGED <<entry, highWater, spoke>>
    BY <2>1, ReleaseKeeps
  <2>3. HoldTypes'
    BY <1>1, <1>3, <2>2 DEF HoldTypes
  <2>4. HeldHolds'
    BY <1>1, <2>1, <2>2 DEF HeldHolds
  <2> QED
    BY <1>2, <2>2, <2>3, <2>4 DEF NoneOverdone, ToldHolds
<1>5. CASE ~releasing
  <2>1. UNCHANGED aggregateVars
    BY <1>5 DEF CloseWorker
  <2>2. HoldTypes'
    BY <1>1, <1>3, <2>1 DEF HoldTypes, aggregateVars
  <2>3. HeldHolds'
    BY <1>1, <1>5, <2>1 DEF HeldHolds, aggregateVars
  <2> QED
    BY <1>2, <2>1, <2>2, <2>3 DEF NoneOverdone, ToldHolds, aggregateVars
<1> QED
  BY <1>4, <1>5

\* A snapshot that is published becomes the mark of a user who is held.
LEMMA PublishKeeps ==
  ASSUME HoldInv, entry' \in [Targets -> EntryType], NoneOverdone(entry'),
         Publish(Snapshot(entry', held, highWater)),
         UNCHANGED <<onWorker, activeJob, watchdog, activeCount, releasing, closed, held, jobsLeft>>
  PROVE  HoldInv' /\ (held => said'.syncing /\ said'.percent >= highWater)
<1> USE DEF HoldInv
<1> DEFINE snap == Snapshot(entry', held, highWater)
<1>1. /\ snap \in SaidType /\ (held => snap.syncing)
      /\ snap.syncing => snap.percent >= highWater
  BY SnapshotSound DEF HoldTypes
<1>2. said' = snap /\ highWater' = (IF snap.syncing THEN snap.percent ELSE 0) /\ spoke' = TRUE
  BY DEF Publish
<1> HIDE DEF snap
<1>3. highWater' \in 0..Whole
  BY <1>1, <1>2 DEF SaidType, Whole
<1> QED
  BY <1>1, <1>2, <1>3
     DEF HoldTypes, CountHolds, Counted, HeldHolds, ToldHolds, SaidType

\* Progress that is reported, or throttled.
LEMMA ProgressKeeps ==
  ASSUME HoldInv, NEW d \in Targets, NEW total \in 0..MaxTotal, NEW processed \in 0..total,
         NEW throttled \in BOOLEAN, ReportProgress(d, total, processed, throttled)
  PROVE  /\ HoldInv'
         /\ UNCHANGED said \/ (held => said'.syncing /\ said'.percent >= highWater)
<1>1. entry' \in [Targets -> EntryType] /\ NoneOverdone(entry')
  <2>1. processed \in 0..MaxTotal /\ total \in 0..MaxTotal /\ processed <= total
    BY SyncHoldAssumption
  <2>2. [status |-> "syncing", processed |-> processed, total |-> total] \in EntryType
    BY <2>1 DEF EntryType
  <2> QED
    BY <2>1, <2>2 DEF ReportProgress, HoldInv, HoldTypes, NoneOverdone
<1>2. CASE throttled
  BY <1>1, <1>2 DEF ReportProgress, HoldInv, HoldTypes, CountHolds, Counted, HeldHolds, ToldHolds
<1>3. CASE ~throttled
  BY <1>1, <1>3, PublishKeeps DEF ReportProgress
<1> QED
  BY <1>2, <1>3

\* A run of a calendar that ends.
LEMMA OutcomeKeeps ==
  ASSUME HoldInv, NEW d \in Targets, NEW completed \in BOOLEAN, ReportOutcome(d, completed)
  PROVE  /\ HoldInv'
         /\ held => said'.syncing /\ said'.percent >= highWater
<1>1. entry' \in [Targets -> EntryType] /\ NoneOverdone(entry')
  <2>1. entry[d] \in EntryType /\ entry[d].processed <= entry[d].total
    BY DEF HoldInv, HoldTypes, NoneOverdone
  <2>2. entry' = [entry EXCEPT ![d] = [status |-> "idle", total |-> entry[d].total,
                    processed |-> IF completed THEN entry[d].total ELSE entry[d].processed]]
    BY DEF ReportOutcome
  <2>3. /\ [status |-> "idle", total |-> entry[d].total,
            processed |-> IF completed THEN entry[d].total ELSE entry[d].processed] \in EntryType
        /\ (IF completed THEN entry[d].total ELSE entry[d].processed) <= entry[d].total
    BY <2>1, SyncHoldAssumption DEF EntryType
  <2> QED
    BY <2>1, <2>2, <2>3 DEF HoldInv, HoldTypes, NoneOverdone
<1> QED
  BY <1>1, PublishKeeps DEF ReportOutcome

\* Every step keeps the books of the hold.
LEMMA HoldStep == HoldInv /\ [SyncHoldNext]_holdVars => HoldInv'
<1> SUFFICES ASSUME HoldInv, [SyncHoldNext]_holdVars PROVE HoldInv'
  OBVIOUS
<1>1. CASE UNCHANGED holdVars
  BY <1>1 DEF holdVars, HoldInv, HoldTypes, CountHolds, Counted, HeldHolds, NoneOverdone, ToldHolds
<1>2. CASE SyncHoldNext
  BY <1>2, JobActiveKeeps, WatchdogKeeps, JobSettlesKeeps, ReleaseFiresKeeps, CloseKeeps, OutcomeKeeps,
     ProgressKeeps DEF SyncHoldNext
<1> QED
  BY <1>1, <1>2

\* What a step may tell a user who stays held.
LEMMA ToldStep ==
  ASSUME HoldInv, [SyncHoldNext]_holdVars, held, held', spoke, spoke', said' # said
  PROVE  said'.syncing /\ said'.percent >= said.percent
<1>1. said.percent = highWater
  BY DEF HoldInv, ToldHolds
<1>2. ~UNCHANGED holdVars
  BY DEF holdVars
<1>3. \A d \in Targets, id \in JobIds :
         /\ ~JobActive(d, id) /\ ~WatchdogFires(d, id)
         /\ \A told \in BOOLEAN : ~JobSettles(d, id, told)
  BY DEF JobActive, WatchdogFires, JobSettles, BeginRun, aggregateVars
<1>4. ~ReleaseFires /\ ~CloseWorker
  BY DEF ReleaseFires, CloseWorker, ReleaseRun, aggregateVars
<1>5. PICK d \in Targets :
         \/ \E completed \in BOOLEAN : ReportOutcome(d, completed)
         \/ \E total \in 0..MaxTotal : \E processed \in 0..total, throttled \in BOOLEAN :
              ReportProgress(d, total, processed, throttled)
  BY <1>2, <1>3, <1>4 DEF SyncHoldNext
<1> QED
  BY <1>1, <1>5, OutcomeKeeps, ProgressKeeps

----------------------------------------------------------------------------
\* The books of the hold hold in every state that is reached.
THEOREM HoldInvariance == SyncHoldSpec => []HoldInv
BY HoldStarts, HoldStep, PTL DEF SyncHoldSpec

\* Jobs, timers, counts and aggregates keep their kinds.
THEOREM HoldTyped == SyncHoldSpec => []SyncHoldTypeOK
<1>1. HoldInv => SyncHoldTypeOK
  <2> SUFFICES ASSUME HoldInv PROVE SyncHoldTypeOK
    OBVIOUS
  <2>1. activeCount \in 0..Cardinality(Targets)
    BY CountBounded DEF HoldInv
  <2> QED
    BY <2>1 DEF HoldInv, HoldTypes, SyncHoldTypeOK, EntryType, SaidType
<1> QED
  BY <1>1, HoldInvariance, PTL

\* active-destination-jobs.ts counts each active destination once, and the user is held
\* exactly while one is counted or the release is pending.
THEOREM HoldAlwaysExact == SyncHoldSpec => []HoldIsExact
<1>1. HoldInv => HoldIsExact
  BY DEF HoldInv, CountHolds, Counted, HeldHolds, HoldIsExact
<1> QED
  BY <1>1, HoldInvariance, PTL

\* The aggregate a held user is told never falls, however runs join, restart or fail.
THEOREM PercentClimbs == SyncHoldSpec => PercentNeverFalls
<1>1. HoldInv /\ [SyncHoldNext]_holdVars =>
        [held /\ held' /\ spoke /\ spoke' /\ said' # said =>
           said'.syncing /\ said'.percent >= said.percent]_holdVars
  BY ToldStep
<1> QED
  BY <1>1, HoldInvariance, PTL DEF SyncHoldSpec, PercentNeverFalls

\* The hold is counted exactly, and a user who is held is never told less than before.
THEOREM HoldStaysSound == SyncHoldSpec => HoldIsSound
BY HoldAlwaysExact, PercentClimbs, PTL DEF HoldIsSound

----------------------------------------------------------------------------
(***************************************************************************)
(* The safety properties of DestinationAttempt for every set of attempts   *)
(* and sources, and every bound.                                           *)
(***************************************************************************)

(* An attempt is sound: it has read sources it listed, and what it did and    *)
(* what it has to do together are no more than there are sources.             *)
AttemptType ==
  [pc : {"idle", "locked", "looked", "listed", "gate", "push",
         "ended", "check", "reread", "write", "release"},
   seen : RetryStates, sources : SUBSET MappedSources, read : SUBSET MappedSources,
   todo : SUBSET MappedSources, superseded : BOOLEAN,
   result : [done : Nat, failed : Nat, denied : BOOLEAN], verdict : Verdicts \cup {"none"}]

WorkBounded(rec) ==
  rec.result.done + rec.result.failed + Cardinality(rec.todo) <= Cardinality(MappedSources)

AttemptSound(rec) ==
  /\ rec \in AttemptType
  /\ rec.read \subseteq rec.sources
  /\ rec.pc \in {"idle", "locked", "looked", "listed"} => rec.result = NoResult /\ rec.read = {}
  /\ WorkBounded(rec)

RetrySound ==
  /\ retry \in RetryStates
  /\ (retry.count = 0) <=> (retry.next = 0)
  /\ due \in BOOLEAN /\ (retry = RESET => due)

WorldSound ==
  /\ pushable \in BOOLEAN /\ preemptor \in BOOLEAN
  /\ mapped \subseteq MappedSources /\ copied \subseteq MappedSources
  /\ firstSynced \subseteq mapped
  /\ health \in {"up", "broken", "readonly"}
  /\ lockHolder \in Attempts \cup {Nobody}
  /\ trouble \in 0..MaxTrouble

AttemptsSound == /\ attempt \in [Attempts -> AttemptType]
                 /\ \A a \in Attempts : AttemptSound(attempt[a])

AttemptInv == RetrySound /\ WorldSound /\ AttemptsSound

----------------------------------------------------------------------------
(* Numbers.                                                                   *)

\* Attempts and sources can be counted.
LEMMA AttemptNumbers ==
  /\ Cardinality(Attempts) \in Nat /\ Cardinality(MappedSources) \in Nat
  /\ \A S \in SUBSET MappedSources :
       /\ IsFiniteSet(S) /\ Cardinality(S) \in Nat
       /\ Cardinality(S) <= Cardinality(MappedSources)
<1>1. Cardinality(Attempts) \in Nat /\ Cardinality(MappedSources) \in Nat
  BY AttemptAssumption, FS_CardinalityType
<1>2. ASSUME NEW S \in SUBSET MappedSources
      PROVE  /\ IsFiniteSet(S) /\ Cardinality(S) \in Nat
             /\ Cardinality(S) <= Cardinality(MappedSources)
  <2>1. IsFiniteSet(S) /\ Cardinality(S) <= Cardinality(MappedSources)
    BY AttemptAssumption, FS_Subset
  <2> QED
    BY <2>1, FS_CardinalityType
<1> QED
  BY <1>1, <1>2

\* A calendar row without a backoff.
LEMMA ResetTyped == RESET \in RetryStates /\ NoResult \in [done : Nat, failed : Nat, denied : BOOLEAN]
BY AttemptAssumption, AttemptNumbers DEF RESET, RetryStates, NoResult

\* A backoff has a name that no attempt knows: attempts are as many as the
\* names they know, and the state that is replaced is one of them.
LEMMA FreshExists ==
  ASSUME AttemptsSound, NEW a \in Attempts, retry = attempt[a].seen
  PROVE  /\ FreshNext \in 1..(Cardinality(Attempts) + 1)
         /\ FreshNext # retry.next
         /\ \A b \in Attempts : FreshNext # attempt[b].seen.next
<1> DEFINE N == Cardinality(Attempts)
           Known == {attempt[b].seen.next : b \in Attempts}
           f == [b \in Attempts |-> attempt[b].seen.next]
<1>1. {retry.next} \cup Known = Known
  OBVIOUS
<1>2. f \in Surjection(Attempts, Known)
  BY DEF Surjection
<1>3. N \in Nat
  BY AttemptNumbers
<1>4. IsFiniteSet(Known) /\ Cardinality(Known) <= N
  <2> HIDE DEF f, Known
  <2> QED
    BY <1>2, AttemptAssumption, FS_Surjection
<1>5. \E n \in 1..(N + 1) : n \notin Known
  <2>1. SUFFICES ASSUME 1..(N + 1) \subseteq Known PROVE FALSE
    OBVIOUS
  <2> HIDE DEF f, Known, N
  <2>2. Cardinality(1..(N + 1)) = N + 1
    <3>1. Cardinality(1..(N + 1)) = IF 1 > N + 1 THEN 0 ELSE (N + 1) - 1 + 1
      BY <1>3, FS_Interval
    <3> QED
      BY <1>3, <3>1
  <2>3. Cardinality(1..(N + 1)) <= Cardinality(Known)
    BY <1>4, <2>1, FS_Subset
  <2>4. Cardinality(Known) \in Nat
    BY <1>4, FS_CardinalityType
  <2> QED
    BY <1>3, <1>4, <2>2, <2>3, <2>4
<1>6. FreshNext \in 1..(N + 1) /\ FreshNext \notin {retry.next} \cup Known
  BY <1>1, <1>5 DEF FreshNext
<1> QED
  BY <1>6

----------------------------------------------------------------------------
(* Where an attempt goes.                                                     *)

\* An attempt that has not begun, or is over.
LEMMA IdleSound ==
  /\ AttemptSound(IdleAttempt)
  /\ \A place \in {"release", "idle"} : AttemptSound([IdleAttempt EXCEPT !.pc = place])
<1>1. Cardinality({}) = 0
  BY FS_EmptySet
<1>2. NoResult.done + NoResult.failed + Cardinality({}) <= Cardinality(MappedSources)
  BY <1>1, AttemptNumbers DEF NoResult
<1> QED
  BY <1>2, ResetTyped DEF AttemptSound, AttemptType, IdleAttempt, WorkBounded

\* An attempt with its verdict.
LEMMA JudgedSound ==
  ASSUME AttemptsSound, NEW a \in Attempts, NEW verdict \in Verdicts
  PROVE  AttemptSound(Judged(a, verdict))
<1>1. Cardinality({}) = 0
  BY FS_EmptySet
<1>2. NoResult.done + NoResult.failed + Cardinality({}) <= Cardinality(MappedSources)
  BY <1>1, AttemptNumbers DEF NoResult
<1>3. attempt[a].seen \in RetryStates
  BY DEF AttemptsSound, AttemptType
<1> QED
  BY <1>2, <1>3, ResetTyped DEF AttemptSound, AttemptType, Judged, IdleAttempt, WorkBounded

\* An attempt that goes on goes to a sound place.
LEMMA GoesOn ==
  ASSUME AttemptsSound, NEW a \in Attempts,
         NEW place \in {"locked", "looked", "listed", "gate", "push", "ended", "check", "reread", "write"},
         place \in {"locked", "looked", "listed"} => attempt[a].pc \in {"idle", "locked", "looked", "listed"}
  PROVE  AttemptSound([attempt[a] EXCEPT !.pc = place])
<1>1. AttemptSound(attempt[a]) /\ attempt[a] \in AttemptType
  BY DEF AttemptsSound
<1> DEFINE r == [attempt[a] EXCEPT !.pc = place]
<1>2. r \in AttemptType /\ r.read = attempt[a].read /\ r.sources = attempt[a].sources
      /\ r.result = attempt[a].result /\ r.todo = attempt[a].todo /\ r.pc = place
  BY <1>1 DEF AttemptType
<1> HIDE DEF r
<1>3. r.pc \in {"idle", "locked", "looked", "listed"} => r.result = NoResult /\ r.read = {}
  <2>1. CASE place \in {"locked", "looked", "listed"}
    BY <1>1, <1>2, <2>1 DEF AttemptSound
  <2>2. CASE place \in {"gate", "push", "ended", "check", "reread", "write"}
    BY <1>2, <2>2
  <2> QED
    BY <2>1, <2>2
<1>4. WorkBounded(r) /\ r.read \subseteq r.sources
  BY <1>1, <1>2 DEF AttemptSound, WorkBounded
<1>5. AttemptSound(r)
  BY <1>2, <1>3, <1>4 DEF AttemptSound
<1> QED
  BY <1>5 DEF r

\* One attempt moves, to a sound place.
LEMMA OneGoes ==
  ASSUME AttemptsSound, NEW a \in Attempts, NEW rec, AttemptSound(rec), Go(a, rec)
  PROVE  AttemptsSound'
<1>1. attempt' = [attempt EXCEPT ![a] = rec] /\ rec \in AttemptType
  BY DEF Go, AttemptSound
<1>2. attempt' \in [Attempts -> AttemptType]
  BY <1>1 DEF AttemptsSound
<1>3. \A b \in Attempts : attempt'[b] = IF b = a THEN rec ELSE attempt[b]
  BY <1>1 DEF AttemptsSound
<1>4. \A b \in Attempts : AttemptSound(attempt'[b])
  BY <1>3 DEF AttemptsSound
<1> QED
  BY <1>2, <1>4 DEF AttemptsSound

\* An attempt that goes to another place keeps the attempts sound.
LEMMA GoToKeeps ==
  ASSUME AttemptsSound, NEW a \in Attempts,
         NEW place \in {"locked", "gate", "push", "ended", "check", "reread", "write", "release"},
         place = "locked" => attempt[a].pc = "idle", GoTo(a, place)
  PROVE  AttemptsSound'
<1>1. CASE place = "release"
  BY <1>1, IdleSound, OneGoes DEF GoTo
<1>2. CASE place # "release"
  <2>1. AttemptSound([attempt[a] EXCEPT !.pc = place])
    BY <1>2, GoesOn
  <2> QED
    BY <1>2, <2>1, OneGoes DEF GoTo
<1> QED
  BY <1>1, <1>2

\* What a step that leaves the retry state and the world alone keeps.
LEMMA RestKept ==
  ASSUME AttemptInv, UNCHANGED <<retry, due, pushable, firstSynced, world>>,
         lockHolder' \in Attempts \cup {Nobody}, trouble' \in 0..MaxTrouble, AttemptsSound'
  PROVE  AttemptInv'
BY DEF AttemptInv, RetrySound, WorldSound, world

\* What is left of the bound.
LEMMA TroubleTyped == ASSUME WorldSound, Trouble PROVE trouble' \in 0..MaxTrouble
BY AttemptAssumption DEF WorldSound, Trouble

----------------------------------------------------------------------------
(* The steps of an attempt.                                                   *)

\* An attempt gets the lock.
LEMMA AcquireKeeps ==
  ASSUME AttemptInv, NEW a \in Attempts, AcquireDestination(a) PROVE AttemptInv'
<1>1. AttemptsSound'
  BY GoToKeeps DEF AcquireDestination, At, AttemptInv
<1> QED
  BY <1>1, RestKept DEF AcquireDestination, AttemptInv, WorldSound

\* isDestinationAttemptEligible: it notes the retry state, or lets go.
LEMMA LookUpKeeps ==
  ASSUME AttemptInv, NEW a \in Attempts, LookUpDestination(a) PROVE AttemptInv'
<1>1. AttemptsSound'
  <2>1. CASE pushable /\ due
    <3> DEFINE r == [attempt[a] EXCEPT !.pc = "looked", !.seen = retry]
    <3>1. attempt[a] \in AttemptType /\ AttemptSound(attempt[a]) /\ attempt[a].pc = "locked"
      BY DEF AttemptInv, AttemptsSound, LookUpDestination, At
    <3>2. /\ r \in AttemptType /\ r.pc = "looked"
          /\ r.read = attempt[a].read /\ r.sources = attempt[a].sources
          /\ r.result = attempt[a].result /\ r.todo = attempt[a].todo
      BY <3>1 DEF AttemptInv, RetrySound, AttemptType
    <3>3. Go(a, r)
      BY <2>1 DEF LookUpDestination
    <3> HIDE DEF r
    <3>4. AttemptSound(r)
      BY <3>1, <3>2 DEF AttemptSound, WorkBounded
    <3> QED
      BY <3>3, <3>4, OneGoes DEF AttemptInv
  <2>2. CASE ~(pushable /\ due)
    BY <2>2, IdleSound, OneGoes DEF LookUpDestination, AttemptInv
  <2> QED
    BY <2>1, <2>2
<1> QED
  BY <1>1, RestKept DEF LookUpDestination, AttemptInv, WorldSound

\* It lists the mapped sources.
LEMMA ListKeeps ==
  ASSUME AttemptInv, NEW a \in Attempts, ListMappedSources(a) PROVE AttemptInv'
<1>1. AttemptsSound'
  <2> DEFINE r == [attempt[a] EXCEPT !.pc = "listed", !.sources = mapped]
  <2>1. attempt[a] \in AttemptType /\ AttemptSound(attempt[a]) /\ attempt[a].pc = "looked"
    BY DEF AttemptInv, AttemptsSound, ListMappedSources, At
  <2>2. /\ r \in AttemptType /\ r.pc = "listed"
        /\ r.read = attempt[a].read /\ r.sources = mapped
        /\ r.result = attempt[a].result /\ r.todo = attempt[a].todo
    BY <2>1 DEF AttemptInv, WorldSound, AttemptType
  <2>3. Go(a, r)
    BY DEF ListMappedSources
  <2> HIDE DEF r
  <2>4. AttemptSound(r)
    BY <2>1, <2>2 DEF AttemptSound, WorkBounded
  <2> QED
    BY <2>3, <2>4, OneGoes DEF AttemptInv
<1> QED
  BY <1>1, RestKept DEF ListMappedSources, AttemptInv, WorldSound

\* What there is to do is no more than there are sources, and nothing is done.
LEMMA ReadKeeps ==
  ASSUME AttemptInv, NEW a \in Attempts, ReadLocalState(a) PROVE AttemptInv'
<1>1. attempt[a] \in AttemptType /\ AttemptSound(attempt[a]) /\ attempt[a].pc = "listed"
  BY DEF AttemptInv, AttemptsSound, ReadLocalState, At
<1>2. attempt[a].result = NoResult
  BY <1>1 DEF AttemptSound
<1>3. AttemptsSound'
  <2>1. CASE mapped # attempt[a].sources
    <3> DEFINE r == [attempt[a] EXCEPT !.pc = "ended", !.superseded = TRUE]
    <3>1. /\ r \in AttemptType /\ r.pc = "ended"
          /\ r.read = attempt[a].read /\ r.sources = attempt[a].sources
          /\ r.result = attempt[a].result /\ r.todo = attempt[a].todo
      BY <1>1 DEF AttemptType
    <3>2. Go(a, r)
      BY <2>1 DEF ReadLocalState
    <3> HIDE DEF r
    <3>3. AttemptSound(r)
      BY <1>1, <3>1 DEF AttemptSound, WorkBounded
    <3> QED
      BY <3>2, <3>3, OneGoes DEF AttemptInv
  <2>2. CASE mapped = attempt[a].sources
    <3> DEFINE todo == (mapped \ copied) \cup (copied \ mapped)
               r == [attempt[a] EXCEPT !.pc = "gate", !.read = mapped, !.todo = todo]
    <3>1. todo \in SUBSET MappedSources
      BY DEF AttemptInv, WorldSound
    <3>2. Go(a, r)
      BY <2>2 DEF ReadLocalState
    <3> HIDE DEF todo
    <3>3. /\ r \in AttemptType /\ r.pc = "gate"
          /\ r.read = mapped /\ r.sources = mapped
          /\ r.result = NoResult /\ r.todo = todo
      BY <1>1, <1>2, <2>2, <3>1 DEF AttemptType
    <3> HIDE DEF r
    <3>4. WorkBounded(r)
      BY <3>1, <3>3, AttemptNumbers DEF WorkBounded, NoResult
    <3>5. AttemptSound(r)
      BY <3>3, <3>4 DEF AttemptSound
    <3> QED
      BY <3>2, <3>5, OneGoes DEF AttemptInv
  <2> QED
    BY <2>1, <2>2
<1> QED
  BY <1>3, RestKept DEF ReadLocalState, AttemptInv, WorldSound

\* isAttemptCurrent: it goes on or ends.
LEMMA GateKeeps ==
  ASSUME AttemptInv, NEW a \in Attempts, Gate(a) PROVE AttemptInv'
<1>1. AttemptsSound'
  <2>1. GoTo(a, "push") \/ GoTo(a, "ended")
    BY DEF Gate
  <2> QED
    BY <2>1, GoToKeeps DEF AttemptInv
<1> QED
  BY <1>1, RestKept DEF Gate, AttemptInv, WorldSound

\* The deadline makes it a superseded one.
LEMMA DeadlineKeeps ==
  ASSUME AttemptInv, NEW a \in Attempts, DeadlineAtGate(a) PROVE AttemptInv'
<1>1. AttemptsSound'
  <2> DEFINE r == [attempt[a] EXCEPT !.pc = "ended", !.superseded = TRUE]
  <2>1. attempt[a] \in AttemptType /\ AttemptSound(attempt[a])
    BY DEF AttemptInv, AttemptsSound
  <2>2. /\ r \in AttemptType /\ r.pc = "ended"
        /\ r.read = attempt[a].read /\ r.sources = attempt[a].sources
        /\ r.result = attempt[a].result /\ r.todo = attempt[a].todo
    BY <2>1 DEF AttemptType
  <2>3. Go(a, r)
    BY DEF DeadlineAtGate
  <2> HIDE DEF r
  <2>4. AttemptSound(r)
    BY <2>1, <2>2 DEF AttemptSound, WorkBounded
  <2> QED
    BY <2>3, <2>4, OneGoes DEF AttemptInv
<1> QED
  BY <1>1, RestKept, TroubleTyped DEF DeadlineAtGate, AttemptInv, WorldSound

\* A chunk that was pushed is one more done or failed, and one less to do.
LEMMA ChunkSound ==
  ASSUME AttemptsSound, NEW a \in Attempts, NEW s \in attempt[a].todo, NEW counts,
         attempt[a].pc = "push",
         counts \in [done : Nat, failed : Nat, denied : BOOLEAN],
         counts.done + counts.failed = attempt[a].result.done + attempt[a].result.failed + 1
  PROVE  AttemptSound([attempt[a] EXCEPT !.pc = "gate", !.todo = @ \ {s}, !.result = counts])
<1> DEFINE r == [attempt[a] EXCEPT !.pc = "gate", !.todo = @ \ {s}, !.result = counts]
<1>1. attempt[a] \in AttemptType /\ AttemptSound(attempt[a])
  BY DEF AttemptsSound
<1>2. /\ r \in AttemptType /\ r.pc = "gate"
      /\ r.read = attempt[a].read /\ r.sources = attempt[a].sources
      /\ r.result = counts /\ r.todo = attempt[a].todo \ {s}
  BY <1>1 DEF AttemptType
<1>3. Cardinality(attempt[a].todo \ {s}) = Cardinality(attempt[a].todo) - 1
  <2>1. IsFiniteSet(attempt[a].todo)
    BY <1>1, AttemptNumbers DEF AttemptType
  <2> QED
    BY <2>1, FS_RemoveElement
<1>4. Cardinality(attempt[a].todo) \in Nat /\ Cardinality(MappedSources) \in Nat
  BY <1>1, AttemptNumbers DEF AttemptType
<1>5. attempt[a].result.done \in Nat /\ attempt[a].result.failed \in Nat
  BY <1>1 DEF AttemptType
<1> HIDE DEF r
<1>6. WorkBounded(r)
  BY <1>1, <1>2, <1>3, <1>4, <1>5 DEF AttemptSound, WorkBounded
<1>7. AttemptSound(r)
  BY <1>1, <1>2, <1>6 DEF AttemptSound
<1> QED
  BY <1>7 DEF r

\* A chunk is pushed or refused.
LEMMA PushKeeps ==
  ASSUME AttemptInv, NEW a \in Attempts, NEW s \in MappedSources, PushChunk(a, s) PROVE AttemptInv'
<1>1. /\ attempt[a] \in AttemptType /\ attempt[a].pc = "push" /\ s \in attempt[a].todo
      /\ attempt[a].result \in [done : Nat, failed : Nat, denied : BOOLEAN]
  BY DEF AttemptInv, AttemptsSound, PushChunk, At, AttemptType
<1>2. AttemptsSound' /\ copied' \subseteq MappedSources
  <2>1. CASE health = "up"
    <3> DEFINE counts == [attempt[a].result EXCEPT !.done = @ + 1]
    <3>1. /\ counts \in [done : Nat, failed : Nat, denied : BOOLEAN]
          /\ counts.done + counts.failed = attempt[a].result.done + attempt[a].result.failed + 1
      BY <1>1
    <3>2. [[attempt[a] EXCEPT !.pc = "gate", !.todo = @ \ {s}] EXCEPT !.result.done = @ + 1]
            = [attempt[a] EXCEPT !.pc = "gate", !.todo = @ \ {s}, !.result = counts]
      BY <1>1 DEF AttemptType
    <3>3. Go(a, [attempt[a] EXCEPT !.pc = "gate", !.todo = @ \ {s}, !.result = counts])
      BY <2>1, <3>2 DEF PushChunk
    <3>4. copied' \subseteq MappedSources
      BY <2>1 DEF PushChunk, AttemptInv, WorldSound
    <3> HIDE DEF counts
    <3>5. AttemptSound([attempt[a] EXCEPT !.pc = "gate", !.todo = @ \ {s}, !.result = counts])
      BY <1>1, <3>1, ChunkSound DEF AttemptInv
    <3> QED
      BY <3>3, <3>4, <3>5, OneGoes DEF AttemptInv
  <2>2. CASE health # "up"
    <3> DEFINE denied == health = "readonly"
               first == [attempt[a].result EXCEPT !.failed = @ + 1]
               counts == [first EXCEPT !.denied = denied]
    <3>1. /\ counts \in [done : Nat, failed : Nat, denied : BOOLEAN]
          /\ counts.done + counts.failed = attempt[a].result.done + attempt[a].result.failed + 1
      <4>1. denied \in BOOLEAN
        OBVIOUS
      <4> HIDE DEF denied
      <4>2. /\ first \in [done : Nat, failed : Nat, denied : BOOLEAN]
            /\ first.done + first.failed = attempt[a].result.done + attempt[a].result.failed + 1
        BY <1>1
      <4> HIDE DEF first
      <4>3. /\ counts \in [done : Nat, failed : Nat, denied : BOOLEAN]
            /\ counts.done = first.done /\ counts.failed = first.failed
        BY <4>1, <4>2
      <4> QED
        BY <4>2, <4>3
    <3>2. [[attempt[a] EXCEPT !.pc = "gate", !.todo = @ \ {s}]
             EXCEPT !.result.failed = @ + 1, !.result.denied = health = "readonly"]
            = [attempt[a] EXCEPT !.pc = "gate", !.todo = @ \ {s}, !.result = counts]
      <4> HIDE DEF denied
      <4> QED
        BY <1>1 DEF AttemptType, denied
    <3>3. Go(a, [attempt[a] EXCEPT !.pc = "gate", !.todo = @ \ {s}, !.result = counts])
      BY <2>2, <3>2 DEF PushChunk
    <3>4. copied' \subseteq MappedSources
      BY <2>2 DEF PushChunk, AttemptInv, WorldSound
    <3> HIDE DEF counts
    <3>5. AttemptSound([attempt[a] EXCEPT !.pc = "gate", !.todo = @ \ {s}, !.result = counts])
      BY <1>1, <3>1, ChunkSound DEF AttemptInv
    <3> QED
      BY <3>3, <3>4, <3>5, OneGoes DEF AttemptInv
  <2> QED
    BY <2>1, <2>2
<1> QED
  BY <1>2 DEF PushChunk, AttemptInv, RetrySound, WorldSound

\* What throws is judged.
LEMMA ThrowsKeeps ==
  ASSUME AttemptInv, NEW a \in Attempts, AttemptThrows(a) PROVE AttemptInv'
<1>1. PICK verdict \in Verdicts : Go(a, Judged(a, verdict))
  BY DEF AttemptThrows, Verdicts
<1>2. AttemptsSound'
  BY <1>1, JudgedSound, OneGoes DEF AttemptInv
<1>3. trouble' \in 0..MaxTrouble
  BY TroubleTyped DEF AttemptThrows, AttemptInv, WorldSound
<1> QED
  BY <1>2, <1>3, RestKept DEF AttemptThrows, AttemptInv, WorldSound

\* A first sync is recorded of mappings that are there.
LEMMA EndKeeps ==
  ASSUME AttemptInv, NEW a \in Attempts, EndAttempt(a) PROVE AttemptInv'
<1> DEFINE verdict == ResolveVerdict(attempt[a].result, attempt[a].superseded)
<1>1. verdict \in Verdicts
  BY DEF ResolveVerdict, Verdicts
<1>2. Go(a, Judged(a, verdict))
  BY DEF EndAttempt
<1> HIDE DEF verdict
<1>3. AttemptsSound'
  BY <1>1, <1>2, JudgedSound, OneGoes DEF AttemptInv
<1>4. firstSynced' = firstSynced \/ firstSynced' = Recorded(attempt[a].read)
  BY DEF EndAttempt
<1>5. firstSynced' \subseteq mapped
  BY <1>4 DEF Recorded, AttemptInv, WorldSound
<1> QED
  BY <1>3, <1>5 DEF EndAttempt, AttemptInv, RetrySound, WorldSound, world

\* An attempt that is no longer its own lets go.
LEMMA CheckKeeps ==
  ASSUME AttemptInv, NEW a \in Attempts, CheckOwnership(a) PROVE AttemptInv'
<1>1. AttemptsSound'
  <2>1. GoTo(a, "release") \/ GoTo(a, "reread") \/ GoTo(a, "write")
    BY DEF CheckOwnership
  <2> QED
    BY <2>1, GoToKeeps DEF AttemptInv
<1> QED
  BY <1>1, RestKept DEF CheckOwnership, AttemptInv, WorldSound

\* So does one whose row has changed.
LEMMA RereadKeeps ==
  ASSUME AttemptInv, NEW a \in Attempts, RereadDestination(a) PROVE AttemptInv'
<1>1. AttemptsSound'
  <2>1. GoTo(a, "release") \/ GoTo(a, "write")
    BY DEF RereadDestination
  <2> QED
    BY <2>1, GoToKeeps DEF AttemptInv
<1> QED
  BY <1>1, RestKept DEF RereadDestination, AttemptInv, WorldSound

\* A retry state that is written over its own is the next one.
LEMMA EscalationSound ==
  ASSUME AttemptInv, NEW a \in Attempts, retry = attempt[a].seen
  PROVE  /\ Escalated(attempt[a].seen) \in RetryStates
         /\ Escalated(attempt[a].seen).count # 0 /\ Escalated(attempt[a].seen).next # 0
         /\ Escalated(attempt[a].seen) # retry
<1>1. /\ FreshNext \in 1..(Cardinality(Attempts) + 1)
      /\ FreshNext # retry.next
  BY FreshExists DEF AttemptInv
<1>2. retry.count \in 0..MaxCount /\ Cardinality(Attempts) \in Nat /\ MaxCount \in Nat \ {0}
  BY AttemptNumbers, AttemptAssumption DEF AttemptInv, RetrySound, RetryStates
<1> DEFINE count == IF retry.count < MaxCount THEN retry.count + 1 ELSE MaxCount
<1>3. count \in 0..MaxCount /\ count # 0
  BY <1>2
<1>4. Escalated(attempt[a].seen) = [count |-> count, next |-> FreshNext]
  BY DEF Escalated
<1> HIDE DEF count
<1>5. FreshNext \in 0..(Cardinality(Attempts) + 1) /\ FreshNext # 0
  BY <1>1, <1>2
<1> QED
  BY <1>1, <1>3, <1>4, <1>5 DEF RetryStates

\* The verdict writes the retry state, or takes the capability.
LEMMA WriteKeeps ==
  ASSUME AttemptInv, NEW a \in Attempts, WriteVerdict(a) PROVE AttemptInv'
<1>1. AttemptsSound'
  BY GoToKeeps DEF WriteVerdict, AttemptInv
<1>2. /\ UNCHANGED <<firstSynced, lockHolder, world, trouble>>
  BY DEF WriteVerdict
<1>3. RetrySound' /\ pushable' \in BOOLEAN
  <2>1. CASE attempt[a].verdict = "failed"
    <3>1. /\ retry' = Escalate(attempt[a].seen)
          /\ due' = (due /\ retry' = retry)
          /\ UNCHANGED pushable
      BY <2>1 DEF WriteVerdict
    <3>2. CASE retry = attempt[a].seen
      <4>1. /\ retry' \in RetryStates /\ retry'.count # 0 /\ retry'.next # 0
        BY <3>1, <3>2, EscalationSound DEF Escalate
      <4> QED
        BY <3>1, <4>1 DEF RetrySound, AttemptInv, WorldSound, RESET
    <3>3. CASE retry # attempt[a].seen
      BY <3>1, <3>3 DEF Escalate, RetrySound, AttemptInv, WorldSound
    <3> QED
      BY <3>2, <3>3
  <2>2. CASE attempt[a].verdict = "succeeded"
    <3>1. retry' = RESET /\ due' = TRUE /\ UNCHANGED pushable
      BY <2>2 DEF WriteVerdict
    <3> QED
      BY <3>1, ResetTyped DEF RetrySound, AttemptInv, WorldSound, RESET
  <2>3. CASE attempt[a].verdict \notin {"failed", "succeeded"}
    <3>1. pushable' = FALSE /\ UNCHANGED <<retry, due>>
      BY <2>3 DEF WriteVerdict
    <3> QED
      BY <3>1 DEF RetrySound, AttemptInv
  <2> QED
    BY <2>1, <2>2, <2>3
<1> QED
  BY <1>1, <1>2, <1>3 DEF AttemptInv, WorldSound, world

\* The lock is let go of.
LEMMA ReleaseDestinationKeeps ==
  ASSUME AttemptInv, NEW a \in Attempts, ReleaseDestination(a) PROVE AttemptInv'
<1>1. AttemptsSound'
  BY IdleSound, OneGoes DEF ReleaseDestination, AttemptInv
<1> QED
  BY <1>1, RestKept DEF ReleaseDestination, AttemptInv, WorldSound

\* No provider, no attempt.
LEMMA UnresolvedKeeps ==
  ASSUME AttemptInv, NEW a \in Attempts, ProviderUnresolved(a) PROVE AttemptInv'
<1>1. AttemptsSound'
  BY GoToKeeps DEF ProviderUnresolved, AttemptInv
<1> QED
  BY <1>1, RestKept, TroubleTyped DEF ProviderUnresolved, AttemptInv, WorldSound

\* An attempt that dies is forgotten; its lock is not.
LEMMA DiesKeeps ==
  ASSUME AttemptInv, NEW a \in Attempts, AttemptDies(a) PROVE AttemptInv'
<1>1. AttemptsSound'
  BY IdleSound, OneGoes DEF AttemptDies, AttemptInv
<1> QED
  BY <1>1, RestKept, TroubleTyped DEF AttemptDies, AttemptInv, WorldSound

\* Everyone else leaves the attempts alone.
LEMMA OthersKeep ==
  ASSUME AttemptInv,
         \/ DestinationLeaseLapses \/ MutationWaits \/ MutationLeaves \/ BackoffElapses
         \/ \E h \in {"up", "broken", "readonly"} : HealthTurns(h)
         \/ WritableAgain
         \/ \E s \in MappedSources : SourceChanges(s)
  PROVE  AttemptInv'
<1>1. AttemptsSound' /\ UNCHANGED attempt
  BY DEF AttemptInv, AttemptsSound, DestinationLeaseLapses, MutationWaits, MutationLeaves, BackoffElapses,
         HealthTurns, WritableAgain, SourceChanges
<1>2. RetrySound'
  BY DEF AttemptInv, RetrySound, DestinationLeaseLapses, MutationWaits, MutationLeaves, BackoffElapses,
         HealthTurns, WritableAgain, SourceChanges
<1>3. trouble' \in 0..MaxTrouble
  BY TroubleTyped
     DEF AttemptInv, WorldSound, DestinationLeaseLapses, MutationWaits, MutationLeaves, BackoffElapses,
         HealthTurns, WritableAgain, SourceChanges
<1>4. WorldSound'
  <2>1. CASE DestinationLeaseLapses
    BY <1>3, <2>1 DEF AttemptInv, WorldSound, DestinationLeaseLapses, world
  <2>2. CASE MutationWaits
    BY <1>3, <2>2 DEF AttemptInv, WorldSound, MutationWaits
  <2>3. CASE MutationLeaves
    BY <1>3, <2>3 DEF AttemptInv, WorldSound, MutationLeaves
  <2>4. CASE BackoffElapses \/ WritableAgain
    BY <1>3, <2>4 DEF AttemptInv, WorldSound, BackoffElapses, WritableAgain, world
  <2>5. CASE \E h \in {"up", "broken", "readonly"} : HealthTurns(h)
    BY <1>3, <2>5 DEF AttemptInv, WorldSound, HealthTurns
  <2>6. CASE \E s \in MappedSources : SourceChanges(s)
    BY <1>3, <2>6 DEF AttemptInv, WorldSound, SourceChanges
  <2> QED
    BY <2>1, <2>2, <2>3, <2>4, <2>5, <2>6
<1> QED
  BY <1>1, <1>2, <1>4 DEF AttemptInv

\* Nothing has failed at first.
LEMMA AttemptStarts == DestinationAttemptInit => AttemptInv
<1> SUFFICES ASSUME DestinationAttemptInit PROVE AttemptInv
  OBVIOUS
<1>1. RetrySound
  BY ResetTyped DEF DestinationAttemptInit, RetrySound, RESET
<1>2. WorldSound
  <2>1. copied \subseteq MappedSources /\ firstSynced = copied /\ mapped = MappedSources
    BY DEF DestinationAttemptInit
  <2>2. trouble \in 0..MaxTrouble
    BY AttemptAssumption DEF DestinationAttemptInit
  <2> QED
    BY <2>1, <2>2 DEF DestinationAttemptInit, WorldSound
<1>3. AttemptsSound
  BY IdleSound DEF DestinationAttemptInit, AttemptsSound, AttemptSound
<1> QED
  BY <1>1, <1>2, <1>3 DEF AttemptInv

\* Every step keeps attempts, retry state and world sound.
LEMMA AttemptsKeep == AttemptInv /\ [DestinationAttemptNext]_attemptVars => AttemptInv'
<1> SUFFICES ASSUME AttemptInv, [DestinationAttemptNext]_attemptVars PROVE AttemptInv'
  OBVIOUS
<1>1. CASE UNCHANGED attemptVars
  BY <1>1 DEF attemptVars, world, AttemptInv, RetrySound, WorldSound, AttemptsSound
<1>2. ASSUME NEW a \in Attempts, AttemptStep(a) PROVE AttemptInv'
  BY <1>2, AcquireKeeps, LookUpKeeps, ListKeeps, ReadKeeps, GateKeeps, PushKeeps, EndKeeps, CheckKeeps,
     RereadKeeps, WriteKeeps, ReleaseDestinationKeeps DEF AttemptStep
<1>3. CASE DestinationAttemptNext
  BY <1>2, <1>3, UnresolvedKeeps, DeadlineKeeps, ThrowsKeeps, DiesKeeps, OthersKeep
     DEF DestinationAttemptNext
<1> QED
  BY <1>1, <1>3

\* What an invariant says is of the kinds the variables have.
LEMMA AttemptInvTyped == AttemptInv => DestinationAttemptTypeOK
<1> SUFFICES ASSUME AttemptInv PROVE DestinationAttemptTypeOK
  OBVIOUS
<1>1. ASSUME NEW a \in Attempts
      PROVE  /\ attempt[a].pc \in {"idle", "locked", "looked", "listed", "gate", "push",
                                   "ended", "check", "reread", "write", "release"}
             /\ attempt[a].seen \in RetryStates
             /\ attempt[a].verdict \in Verdicts \cup {"none"}
             /\ attempt[a].read \subseteq attempt[a].sources
             /\ attempt[a].result.done + attempt[a].result.failed <= 2 * Cardinality(MappedSources)
  <2>1. attempt[a] \in AttemptType /\ AttemptSound(attempt[a])
    BY DEF AttemptInv, AttemptsSound
  <2>2. /\ attempt[a].result.done \in Nat /\ attempt[a].result.failed \in Nat
        /\ Cardinality(attempt[a].todo) \in Nat /\ Cardinality(MappedSources) \in Nat
    BY <2>1, AttemptNumbers DEF AttemptType
  <2>3. attempt[a].result.done + attempt[a].result.failed <= 2 * Cardinality(MappedSources)
    BY <2>1, <2>2 DEF AttemptSound, WorkBounded
  <2> QED
    BY <2>1, <2>3 DEF AttemptType, AttemptSound
<1> QED
  BY <1>1 DEF AttemptInv, RetrySound, WorldSound, DestinationAttemptTypeOK

\* Only a verdict writes the retry state.
LEMMA RetryStep ==
  ASSUME [DestinationAttemptNext]_attemptVars
  PROVE  [retry' # retry => retry' = RESET \/ retry' = Escalated(retry)]_attemptVars
<1> SUFFICES ASSUME retry' # retry PROVE retry' = RESET \/ retry' = Escalated(retry)
  OBVIOUS
<1>1. PICK a \in Attempts : WriteVerdict(a)
  <2>1. ~UNCHANGED attemptVars
    BY DEF attemptVars
  <2>2. /\ ~DestinationLeaseLapses /\ ~MutationWaits /\ ~MutationLeaves /\ ~BackoffElapses
        /\ ~WritableAgain
        /\ \A h \in {"up", "broken", "readonly"} : ~HealthTurns(h)
        /\ \A s \in MappedSources : ~SourceChanges(s)
    BY DEF DestinationLeaseLapses, MutationWaits, MutationLeaves, BackoffElapses, WritableAgain,
           HealthTurns, SourceChanges
  <2>3. \A a \in Attempts : ~ProviderUnresolved(a) /\ ~DeadlineAtGate(a) /\ ~AttemptThrows(a) /\ ~AttemptDies(a)
    BY DEF ProviderUnresolved, DeadlineAtGate, AttemptThrows, AttemptDies
  <2>4. \A a \in Attempts :
           /\ ~AcquireDestination(a) /\ ~LookUpDestination(a) /\ ~ListMappedSources(a)
           /\ ~ReadLocalState(a) /\ ~Gate(a) /\ ~EndAttempt(a) /\ ~CheckOwnership(a)
           /\ ~RereadDestination(a) /\ ~ReleaseDestination(a)
           /\ \A s \in MappedSources : ~PushChunk(a, s)
    BY ZenonT(60) DEF AcquireDestination, LookUpDestination, ListMappedSources, ReadLocalState, Gate, EndAttempt,
           CheckOwnership, RereadDestination, ReleaseDestination, PushChunk
  <2> QED
    BY <2>1, <2>2, <2>3, <2>4 DEF DestinationAttemptNext, AttemptStep
<1>2. CASE attempt[a].verdict = "failed"
  BY <1>1, <1>2 DEF WriteVerdict, Escalate
<1>3. CASE attempt[a].verdict # "failed"
  BY <1>1, <1>3 DEF WriteVerdict
<1> QED
  BY <1>2, <1>3

----------------------------------------------------------------------------
\* Attempts, retry state and world are sound in every state that is reached.
THEOREM AttemptInvariance == DestinationAttemptSpec => []AttemptInv
BY AttemptStarts, AttemptsKeep, PTL DEF DestinationAttemptSpec

\* The calendar row, the mappings and the attempts keep their kinds; a first sync is only
\* recorded of what is mapped.
THEOREM AttemptTyped == DestinationAttemptSpec => []DestinationAttemptTypeOK
BY AttemptInvTyped, AttemptInvariance, PTL

\* applyDestinationBackoff writes only over the state its attempt was made against: the
\* retry state is reset or climbs one step.
THEOREM RetryClimbs == DestinationAttemptSpec => BackoffClimbs
<1>1. [DestinationAttemptNext]_attemptVars =>
        [retry' # retry => \/ retry' = RESET
                           \/ retry' = Escalated(retry)]_attemptVars
  BY RetryStep
<1> QED
  BY <1>1, PTL DEF DestinationAttemptSpec, BackoffClimbs

----------------------------------------------------------------------------
(***************************************************************************)
(* The parts together.  A behaviour of PartsSpec is one of every part: the *)
(* part that moves takes its own steps, and the others stutter.            *)
(***************************************************************************)

\* A step of the whole is a step of each part, or leaves it alone.
LEMMA PartsStep ==
  ASSUME [PartsNext]_partVars
  PROVE  /\ [Next]_vars
         /\ [PushQueueNext]_pushVars
         /\ [SyncHoldNext]_holdVars
         /\ [DestinationAttemptNext]_attemptVars
         /\ [MappingNext]_mappingVars
<1>1. PatientNext => Next
  BY DEF PatientNext, Next
<1> QED
  BY <1>1 DEF PartsNext, Only, partVars

LEMMA PartsAreTheirOwn ==
  PartsSpec => /\ Spec /\ PushQueueSpec /\ SyncHoldSpec
               /\ DestinationAttemptSpec /\ MappingSpec
<1>1. PartsInit => /\ Init /\ PushQueueInit /\ SyncHoldInit
                   /\ DestinationAttemptInit /\ MappingInit
  BY DEF PartsInit
<1> QED
  BY <1>1, PartsStep, PTL
     DEF PartsSpec, Spec, PushQueueSpec, SyncHoldSpec, DestinationAttemptSpec, MappingSpec

\* Whatever part moves, the variables of all of them keep their kinds.
THEOREM EgressPartsTyped == PartsSpec => []EgressTypeOK
<1>1. PartsSpec => /\ []PushQueueTypeOK /\ []SyncHoldTypeOK
                   /\ []DestinationAttemptTypeOK /\ []MappingTypeOK
  BY PartsAreTheirOwn, PushQueueTyped, HoldTyped, AttemptTyped, MappingTyped, PTL
<1> QED
  BY <1>1, PTL DEF EgressTypeOK

\* Whatever part moves, each keeps its promises: one holder of a lock, no change
\* forgotten, the limit on mappings, runs that write what is mapped, the hold on the
\* aggregate and the climb of the backoff.
THEOREM EgressPartsSafe ==
  PartsSpec => /\ []MutualExclusion /\ []NoChangeForgotten /\ []LimitHeld /\ PushesWhatIsMapped
               /\ HoldIsSound /\ BackoffClimbs
BY PartsAreTheirOwn, MutualExclusionHolds, NothingForgotten, LimitAlwaysHeld, RunsWriteWhatIsMapped,
   HoldStaysSound, RetryClimbs, PTL
=============================================================================
