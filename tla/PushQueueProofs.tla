---------------------------- MODULE PushQueueProofs ----------------------------
(***************************************************************************)
(* The safety properties of PushQueue for every set of destinations, calls *)
(* and drains, and the safety part of its refinement of SyncPromise.       *)
(* NoChangeForgotten is not inductive: a row, a job or a call counts as    *)
(* cover there whatever it will do next.  The invariant below says which   *)
(* of them will still bring a run, and what an acknowledger has made sure  *)
(* of before it takes the row away.                                        *)
(***************************************************************************)
EXTENDS PushQueue, TLAPS

\* Who still carries a change to d: a call that has yet to look at d's job, that found
\* one and will record a row, or that found none and can add its own.  A change of the
\* mappings has its row instead.
CarriedBy(c, d) ==
  /\ ~api[c].mapping
  /\ d \in api[c].all
  /\ \/ api[c].pc = "look" /\ (d \in api[c].left \/ api[c].found \/ job[d] = "none")
     \/ api[c].pc = "record"
     \/ api[c].pc = "add" /\ ~api[c].found /\ d \in api[c].left /\ job[d] = "none"

\* A run of d will begin after the change even if no row is left.
Carried(d) ==
  \/ job[d] \in {"waiting", "cut", "unrecorded"}
  \/ job[d] = "none" /\ continuing[d] = "unrecorded"
  \/ \E c \in ApiCalls : CarriedBy(c, d)

\* A change to d that stands.
Standing(d) == owed[d] /\ ~missed[d] /\ d \notin paused

\* The row will bring a job of d: there is none, or it is older than the row.
RowServes(d) == request # NoRow /\ (job[d] = "none" \/ stamp[d] < request)

StandingIsServed == \A d \in Destinations : Standing(d) => Carried(d) \/ RowServes(d)

\* The job of d, if there is one, is not older than request number q.
NotOlder(d, q) == job[d] = "none" \/ q <= stamp[d]

\* n, or c, is done with d: the row it has seen is no longer needed there.
DrainServed(n, d) == \/ drain[n].pc = "look" /\ d \notin drain[n].all
                     \/ drain[n].pc = "ack"
MappingServed(c, d) == \/ api[c].pc = "look" /\ d \notin api[c].all
                       \/ api[c].pc = "add" /\ d \notin api[c].left
                       \/ api[c].pc = "ack"

\* What a drain has looked at and not retained has no older job; where it is done, the
\* row that it may take away is not the last thing to bring a run.
DrainIsSafe(n) ==
  ~drain[n].retain =>
    /\ drain[n].pc = "look" =>
         \A d \in drain[n].all \ drain[n].left : NotOlder(d, drain[n].seen)
    /\ request # NoRow /\ request = drain[n].seen =>
         \A d \in Destinations : DrainServed(n, d) /\ Standing(d) => Carried(d)

\* The same of a change of the mappings.  If it recorded a row of its own, that row is
\* not the one that it has seen.
MappingIsSafe(c) ==
  api[c].mapping =>
    /\ ~api[c].found =>
         /\ api[c].pc = "look" =>
              \A d \in api[c].all \ api[c].left : NotOlder(d, api[c].seen)
         /\ api[c].pc = "add" => \A d \in api[c].left : NotOlder(d, api[c].seen)
         /\ request # NoRow /\ request = api[c].seen =>
              \A d \in Destinations : MappingServed(c, d) /\ Standing(d) => Carried(d)
    /\ api[c].found /\ api[c].pc \in {"add", "ack"} =>
         request = NoRow \/ api[c].seen < request

\* A call's fields agree with where it stands.
CallIsWhole(c) ==
  /\ api[c].left \subseteq api[c].all
  /\ api[c].pc = "idle" => ~api[c].mapping /\ ~api[c].found
  /\ api[c].pc \in {"read", "list"} => ~api[c].found
  /\ api[c].pc = "record" => api[c].found
  /\ api[c].pc \in {"read", "list", "ack"} => api[c].mapping

PushInv ==
  /\ PushQueueTypeOK
  /\ StandingIsServed
  /\ \A c \in ApiCalls : CallIsWhole(c) /\ MappingIsSafe(c)
  /\ \A n \in Drains : DrainIsSafe(n)

-----------------------------------------------------------------------------
(* Types.                                                                   *)

\* The records of the calls and of the drains, with the requests recorded so far.
Calls == [pc : {"idle", "read", "list", "look", "record", "add", "ack"},
          all : SUBSET Destinations, left : SUBSET Destinations,
          found : BOOLEAN, mapping : BOOLEAN, seen : 0..requests]
DrainRuns == [pc : {"idle", "list", "look", "ack"}, seen : 0..requests,
              all : SUBSET Destinations, left : SUBSET Destinations,
              retain : BOOLEAN]

QueueTyped == /\ job \in [Destinations -> JobStates]
              /\ stamp \in [Destinations -> 0..requests]
              /\ stalls \in [Destinations -> 0..MaxStalled]
              /\ continuing \in [Destinations -> {"no", "recorded", "unrecorded"}]
RowTyped == /\ requests \in Nat /\ request \in 0..requests /\ events \in 0..MaxEvents
            /\ owed \in [Destinations -> BOOLEAN]
            /\ missed \in [Destinations -> BOOLEAN]
            /\ paused \subseteq Destinations
CallsTyped == api \in [ApiCalls -> Calls]
DrainsTyped == drain \in [Drains -> DrainRuns]

LEMMA TypeParts ==
  /\ PushQueueTypeOK <=> QueueTyped /\ RowTyped /\ CallsTyped /\ DrainsTyped
  /\ PushQueueTypeOK' <=> QueueTyped' /\ RowTyped' /\ CallsTyped' /\ DrainsTyped'
BY DEF PushQueueTypeOK, QueueTyped, RowTyped, CallsTyped, DrainsTyped, Calls, DrainRuns

\* Numbers stay in their ranges when requests are recorded.
LEMMA Widens ==
  ASSUME PushQueueTypeOK, RecordRequest \/ UNCHANGED requests
  PROVE  /\ requests' \in Nat /\ 0..requests \subseteq 0..requests'
         /\ Calls \subseteq Calls' /\ DrainRuns \subseteq DrainRuns'
<1>1. requests' \in Nat /\ 0..requests \subseteq 0..requests'
  BY DEF PushQueueTypeOK, RecordRequest
<1> QED BY <1>1 DEF Calls, DrainRuns

\* Recording a request replaces the row by one newer than everything there is.
LEMMA RecordTypes ==
  ASSUME PushQueueTypeOK, RecordRequest
  PROVE  /\ request' \in 0..requests' /\ request' = requests + 1
         /\ stamp \in [Destinations -> 0..requests']
         /\ CallsTyped /\ api \in [ApiCalls -> Calls']
         /\ DrainsTyped /\ drain \in [Drains -> DrainRuns']
<1>1. QueueTyped /\ RowTyped /\ CallsTyped /\ DrainsTyped
  BY TypeParts
<1>2. stamp \in [Destinations -> 0..requests'] /\ request' \in 0..requests'
  BY <1>1, Widens DEF QueueTyped, RowTyped, RecordRequest
<1> QED BY <1>1, <1>2, Widens DEF CallsTyped, DrainsTyped, RecordRequest

\* A step of one call, of one drain.
LEMMA OneCall ==
  ASSUME PushQueueTypeOK, RecordRequest \/ UNCHANGED requests, NEW c \in ApiCalls,
         api' = [api EXCEPT ![c] = api'[c]], api'[c] \in Calls'
  PROVE  CallsTyped'
BY Widens, TypeParts DEF CallsTyped

LEMMA OneDrain ==
  ASSUME PushQueueTypeOK, RecordRequest \/ UNCHANGED requests, NEW n \in Drains,
         drain' = [drain EXCEPT ![n] = drain'[n]], drain'[n] \in DrainRuns'
  PROVE  DrainsTyped'
BY Widens, TypeParts DEF DrainsTyped

\* A command of the queue keeps its types.
LEMMA QueueTypes ==
  ASSUME PushQueueTypeOK, requests' = requests,
         \/ \E D \in SUBSET Destinations : Add(D)
         \/ \E d \in Destinations : RemoveJob(d)
  PROVE  /\ job' \in [Destinations -> JobStates]
         /\ stamp' \in [Destinations -> 0..requests']
         /\ stalls' \in [Destinations -> 0..MaxStalled]
BY PushQueueAssumption DEF PushQueueTypeOK, Add, RemoveJob, JobStates

LEMMA InitTypes == PushQueueInit => PushQueueTypeOK
BY PushQueueAssumption
   DEF PushQueueInit, PushQueueTypeOK, JobStates, IdleCall, IdleDrain, NoRow

LEMMA ApiTypes ==
  ASSUME PushQueueTypeOK, NEW c \in ApiCalls,
         ApiChange(c) \/ MappingChanged(c) \/ ApiStep(c) \/ ApiFail(c)
  PROVE  PushQueueTypeOK'
<1>1. QueueTyped /\ RowTyped /\ CallsTyped /\ DrainsTyped /\ api[c] \in Calls
  BY TypeParts DEF CallsTyped
<1> USE DEF queueVars, rowVars, promiseVars
<1>2. CASE ApiChange(c)
  <2>1. Calls' = Calls /\ DrainRuns' = DrainRuns
    BY <1>2 DEF ApiChange, Calls, DrainRuns
  <2>2. api'[c] \in Calls /\ api' = [api EXCEPT ![c] = api'[c]]
    BY <1>1, <1>2 DEF ApiChange, Calls, Enabled, CallsTyped
  <2>3. QueueTyped' /\ RowTyped'
    BY <1>1, <1>2, PushQueueAssumption DEF ApiChange, AskAll, Spend, QueueTyped, RowTyped
  <2> QED BY <1>1, <1>2, <2>1, <2>2, <2>3, OneCall, TypeParts DEF ApiChange, DrainsTyped
<1>3. CASE MappingChanged(c)
  <2>1. api'[c] \in Calls /\ api' = [api EXCEPT ![c] = api'[c]]
    BY <1>1, <1>3 DEF MappingChanged, Calls, CallsTyped
  <2>2. api'[c] \in Calls'
    BY <1>3, <2>1, Widens DEF MappingChanged
  <2>3. CallsTyped'
    BY <1>3, <2>1, <2>2, OneCall DEF MappingChanged
  <2>4. QueueTyped' /\ RowTyped' /\ DrainsTyped'
    BY <1>1, <1>3, RecordTypes, Widens, PushQueueAssumption
       DEF MappingChanged, AskAll, QueueTyped, RowTyped, DrainsTyped
  <2> QED BY <2>3, <2>4, TypeParts
<1>4. CASE MappingRead(c) \/ MappingList(c) \/ MappingAcknowledge(c)
  <2>1. Calls' = Calls /\ DrainRuns' = DrainRuns /\ requests' = requests
    BY <1>4 DEF MappingRead, MappingList, MappingAcknowledge, Calls, DrainRuns
  <2>2. ASSUME MappingRead(c) PROVE api'[c] \in Calls
    BY <1>1, <2>2 DEF MappingRead, Calls, CallsTyped, RowTyped, IdleCall, NoRow
  <2>3. ASSUME MappingList(c) PROVE api'[c] \in Calls
    BY <1>1, <2>3 DEF MappingList, Calls, CallsTyped, Enabled
  <2>4. ASSUME MappingAcknowledge(c) PROVE api'[c] \in Calls
    BY <1>1, <2>4 DEF MappingAcknowledge, Calls, CallsTyped, RowTyped, IdleCall, NoRow
  <2>5. api' = [api EXCEPT ![c] = api'[c]]
    BY <1>1, <1>4 DEF MappingRead, MappingList, MappingAcknowledge, CallsTyped
  <2>6. QueueTyped' /\ RowTyped' /\ DrainsTyped'
    BY <1>1, <1>4, <2>1 DEF MappingRead, MappingList, MappingAcknowledge, QueueTyped, RowTyped,
       DrainsTyped, NoRow
  <2> QED BY <1>4, <2>1, <2>2, <2>3, <2>4, <2>5, <2>6, OneCall, TypeParts
<1>5. ASSUME NEW d \in Destinations, ApiLook(c, d) \/ ApiAdd(c, d) PROVE PushQueueTypeOK'
  <2>1. Calls' = Calls /\ DrainRuns' = DrainRuns /\ requests' = requests
    BY <1>5 DEF ApiLook, ApiAdd, Calls, DrainRuns
  <2>2. ASSUME ApiLook(c, d) PROVE api'[c] \in Calls
    BY <1>1, <2>2 DEF ApiLook, Calls, CallsTyped
  <2>3. ASSUME ApiAdd(c, d) PROVE api'[c] \in Calls
    BY <1>1, <2>3 DEF ApiAdd, Calls, CallsTyped, RowTyped, IdleCall, NoRow
  <2>4. api' = [api EXCEPT ![c] = api'[c]]
    BY <1>1, <1>5 DEF ApiLook, ApiAdd, CallsTyped
  <2>5. RowTyped' /\ DrainsTyped'
    BY <1>1, <1>5, <2>1 DEF ApiLook, ApiAdd, RowTyped, DrainsTyped
  <2>6. CASE ApiLook(c, d)
    <3>1. QueueTyped'
      BY <1>1, <2>6 DEF ApiLook, QueueTyped
    <3> QED BY <2>1, <2>2, <2>4, <2>5, <2>6, <3>1, OneCall, TypeParts
  <2>7. CASE ApiAdd(c, d)
    <3>1. QueueTyped'
      BY <1>1, <2>1, <2>7, QueueTypes DEF ApiAdd, QueueTyped
    <3> QED BY <2>1, <2>3, <2>4, <2>5, <2>7, <3>1, OneCall, TypeParts
  <2> QED BY <1>5, <2>6, <2>7
<1>6. CASE ApiRecord(c)
  <2>1. api'[c] \in Calls /\ api' = [api EXCEPT ![c] = api'[c]]
    BY <1>1, <1>6 DEF ApiRecord, Calls, CallsTyped
  <2>2. CallsTyped'
    BY <1>6, <2>1, Widens, OneCall DEF ApiRecord
  <2>3. QueueTyped' /\ RowTyped' /\ DrainsTyped'
    BY <1>1, <1>6, RecordTypes, Widens DEF ApiRecord, QueueTyped, RowTyped, DrainsTyped
  <2> QED BY <2>2, <2>3, TypeParts
<1>7. CASE ApiFail(c)
  <2>1. Calls' = Calls /\ DrainRuns' = DrainRuns /\ requests' = requests
    BY <1>7 DEF ApiFail, Calls, DrainRuns
  <2>2. IdleCall \in Calls
    BY <1>1 DEF IdleCall, NoRow, Calls, RowTyped
  <2>3. CallsTyped'
    BY <1>1, <1>7, <2>1, <2>2 DEF ApiFail, CallsTyped
  <2>4. QueueTyped' /\ DrainsTyped'
    BY <1>1, <1>7, <2>1 DEF ApiFail, QueueTyped, DrainsTyped
  <2>5. RowTyped'
    BY <1>1, <1>7, PushQueueAssumption DEF ApiFail, RowTyped, Spend, LoseOn
  <2> QED BY <2>3, <2>4, <2>5, TypeParts
<1> QED BY <1>2, <1>3, <1>4, <1>5, <1>6, <1>7 DEF ApiStep

LEMMA DrainTypes ==
  ASSUME PushQueueTypeOK, NEW n \in Drains,
         \/ DrainStep(n) \/ DrainFail(n)
         \/ \E recorded \in BOOLEAN : IngestRound(n, recorded)
  PROVE  PushQueueTypeOK'
<1>1. QueueTyped /\ RowTyped /\ CallsTyped /\ DrainsTyped /\ drain[n] \in DrainRuns
  BY TypeParts DEF DrainsTyped
<1> USE DEF queueVars, rowVars, promiseVars
<1>2. CASE DrainStart(n) \/ DrainAcknowledge(n) \/ DrainFail(n)
  <2>1. Calls' = Calls /\ DrainRuns' = DrainRuns /\ requests' = requests
    BY <1>2 DEF DrainStart, DrainAcknowledge, DrainFail, Calls, DrainRuns
  <2>2. IdleDrain \in DrainRuns /\ [IdleDrain EXCEPT !.pc = "list", !.seen = request] \in DrainRuns
    <3>1. NoRow \in 0..requests /\ request \in 0..requests
      BY <1>1 DEF RowTyped, NoRow
    <3> QED BY <3>1 DEF IdleDrain, DrainRuns
  <2>3. DrainsTyped'
    BY <1>1, <1>2, <2>1, <2>2 DEF DrainStart, DrainAcknowledge, DrainFail, DrainsTyped
  <2>4. QueueTyped' /\ CallsTyped'
    BY <1>1, <1>2, <2>1 DEF DrainStart, DrainAcknowledge, DrainFail, QueueTyped, CallsTyped
  <2>5. RowTyped'
    BY <1>1, <1>2, PushQueueAssumption
       DEF DrainStart, DrainAcknowledge, DrainFail, RowTyped, Spend, NoRow
  <2> QED BY <2>3, <2>4, <2>5, TypeParts
<1>3. CASE (\E plan \in {"free", "pro"} : DrainList(n, plan))
             \/ (\E d \in Destinations : DrainLook(n, d)) \/ DrainAdd(n)
  <2>1. Calls' = Calls /\ DrainRuns' = DrainRuns /\ requests' = requests
    BY <1>3 DEF DrainList, DrainLook, DrainAdd, Calls, DrainRuns
  <2>2. ASSUME NEW plan \in {"free", "pro"}, DrainList(n, plan) PROVE drain'[n] \in DrainRuns
    BY <1>1, <2>2 DEF DrainList, DrainRuns, DrainsTyped, Enabled
  <2>3. ASSUME NEW d \in Destinations, DrainLook(n, d) PROVE drain'[n] \in DrainRuns
    BY <1>1, <2>3 DEF DrainLook, DrainRuns, DrainsTyped, MayHaveReadPast
  <2>4. ASSUME DrainAdd(n) PROVE drain'[n] \in DrainRuns
    BY <1>1, <2>4 DEF DrainAdd, DrainRuns, DrainsTyped
  <2>5. drain' = [drain EXCEPT ![n] = drain'[n]]
    BY <1>1, <1>3 DEF DrainList, DrainLook, DrainAdd, DrainsTyped
  <2>6. RowTyped' /\ CallsTyped'
    BY <1>1, <1>3, <2>1 DEF DrainList, DrainLook, DrainAdd, RowTyped, CallsTyped
  <2>7. QueueTyped'
    <3>1. CASE UNCHANGED queueVars
      BY <1>1, <1>3, <2>1, <3>1 DEF DrainList, DrainLook, DrainAdd, QueueTyped
    <3>2. CASE DrainAdd(n)
      <4>1. drain[n].all \in SUBSET Destinations
        BY <1>1 DEF DrainRuns
      <4> QED BY <1>1, <2>1, <3>2, <4>1, QueueTypes DEF DrainAdd, QueueTyped
    <3> QED BY <1>3, <3>1, <3>2 DEF DrainList, DrainLook
  <2> QED BY <1>3, <2>1, <2>2, <2>3, <2>4, <2>5, <2>6, <2>7, OneDrain, TypeParts
<1>4. ASSUME NEW recorded \in BOOLEAN, IngestRound(n, recorded) PROVE PushQueueTypeOK'
  <2>1. RecordRequest \/ UNCHANGED requests
    BY <1>4 DEF IngestRound
  <2>2. request' \in 0..requests'
    BY <1>1, <1>4, RecordTypes DEF IngestRound, RowTyped
  <2>3. [IdleDrain EXCEPT !.pc = "list", !.seen = request'] \in DrainRuns'
    BY <2>1, <2>2, Widens DEF IdleDrain, DrainRuns
  <2>4. DrainsTyped'
    <3>1. drain' = [drain EXCEPT ![n] = [IdleDrain EXCEPT !.pc = "list", !.seen = request']]
      BY <1>4 DEF IngestRound
    <3>2. drain'[n] = [IdleDrain EXCEPT !.pc = "list", !.seen = request']
      BY <1>1, <3>1 DEF DrainsTyped
    <3> QED BY <2>1, <2>3, <3>1, <3>2, OneDrain
  <2>5. QueueTyped' /\ CallsTyped'
    BY <1>1, <1>4, <2>1, Widens, RecordTypes DEF IngestRound, QueueTyped, CallsTyped
  <2>6. RowTyped'
    <3>1. requests' \in Nat /\ events' \in 0..MaxEvents
      BY <1>1, <1>4, <2>1, Widens, PushQueueAssumption DEF IngestRound, RowTyped, Spend
    <3>2. missed' \in [Destinations -> BOOLEAN]
      BY <1>1, <1>4 DEF IngestRound, RowTyped, AskAll, AskNone
    <3> QED BY <1>1, <1>4, <2>2, <3>1, <3>2 DEF IngestRound, RowTyped, AskAll, AskNone
  <2> QED BY <2>4, <2>5, <2>6, TypeParts
<1> QED BY <1>2, <1>3, <1>4 DEF DrainStep

LEMMA WorkerTypes ==
  ASSUME PushQueueTypeOK, NEW d \in Destinations,
         \/ PauseDestination(d) \/ ResumeDestination(d)
         \/ RunStep(d) \/ CutShort(d) \/ Stall(d)
         \/ RecordContinuationFails(d) \/ FailCutShort(d)
         \/ ContinuationStep(d) \/ EnqueueContinuationFails(d)
  PROVE  PushQueueTypeOK'
<1>1. QueueTyped /\ RowTyped /\ CallsTyped /\ DrainsTyped
  BY TypeParts
<1> USE DEF queueVars, rowVars, promiseVars
<1>2. CASE RecordContinuation(d)
  <2>1. QueueTyped'
    BY <1>1, <1>2, RecordTypes DEF RecordContinuation, QueueTyped, JobStates
  <2>2. RowTyped' /\ CallsTyped' /\ DrainsTyped'
    BY <1>1, <1>2, RecordTypes, Widens DEF RecordContinuation, RowTyped, CallsTyped, DrainsTyped
  <2> QED BY <2>1, <2>2, TypeParts
<1>3. CASE ~RecordContinuation(d)
  <2>1. UNCHANGED <<rowVars, api, drain>>
    BY <1>3 DEF PauseDestination, ResumeDestination, RunStep, CutShort, Stall,
       RecordContinuationFails, FailCutShort, ContinuationStep, EnqueueContinuationFails,
       Activate, EndRun, CompleteCutShort, EnqueueContinuation
  <2>2. CallsTyped' /\ DrainsTyped'
    BY <1>1, <2>1 DEF CallsTyped, DrainsTyped, Calls, DrainRuns
  <2>3. events' \in 0..MaxEvents
    BY <1>1, <1>3, PushQueueAssumption
       DEF RowTyped, PauseDestination, ResumeDestination, RunStep, CutShort, Stall,
       RecordContinuationFails, FailCutShort, ContinuationStep, EnqueueContinuationFails,
       Activate, EndRun, CompleteCutShort, EnqueueContinuation, Spend
  <2>4. /\ owed' \in [Destinations -> BOOLEAN]
        /\ missed' \in [Destinations -> BOOLEAN]
        /\ paused' \subseteq Destinations
    BY <1>1, <1>3
       DEF RowTyped, PauseDestination, ResumeDestination, RunStep, CutShort, Stall,
       RecordContinuationFails, FailCutShort, ContinuationStep, EnqueueContinuationFails,
       Activate, EndRun, CompleteCutShort, EnqueueContinuation, LoseOn
  <2>5. RowTyped'
    BY <1>1, <2>1, <2>3, <2>4 DEF RowTyped
  <2>6. continuing' \in [Destinations -> {"no", "recorded", "unrecorded"}]
    BY <1>1, <1>3
       DEF QueueTyped, PauseDestination, ResumeDestination, RunStep, CutShort, Stall,
       RecordContinuationFails, FailCutShort, ContinuationStep, EnqueueContinuationFails,
       Activate, EndRun, CompleteCutShort, EnqueueContinuation
  <2>7. ASSUME EndRun(d) \/ CompleteCutShort(d) \/ FailCutShort(d)
               \/ EnqueueContinuation(d)
        PROVE  QueueTyped'
    BY <1>1, <2>1, <2>6, <2>7, QueueTypes
       DEF QueueTyped, FailCutShort, EndRun, CompleteCutShort, EnqueueContinuation
  <2>8. ASSUME PauseDestination(d) \/ ResumeDestination(d) \/ EnqueueContinuationFails(d)
        PROVE  QueueTyped'
    BY <1>1, <2>1, <2>6, <2>8
       DEF QueueTyped, PauseDestination, ResumeDestination, EnqueueContinuationFails
  <2>9. ASSUME Activate(d) \/ CutShort(d) \/ RecordContinuationFails(d)
        PROVE  QueueTyped'
    BY <1>1, <2>1, <2>6, <2>9
       DEF QueueTyped, Activate, CutShort, RecordContinuationFails, JobStates
  <2>10. ASSUME Stall(d)
        PROVE  QueueTyped'
    <3>1. CASE stalls[d] < MaxStalled
      BY <1>1, <2>1, <2>6, <2>10, <3>1, PushQueueAssumption DEF QueueTyped, Stall, JobStates
    <3>2. CASE ~(stalls[d] < MaxStalled)
      BY <1>1, <2>1, <2>6, <2>10, <3>2, QueueTypes DEF QueueTyped, Stall
    <3> QED BY <3>1, <3>2
  <2>11. QueueTyped'
    BY <1>3, <2>7, <2>8, <2>9, <2>10 DEF RunStep, ContinuationStep
  <2> QED BY <2>2, <2>5, <2>11, TypeParts
<1> QED BY <1>2, <1>3

LEMMA NextTypes == PushQueueTypeOK /\ [PushQueueNext]_pushVars => PushQueueTypeOK'
<1> SUFFICES ASSUME PushQueueTypeOK, [PushQueueNext]_pushVars PROVE PushQueueTypeOK'
  OBVIOUS
<1>1. QueueTyped /\ RowTyped /\ CallsTyped /\ DrainsTyped
  BY TypeParts
<1> USE DEF queueVars, rowVars, promiseVars
<1>2. CASE EgressTick
  <2>1. QueueTyped'
    BY <1>1, <1>2, QueueTypes DEF EgressTick, QueueTyped, Enabled
  <2>2. RowTyped' /\ CallsTyped' /\ DrainsTyped'
    BY <1>1, <1>2, PushQueueAssumption
       DEF EgressTick, RowTyped, CallsTyped, DrainsTyped, Calls, DrainRuns, Spend
  <2> QED BY <2>1, <2>2, TypeParts
<1>3. CASE UNCHANGED pushVars
  BY <1>3 DEF pushVars, PushQueueTypeOK
<1> QED BY <1>2, <1>3, ApiTypes, DrainTypes, WorkerTypes DEF PushQueueNext

-----------------------------------------------------------------------------
(* What a step may do to a destination without harm: its job does not become *)
(* an older one, and a change that stands afterwards with nothing to carry   *)
(* it stood so before, and what the row did for it the row still does.       *)

Kept(d) ==
  /\ \A q \in 0..requests : NotOlder(d, q) => NotOlder(d, q)'
  /\ Standing(d)' /\ ~Carried(d)' =>
       /\ Standing(d) /\ ~Carried(d)
       /\ RowServes(d) => RowServes(d)'

LEMMA KeptServed ==
  ASSUME StandingIsServed, \A d \in Destinations : Kept(d)
  PROVE  StandingIsServed'
BY DEF StandingIsServed, Kept

LEMMA KeptDrain ==
  ASSUME PushQueueTypeOK, NEW n \in Drains, DrainIsSafe(n),
         \A d \in Destinations : Kept(d), request' = request, drain'[n] = drain[n]
  PROVE  DrainIsSafe(n)'
<1>1. drain[n].seen \in 0..requests /\ drain[n].all \subseteq Destinations
  BY TypeParts DEF DrainsTyped, DrainRuns
<1> QED BY <1>1 DEF DrainIsSafe, DrainServed, Kept

LEMMA KeptMapping ==
  ASSUME PushQueueTypeOK, NEW c \in ApiCalls, CallIsWhole(c), MappingIsSafe(c),
         \A d \in Destinations : Kept(d), request' = request, api'[c] = api[c]
  PROVE  CallIsWhole(c)' /\ MappingIsSafe(c)'
<1>1. /\ api[c].seen \in 0..requests /\ api[c].all \subseteq Destinations
      /\ api[c].left \subseteq Destinations
  BY TypeParts DEF CallsTyped, Calls
<1>2. CallIsWhole(c)'
  BY DEF CallIsWhole
<1>3. MappingIsSafe(c)'
  BY <1>1 DEF MappingIsSafe, MappingServed, Kept
<1> QED BY <1>2, <1>3

\* A row that has just been recorded is newer than every job and than what anyone has seen.
LEMMA RecordedDrain ==
  ASSUME PushQueueTypeOK, NEW n \in Drains, DrainIsSafe(n), RecordRequest,
         \A d \in Destinations, q \in 0..requests : NotOlder(d, q) => NotOlder(d, q)',
         drain'[n] = drain[n]
  PROVE  DrainIsSafe(n)'
<1>1. drain[n].seen \in 0..requests /\ drain[n].all \subseteq Destinations
  BY TypeParts DEF DrainsTyped, DrainRuns
<1>2. request' # drain[n].seen
  BY <1>1, TypeParts DEF RecordRequest, RowTyped
<1> QED BY <1>1, <1>2 DEF DrainIsSafe

LEMMA RecordedMapping ==
  ASSUME PushQueueTypeOK, NEW c \in ApiCalls, CallIsWhole(c), MappingIsSafe(c), RecordRequest,
         \A d \in Destinations, q \in 0..requests : NotOlder(d, q) => NotOlder(d, q)',
         api'[c] = api[c]
  PROVE  CallIsWhole(c)' /\ MappingIsSafe(c)'
<1>1. /\ api[c].seen \in 0..requests /\ api[c].all \subseteq Destinations
      /\ api[c].left \subseteq Destinations
  BY TypeParts DEF CallsTyped, Calls
<1>2. api[c].seen < request'
  BY <1>1, TypeParts DEF RecordRequest, RowTyped
<1>3. request' # api[c].seen
  BY <1>1, <1>2, TypeParts DEF RecordRequest, RowTyped
<1>4. CallIsWhole(c)'
  BY DEF CallIsWhole
<1>5. MappingIsSafe(c)'
  BY <1>1, <1>2, <1>3 DEF MappingIsSafe
<1> QED BY <1>4, <1>5

LEMMA RecordedServes ==
  ASSUME PushQueueTypeOK, RecordRequest, UNCHANGED stamp
  PROVE  StandingIsServed'
<1>1. \A d \in Destinations : stamp[d] \in 0..requests
  BY TypeParts DEF QueueTyped
<1>2. request' # NoRow /\ \A d \in Destinations : stamp'[d] < request'
  BY <1>1, TypeParts DEF RecordRequest, RowTyped, NoRow
<1> QED BY <1>2 DEF StandingIsServed, RowServes

\* Jobs that are added do no harm, and the others are left alone.
LEMMA AddKeeps ==
  ASSUME PushQueueTypeOK, NEW D \in SUBSET Destinations, Add(D),
         NEW d \in Destinations, UNCHANGED <<owed, missed, paused, request>>,
         job[d] # "none" => \A c \in ApiCalls : CarriedBy(c, d) => CarriedBy(c, d)',
         d \notin D => /\ continuing'[d] = continuing[d]
                       /\ \A c \in ApiCalls : CarriedBy(c, d) => CarriedBy(c, d)'
  PROVE  Kept(d)
<1>1. job \in [Destinations -> JobStates] /\ \A e \in Destinations : stamp[e] \in 0..requests
  BY TypeParts DEF QueueTyped
<1>2. CASE d \in D /\ job[d] = "none"
  <2>1. job'[d] = "waiting" /\ stamp'[d] = requests
    BY <1>2 DEF Add
  <2> QED BY <1>2, <2>1, TypeParts DEF Kept, NotOlder, Carried, RowTyped
<1>3. CASE ~(d \in D /\ job[d] = "none")
  <2>1. job'[d] = job[d] /\ stamp'[d] = stamp[d]
    BY <1>3 DEF Add
  <2>2. Carried(d) => Carried(d)'
    BY <1>3, <2>1 DEF Carried
  <2> QED BY <2>1, <2>2 DEF Kept, NotOlder, Standing, RowServes
<1> QED BY <1>2, <1>3

-----------------------------------------------------------------------------
(* The steps, of the worker first: no call and no drain moves.               *)

\* The steps of the worker that record nothing.
WorkerQuiet(d) ==
  \/ PauseDestination(d) \/ ResumeDestination(d)
  \/ Activate(d) \/ EndRun(d) \/ CompleteCutShort(d)
  \/ CutShort(d) \/ Stall(d)
  \/ RecordContinuationFails(d) \/ FailCutShort(d)
  \/ EnqueueContinuation(d) \/ EnqueueContinuationFails(d)

LEMMA WorkerFrame ==
  ASSUME PushQueueTypeOK, NEW d \in Destinations, WorkerQuiet(d)
  PROVE  /\ UNCHANGED <<request, requests, api, drain>>
         /\ \A e \in Destinations : e # d =>
              /\ job'[e] = job[e] /\ stamp'[e] = stamp[e] /\ continuing'[e] = continuing[e]
              /\ owed'[e] = owed[e] /\ missed'[e] = missed[e]
              /\ e \in paused' <=> e \in paused
<1> USE TypeParts DEF QueueTyped, RowTyped, queueVars, rowVars, promiseVars
<1>1. CASE PauseDestination(d) \/ ResumeDestination(d) \/ EnqueueContinuationFails(d)
  BY <1>1 DEF PauseDestination, ResumeDestination, EnqueueContinuationFails, LoseOn
<1>2. CASE Activate(d) \/ CutShort(d) \/ RecordContinuationFails(d)
  BY <1>2 DEF Activate, CutShort, RecordContinuationFails
<1>3. CASE EndRun(d) \/ CompleteCutShort(d) \/ FailCutShort(d)
  BY <1>3 DEF EndRun, CompleteCutShort, FailCutShort, RemoveJob, LoseOn
<1>4. CASE EnqueueContinuation(d)
  BY <1>4 DEF EnqueueContinuation, Add
<1>5. CASE Stall(d)
  BY <1>5 DEF Stall, RemoveJob, LoseOn
<1> QED BY <1>1, <1>2, <1>3, <1>4, <1>5 DEF WorkerQuiet

LEMMA WorkerKeeps ==
  ASSUME PushQueueTypeOK, NEW d \in Destinations, WorkerQuiet(d), NEW e \in Destinations
  PROVE  Kept(e)
<1>1. CASE e # d
  BY <1>1, WorkerFrame DEF Kept, NotOlder, Standing, Carried, CarriedBy, RowServes
<1>2. CASE e = d
  <2> USE TypeParts DEF QueueTyped, RowTyped, queueVars, rowVars, promiseVars
  <2>1. UNCHANGED <<request, requests, api, drain>>
    BY WorkerFrame
  <2>2. CASE PauseDestination(d) \/ ResumeDestination(d)
    BY <1>2, <2>2 DEF PauseDestination, ResumeDestination, LoseOn, Kept, NotOlder, Standing,
       Carried, CarriedBy, RowServes
  <2>3. CASE EnqueueContinuationFails(d)
    <3>1. continuing[d] = "recorded" \/ missed'[d]
      BY <2>3 DEF EnqueueContinuationFails, LoseOn
    <3> QED BY <1>2, <2>3, <3>1 DEF EnqueueContinuationFails, LoseOn, Kept, NotOlder, Standing,
            Carried, CarriedBy, RowServes
  <2>4. CASE CutShort(d) \/ RecordContinuationFails(d)
    <3>1. /\ job'[d] \in {"cut", "unrecorded"}
          /\ job[d] # "none" /\ UNCHANGED stamp
      BY <2>4 DEF CutShort, RecordContinuationFails
    <3> QED BY <1>2, <3>1 DEF Kept, NotOlder, Carried
  <2>5. CASE Activate(d)
    <3>1. ~owed'[d] /\ job[d] # "none" /\ UNCHANGED stamp
      BY <2>5 DEF Activate
    <3> QED BY <1>2, <3>1 DEF Kept, NotOlder, Standing
  <2>6. CASE EndRun(d) \/ CompleteCutShort(d)
    <3>1. job'[d] = "none" /\ owed'[d] = owed[d] /\ missed'[d] = missed[d] /\ paused' = paused
      BY <2>6 DEF EndRun, CompleteCutShort, RemoveJob
    <3>2. job[d] = "active" \/ (job[d] \in {"recorded", "unrecorded"} /\ continuing'[d] = job[d])
      BY <2>6 DEF EndRun, CompleteCutShort
    <3>3. Carried(d) => Carried(d)'
      BY <2>1, <3>1, <3>2 DEF Carried, CarriedBy
    <3> QED BY <1>2, <2>1, <3>1, <3>3 DEF Kept, NotOlder, Standing, RowServes
  <2>7. CASE FailCutShort(d)
    <3>1. job'[d] = "none" /\ owed'[d] = owed[d] /\ paused' = paused
      BY <2>7 DEF FailCutShort, RemoveJob
    <3>2. missed'[d] \/ (job[d] = "recorded" /\ missed'[d] = missed[d])
      BY <2>7 DEF FailCutShort, LoseOn
    <3>3. job[d] = "recorded" /\ Carried(d) => Carried(d)'
      BY <2>1, <3>1 DEF Carried, CarriedBy
    <3> QED BY <1>2, <2>1, <3>1, <3>2, <3>3 DEF Kept, NotOlder, Standing, RowServes
  <2>8. CASE EnqueueContinuation(d)
    <3>1. {d} \in SUBSET Destinations /\ Add({d}) /\ UNCHANGED <<owed, missed, paused>>
      BY <2>8 DEF EnqueueContinuation
    <3>2. job[d] # "none" => \A c \in ApiCalls : CarriedBy(c, d) => CarriedBy(c, d)'
      BY <2>1, <3>1 DEF Add, CarriedBy
    <3> QED BY <1>2, <2>1, <3>1, <3>2, AddKeeps
  <2>9. CASE Stall(d)
    <3>1. CASE stalls[d] < MaxStalled
      <4>1. job'[d] = "waiting" /\ job[d] # "none" /\ UNCHANGED stamp
        BY <2>9, <3>1 DEF Stall, Running
      <4> QED BY <1>2, <4>1 DEF Kept, NotOlder, Carried
    <3>2. CASE ~(stalls[d] < MaxStalled)
      <4>1. RemoveJob(d) /\ LoseOn({d})
        BY <2>9, <3>2 DEF Stall
      <4>2. missed'[d]
        BY <4>1 DEF LoseOn
      <4>3. job'[d] = "none"
        BY <4>1 DEF RemoveJob
      <4> QED BY <1>2, <4>2, <4>3 DEF Kept, NotOlder, Standing
    <3> QED BY <3>1, <3>2
  <2> QED BY <2>2, <2>3, <2>4, <2>5, <2>6, <2>7, <2>8, <2>9 DEF WorkerQuiet
<1> QED BY <1>1, <1>2

LEMMA WorkerStep ==
  ASSUME PushInv, NEW d \in Destinations,
         \/ PauseDestination(d) \/ ResumeDestination(d)
         \/ RunStep(d) \/ CutShort(d) \/ Stall(d)
         \/ RecordContinuationFails(d) \/ FailCutShort(d)
         \/ ContinuationStep(d) \/ EnqueueContinuationFails(d)
  PROVE  PushInv'
<1>1. PushQueueTypeOK'
  BY WorkerTypes DEF PushInv
<1>2. CASE RecordContinuation(d)
  <2>1. /\ RecordRequest /\ UNCHANGED <<stamp, api, drain>>
        /\ \A e \in Destinations : job[e] # "none" => job'[e] # "none"
    BY <1>2, TypeParts DEF RecordContinuation, PushInv, QueueTyped
  <2>2. \A e \in Destinations, q \in 0..requests : NotOlder(e, q) => NotOlder(e, q)'
    <3>1. \A e \in Destinations : job'[e] = job[e] \/ (job[e] # "none" /\ job'[e] # "none")
      BY <1>2, TypeParts DEF RecordContinuation, PushInv, QueueTyped
    <3> QED BY <2>1, <3>1 DEF NotOlder
  <2> QED BY <1>1, <2>1, <2>2, RecordedServes, RecordedDrain, RecordedMapping DEF PushInv
<1>3. CASE ~RecordContinuation(d)
  <2>1. WorkerQuiet(d)
    BY <1>3 DEF RunStep, ContinuationStep, WorkerQuiet
  <2> QED BY <1>1, <2>1, WorkerKeeps, WorkerFrame, KeptServed, KeptDrain, KeptMapping DEF PushInv
<1> QED BY <1>2, <1>3

LEMMA TickStep == ASSUME PushInv, EgressTick PROVE PushInv'
<1>1. PushQueueTypeOK'
  BY NextTypes DEF PushInv, PushQueueNext
<1>2. Enabled \in SUBSET Destinations
  BY DEF Enabled
<1>3. \A d \in Destinations : Kept(d)
  BY <1>2, AddKeeps DEF PushInv, EgressTick, rowVars, promiseVars, CarriedBy, Add
<1> QED BY <1>1, <1>3, KeptServed, KeptDrain, KeptMapping
        DEF PushInv, EgressTick, rowVars

-----------------------------------------------------------------------------
(* The calls.                                                                *)

\* A step of c leaves what the other calls carry, except by adding a job.
LEMMA OthersCarry ==
  ASSUME PushQueueTypeOK, NEW c \in ApiCalls, api' = [api EXCEPT ![c] = api'[c]],
         NEW d \in Destinations, job'[d] = job[d], continuing' = continuing,
         CarriedBy(c, d) => CarriedBy(c, d)'
  PROVE  Carried(d) => Carried(d)'
<1>1. \A x \in ApiCalls : x # c => api'[x] = api[x]
  BY TypeParts DEF CallsTyped
<1> QED BY <1>1 DEF Carried, CarriedBy

LEMMA ApiChangeStep ==
  ASSUME PushInv, NEW c \in ApiCalls, ApiChange(c)
  PROVE  PushInv'
<1>1. PushQueueTypeOK /\ PushQueueTypeOK'
  BY ApiTypes DEF PushInv
<1>2. api[c] \in Calls /\ api'[c] \in Calls'
  BY <1>1, TypeParts DEF CallsTyped
<1>3. UNCHANGED <<job, stamp, stalls, request, requests, continuing, drain, paused>>
  BY DEF ApiChange, queueVars, rowVars
<1>4. ~api[c].mapping /\ ~api[c].found
  BY DEF PushInv, CallIsWhole, ApiChange
<1>5. /\ api' = [api EXCEPT ![c] = api'[c]]
      /\ Enabled # {} => /\ api'[c].pc = "look" /\ api'[c].all = Enabled
                         /\ api'[c].left = Enabled
                         /\ api'[c].mapping = api[c].mapping /\ api'[c].found = api[c].found
      /\ Enabled = {} => api'[c] = api[c]
  BY <1>1, <1>2, TypeParts DEF ApiChange, CallsTyped, Calls
<1>6. ASSUME NEW d \in Destinations PROVE Kept(d)
  <2>1. CASE d \in paused
    BY <1>3, <2>1 DEF Kept, NotOlder, Standing
  <2>2. CASE d \notin paused
    <3>1. CarriedBy(c, d)'
      BY <1>4, <1>5, <2>2 DEF Enabled, CarriedBy
    <3> QED BY <1>3, <3>1 DEF Kept, NotOlder, Carried
  <2> QED BY <2>1, <2>2
<1>7. \A x \in ApiCalls : x # c => CallIsWhole(x)' /\ MappingIsSafe(x)'
  BY <1>1, <1>3, <1>5, <1>6, KeptMapping, TypeParts DEF PushInv, CallsTyped
<1>8. CallIsWhole(c)' /\ MappingIsSafe(c)'
  <2>1. CASE Enabled = {}
    BY <1>1, <1>3, <1>5, <1>6, <2>1, KeptMapping DEF PushInv
  <2>2. CASE Enabled # {}
    BY <1>4, <1>5, <2>2 DEF CallIsWhole, MappingIsSafe
  <2> QED BY <2>1, <2>2
<1> QED BY <1>1, <1>3, <1>6, <1>7, <1>8, KeptServed, KeptDrain DEF PushInv

LEMMA ApiLookStep ==
  ASSUME PushInv, NEW c \in ApiCalls, NEW e \in Destinations, ApiLook(c, e)
  PROVE  PushInv'
<1>1. PushQueueTypeOK /\ PushQueueTypeOK'
  BY ApiTypes DEF PushInv, ApiStep
<1>2. api[c] \in Calls /\ api'[c] \in Calls'
  BY <1>1, TypeParts DEF CallsTyped
<1>3. UNCHANGED <<job, stamp, stalls, request, requests, continuing, drain, owed, missed, paused>>
  BY DEF ApiLook, queueVars, rowVars, promiseVars
<1> DEFINE found == api[c].found \/ job[e] # "none"
           left == api[c].left \ {e}
<1>4. /\ api' = [api EXCEPT ![c] = api'[c]]
      /\ api[c].pc = "look" /\ e \in api[c].left
      /\ api'[c].all = api[c].all /\ api'[c].mapping = api[c].mapping
      /\ api'[c].seen = api[c].seen
      /\ api'[c].found = found
      /\ api'[c].left = IF left = {} THEN api[c].all ELSE left
      /\ api'[c].pc = IF left # {} THEN "look" ELSE IF found THEN "record" ELSE "add"
  <2>1. api' = [api EXCEPT ![c].found = found,
                           ![c].left = IF left = {} THEN api[c].all ELSE left,
                           ![c].pc = IF left # {} THEN "look"
                                     ELSE IF found THEN "record" ELSE "add"]
    BY DEF ApiLook
  <2>2. api[c].pc = "look" /\ e \in api[c].left
    BY DEF ApiLook, IsFirst
  <2> HIDE DEF found, left
  <2> QED BY <1>1, <1>2, <2>1, <2>2, TypeParts DEF CallsTyped, Calls
<1> HIDE DEF found, left
<1>5. api[c].left \subseteq api[c].all
  BY DEF PushInv, CallIsWhole
<1>6. ASSUME NEW d \in Destinations PROVE Kept(d)
  <2>1. CarriedBy(c, d) => CarriedBy(c, d)'
    <3>1. CASE left # {}
      BY <1>3, <1>4, <3>1 DEF CarriedBy, found, left
    <3>2. CASE left = {} /\ found
      BY <1>3, <1>4, <3>2 DEF CarriedBy
    <3>3. CASE left = {} /\ ~found
      BY <1>3, <1>4, <3>3 DEF CarriedBy, found, left
    <3> QED BY <3>1, <3>2, <3>3
  <2>2. Carried(d) => Carried(d)'
    BY <1>1, <1>3, <1>4, <2>1, OthersCarry
  <2> QED BY <1>3, <2>2 DEF Kept, NotOlder, Standing, RowServes
<1>7. \A x \in ApiCalls : x # c => CallIsWhole(x)' /\ MappingIsSafe(x)'
  BY <1>1, <1>3, <1>4, <1>6, KeptMapping, TypeParts DEF PushInv, CallsTyped
<1>8. CallIsWhole(c)'
  BY <1>4, <1>5 DEF CallIsWhole, left
<1>9. MappingIsSafe(c)'
  <2> SUFFICES ASSUME api[c].mapping, ~found PROVE MappingIsSafe(c)'
    BY <1>4 DEF MappingIsSafe
  <2>1. ~api[c].found /\ job[e] = "none"
    BY DEF found
  <2>2. \A d \in api[c].all \ left : NotOlder(d, api[c].seen)
    BY <2>1, <1>4 DEF PushInv, MappingIsSafe, left, NotOlder
  <2>3. api'[c].pc = "look" =>
          \A d \in api'[c].all \ api'[c].left : NotOlder(d, api[c].seen)'
    BY <1>3, <1>4, <2>2 DEF NotOlder
  <2>4. api'[c].pc = "add" => \A d \in api'[c].left : NotOlder(d, api[c].seen)'
    BY <1>3, <1>4, <2>2 DEF NotOlder
  <2>5. ASSUME NEW d \in Destinations, MappingServed(c, d)' PROVE MappingServed(c, d)
    BY <1>4, <2>5 DEF MappingServed
  <2> QED BY <1>3, <1>4, <1>6, <2>1, <2>3, <2>4, <2>5 DEF PushInv, MappingIsSafe, Kept
<1> QED BY <1>1, <1>3, <1>6, <1>7, <1>8, <1>9, KeptServed, KeptDrain DEF PushInv

LEMMA ApiAddStep ==
  ASSUME PushInv, NEW c \in ApiCalls, NEW e \in Destinations, ApiAdd(c, e)
  PROVE  PushInv'
<1>1. PushQueueTypeOK /\ PushQueueTypeOK'
  BY ApiTypes DEF PushInv, ApiStep
<1>2. api[c] \in Calls /\ api'[c] \in Calls'
  BY <1>1, TypeParts DEF CallsTyped
<1>3. UNCHANGED <<request, requests, continuing, drain, owed, missed, paused>> /\ Add({e})
  BY DEF ApiAdd, rowVars, promiseVars
<1>4. /\ api' = [api EXCEPT ![c] = api'[c]]
      /\ api[c].pc = "add" /\ e \in api[c].left
      /\ \/ api'[c] = [api[c] EXCEPT !.left = api[c].left \ {e}]
         \/ /\ api[c].left = {e} /\ api[c].mapping
            /\ api'[c] = [api[c] EXCEPT !.pc = "ack"]
         \/ api[c].left = {e} /\ ~api[c].mapping /\ api'[c] = IdleCall
  BY <1>1, TypeParts DEF ApiAdd, IsFirst, CallsTyped
<1>5. \A d \in Destinations : d # e => job'[d] = job[d] /\ stamp'[d] = stamp[d]
  BY <1>3 DEF Add
<1>6. job'[e] # "none" /\ (job[e] # "none" => job'[e] = job[e] /\ stamp'[e] = stamp[e])
  BY <1>3 DEF Add
<1>7. ASSUME NEW d \in Destinations PROVE Kept(d)
  <2>1. job[d] # "none" \/ d # e => (CarriedBy(c, d) => CarriedBy(c, d)')
    BY <1>2, <1>4, <1>5 DEF CarriedBy, Calls
  <2>2. \A x \in ApiCalls : x # c => api'[x] = api[x]
    BY <1>1, <1>4, TypeParts DEF CallsTyped
  <2>3. job[d] # "none" \/ d # e =>
          \A x \in ApiCalls : CarriedBy(x, d) => CarriedBy(x, d)'
    BY <1>5, <1>6, <2>1, <2>2 DEF CarriedBy
  <2> QED BY <1>1, <1>3, <2>3, AddKeeps
<1>8. \A x \in ApiCalls : x # c => CallIsWhole(x)' /\ MappingIsSafe(x)'
  BY <1>1, <1>3, <1>4, <1>7, KeptMapping, TypeParts DEF PushInv, CallsTyped
<1>9. CallIsWhole(c)'
  BY <1>2, <1>4 DEF PushInv, CallIsWhole, Calls, IdleCall
<1>10. MappingIsSafe(c)'
  <2>1. CASE ~api[c].mapping
    BY <1>2, <1>4, <2>1 DEF MappingIsSafe, Calls, IdleCall
  <2>2. CASE api[c].mapping
    <3>1. /\ api'[c].mapping /\ api'[c].found = api[c].found /\ api'[c].seen = api[c].seen
          /\ api'[c].pc \in {"add", "ack"}
          /\ api'[c].pc = "add" => api'[c].left = api[c].left \ {e}
          /\ api'[c].pc = "ack" => api[c].left = {e}
      BY <1>2, <1>4, <2>2 DEF Calls
    <3>2. CASE api[c].found
      BY <1>3, <1>4, <2>2, <3>1, <3>2 DEF PushInv, MappingIsSafe
    <3>3. CASE ~api[c].found
      <4>1. \A d \in api[c].left : NotOlder(d, api[c].seen)
        BY <1>4, <2>2, <3>3 DEF PushInv, MappingIsSafe
      <4>2. api'[c].pc = "add" => \A d \in api'[c].left : NotOlder(d, api[c].seen)'
        BY <1>2, <1>5, <3>1, <4>1 DEF NotOlder, Calls
      <4>3. ASSUME request # NoRow, request = api[c].seen,
                   NEW d \in Destinations, MappingServed(c, d)', Standing(d)'
            PROVE  Carried(d)'
        <5>1. CASE d = e
          <6>1. ASSUME job[e] # "none" PROVE Carried(e)'
            <7>1. Standing(e) /\ stamp[e] \in 0..requests /\ request \in 0..requests
              BY <1>1, <1>3, <4>3, <5>1, TypeParts DEF Standing, QueueTyped, RowTyped
            <7>2. ~RowServes(e)
              BY <1>4, <4>1, <4>3, <6>1, <7>1 DEF RowServes, NotOlder
            <7>3. Carried(e)
              BY <7>1, <7>2 DEF PushInv, StandingIsServed
            <7>4. Kept(e)
              BY <1>7
            <7> QED BY <4>3, <5>1, <7>1, <7>3, <7>4 DEF Kept
          <6>2. ASSUME job[e] = "none" PROVE Carried(e)'
            BY <1>3, <6>2 DEF Add, Carried
          <6> QED BY <5>1, <6>1, <6>2
        <5>2. CASE d # e
          <6>1. MappingServed(c, d) /\ Standing(d)
            BY <1>3, <1>4, <3>1, <4>3, <5>2 DEF MappingServed, Standing
          <6>2. Carried(d)
            BY <2>2, <3>3, <4>3, <6>1 DEF PushInv, MappingIsSafe
          <6> QED BY <1>7, <4>3, <6>2 DEF Kept
        <5> QED BY <5>1, <5>2
      <4> QED BY <1>3, <3>1, <3>3, <4>2, <4>3 DEF MappingIsSafe
    <3> QED BY <3>2, <3>3
  <2> QED BY <2>1, <2>2
<1> QED BY <1>1, <1>3, <1>7, <1>8, <1>9, <1>10, KeptServed, KeptDrain DEF PushInv

LEMMA ApiRecordStep ==
  ASSUME PushInv, NEW c \in ApiCalls, ApiRecord(c)
  PROVE  PushInv'
<1>1. PushQueueTypeOK /\ PushQueueTypeOK'
  BY ApiTypes DEF PushInv, ApiStep
<1>2. api[c] \in Calls
  BY <1>1, TypeParts DEF CallsTyped
<1>3. /\ RecordRequest /\ UNCHANGED <<job, stamp, drain>>
      /\ api[c].pc = "record" /\ api' = [api EXCEPT ![c].pc = "add"]
  BY DEF ApiRecord, queueVars
<1>4. \A d \in Destinations, q \in 0..requests : NotOlder(d, q) => NotOlder(d, q)'
  BY <1>3 DEF NotOlder
<1>5. \A x \in ApiCalls : x # c => api'[x] = api[x]
  BY <1>1, <1>3, TypeParts DEF CallsTyped
<1>6. /\ api'[c].pc = "add" /\ api'[c].found = api[c].found
      /\ api'[c].mapping = api[c].mapping /\ api'[c].seen = api[c].seen
      /\ api'[c].left = api[c].left /\ api'[c].all = api[c].all
  BY <1>1, <1>2, <1>3, TypeParts DEF CallsTyped, Calls
<1>7. api[c].found /\ api[c].left \subseteq api[c].all
  BY <1>3 DEF PushInv, CallIsWhole
<1>8. CallIsWhole(c)'
  BY <1>6, <1>7 DEF CallIsWhole
<1>9. api[c].seen < request'
  BY <1>1, <1>2, <1>3, TypeParts DEF RecordRequest, RowTyped, Calls
<1>10. MappingIsSafe(c)'
  BY <1>6, <1>7, <1>9 DEF MappingIsSafe
<1> QED BY <1>1, <1>3, <1>4, <1>5, <1>8, <1>10, RecordedServes, RecordedDrain, RecordedMapping
        DEF PushInv

LEMMA ApiFailStep ==
  ASSUME PushInv, NEW c \in ApiCalls, ApiFail(c)
  PROVE  PushInv'
<1>1. PushQueueTypeOK /\ PushQueueTypeOK'
  BY ApiTypes DEF PushInv
<1>2. UNCHANGED <<job, stamp, stalls, request, requests, continuing, drain, owed, paused>>
  BY DEF ApiFail, queueVars, rowVars
<1>3. /\ api' = [api EXCEPT ![c] = IdleCall] /\ api'[c] = IdleCall
      /\ api' = [api EXCEPT ![c] = api'[c]]
      /\ \A x \in ApiCalls : x # c => api'[x] = api[x]
  BY <1>1, TypeParts DEF ApiFail, CallsTyped
<1>4. ASSUME NEW d \in Destinations PROVE Kept(d)
  <2>1. Standing(d)' => Standing(d) /\ ~CarriedBy(c, d)
    BY <1>2 DEF ApiFail, LoseOn, Standing, CarriedBy
  <2>2. CASE CarriedBy(c, d)
    BY <1>2, <2>1, <2>2 DEF Kept, NotOlder
  <2>3. CASE ~CarriedBy(c, d)
    <3>1. Carried(d) => Carried(d)'
      BY <1>1, <1>2, <1>3, <2>3, OthersCarry
    <3> QED BY <1>2, <2>1, <3>1 DEF Kept, NotOlder, RowServes
  <2> QED BY <2>2, <2>3
<1>5. \A x \in ApiCalls : x # c => CallIsWhole(x)' /\ MappingIsSafe(x)'
  BY <1>1, <1>2, <1>3, <1>4, KeptMapping DEF PushInv
<1>6. CallIsWhole(c)' /\ MappingIsSafe(c)'
  BY <1>3 DEF CallIsWhole, MappingIsSafe, IdleCall
<1> QED BY <1>1, <1>2, <1>4, <1>5, <1>6, KeptServed, KeptDrain DEF PushInv

LEMMA MappingChangedStep ==
  ASSUME PushInv, NEW c \in ApiCalls, MappingChanged(c)
  PROVE  PushInv'
<1>1. PushQueueTypeOK /\ PushQueueTypeOK'
  BY ApiTypes DEF PushInv
<1>2. api[c] \in Calls
  BY <1>1, TypeParts DEF CallsTyped
<1>3. /\ RecordRequest /\ UNCHANGED <<job, stamp, drain>> /\ api[c].pc = "idle"
      /\ api' = [api EXCEPT ![c] = [api[c] EXCEPT !.pc = "read", !.mapping = TRUE]]
  BY DEF MappingChanged, queueVars
<1>4. \A d \in Destinations, q \in 0..requests : NotOlder(d, q) => NotOlder(d, q)'
  BY <1>3 DEF NotOlder
<1>5. /\ \A x \in ApiCalls : x # c => api'[x] = api[x]
      /\ api'[c] = [api[c] EXCEPT !.pc = "read", !.mapping = TRUE]
  BY <1>1, <1>3, TypeParts DEF CallsTyped
<1>6. /\ api'[c].pc = "read" /\ api'[c].found = api[c].found /\ api'[c].mapping
      /\ api'[c].left = api[c].left /\ api'[c].all = api[c].all
  BY <1>2, <1>5 DEF Calls
<1>7. ~api[c].found /\ api[c].left \subseteq api[c].all
  BY <1>3 DEF PushInv, CallIsWhole
<1>8. CallIsWhole(c)' /\ MappingIsSafe(c)'
  BY <1>6, <1>7 DEF CallIsWhole, MappingIsSafe, MappingServed
<1> QED BY <1>1, <1>3, <1>4, <1>5, <1>8, RecordedServes, RecordedDrain, RecordedMapping
        DEF PushInv

\* A mapping call that reads, or lists the destinations, carries nothing by itself.
LEMMA MappingReadStep ==
  ASSUME PushInv, NEW c \in ApiCalls, MappingRead(c) \/ MappingList(c)
  PROVE  PushInv'
<1>1. PushQueueTypeOK /\ PushQueueTypeOK'
  BY ApiTypes DEF PushInv, ApiStep
<1>2. api[c] \in Calls
  BY <1>1, TypeParts DEF CallsTyped
<1>3. /\ UNCHANGED <<job, stamp, stalls, request, requests, continuing, drain, owed, missed,
                     paused>>
      /\ api[c].pc \in {"read", "list"}
  BY DEF MappingRead, MappingList, queueVars, rowVars, promiseVars
<1>4. api' = [api EXCEPT ![c] = api'[c]] /\ \A x \in ApiCalls : x # c => api'[x] = api[x]
  BY <1>1, TypeParts DEF MappingRead, MappingList, CallsTyped
<1>5. api[c].mapping /\ ~api[c].found /\ api[c].left \subseteq api[c].all
  BY <1>3 DEF PushInv, CallIsWhole
<1>6. ASSUME NEW d \in Destinations PROVE Kept(d)
  <2>1. Carried(d) => Carried(d)'
    BY <1>1, <1>3, <1>4, <1>5, OthersCarry DEF CarriedBy
  <2> QED BY <1>3, <2>1 DEF Kept, NotOlder, Standing, RowServes
<1>7. \A x \in ApiCalls : x # c => CallIsWhole(x)' /\ MappingIsSafe(x)'
  BY <1>1, <1>3, <1>4, <1>6, KeptMapping DEF PushInv
<1>8. CallIsWhole(c)' /\ MappingIsSafe(c)'
  <2>1. CASE MappingRead(c)
    <3>1. api'[c] = IF request = NoRow THEN IdleCall
                    ELSE [api[c] EXCEPT !.pc = "list", !.seen = request]
      BY <1>1, <2>1, TypeParts DEF MappingRead, CallsTyped
    <3>2. CASE request = NoRow
      BY <3>1, <3>2 DEF CallIsWhole, MappingIsSafe, IdleCall
    <3>3. CASE request # NoRow
      <4>1. /\ api'[c].pc = "list" /\ api'[c].found = api[c].found
            /\ api'[c].mapping = api[c].mapping
            /\ api'[c].left = api[c].left /\ api'[c].all = api[c].all
        BY <1>2, <3>1, <3>3 DEF Calls
      <4> QED BY <1>5, <4>1 DEF CallIsWhole, MappingIsSafe, MappingServed
    <3> QED BY <3>2, <3>3
  <2>2. CASE MappingList(c)
    <3>1. api'[c] = IF Enabled = {} THEN [api[c] EXCEPT !.pc = "ack"]
                    ELSE [api[c] EXCEPT !.pc = "look", !.all = Enabled, !.left = Enabled]
      BY <1>1, <2>2, TypeParts DEF MappingList, CallsTyped
    <3>2. /\ api'[c].found = api[c].found /\ api'[c].mapping = api[c].mapping
          /\ Enabled = {} => /\ api'[c].pc = "ack"
                             /\ api'[c].left = api[c].left /\ api'[c].all = api[c].all
          /\ Enabled # {} => /\ api'[c].pc = "look"
                             /\ api'[c].left = Enabled /\ api'[c].all = Enabled
      BY <1>2, <3>1 DEF Calls
    <3>3. \A d \in Destinations : d \notin Enabled => ~Standing(d)'
      BY <1>3 DEF Enabled, Standing
    <3> QED BY <1>5, <3>2, <3>3 DEF CallIsWhole, MappingIsSafe, MappingServed
  <2> QED BY <2>1, <2>2
<1> QED BY <1>1, <1>3, <1>6, <1>7, <1>8, KeptServed, KeptDrain DEF PushInv

\* Once the row is gone nobody takes it away again.
LEMMA RowGone ==
  ASSUME PushInv, request' = NoRow, UNCHANGED <<job, stamp, requests>>
  PROVE  /\ \A n \in Drains : drain'[n] = drain[n] => DrainIsSafe(n)'
         /\ \A c \in ApiCalls : api'[c] = api[c] => CallIsWhole(c)' /\ MappingIsSafe(c)'
BY DEF PushInv, DrainIsSafe, CallIsWhole, MappingIsSafe, NotOlder

LEMMA MappingAcknowledgeStep ==
  ASSUME PushInv, NEW c \in ApiCalls, MappingAcknowledge(c)
  PROVE  PushInv'
<1>1. PushQueueTypeOK /\ PushQueueTypeOK'
  BY ApiTypes DEF PushInv, ApiStep
<1>2. /\ UNCHANGED <<job, stamp, stalls, requests, continuing, drain, owed, missed, paused>>
      /\ api[c].pc = "ack"
      /\ request' = IF request = api[c].seen THEN NoRow ELSE request
  BY DEF MappingAcknowledge, queueVars, promiseVars
<1>3. /\ api' = [api EXCEPT ![c] = api'[c]] /\ api'[c] = IdleCall
      /\ \A x \in ApiCalls : x # c => api'[x] = api[x]
  BY <1>1, TypeParts DEF MappingAcknowledge, CallsTyped
<1>4. CallIsWhole(c)' /\ MappingIsSafe(c)'
  BY <1>3 DEF CallIsWhole, MappingIsSafe, IdleCall
<1>5. api[c].mapping
  BY <1>2 DEF PushInv, CallIsWhole
<1>6. \A d \in Destinations : Carried(d) => Carried(d)'
  BY <1>1, <1>2, <1>3, <1>5, OthersCarry DEF CarriedBy
<1>7. CASE request # NoRow /\ request = api[c].seen
  <2>1. request' = NoRow
    BY <1>2, <1>7
  <2>2. ~api[c].found
    <3>1. api[c].seen \in Nat
      BY <1>1, TypeParts DEF CallsTyped, Calls
    <3> QED BY <1>2, <1>5, <1>7, <3>1 DEF PushInv, MappingIsSafe
  <2>3. \A d \in Destinations : Standing(d) => Carried(d)
    BY <1>2, <1>5, <1>7, <2>2 DEF PushInv, MappingIsSafe, MappingServed
  <2>4. StandingIsServed'
    BY <1>2, <1>6, <2>3 DEF StandingIsServed, Standing
  <2> QED BY <1>1, <1>2, <1>3, <1>4, <2>1, <2>4, RowGone DEF PushInv
<1>8. CASE ~(request # NoRow /\ request = api[c].seen)
  <2>1. request' = request
    BY <1>2, <1>8
  <2>2. \A d \in Destinations : Kept(d)
    BY <1>2, <1>6, <2>1 DEF Kept, NotOlder, Standing, RowServes
  <2> QED BY <1>1, <1>2, <1>3, <1>4, <2>1, <2>2, KeptServed, KeptDrain, KeptMapping DEF PushInv
<1> QED BY <1>7, <1>8

-----------------------------------------------------------------------------
(* The drains.                                                               *)

\* A step of n that leaves the queue, the row and the calls alone.
LEMMA DrainQuietStep ==
  ASSUME PushInv, NEW n \in Drains,
         \/ DrainStart(n) \/ DrainFail(n)
         \/ \E plan \in {"free", "pro"} : DrainList(n, plan)
         \/ \E d \in Destinations : DrainLook(n, d)
  PROVE  PushInv'
<1>1. PushQueueTypeOK /\ PushQueueTypeOK'
  BY DrainTypes DEF PushInv, DrainStep
<1>2. drain[n] \in DrainRuns /\ drain \in [Drains -> DrainRuns]
  BY <1>1, TypeParts DEF DrainsTyped
<1>3. UNCHANGED <<job, stamp, stalls, request, requests, continuing, api, owed, missed, paused>>
  BY DEF DrainStart, DrainFail, DrainList, DrainLook, queueVars, rowVars, promiseVars
<1>4. \A x \in Drains : x # n => drain'[x] = drain[x]
  BY <1>2 DEF DrainStart, DrainFail, DrainList, DrainLook
<1>5. \A d \in Destinations : Kept(d)
  BY <1>3 DEF Kept, NotOlder, Standing, Carried, CarriedBy, RowServes
<1>6. DrainIsSafe(n)'
  <2>1. CASE DrainStart(n) \/ DrainFail(n)
    <3>1. drain'[n].pc \in {"idle", "list"}
      <4>1. CASE DrainStart(n)
        BY <1>2, <4>1 DEF DrainStart, IdleDrain
      <4>2. CASE DrainFail(n)
        BY <1>2, <4>2 DEF DrainFail, IdleDrain
      <4> QED BY <2>1, <4>1, <4>2
    <3> QED BY <3>1 DEF DrainIsSafe, DrainServed
  <2>2. ASSUME NEW plan \in {"free", "pro"}, DrainList(n, plan) PROVE DrainIsSafe(n)'
    <3>1. /\ drain'[n].seen = drain[n].seen
          /\ \/ /\ Enabled = {} \/ drain[n].seen = NoRow
                /\ drain'[n].pc = "ack"
             \/ drain'[n].pc = "look" /\ drain'[n].all = Enabled /\ drain'[n].left = Enabled
      BY <1>2, <2>2 DEF DrainList, DrainRuns
    <3>2. \A d \in Destinations : d \notin Enabled => ~Standing(d)'
      BY <1>3 DEF Enabled, Standing
    <3> QED BY <1>3, <3>1, <3>2 DEF DrainIsSafe, DrainServed
  <2>3. ASSUME NEW e \in Destinations, DrainLook(n, e) PROVE DrainIsSafe(n)'
    <3>1. /\ drain[n].pc = "look" /\ drain'[n].pc = "look"
          /\ drain'[n].seen = drain[n].seen /\ drain'[n].all = drain[n].all
          /\ drain'[n].left = drain[n].left \ {e}
          /\ drain'[n].retain = (drain[n].retain \/ MayHaveReadPast(n, e))
      BY <1>2, <2>3 DEF DrainLook, DrainRuns
    <3>2. stamp[e] \in Nat /\ drain[n].seen \in Nat
      BY <1>1, <1>2, TypeParts DEF QueueTyped, DrainRuns
    <3> SUFFICES ASSUME ~drain[n].retain, ~MayHaveReadPast(n, e) PROVE DrainIsSafe(n)'
      BY <3>1 DEF DrainIsSafe
    <3>3. NotOlder(e, drain[n].seen)
      BY <3>2 DEF MayHaveReadPast, NotOlder
    <3>4. \A d \in drain'[n].all \ drain'[n].left : NotOlder(d, drain[n].seen)
      BY <3>1, <3>3 DEF PushInv, DrainIsSafe
    <3>5. \A d \in drain'[n].all \ drain'[n].left : NotOlder(d, drain[n].seen)'
      BY <1>3, <3>1, <3>4 DEF NotOlder
    <3>6. \A d \in Destinations : DrainServed(n, d)' => DrainServed(n, d)
      BY <3>1 DEF DrainServed
    <3>7. request # NoRow /\ request = drain[n].seen =>
            \A d \in Destinations : DrainServed(n, d) /\ Standing(d) => Carried(d)
      BY DEF PushInv, DrainIsSafe
    <3> QED BY <1>3, <1>5, <3>1, <3>5, <3>6, <3>7 DEF DrainIsSafe, Kept
  <2> QED BY <2>1, <2>2, <2>3
<1> QED BY <1>1, <1>3, <1>4, <1>5, <1>6, KeptServed, KeptDrain, KeptMapping DEF PushInv

LEMMA DrainAddStep ==
  ASSUME PushInv, NEW n \in Drains, DrainAdd(n)
  PROVE  PushInv'
<1>1. PushQueueTypeOK /\ PushQueueTypeOK'
  BY DrainTypes DEF PushInv, DrainStep
<1>2. drain[n] \in DrainRuns /\ drain \in [Drains -> DrainRuns]
  BY <1>1, TypeParts DEF DrainsTyped
<1>3. /\ UNCHANGED <<request, requests, continuing, api, owed, missed, paused>>
      /\ drain[n].pc = "look" /\ drain[n].left = {} /\ Add(drain[n].all)
      /\ drain' = [drain EXCEPT ![n].pc = "ack"]
  BY DEF DrainAdd, rowVars, promiseVars
<1>4. /\ \A x \in Drains : x # n => drain'[x] = drain[x]
      /\ drain'[n].pc = "ack" /\ drain'[n].seen = drain[n].seen
      /\ drain'[n].retain = drain[n].retain
  BY <1>2, <1>3 DEF DrainRuns
<1>5. drain[n].all \in SUBSET Destinations
  BY <1>2 DEF DrainRuns
<1>6. \A d \in Destinations : Kept(d)
  BY <1>1, <1>3, <1>5, AddKeeps DEF CarriedBy, Add
<1>7. DrainIsSafe(n)'
  <2> SUFFICES ASSUME ~drain[n].retain, request # NoRow, request = drain[n].seen,
                      NEW d \in Destinations, Standing(d)'
               PROVE  Carried(d)'
    BY <1>3, <1>4 DEF DrainIsSafe, DrainServed
  <2>1. Standing(d) /\ stamp[d] \in Nat /\ request \in Nat
    BY <1>1, <1>3, TypeParts DEF Standing, QueueTyped, RowTyped
  <2>2. CASE d \in drain[n].all /\ job[d] = "none"
    BY <1>3, <2>2 DEF Add, Carried
  <2>3. CASE d \in drain[n].all /\ job[d] # "none"
    <3>1. NotOlder(d, drain[n].seen)
      BY <1>3, <2>3 DEF PushInv, DrainIsSafe
    <3>2. ~RowServes(d)
      BY <2>1, <2>3, <3>1 DEF NotOlder, RowServes
    <3>3. Carried(d)
      BY <2>1, <3>2 DEF PushInv, StandingIsServed
    <3> QED BY <1>6, <3>3 DEF Kept
  <2>4. CASE d \notin drain[n].all
    <3>1. Carried(d)
      BY <1>3, <2>1, <2>4 DEF PushInv, DrainIsSafe, DrainServed
    <3> QED BY <1>6, <3>1 DEF Kept
  <2> QED BY <2>2, <2>3, <2>4
<1> QED BY <1>1, <1>3, <1>4, <1>6, <1>7, KeptServed, KeptDrain, KeptMapping DEF PushInv

LEMMA DrainAcknowledgeStep ==
  ASSUME PushInv, NEW n \in Drains, DrainAcknowledge(n)
  PROVE  PushInv'
<1>1. PushQueueTypeOK /\ PushQueueTypeOK'
  BY DrainTypes DEF PushInv, DrainStep
<1>2. /\ UNCHANGED <<job, stamp, stalls, requests, continuing, api, owed, missed, paused>>
      /\ drain[n].pc = "ack"
      /\ request' = IF ~drain[n].retain /\ request = drain[n].seen THEN NoRow ELSE request
  BY DEF DrainAcknowledge, queueVars, promiseVars
<1>3. drain'[n].pc = "idle" /\ \A x \in Drains : x # n => drain'[x] = drain[x]
  BY <1>1, TypeParts DEF DrainAcknowledge, DrainsTyped, IdleDrain
<1>4. DrainIsSafe(n)'
  BY <1>3 DEF DrainIsSafe, DrainServed
<1>5. \A d \in Destinations : Carried(d) <=> Carried(d)'
  BY <1>2 DEF Carried, CarriedBy
<1>6. CASE ~drain[n].retain /\ request # NoRow /\ request = drain[n].seen
  <2>1. request' = NoRow
    BY <1>2, <1>6
  <2>2. \A d \in Destinations : Standing(d) => Carried(d)
    BY <1>2, <1>6 DEF PushInv, DrainIsSafe, DrainServed
  <2>3. StandingIsServed'
    BY <1>2, <1>5, <2>2 DEF StandingIsServed, Standing
  <2> QED BY <1>1, <1>2, <1>3, <1>4, <2>1, <2>3, RowGone DEF PushInv
<1>7. CASE ~(~drain[n].retain /\ request # NoRow /\ request = drain[n].seen)
  <2>1. request' = request
    BY <1>2, <1>7
  <2>2. \A d \in Destinations : Kept(d)
    BY <1>2, <1>5, <2>1 DEF Kept, NotOlder, Standing, RowServes
  <2> QED BY <1>1, <1>2, <1>3, <1>4, <2>1, <2>2, KeptServed, KeptDrain, KeptMapping DEF PushInv
<1> QED BY <1>6, <1>7

LEMMA IngestRoundStep ==
  ASSUME PushInv, NEW n \in Drains, NEW recorded \in BOOLEAN, IngestRound(n, recorded)
  PROVE  PushInv'
<1>1. PushQueueTypeOK /\ PushQueueTypeOK'
  BY DrainTypes DEF PushInv
<1>2. UNCHANGED <<job, stamp, stalls, continuing, api, paused>>
  BY DEF IngestRound, queueVars
<1>3. drain'[n].pc = "list" /\ \A x \in Drains : x # n => drain'[x] = drain[x]
  BY <1>1, TypeParts DEF IngestRound, DrainsTyped, IdleDrain
<1>4. DrainIsSafe(n)'
  BY <1>3 DEF DrainIsSafe, DrainServed
<1>5. CASE recorded
  <2>1. RecordRequest
    BY <1>5 DEF IngestRound
  <2>2. \A d \in Destinations, q \in 0..requests : NotOlder(d, q) => NotOlder(d, q)'
    BY <1>2 DEF NotOlder
  <2> QED BY <1>1, <1>2, <1>3, <1>4, <2>1, <2>2, RecordedServes, RecordedDrain, RecordedMapping
          DEF PushInv
<1>6. CASE ~recorded
  <2>1. /\ request' = request
        /\ \A d \in Destinations : ~missed'[d] => owed[d] /\ ~missed[d]
    BY <1>6 DEF IngestRound, AskNone, rowVars
  <2>2. \A d \in Destinations : Kept(d)
    BY <1>2, <2>1 DEF Kept, NotOlder, Standing, Carried, CarriedBy, RowServes
  <2> QED BY <1>1, <1>2, <1>3, <1>4, <2>1, <2>2, KeptServed, KeptDrain, KeptMapping DEF PushInv
<1> QED BY <1>5, <1>6

-----------------------------------------------------------------------------
(* The invariant and what follows from it.                                   *)

LEMMA InitPushInv == PushQueueInit => PushInv
<1> SUFFICES ASSUME PushQueueInit PROVE PushInv
  OBVIOUS
<1>1. StandingIsServed
  BY DEF PushQueueInit, StandingIsServed, Standing
<1>2. \A c \in ApiCalls : CallIsWhole(c) /\ MappingIsSafe(c)
  BY DEF PushQueueInit, CallIsWhole, MappingIsSafe, IdleCall
<1>3. \A n \in Drains : DrainIsSafe(n)
  BY DEF PushQueueInit, DrainIsSafe, DrainServed, IdleDrain
<1> QED BY <1>1, <1>2, <1>3, InitTypes DEF PushInv

LEMMA NextPushInv == PushInv /\ [PushQueueNext]_pushVars => PushInv'
<1> SUFFICES ASSUME PushInv, [PushQueueNext]_pushVars PROVE PushInv'
  OBVIOUS
<1>1. ASSUME NEW c \in ApiCalls, ApiChange(c) \/ MappingChanged(c) \/ ApiStep(c) \/ ApiFail(c)
      PROVE  PushInv'
  BY <1>1, ApiChangeStep, MappingChangedStep, ApiFailStep, ApiLookStep, ApiAddStep,
     ApiRecordStep, MappingReadStep, MappingAcknowledgeStep DEF ApiStep
<1>2. ASSUME NEW n \in Drains,
             \/ DrainStep(n) \/ DrainFail(n)
             \/ \E recorded \in BOOLEAN : IngestRound(n, recorded)
      PROVE  PushInv'
  BY <1>2, DrainQuietStep, DrainAddStep, DrainAcknowledgeStep, IngestRoundStep DEF DrainStep
<1>3. CASE UNCHANGED pushVars
  BY <1>3, NextTypes
     DEF PushInv, pushVars, queueVars, rowVars, promiseVars, StandingIsServed, Standing, Carried,
         CarriedBy, RowServes, CallIsWhole, MappingIsSafe, MappingServed, DrainIsSafe,
         DrainServed, NotOlder
<1> QED BY <1>1, <1>2, <1>3, TickStep, WorkerStep DEF PushQueueNext

\* Everything PushInv says holds in every reachable state of the queue.
THEOREM PushInvariance == PushQueueSpec => []PushInv
BY InitPushInv, NextPushInv, PTL DEF PushQueueSpec

\* The variables of the queue keep their kinds.
THEOREM PushQueueTyped == PushQueueSpec => []PushQueueTypeOK
<1>1. PushInv => PushQueueTypeOK
  BY DEF PushInv
<1> QED BY PushInvariance, <1>1, PTL

\* No change is forgotten, however enqueues are dropped, drains overlap and acknowledge
\* rows, runs are cut short and callers die: a destination that has had no run begin since a
\* change has a job that waits, a row, or a caller at work on it.
THEOREM NothingForgotten == PushQueueSpec => []NoChangeForgotten
<1>1. PushInv => NoChangeForgotten
  <2> SUFFICES ASSUME PushInv, NEW d \in Destinations, Standing(d)
               PROVE  Covered(d)
    BY DEF NoChangeForgotten, Standing
  <2>1. CASE RowServes(d)
    BY <2>1 DEF RowServes, Covered
  <2>2. CASE Carried(d)
    <3>1. (\E c \in ApiCalls : CarriedBy(c, d)) => Covered(d)
      BY DEF CarriedBy, Covered
    <3> QED BY <2>2, <3>1 DEF Carried, Covered
  <2> QED BY <2>1, <2>2 DEF PushInv, StandingIsServed
<1> QED BY PushInvariance, <1>1, PTL

-----------------------------------------------------------------------------
(* The refinement: every step of the queue is a step of SyncPromise.         *)

LEMMA RefinesInit == PushQueueInit => Promise!PromiseInit
BY DEF PushQueueInit, Promise!PromiseInit

\* A step that only loses promises, or does nothing to them.
LEMMA LosingStep ==
  ASSUME PushQueueTypeOK, NEW D, missed' = missed \/ LoseOn(D), UNCHANGED <<owed, paused>>
  PROVE  [Promise!PromiseNext]_(Promise!promiseVars)
BY TypeParts DEF RowTyped, LoseOn, Promise!promiseVars, Promise!PromiseNext, Promise!PromiseLose

\* A change for which a push is asked, and one for which none is.
LEMMA ChangingStep ==
  ASSUME PushQueueTypeOK, AskAll \/ AskNone, UNCHANGED paused
  PROVE  [Promise!PromiseNext]_(Promise!promiseVars)
BY TypeParts DEF RowTyped, AskAll, AskNone, Promise!PromiseNext, Promise!PromiseAsk,
   Promise!PromiseUnasked

LEMMA RefinesWorker ==
  ASSUME PushQueueTypeOK, NEW d \in Destinations,
         \/ PauseDestination(d) \/ ResumeDestination(d)
         \/ RunStep(d) \/ CutShort(d) \/ Stall(d)
         \/ RecordContinuationFails(d) \/ FailCutShort(d)
         \/ ContinuationStep(d) \/ EnqueueContinuationFails(d)
  PROVE  [Promise!PromiseNext]_(Promise!promiseVars)
<1> USE TypeParts DEF RowTyped, LoseOn, promiseVars, rowVars
<1>1. CASE PauseDestination(d) \/ ResumeDestination(d)
  <2>1. CASE PauseDestination(d)
    BY <2>1 DEF PauseDestination, Promise!PromiseNext, Promise!PromisePause
  <2>2. CASE ResumeDestination(d)
    <3>1. missed' = [missed EXCEPT ![d] = TRUE]
      BY <2>2 DEF ResumeDestination
    <3> QED BY <2>2, <3>1 DEF ResumeDestination, Promise!PromiseNext, Promise!PromiseResume
  <2> QED BY <1>1, <2>1, <2>2
<1>2. CASE Activate(d)
  BY <1>2 DEF Activate, Promise!PromiseNext, Promise!PromiseServe, Promise!PromiseIdleRun
<1>3. CASE CutShort(d)
  BY <1>3 DEF CutShort, Promise!PromiseNext, Promise!PromiseReopen
<1>4. CASE Stall(d)
  <2>1. paused' = paused /\ owed' = [owed EXCEPT ![d] = TRUE]
    BY <1>4 DEF Stall
  <2>2. missed' = missed \/ missed' = [missed EXCEPT ![d] = TRUE]
    BY <1>4 DEF Stall
  <2> QED BY <2>1, <2>2 DEF Promise!PromiseNext, Promise!PromiseReopen
<1>5. CASE \/ EndRun(d) \/ RecordContinuation(d) \/ CompleteCutShort(d)
           \/ RecordContinuationFails(d) \/ EnqueueContinuation(d)
  BY <1>5, LosingStep
     DEF EndRun, RecordContinuation, CompleteCutShort, RecordContinuationFails,
         EnqueueContinuation
<1>6. CASE FailCutShort(d) \/ EnqueueContinuationFails(d)
  BY <1>6, LosingStep DEF FailCutShort, EnqueueContinuationFails
<1> QED BY <1>1, <1>2, <1>3, <1>4, <1>5, <1>6 DEF RunStep, ContinuationStep

LEMMA RefinesNext ==
  PushQueueTypeOK /\ [PushQueueNext]_pushVars => [Promise!PromiseNext]_(Promise!promiseVars)
<1> SUFFICES ASSUME PushQueueTypeOK, [PushQueueNext]_pushVars
             PROVE  [Promise!PromiseNext]_(Promise!promiseVars)
  OBVIOUS
<1>1. ASSUME NEW c \in ApiCalls, ApiChange(c) \/ MappingChanged(c)
      PROVE  [Promise!PromiseNext]_(Promise!promiseVars)
  BY <1>1, ChangingStep DEF ApiChange, MappingChanged
<1>2. ASSUME NEW c \in ApiCalls, ApiStep(c) \/ ApiFail(c)
      PROVE  [Promise!PromiseNext]_(Promise!promiseVars)
  BY <1>2, LosingStep
     DEF ApiStep, ApiLook, ApiAdd, ApiRecord, MappingRead, MappingList, MappingAcknowledge,
         ApiFail, promiseVars
<1>3. ASSUME NEW n \in Drains, DrainStep(n) \/ DrainFail(n)
      PROVE  [Promise!PromiseNext]_(Promise!promiseVars)
  BY <1>3, LosingStep
     DEF DrainStep, DrainStart, DrainList, DrainLook, DrainAdd, DrainAcknowledge, DrainFail,
         promiseVars
<1>4. ASSUME NEW n \in Drains, NEW recorded \in BOOLEAN, IngestRound(n, recorded)
      PROVE  [Promise!PromiseNext]_(Promise!promiseVars)
  BY <1>4, ChangingStep DEF IngestRound
<1>5. CASE EgressTick \/ UNCHANGED pushVars
  BY <1>5, LosingStep DEF EgressTick, pushVars, promiseVars
<1> QED BY <1>1, <1>2, <1>3, <1>4, <1>5, RefinesWorker DEF PushQueueNext

\* The queue implements the safety part of the promise: whatever it does to what is owed,
\* missed and paused is a step of SyncPromise, or none.
THEOREM QueueImplementsPromise == PushQueueSpec => Promise!PromiseSafety
<1>1. PushQueueInit => Promise!PromiseInit
  BY RefinesInit
<1>2. PushQueueTypeOK /\ [PushQueueNext]_pushVars => [Promise!PromiseNext]_(Promise!promiseVars)
  BY RefinesNext
<1> QED BY <1>1, <1>2, PushQueueTyped, PTL DEF PushQueueSpec, Promise!PromiseSafety
=============================================================================
