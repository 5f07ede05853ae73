----------------------------- MODULE PushQueue -----------------------------
(* The push queue of one user: how a change brings a run of every            *)
(* destination that begins after it.  What such a run then does - push, skip *)
(* or fail - is its reported outcome and not the queue's matter.  Jobs carry *)
(* a stable id per destination, so the queue drops an enqueue while a job of *)
(* that id exists, running or not; a row of user_sync_requests remembers     *)
(* that something was asked meanwhile, and the drain turns it into jobs once *)
(* the older ones are gone.                                                  *)
(*   API        services/api/src/utils/enqueue-push-sync.ts                  *)
(*   drain      services/cron/src/utils/enqueue-destination-syncs-core.ts    *)
(*   tick       services/cron/src/jobs/push-destinations.ts                  *)
(*   worker     services/worker/src/{processor,index}.ts, sync-continuation  *)
(* Requests of different users meet nowhere but in the same sweep, so one    *)
(* user is enough.  A job's timestamp and a request's requestedAt are only   *)
(* ever compared with each other, so a request is known by its number and a  *)
(* job's stamp is the number of requests recorded before it was created.     *)
EXTENDS Naturals, FiniteSets

CONSTANTS Destinations,   \* the user's push calendars
          ApiCalls,        \* API calls in flight
          Drains,         \* drains in flight: a timed-out one may still run
          MaxStalled,     \* MAX_STALLED_COUNT of the worker
          MaxEvents       \* bound: changes, ticks, pauses and faults together

ASSUME PushQueueAssumption == /\ MaxStalled \in Nat
                              /\ MaxEvents \in Nat
                              /\ IsFiniteSet(Destinations)

VARIABLES job,            \* job[d]: where the job of d's id stands
          stamp,          \* stamp[d]: the timestamp of that job
          stalls,         \* stalls[d]: how often that job has stalled
          continuing,     \* continuing[d]: a continuation about to be added
          request,        \* the user's row of user_sync_requests: 0, or its number
          requests,       \* requests recorded so far
          api,            \* api[c]: an enqueuePushSync call
          drain,          \* drain[n]: a runEnqueueDestinationSyncsForUsers call
          events,         \* bound: what is left of MaxEvents
          owed, missed, paused   \* SyncPromise's owed, lost and paused

queueVars == <<job, stamp, stalls>>
rowVars == <<request, requests>>
promiseVars == <<owed, missed, paused>>
pushVars == <<queueVars, rowVars, promiseVars, continuing, api, drain, events>>

NoRow == 0
IdleCall == [pc |-> "idle", all |-> {}, left |-> {}, found |-> FALSE,
             mapping |-> FALSE, seen |-> NoRow]
IdleDrain == [pc |-> "idle", seen |-> NoRow, left |-> {}, all |-> {},
              retain |-> FALSE]

(* Where a job stands: "active" once its run has begun, "cut" once the        *)
(* deadline ended it short of its operations, "recorded"/"unrecorded" once it *)
(* has asked for a continuation and the row was, or was not, written.         *)
JobStates == {"none", "waiting", "active", "cut", "recorded", "unrecorded"}
Running(d) == job[d] \notin {"none", "waiting"}

PushQueueTypeOK ==
  /\ job \in [Destinations -> JobStates]
  /\ stamp \in [Destinations -> 0..requests]
  /\ stalls \in [Destinations -> 0..MaxStalled]
  /\ continuing \in [Destinations -> {"no", "recorded", "unrecorded"}]
  /\ requests \in Nat /\ request \in 0..requests /\ events \in 0..MaxEvents
  /\ api \in [ApiCalls -> [pc : {"idle", "read", "list", "look", "record", "add", "ack"},
                          all : SUBSET Destinations, left : SUBSET Destinations,
                          found : BOOLEAN, mapping : BOOLEAN, seen : 0..requests]]
  /\ drain \in [Drains -> [pc : {"idle", "list", "look", "ack"},
                           seen : 0..requests,
                           all : SUBSET Destinations, left : SUBSET Destinations,
                           retain : BOOLEAN]]
  /\ owed \in [Destinations -> BOOLEAN]
  /\ missed \in [Destinations -> BOOLEAN]
  /\ paused \subseteq Destinations

PushQueueInit ==
  /\ job = [d \in Destinations |-> "none"]
  /\ stamp = [d \in Destinations |-> 0]
  /\ stalls = [d \in Destinations |-> 0]
  /\ continuing = [d \in Destinations |-> "no"]
  /\ request = NoRow
  /\ requests = 0 /\ events = MaxEvents
  /\ api = [c \in ApiCalls |-> IdleCall]
  /\ drain = [n \in Drains |-> IdleDrain]
  /\ owed = [d \in Destinations |-> FALSE]
  /\ missed = [d \in Destinations |-> FALSE]
  /\ paused = {}

Enabled == Destinations \ paused

(* The commands of one call are sent in the order of its list.                *)
IsFirst(d, D) == d \in D /\ \A e \in D : d <= e

Spend == /\ events > 0
         /\ events' = events - 1

(* BullMQ's add: nothing happens to a job id that is already in the queue.    *)
Add(D) ==
  LET new == {d \in D : job[d] = "none"} IN
  /\ job' = [d \in Destinations |-> IF d \in new THEN "waiting" ELSE job[d]]
  /\ stamp' = [d \in Destinations |-> IF d \in new THEN requests ELSE stamp[d]]
  /\ UNCHANGED stalls

(* recordUserSyncRequest: one row per user, its id and time replaced.         *)
RecordRequest ==
  /\ requests' = requests + 1
  /\ request' = requests + 1

LoseOn(D) == missed' = [d \in Destinations |-> missed[d] \/ d \in D]

(* A change was committed and its push is about to be asked for: every        *)
(* destination owes a run, and what went wrong with earlier asking is past.   *)
AskAll == /\ owed' = [d \in Destinations |-> TRUE]
          /\ missed' = [d \in Destinations |-> FALSE]

(* A change that nobody asks a push for adds no promise; one that stands does.*)
AskNone == /\ owed' = [d \in Destinations |-> TRUE]
           /\ missed' = [d \in Destinations |-> missed[d] \/ ~owed[d]]

----------------------------------------------------------------------------
(* The API: a change is committed, then enqueuePushSync is called.           *)

ApiChange(c) ==
  /\ api[c].pc = "idle"
  /\ Spend
  /\ AskAll
  /\ api' = IF Enabled = {} THEN api
            ELSE [api EXCEPT ![c] = [@ EXCEPT !.pc = "look", !.all = Enabled,
                                              !.left = Enabled]]
  /\ UNCHANGED <<queueVars, rowVars, continuing, drain, paused>>

(* A change of the mappings records its request in its own transaction and    *)
(* leaves the rest to enqueueMappingReplacementSync, a background job that    *)
(* reads the row, enqueues as the others do and acknowledges what it read.    *)
(* It is the last of the counted events; its own failure is not counted.      *)
MappingChanged(c) ==
  /\ api[c].pc = "idle"
  /\ events > 0 /\ events' = 0
  /\ AskAll
  /\ RecordRequest
  /\ api' = [api EXCEPT ![c] = [@ EXCEPT !.pc = "read", !.mapping = TRUE]]
  /\ UNCHANGED <<queueVars, continuing, drain, paused>>

MappingRead(c) ==
  /\ api[c].pc = "read"
  /\ api' = [api EXCEPT ![c] = IF request = NoRow THEN IdleCall
                               ELSE [@ EXCEPT !.pc = "list", !.seen = request]]
  /\ UNCHANGED <<queueVars, rowVars, promiseVars, continuing, drain, events>>

MappingList(c) ==
  /\ api[c].pc = "list"
  /\ api' = [api EXCEPT ![c] = IF Enabled = {} THEN [@ EXCEPT !.pc = "ack"]
                               ELSE [@ EXCEPT !.pc = "look", !.all = Enabled,
                                              !.left = Enabled]]
  /\ UNCHANGED <<queueVars, rowVars, promiseVars, continuing, drain, events>>

(* Only the request that was read goes: the row that the call itself recorded *)
(* against a running job stays for the drain.                                 *)
MappingAcknowledge(c) ==
  /\ api[c].pc = "ack"
  /\ request' = IF request = api[c].seen THEN NoRow ELSE request
  /\ api' = [api EXCEPT ![c] = IdleCall]
  /\ UNCHANGED <<queueVars, requests, promiseVars, continuing, drain, events>>

(* The getJob calls answer one by one; any job found asks for the row.        *)
ApiLook(c, d) ==
  /\ api[c].pc = "look"
  /\ IsFirst(d, api[c].left)
  /\ LET found == api[c].found \/ job[d] # "none"
         left == api[c].left \ {d}
     IN api' = [api EXCEPT ![c].found = found,
                           ![c].left = IF left = {} THEN api[c].all ELSE left,
                           ![c].pc = IF left # {} THEN "look"
                                     ELSE IF found THEN "record" ELSE "add"]
  /\ UNCHANGED <<queueVars, rowVars, promiseVars, continuing, drain, events>>

ApiRecord(c) ==
  /\ api[c].pc = "record"
  /\ RecordRequest
  /\ api' = [api EXCEPT ![c].pc = "add"]
  /\ UNCHANGED <<queueVars, promiseVars, continuing, drain, events>>

ApiAdd(c, d) ==
  /\ api[c].pc = "add"
  /\ IsFirst(d, api[c].left)
  /\ Add({d})
  /\ api' = [api EXCEPT ![c] = IF api[c].left # {d}
                               THEN [@ EXCEPT !.left = api[c].left \ {d}]
                               ELSE IF api[c].mapping THEN [@ EXCEPT !.pc = "ack"]
                               ELSE IdleCall]
  /\ UNCHANGED <<rowVars, promiseVars, continuing, drain, events>>

(* The process dies or a command rejects.  Once the row is written nothing is *)
(* lost; before that, what the call had not yet added is.  A change of the    *)
(* mappings has its row from the start.                                       *)
ApiFail(c) ==
  /\ api[c].pc # "idle"
  /\ IF api[c].mapping THEN UNCHANGED events ELSE Spend
  /\ LoseOn(IF api[c].mapping THEN {}
            ELSE IF api[c].pc = "add"
            THEN (IF api[c].found THEN {} ELSE api[c].left)
            ELSE api[c].all)
  /\ api' = [api EXCEPT ![c] = IdleCall]
  /\ UNCHANGED <<queueVars, rowVars, continuing, drain, owed, paused>>

(* setCalendarPaused; a resumed destination is not enqueued by it.            *)
PauseDestination(d) ==
  /\ d \notin paused
  /\ Spend
  /\ paused' = paused \cup {d}
  /\ UNCHANGED <<queueVars, rowVars, continuing, api, drain, owed, missed>>

ResumeDestination(d) ==
  /\ d \in paused
  /\ paused' = paused \ {d}
  /\ LoseOn({d})
  /\ UNCHANGED <<queueVars, rowVars, continuing, api, drain, events, owed>>

----------------------------------------------------------------------------
(* The cron side: the egress tick and the drain.                             *)

EgressTick ==
  /\ Spend
  /\ Enabled # {}
  /\ Add(Enabled)
  /\ UNCHANGED <<rowVars, promiseVars, continuing, api, drain>>

(* An ingest round changed this user's sources: a first ingest records the    *)
(* request (unless that fails), any other relies on the drain it starts and   *)
(* on the next tick: it asks for nothing.                                     *)
IngestRound(n, recorded) ==
  /\ drain[n].pc = "idle"
  /\ Spend
  /\ IF recorded THEN AskAll /\ RecordRequest
                 ELSE AskNone /\ UNCHANGED rowVars
  /\ drain' = [drain EXCEPT ![n] = [IdleDrain EXCEPT !.pc = "list", !.seen = request']]
  /\ UNCHANGED <<queueVars, continuing, api, paused>>

(* enqueue-requested-syncs: nothing to do without a pending request.          *)
DrainStart(n) ==
  /\ drain[n].pc = "idle"
  /\ request # NoRow
  /\ drain' = [drain EXCEPT ![n] = [IdleDrain EXCEPT !.pc = "list", !.seen = request]]
  /\ UNCHANGED <<queueVars, rowVars, promiseVars, continuing, api, events>>

(* Destinations and plan are read; without a destination, or without a job to *)
(* enqueue (nothing pending and a free plan), the seen request is done with.  *)
DrainList(n, plan) ==
  /\ drain[n].pc = "list"
  /\ drain' = [drain EXCEPT ![n] =
       IF Enabled = {} \/ (@.seen = NoRow /\ plan = "free")
       THEN [@ EXCEPT !.pc = "ack"]
       ELSE [@ EXCEPT !.pc = "look", !.all = Enabled, !.left = Enabled]]
  /\ UNCHANGED <<queueVars, rowVars, promiseVars, continuing, api, events>>

MayHaveReadPast(n, d) == job[d] # "none" /\ stamp[d] < drain[n].seen

(* getJob: a job older than the request may have read past the change, so the *)
(* request is retained.                                                       *)
DrainLook(n, d) ==
  /\ drain[n].pc = "look"
  /\ IsFirst(d, drain[n].left)
  /\ drain' = [drain EXCEPT
       ![n].left = @ \ {d},
       ![n].retain = @ \/ MayHaveReadPast(n, d)]
  /\ UNCHANGED <<queueVars, rowVars, promiseVars, continuing, api, events>>

DrainAdd(n) ==
  /\ drain[n].pc = "look"
  /\ drain[n].left = {}
  /\ Add(drain[n].all)
  /\ drain' = [drain EXCEPT ![n].pc = "ack"]
  /\ UNCHANGED <<rowVars, promiseVars, continuing, api, events>>

\* Mutant: the row goes whatever request it holds by then.
AcknowledgeAny(n) ==
  /\ drain[n].pc = "ack"
  /\ request' = IF ~drain[n].retain THEN NoRow ELSE request
  /\ drain' = [drain EXCEPT ![n] = IdleDrain]
  /\ UNCHANGED <<queueVars, requests, promiseVars, continuing, api, events>>

\* Mutant: the row is kept whenever it was seen.
AcknowledgeNever(n) ==
  /\ drain[n].pc = "ack"
  /\ drain' = [drain EXCEPT ![n] = IdleDrain]
  /\ UNCHANGED <<queueVars, rowVars, promiseVars, continuing, api, events>>

(* The row goes only if it is still the request that was seen.                *)
DrainAcknowledge(n) ==
  /\ drain[n].pc = "ack"
  /\ request' = IF ~drain[n].retain /\ request = drain[n].seen
                THEN NoRow ELSE request
  /\ drain' = [drain EXCEPT ![n] = IdleDrain]
  /\ UNCHANGED <<queueVars, requests, promiseVars, continuing, api, events>>

(* The plan does not resolve, a command times out, or the process dies.       *)
DrainFail(n) ==
  /\ drain[n].pc # "idle"
  /\ Spend
  /\ drain' = [drain EXCEPT ![n] = IdleDrain]
  /\ UNCHANGED <<queueVars, rowVars, promiseVars, continuing, api>>

----------------------------------------------------------------------------
(* The worker.                                                               *)

(* A run of d begins.  Whatever was committed before is there for it to read. *)
Activate(d) ==
  /\ job[d] = "waiting"
  /\ job' = [job EXCEPT ![d] = "active"]
  /\ owed' = [owed EXCEPT ![d] = FALSE]
  /\ missed' = [missed EXCEPT ![d] = FALSE]
  /\ UNCHANGED <<stamp, stalls, rowVars, paused, continuing, api, drain, events>>

RemoveJob(d) == /\ job' = [job EXCEPT ![d] = "none"]
                /\ stamp' = [stamp EXCEPT ![d] = 0]
                /\ stalls' = [stalls EXCEPT ![d] = 0]

(* The run ends and its job is gone: attempts is 1, so a failed job is not    *)
(* tried again, and for the queue all of these endings are one.  It has       *)
(* pushed; it skipped the destination (not pushable, its lock not acquired,   *)
(* in backoff, without a provider); it was superseded before it read, or      *)
(* stopped for a mapping change that waits for its lock; a provider's error   *)
(* was caught and recorded; it threw; or it met its deadline with nothing     *)
(* checkpointed.  A change that it did not push waits, with no row, job or    *)
(* caller of its own, for the next tick or the next request.                  *)
EndRun(d) ==
  /\ job[d] = "active"
  /\ RemoveJob(d)
  /\ UNCHANGED <<rowVars, promiseVars, continuing, api, drain, events>>

(* The deadline with some operations done: requestContinuationIfCutShort.     *)
(* Such a run does not count as one.                                          *)
CutShort(d) ==
  /\ job[d] = "active"
  /\ Spend
  /\ job' = [job EXCEPT ![d] = "cut"]
  /\ owed' = [owed EXCEPT ![d] = TRUE]
  /\ UNCHANGED <<stamp, stalls, rowVars, missed, paused, continuing, api, drain>>

RecordContinuation(d) ==
  /\ job[d] = "cut"
  /\ RecordRequest
  /\ job' = [job EXCEPT ![d] = "recorded"]
  /\ UNCHANGED <<stamp, stalls, promiseVars, continuing, api, drain, events>>

(* A failed write is logged and the job goes on to return.  A run that was cut *)
(* short has spent its event, and what fails after it is not counted.          *)
RecordContinuationFails(d) ==
  /\ job[d] = "cut"
  /\ job' = [job EXCEPT ![d] = "unrecorded"]
  /\ UNCHANGED <<stamp, stalls, rowVars, promiseVars, continuing, api, drain, events>>

(* The job completes and is removed; its listener will add the continuation.  *)
CompleteCutShort(d) ==
  /\ job[d] \in {"recorded", "unrecorded"}
  /\ RemoveJob(d)
  /\ continuing' = [continuing EXCEPT ![d] = job[d]]
  /\ UNCHANGED <<rowVars, promiseVars, api, drain, events>>

(* The run threw instead of returning: failed, so nothing but the row.        *)
FailCutShort(d) ==
  /\ job[d] \in {"recorded", "unrecorded"}
  /\ RemoveJob(d)
  /\ LoseOn(IF job[d] = "recorded" THEN {} ELSE {d})
  /\ UNCHANGED <<rowVars, owed, paused, continuing, api, drain, events>>

EnqueueContinuation(d) ==
  /\ continuing[d] # "no"
  /\ Add({d})
  /\ continuing' = [continuing EXCEPT ![d] = "no"]
  /\ UNCHANGED <<rowVars, promiseVars, api, drain, events>>

EnqueueContinuationFails(d) ==
  /\ continuing[d] # "no"
  /\ LoseOn(IF continuing[d] = "recorded" THEN {} ELSE {d})
  /\ continuing' = [continuing EXCEPT ![d] = "no"]
  /\ UNCHANGED <<queueVars, rowVars, owed, paused, api, drain, events>>

(* The worker dies or its lock lapses: the job waits again under its old      *)
(* timestamp, and fails once it has stalled too often.  The run that had      *)
(* begun does not count.                                                      *)
Stall(d) ==
  /\ Running(d)
  /\ Spend
  /\ owed' = [owed EXCEPT ![d] = TRUE]
  /\ IF stalls[d] < MaxStalled
     THEN /\ job' = [job EXCEPT ![d] = "waiting"]
          /\ stalls' = [stalls EXCEPT ![d] = @ + 1]
          /\ UNCHANGED <<stamp, missed>>
     ELSE RemoveJob(d) /\ LoseOn({d})
  /\ UNCHANGED <<rowVars, paused, continuing, api, drain>>

----------------------------------------------------------------------------
ApiStep(c) == \/ \E d \in Destinations : ApiLook(c, d) \/ ApiAdd(c, d)
              \/ ApiRecord(c)
              \/ MappingRead(c) \/ MappingList(c) \/ MappingAcknowledge(c)
DrainStep(n) == \/ DrainStart(n)
                \/ \E plan \in {"free", "pro"} : DrainList(n, plan)
                \/ \E d \in Destinations : DrainLook(n, d)
                \/ DrainAdd(n)
                \/ DrainAcknowledge(n)
RunStep(d) == \/ Activate(d) \/ EndRun(d)
              \/ RecordContinuation(d) \/ CompleteCutShort(d)
ContinuationStep(d) == EnqueueContinuation(d)

PushQueueNext ==
  \/ \E c \in ApiCalls : ApiChange(c) \/ MappingChanged(c) \/ ApiStep(c) \/ ApiFail(c)
  \/ \E n \in Drains :
       \/ DrainStep(n)
       \/ DrainFail(n)
       \/ \E recorded \in BOOLEAN : IngestRound(n, recorded)
  \/ EgressTick
  \/ \E d \in Destinations :
       \/ PauseDestination(d) \/ ResumeDestination(d)
       \/ RunStep(d) \/ CutShort(d) \/ Stall(d)
       \/ RecordContinuationFails(d) \/ FailCutShort(d)
       \/ ContinuationStep(d) \/ EnqueueContinuationFails(d)

(* Calls run to their end, the drain runs every minute and a worker takes     *)
(* every waiting job and ends it within its deadline.  Nothing is assumed of  *)
(* the egress tick, which a free user sees every half hour.                   *)
PushQueueFairness ==
  /\ \A c \in ApiCalls : WF_pushVars(ApiStep(c))
  /\ \A n \in Drains : WF_pushVars(DrainStep(n))
  /\ \A d \in Destinations : WF_pushVars(RunStep(d)) /\ WF_pushVars(ContinuationStep(d))

PushQueueSpec == PushQueueInit /\ [][PushQueueNext]_pushVars
PushQueueFairSpec == PushQueueSpec /\ PushQueueFairness

----------------------------------------------------------------------------
(* Something that will bring a run of d which has yet to begin.              *)
Covered(d) ==
  \/ job[d] \in {"waiting", "cut", "unrecorded"}
  \/ continuing[d] = "unrecorded"
  \/ request # NoRow
  \/ \E c \in ApiCalls : /\ d \in api[c].all
                        /\ api[c].pc = "add" => d \in api[c].left

(* No change is forgotten: a destination for which a push was asked after a   *)
(* change, which has had no run begin since, whose asking no fault has undone *)
(* and which is not paused, has a job that waits, a request row, or a caller  *)
(* still working on it.  A run that had already begun when the change came    *)
(* does not count: it may have read past it.  The queue drops enqueues,       *)
(* drains overlap and acknowledge rows, runs end short and are taken back -   *)
(* and every one of those must leave one of the others behind.                *)
NoChangeForgotten ==
  \A d \in Destinations : owed[d] => Covered(d) \/ missed[d] \/ d \in paused

(* The queue implements the promise: what it does to the owed, the missed and *)
(* the paused is what SyncPromise allows, and a promise that stands is kept   *)
(* without any help of the egress tick.                                       *)
Promise == INSTANCE SyncPromise WITH lost <- missed
PromiseKept == Promise!PromiseSpec

(* A request row is acknowledged in the end: retaining it against older jobs  *)
(* must not go on for ever.                                                   *)
RequestsDrained == []<>(request = NoRow)
=============================================================================
