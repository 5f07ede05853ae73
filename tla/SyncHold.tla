------------------------------ MODULE SyncHold ------------------------------
(* What a user is told of a sync: the jobs a worker has under way for one     *)
(* user, the hold they keep on the aggregate, and the aggregate it publishes. *)
(*   services/worker/src/active-destination-jobs.ts, index.ts (the events)    *)
(*   services/worker/src/processor.ts (onProgress, onSyncEvent)               *)
(*   packages/calendar/src/core/sync/aggregate-{tracker,runtime}.ts           *)
(* One user and one worker.  Percentages are kept in twelfths.                *)
EXTENDS Naturals, FiniteSets

CONSTANTS Targets,         \* destination calendars of the user
          JobIds,          \* ids of a destination's jobs: one, or two when versions mix
          MaxTotal,        \* bound: operations a run may have
          MaxJobs          \* bound: jobs that become active

ASSUME SyncHoldAssumption ==
  /\ IsFiniteSet(Targets) /\ MaxTotal \in Nat /\ MaxJobs \in Nat

NoJob == {}
Whole == 12
VARIABLES onWorker,        \* jobs BullMQ has active on this worker
          activeJob,       \* activeJobsByCalendar: {} or {id}
          watchdog,        \* stalledTimersByCalendar, likewise
          activeCount,     \* activeDestinationCountsByUser
          releasing,       \* a release timer is set
          closed,          \* close() has run
          held,            \* syncingHeldByUser
          entry,           \* progressByUser
          highWater,       \* highWaterPercentByUser
          said,            \* the last aggregate published
          spoke,           \* one was published since the hold began
          jobsLeft         \* bound: what is left of MaxJobs

holdVars == <<onWorker, activeJob, watchdog, activeCount, releasing, closed, held, entry,
              highWater, said, spoke, jobsLeft>>
aggregateVars == <<held, entry, highWater, said, spoke>>

NoEntry == [status |-> "none", processed |-> 0, total |-> 0]

SyncHoldTypeOK ==
  /\ onWorker \subseteq Targets \X JobIds
  /\ activeJob \in [Targets -> SUBSET JobIds]
  /\ watchdog \in [Targets -> SUBSET JobIds]
  /\ activeCount \in 0..Cardinality(Targets)
  /\ releasing \in BOOLEAN /\ closed \in BOOLEAN /\ held \in BOOLEAN /\ spoke \in BOOLEAN
  /\ entry \in [Targets -> [status : {"none", "idle", "syncing"},
                                 processed : 0..MaxTotal, total : 0..MaxTotal]]
  /\ highWater \in 0..Whole
  /\ said \in [syncing : BOOLEAN, percent : 0..Whole]
  /\ jobsLeft \in 0..MaxJobs

SyncHoldInit ==
  /\ onWorker = {}
  /\ activeJob = [d \in Targets |-> NoJob]
  /\ watchdog = [d \in Targets |-> NoJob]
  /\ activeCount = 0 /\ releasing = FALSE /\ closed = FALSE
  /\ held = FALSE
  /\ entry = [d \in Targets |-> NoEntry]
  /\ highWater = 0
  /\ said = [syncing |-> FALSE, percent |-> Whole]
  /\ spoke = FALSE
  /\ jobsLeft = MaxJobs

----------------------------------------------------------------------------

(* The sum of amounts, one for each destination, counted by the unit.         *)
Sum(amount) == Cardinality(UNION {{d} \X (1..amount[d]) : d \in Targets})

\* Mutant: what was told before is forgotten.
SnapshotUnmarked(es, h, hw) ==
  LET syncing == h \/ \E d \in Targets : es[d].status = "syncing"
      total == Sum([d \in Targets |-> es[d].total])
      done == Sum([d \in Targets |-> es[d].processed])
      raw == IF total = 0 THEN IF syncing THEN 0 ELSE Whole ELSE (Whole * done) \div total
  IN  [syncing |-> syncing, percent |-> raw]

(* computeSnapshot, of the entries es under the hold h and the mark hw.       *)
Snapshot(es, h, hw) ==
  LET syncing == h \/ \E d \in Targets : es[d].status = "syncing"
      total == Sum([d \in Targets |-> es[d].total])
      done == Sum([d \in Targets |-> es[d].processed])
      raw == IF total = 0 THEN IF syncing THEN 0 ELSE Whole ELSE (Whole * done) \div total
  IN  [syncing |-> syncing,
       percent |-> IF syncing /\ raw < hw THEN hw ELSE raw]

(* maybeEmit.  A payload like its last one is not published again, which      *)
(* shows only where a release came between: then the user is not held.        *)
Publish(snapshot) ==
  /\ said' = snapshot
  /\ highWater' = IF snapshot.syncing THEN snapshot.percent ELSE 0
  /\ spoke' = TRUE

(* beginSyncRun: the user starts from nothing.                                *)
BeginRun == /\ entry' = [d \in Targets |-> NoEntry]
            /\ held' = TRUE
            /\ highWater' = 0
            /\ spoke' = FALSE
            /\ UNCHANGED said

(* releaseSyncing: published whatever was published last, the mark kept.      *)
ReleaseRun == /\ held' = FALSE
              /\ said' = Snapshot(entry, FALSE, highWater)
              /\ UNCHANGED <<entry, highWater, spoke>>

----------------------------------------------------------------------------
(* A job becomes active: onActive.                                           *)
JobActive(d, id) ==
  /\ jobsLeft > 0 /\ jobsLeft' = jobsLeft - 1
  /\ ~closed
  /\ <<d, id>> \notin onWorker
  /\ onWorker' = onWorker \cup {<<d, id>>}
  /\ releasing' = FALSE
  /\ IF activeJob[d] # NoJob
     THEN /\ activeJob' = [activeJob EXCEPT ![d] = {id}]
          /\ watchdog' = IF id \in activeJob[d] THEN watchdog
                         ELSE [watchdog EXCEPT ![d] = {id}]
          /\ UNCHANGED <<activeCount, aggregateVars>>
     ELSE /\ IF activeCount = 0 /\ ~releasing THEN BeginRun ELSE UNCHANGED aggregateVars
          /\ activeCount' = activeCount + 1
          /\ activeJob' = [activeJob EXCEPT ![d] = {id}]
          /\ watchdog' = [watchdog EXCEPT ![d] = {id}]
  /\ UNCHANGED closed

(* onSettled: by the event, or by the watchdog.                               *)
OnSettled(d, id) ==
  IF id \in activeJob[d]
  THEN /\ activeJob' = [activeJob EXCEPT ![d] = NoJob]
       /\ watchdog' = [watchdog EXCEPT ![d] = NoJob]
       /\ activeCount' = IF activeCount > 0 THEN activeCount - 1 ELSE 0
       /\ releasing' = (releasing \/ activeCount' = 0)
  ELSE UNCHANGED <<activeJob, watchdog, activeCount, releasing>>

(* completed or failed; the event is lost when BullMQ's round trip rejects.   *)
JobSettles(d, id, told) ==
  /\ <<d, id>> \in onWorker
  /\ onWorker' = onWorker \ {<<d, id>>}
  /\ IF told THEN OnSettled(d, id)
     ELSE UNCHANGED <<activeJob, watchdog, activeCount, releasing>>
  /\ UNCHANGED <<closed, aggregateVars, jobsLeft>>

WatchdogFires(d, id) ==
  /\ id \in watchdog[d]
  /\ IF id \in activeJob[d] THEN OnSettled(d, id)
     ELSE watchdog' = [watchdog EXCEPT ![d] = NoJob]
          /\ UNCHANGED <<activeJob, activeCount, releasing>>
  /\ UNCHANGED <<onWorker, closed, aggregateVars, jobsLeft>>

(* The debounced release.                                                     *)
ReleaseFires ==
  /\ releasing
  /\ releasing' = FALSE
  /\ IF activeCount = 0 THEN ReleaseRun ELSE UNCHANGED aggregateVars
  /\ UNCHANGED <<onWorker, activeJob, watchdog, activeCount, closed, jobsLeft>>

CloseWorker ==
  /\ ~closed
  /\ closed' = TRUE
  /\ watchdog' = [d \in Targets |-> NoJob]
  /\ releasing' = FALSE
  /\ IF releasing THEN ReleaseRun ELSE UNCHANGED aggregateVars
  /\ UNCHANGED <<onWorker, activeJob, activeCount, jobsLeft>>

----------------------------------------------------------------------------
(* trackProgress: the counts of a run that starts over begin at nothing; a    *)
(* progress update may be throttled.                                          *)
ReportProgress(d, total, processed, throttled) ==
  /\ \E id \in JobIds : <<d, id>> \in onWorker
  /\ entry' = [entry EXCEPT ![d] = [status |-> "syncing", processed |-> processed, total |-> total]]
  /\ IF throttled THEN UNCHANGED <<said, highWater, spoke>>
     ELSE Publish(Snapshot(entry', held, highWater))
  /\ UNCHANGED <<onWorker, activeJob, watchdog, activeCount, releasing, closed, held, jobsLeft>>

(* trackDestinationSync: the run of a calendar ends.                          *)
ReportOutcome(d, completed) ==
  /\ \E id \in JobIds : <<d, id>> \in onWorker
  /\ entry' = [entry EXCEPT ![d] = [status |-> "idle", total |-> @.total,
       processed |-> IF completed THEN @.total ELSE @.processed]]
  /\ Publish(Snapshot(entry', held, highWater))
  /\ UNCHANGED <<onWorker, activeJob, watchdog, activeCount, releasing, closed, held, jobsLeft>>

----------------------------------------------------------------------------
SyncHoldNext ==
  \/ \E d \in Targets, id \in JobIds :
       \/ JobActive(d, id) \/ WatchdogFires(d, id)
       \/ \E told \in BOOLEAN : JobSettles(d, id, told)
  \/ ReleaseFires \/ CloseWorker
  \/ \E d \in Targets : \/ \E completed \in BOOLEAN : ReportOutcome(d, completed)
                             \/ \E total \in 0..MaxTotal : \E processed \in 0..total, throttled \in BOOLEAN :
                                  ReportProgress(d, total, processed, throttled)

(* Timers fire; nothing says that a job ever settles.                        *)
SyncHoldFairness ==
  /\ \A d \in Targets, id \in JobIds : WF_holdVars(WatchdogFires(d, id))
  /\ WF_holdVars(ReleaseFires)

SyncHoldSpec == SyncHoldInit /\ [][SyncHoldNext]_holdVars
SyncHoldFairSpec == SyncHoldSpec /\ SyncHoldFairness

----------------------------------------------------------------------------
(* The user is held as syncing exactly while a destination is counted or the   *)
(* release is pending: whatever is settled twice, late, by the watchdog, or    *)
(* replaced by a job with another id, no count is lost or left over.         *)
HoldIsExact ==
  /\ activeCount = Cardinality({d \in Targets : activeJob[d] # NoJob})
  /\ held <=> (activeCount > 0 \/ releasing)

(* The percentage a user sees never falls while the user is held, although     *)
(* runs with other totals join, start over or fail.                            *)
PercentNeverFalls ==
  [][held /\ held' /\ spoke /\ spoke' /\ said' # said =>
       said'.syncing /\ said'.percent >= said.percent]_holdVars

(* The hold is released although jobs never settle or their events are lost,   *)
(* unless the worker is closed first.                                          *)
HoldIsReleased == <>[](~held \/ closed)

(* The hold is sound: counted exactly, and showing a percentage that never     *)
(* falls.                                                                      *)
HoldIsSound == []HoldIsExact /\ PercentNeverFalls
=============================================================================
