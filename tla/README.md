# Keeper.sh: TLA+ models of calendar synchronisation

Keeper.sh mirrors the events of *source* calendars (Google, Outlook, CalDAV, ICS
feeds) into *destination* calendars. Two loops do the work and share Postgres:
**ingestion** (the cron service) copies sources into `event_states`, and **push**
(the worker service) reconciles each destination with them and records what it
wrote in `event_mappings`. Redis holds the locks, limiters and leases by which
the processes keep out of each other's way.

This directory models the parts whose correctness depends on order: the lock
that serialises runs over a calendar, the table that schedules ingestion, the
ingestion of a source, the reconciliation of a destination, the queue between
the two, and the limiters, leases and caches they run under. TLC checks them on
small instances, and TLAPS proves the safety of every module for all values of its constants.

| module | models | run |
|---|---|---|
| `SyncLock` | `packages/sync/src/sync-lock.ts` | `lock_faults`, `egress_parts`; proofs in `EgressPartsProofs` |
| `IngestSchedule` | `source_ingest_schedule`: `ingest-schedule.ts`, its triggers, the ingest rounds | `schedule_*`; proofs in `IngestScheduleProofs` |
| `SourceIngest` | reading one calendar into `event_states`: `ingest-sources.ts`, `core/sync-engine/ingest.ts`, the fetchers | `ingest_parts`; `SourceIngestProofs` |
| `PushChannels` | the sweep of push channels and the rows and subscriptions it keeps | `ingest_parts`, `channels_narrow`; `PushChannelsProofs` |
| `FlushWorker` | `core/utils/serial-flush-worker.ts`, the writer of an ingest lane | `ingest_parts`; `FlushWorkerProofs` |
| `TokenRefresh` | `core/oauth/{refresh-coordinator,coordinated-refresher,ensure-valid-token}.ts` | `ingest_parts`; `IngestPartsProofs` |
| `OutlookPermits` | `core/utils/leased-semaphore.ts` and the account gate | `ingest_parts`; `IngestPartsProofs` |
| `RateWindow` | the scripts of `core/utils/redis-rate-limiter.ts` | `ingest_parts`; `IngestPartsProofs` |
| `Reconcile` | `computeSyncOperations` (`core/sync/operations.ts`), a pure function | through `DestinationSync` |
| `DestinationSync` | a run over a destination: reads of `sync-user.ts`, execution by `core/sync-engine`, the providers and the mapping table | `sync_*`; `DestinationSyncProofs` |
| `DestinationAttempt` | the same run seen from outside: lock, verdict, backoff, first syncs | `egress_parts`, `first_sync`; `EgressPartsProofs` |
| `PushQueue`, `SyncPromise` | how a change reaches a run of every destination, and the abstract promise it implements | `egress_parts`; `PushQueueProofs` |
| `MappingChange` | changes of source-destination mappings against the runs that read them | `egress_parts`; `EgressPartsProofs` |
| `SyncHold` | the jobs under way for a user and the aggregate published about them | `egress_parts`; `EgressPartsProofs` |

`PROJECT.json` maps every definition to the lines it models and lists the runs,
the hazards and the theorems. An operator commented `Mutant:` is a plausible
defect of the definition below it: put in that definition's place it makes the
property named for it in `PROJECT.json` fail, which shows that the property
depends on the code it is about.

    tlc -workers 2 -config SyncLock_faults.cfg MCSyncLock
    tlc -workers 2 -config Ingest_parts.cfg MCIngestParts
    tlapm DestinationSyncProofs.tla

# 1. Inventory

Paths are relative to the repository. *Hard* names what tests hardly reach;
`PROJECT.json` has each hazard at its line.

### Locks, leases and limits (Redis)

* **Sync lock**, `packages/sync/src/sync-lock.ts`. State: per calendar a lock key
  with a TTL, a signal key (newest waiter) and a stack of waiters with their
  classes; per call the polling loop, per handle the renewal timer. Operations:
  six Lua scripts (acquire or signal, renew, release, cancel, confirm, is-current).
  Users: push runs and cron's source ingests (background), source creation and
  mapping mutation in the API (preempting); push runs are also *blocked* by the
  lock of a mapping mutation. Hard: a newer waiter between the provisional
  acquisition and its confirmation, cancels from the middle of the stack, lapsed
  leases, dead waiters. Correct when: runs do not overlap under intact leases, no
  waiter is forgotten, a preempting request is served, every call returns.
* **Refresh coordinator**, `core/oauth/refresh-coordinator.ts`. One refresh per
  credential in a process and, by a Redis lock, across processes; a waiter adopts
  the peer's credential. Hard: the refresh outlives the lock's TTL. Correct when:
  a rotated token is never overwritten by an older one.
* **Rate limiter, leased semaphore, account gate**,
  `core/utils/redis-rate-limiter.ts`, `leased-semaphore.ts`. A sliding window with
  a queue and priorities; slots leased by token. Hard: lapsed leases and late
  releases, a queue whose head has left. Correct when: the budget is kept and no
  waiter starves.

### Ingestion (cron)

* **Ingest schedule**, `packages/database/src/database/ingest-schedule.ts`,
  `drizzle/0098, 0099, 0102`, `core/source/ingest-schedule-policy.ts`. State: a row
  per source calendar (due, wake, failures, parked reason, release number, lease).
  Operations: claim, complete, give back, wake, and triggers on calendars, accounts
  and credentials. Hard: triggers during a read, wakes between fetch and
  completion, shutdown while rounds run. Correct when: an enabled calendar is
  always scheduled and read again, a parked one stays so, no wake is lost, no read
  is doubled.
* **Rounds and lanes**, `services/cron/src/ingest/{start-ingest-scheduler,ingest-lane,run-ingest-round}.ts`.
  Two lanes (scheduled and wake) claim batches up to a capacity.
* **Source ingestion**, `services/cron/src/ingest/ingest-sources.ts`,
  `core/sync-engine/ingest.ts`, `core/source/*`. Fetch, diff against the stored
  events, flush under an advisory lock and a baseline number. Hard: the baseline
  moves while a source is fetched. Correct when: the stored events are those of
  some complete read, and never older than the recorded baseline.
* **Reauthentication demand**, `ingest-sources.ts`, `core/oauth/coordinated-refresher.ts`,
  `services/api/src/utils/{oauth-sources,reconnect-account}.ts`. A flag per account,
  raised by rejected reads and refreshes, cleared by successful reads and grants.
* **Flush worker**, `core/utils/serial-flush-worker.ts`. A bounded queue of writes
  with weights, an express lane and run deadlines.
* **Push channels**, `core/source/push-*.ts`, `manage-push-channels.ts`. Webhooks of
  the providers; a notification wakes the schedule.

### Push (worker)

* **Queue, requests, continuations**, `packages/queue`, `services/worker/src`,
  `services/cron/src/utils/enqueue-destination-syncs-core.ts`,
  `packages/database/src/database/user-sync-requests.ts`. One stable BullMQ job id
  per destination; a request recorded during a run makes the worker run again.
* **Destination run**, `packages/sync/src/sync-user.ts`. Takes the lock, reads what
  the sources vouch for, the local events and the mappings, and then the
  destination: by a windowed listing, or by ids when few enough.
* **Reconciliation plan**, `core/sync/operations.ts`. From those reads to
  operations (add, replace, remove) and mapping updates.
* **Sync engine**, `core/sync-engine/{index,flush,unrecorded-copies}.ts`. Executes
  the operations in chunks, checkpoints each call in a transaction, stops when
  superseded, deletes the copies whose record failed. Hard: crashes between a push
  and its record, half-done replacements, a uid pushed and removed in one run,
  sources that change during the run. Correct when: the destination converges to
  the wanted events, nothing of the user's is touched, nothing is deleted that no
  source has given up, mapping updates never meet the unique index.
* **Destination providers**, `providers/{google,outlook,caldav}/destination`.
* **Backoff**, `core/utils/calendar-backoff.ts`, a compare-and-set of retry state.
* **Active jobs and aggregate**, `services/worker/src/active-destination-jobs.ts`,
  `core/sync/aggregate-*.ts`: what the user interface shows about running syncs.
* **Mapping mutation**, `services/api/src/utils/source-destination-mappings.ts`:
  changes which sources feed a destination under preempting locks.

### The rest

API handlers, MCP service, web application, authentication, plans, broadcast, ICS
parsing, recurrence and time zone calculation, fixtures and telemetry. They have
no interleavings of their own or are calculations on texts and dates.

# 2. The modules

## SyncLock

A request is one call of `acquire`; it owns a fresh holder id, so the model
identifies the two. Each Lua script is one step, because Redis runs it
atomically, and so is each `GET` of the polling loop. `pc` is the `await` a call
is suspended in, `result` the loop's local of that name. The environment aborts
callers, lets poll deadlines pass, lets the lock of a stalled or dead holder
expire (`MayStall`, `MayCrash`) and lets the waiter keys expire once everyone in
them is gone. `lost` and `covered` are history: the lease of `r` lapsed under a
live process, and another run was confirmed after `r` had asked while nobody newer was signalled: had
somebody been, the confirmation would have been revoked, and `r` is not covered by it.

What a call must not do is subtle because waiters form a *stack*: only the newest
one takes the lock, and when its run is confirmed, the older ones find no signal
and give up, counting on that run to do their work. `NoWaiterForgotten` and
`SkippedIsCovered` say that they are right to do so. A preempting request that gives up in
this way counts as served in `PreemptorServed`, although its `acquire` may answer `acquired: false` and
its caller has to ask again.

The model also shows two behaviours that are part of the design. A queued waiter
that is signalled again runs the acquire script again and pushes itself on top,
so the provisional acquisition of a newer request can be revoked by an older one
(`RevokedByNewerWaiter` speaks of the order in the stack). And when the newest
waiter dies, the ones below it are never promoted; they return at their poll
deadline, which is why `AcquireReturns` needs the deadline.

## IngestSchedule

One statement of Postgres is one step. Statements that touch several rows treat
each row alike, so a claim is one row of a batch together with its lease token.
An instant is `null`, `later` or `now`: only comparisons with `now()` matter.
`failing` stands for `failureCount > 0`, the only thing eligibility and the
release triggers ask of it.

A claim goes through the stages `claimed`, `reading`, `settled`, `applied`:
claimed by a lane, reading with the credential stored at that moment, settled with
an outcome, its demand written; then the completion. Around it the actions
`Enable`, `Disable`, `WakeIngest`, `StoreGrant`, `SettleGrant`, `ReconnectCalDAV`
and the triggers they fire (`ReleaseRows`), `ReleaseClaim` for a shutdown that
gives claims back while their rounds still run, `Crash`, and the clock.
`resolveIngestScheduleDecision` is `FailingAfter` and `ParkedAfter`. A round's
votes over several calendars of one account are a choice between `RaiseDemand`,
`ClearDemand` and `KeepDemand`. The generation of a credential (`grant`) is
followed for OAuth accounts.

## Reconcile

`computeSyncOperations` as operators over sets. Time is a row of slots, a window
a set of consecutive slots. The id of a synced event is `<<o, 0, 0>>` for the
single event of state `o` and `<<o, g, s>>` for the occurrence in slot `s` of a
series starting in slot `g`: a moved master renames every occurrence, which is
what `pairReidentifiedMaterializedOccurrences` (`Reassignments`) repairs. A
mapping row is named by the event it is for; `UpdatesNeverCollide` checks that
the unique index behind that identification is never met. Contents are one value;
a row's hash is its slot and content.

## DestinationSync

One run at a time, as the lock provides; a run that has lost it learns so at its
next check (`current`). Its steps are the awaits of the code: authority, local
read, remote read with the plan, then per chunk removals, in-place updates,
clearing, re-adding and adding, each call followed by its checkpoint. Each item
of a call succeeds, fails, or is carried out while its answer is lost; a CalDAV
push can also be torn (the old object deleted, the new one not created). A flush
may throw before or after it has committed, and the copies it would have recorded
are then deleted. Between any two steps sources are edited, deleted, withheld, narrowed
or unmapped, the window moves, the user alters copies, the run is superseded or
the worker dies.

Contents that cannot be serialised (`Unpushable`) are skipped by Google's provider and given to that one
only. Providers differ in identity, and the model keeps that difference: Google finds a
copy by its iCalUID, CalDAV by the object named after the uid, Outlook makes a new
event at every push and can verify ids; delete identifiers address a copy by id
or by uid. A delete identifier of the user's own event never arises
(`ForeignKept`).

Three behaviours that no property forbids are worth knowing. The removal of a row
whose uid was pushed earlier in the run is skipped and the row kept; when that
row shares its copy with another, the next run carries the removal out, and the
copy returns only one run later (it takes a removal in a later chunk than the
push). The deletions of a *replacement* do not consult `protectedRemoteUids` at all
(`core/sync-engine/index.ts:629`, where `executeRemoves` does, `:602`): a stale row that
still carries the uid of a renamed occurrence takes away the copy pushed for that uid in an
earlier chunk, which leaves that copy's row pointing at nothing until the next run. It takes
two owners, four edits and two failed removals, more than the runs allow; so `PushedCopyKept` speaks
of removals, and convergence is not checked there either. And on a small Outlook calendar an orphan stays for ever (finding 3).

## SourceIngest

One calendar of each kind, chosen in `Init`: OAuth with a sync token, CalDAV and
ICS read whole. `hist` is what the provider's calendar has been, so a fetch
answers with a moment of it: everything in the window, the changes since a
token, or that it does not know the token. Ingestions overlap because the Redis lock may lapse
at any time; what then keeps them apart is the comparison of `ingestSeq` in the
persistence transaction. The days pass, the required range changes, a token
expires with its range and its period, and a stored row may be one that no
longer parses.

`asOf` is history: the moment the stored rows were last brought to.
`StoredIsSound` says that the rows are those of *one* moment of the provider, and
that a stored token continues exactly that moment; `PersistsForward` that the
moment never moves back and that a row is removed only when its event is gone at the moment
that was read, or lies outside the window of that read; `IngestConverges` that the rows catch up
with the provider. The window is that of the *read*, which may be a day behind by the time
it is committed: the proof of `CommitsGoForward` needs the difference, the small instance does not show it.

A feed with an empty body counts as unchanged and leaves the rows alone (`ingest.ts:292`, `fetch-adapter.ts:392`); so does
an ingestion that fails or passes its deadline. These are `AbandonIngest`, which the bound on changes limits.

A corner that no property forbids: an invalid row whose event is withheld for
its size is left alone by the ingestion that finds it and makes the next one drop the token,
so such a calendar is read whole every second time.

## PushChannels

`rows` is `calendar_push_channels`, `subs` what the providers hold. A sweep
(cron's, or the API's narrowed to one account) lists rows and calendars, plans an
action for each, and carries the actions out one by one: create, renew, retry, remove (when activating the row
fails, with or without the row written, a registration backs off and a renewal is given up, `ActivationFails`), then
reconciling Outlook's own list. (The code runs up to five at a time, under a lock for each
calendar.) A sweep may die between a subscription and its row and leaves the tick's lock to lapse;
its 300 s are taken to outlast a sweep that lives, so sweeps do not overlap. Accounts and calendars
are deleted under way; a provider reports that a subscription is gone.
`ActiveRowAuthenticates` says a delivery to an active row can be authenticated with the row's
secret, `DriftSparesKnown` that reconciliation of Outlook's list deletes no subscription
a row knows (together `ChannelsAreSafe`), `ChannelsSettle` that every eligible calendar ends with
one live channel and the providers with no other.

## FlushWorker

The program is single threaded: an action is what runs between two awaits. Callers
reserve weight, fetch, submit a flush or give the weight back; the pump takes one
item at a time and waits for a writer slot. Express reservations overtake the
parked head a bounded number of times. `FlushBooksBalance` joins four
invariants: outstanding weight is that of the holders, no waiter that fits is left
parked, slots are owned, and a closed worker is idle.

The comment at `serial-flush-worker.ts:240` says that a run on a half-open connection may stay
pending for ever and then keeps its weight, its slot and `close()`; its deadline rejects the
caller only. So any item that is started may hang (`Hangs`, unbounded), and `FlushServes` says what is left:
nobody starves but those who hang or for whom hung ones leave no slot or no room (`Wedged`), the caller of every item
that was started is answered, and `close()` resolves unless something hangs. The deadline's timer is set when an item is
started: a flush submitted behind hung runs that hold every slot is never answered, and that is how the code is.
`FlushServes` is a part of `WaitersServed`, with the gates and the window below.

## TokenRefresh

Calls of `ensureValidToken` in several processes on one credential. A refresh token is the
number of the rotation that issued it, and the provider accepts only the last. Within a
process calls join one refresh; between processes a lock with a TTL decides, and
the one who finds it taken adopts the peer's stored credential. `RefreshIsSafe`: refreshes
overlap only as often as locks have lapsed, the stored token is the provider's unless one was
lost, no demand is raised needlessly. `RefreshSettles`: every call returns.

## OutlookPermits and RateWindow

The two limits of provider requests. `OutlookPermits` has the gate in a process
and the leased slots in Redis, where a release is fenced by time because a key
holds no owner to compare with (`CapacityHeld`, `LeaseOwnsItsKey`, `GateIsExact`,
together `PermitsHold`) and every request leaves the gate in the end (`GateFlows`). `RateWindow` has the three Lua scripts on
the window, the queue and the blocked set. A token joins by its client's clock, read before the script
runs, and ties go by the random token (`redis-rate-limiter.ts:118`, `:241`): it may land before others that
joined earlier, each of which may be passed so `MaxPassed` times. A head that was noted as blocking and is then passed
keeps its note however often it polls (`:102`), so it can be dropped while it polls and joins anew
with a later clock (`:55`), although the comment at `:39` says that only a silent head is dropped. What holds is said with that exception: a
waiter that polls and has not been passed keeps its place, and no grant overtakes one who
polls and stands before it (`WindowIsFair`); whoever polls is served unless joins pass it again and again
(`WindowServes`). `WaitersServed` joins this with `GateFlows` and `FlushServes`.

## PushQueue and SyncPromise

A job id is stable per destination, so BullMQ drops an enqueue while a job of that id
exists, running or not. The row of `user_sync_requests` remembers that something was
asked meanwhile; the drain turns it into jobs and acknowledges it, unless jobs older
than the request are still there. `PushQueue` has the API's calls, overlapping drains, the
tick, runs that are cut short and continue, stalled and failed jobs, and paused
destinations. A request is known by its number and a job's timestamp by the number
of requests before it, as only their order is ever asked.

The queue's promise ends where a run begins. What the run does then is its outcome: it pushes; it skips the destination (not
pushable, its lock not acquired, in backoff, without a provider: `sync-user.ts:857`-`:931`); it is superseded
(`:1006`); it stops for a mutation that waits for its lock (`:1079`); a provider's error is caught (`:1180`); or it throws. All
of these are `EndRun`: the job is gone, with no row and no continuation, and a change it did not
push waits for the next tick or the next request. Two endings do not count as a run: one cut short by the deadline, which asks for a
continuation (`CutShort`), and one whose worker dies or stalls (`Stall`).

`SyncPromise` is what a caller is promised: after a change for which a push is asked, every destination
gets a run that begins after the change and is not taken back, unless a fault visibly
lost the promise or the destination is paused. `PromiseKept` is the refinement
(`Promise == INSTANCE SyncPromise WITH lost <- missed`), fairness included. Asking again makes a lost promise
anew; a round of ingestion that asks for nothing (`IngestRound` without a record) promises nothing. `NoChangeForgotten` adds how it is kept: whoever is owed
a run has a job yet to begin, a row, or a caller at work. A run that had begun when the change came does
not count, as it may have read past it. `RequestsDrained`: rows do not stay for ever.

## DestinationAttempt

A job over one destination: lock, look-up, the sources read, the gate, pushes, the verdict
and its compare-and-set of the retry state, two attempts overlapping when a lease lapses
or a job dies. `BackoffClimbs`: the retry state is reset or climbs one step at a time, because a
verdict is written only over the state its attempt was made against. `HealthyRecovers`: a
destination that works gets rid of its backoff and is copied. `FirstSyncHasCopies` is finding 5.

## MappingChange

Changes from either side of the mapping take the user's mutation lock, then the locks of
all destinations concerned in one order, and commit in one transaction; runs stay away
while a mutation is under way. Locks are taken as what `SyncLock` is proved and checked
to be: one holder per intact lease, and a preempting waiter that is served. `LimitHeld` is the plan's
limit, `PushesWhatIsMapped` that with intact leases a run writes what is mapped at
that moment, `ChangesSettle` that changes do not wait for each other for ever. `WritingSettles`
joins what ends well on the way out: this, `HealthyRecovers` and `HoldIsReleased`.

## SyncHold

The worker's table of active jobs with a watchdog per calendar, the count per user, the delayed release,
and the aggregate that is held at "syncing" meanwhile. `HoldIsSound`: the count is that of
the active jobs, percentages only climb while the hold lasts; `HoldIsReleased`: it is
released in the end. A report's total may be 0, as a run without operations reports. Two corners that no property forbids: jobs that settle after
`close()` change the books again, and a run cut by BullMQ's signal leaves its entry
at "syncing" until the next one.

# 3. Runs

| run | instance | shows |
|---|---|---|
| `lock_faults` | 2 background and 1 preempting request on a calendar, one of which may stall or die, or a background run blocked by a mapping mutation | `TypeOK`, `MutualExclusion`, `NoWaiterForgotten`, `SkippedIsCovered`, `PreemptorVisible`, `AcquireReturns` |
| `schedule_release` | 1 OAuth calendar, 1 claim, 1 wake, 3 releases, 1 new grant, fair | `TypeOK`, `EnabledIsScheduled`, `ParkedStaysParked`, `EnabledIsClaimed` |
| `schedule_wake` | 1 CalDAV calendar, 2 claims, 1 wake, 1 release | `NoDoubleRead`, `NoWakeLost` |
| `schedule_disabled` | 1 OAuth calendar, 3 releases | violation: finding 1 |
| `schedule_grant` | 1 OAuth calendar, 1 new grant | violation: finding 2 |
| `sync_settings` | CalDAV with a series over 2 slots, and Outlook with 2 sources of 2 contents; chunks of 1, 2 edits, 1 fault | `SettingsTypeOK`, `EveryCopyRecorded`, `UpdatesNeverCollide`, `DeletesOnlyWhatItMay` |
| `sync_converges` | Google, Outlook and CalDAV, 1 state over 2 slots, 2 contents (Outlook: 1), reads by id and by listing, 1 edit, 1 fault, fair | `Converges`, `Quiesces` |
| `sync_duplicates` | Outlook, 1 slot, 1 fault, fair | violation: finding 3 |
| `ingest_parts` | `SourceIngest`, `PushChannels`, `FlushWorker`, `TokenRefresh`, `OutlookPermits`, `RateWindow`, fair | `IngestTypeOK`, `StoredIsSound`, `PersistsForward`, `IngestConverges`, `ChannelsAreSafe`, `ChannelsSettle`, `FlushBooksBalance`, `WaitersServed`, `RefreshIsSafe`, `RefreshSettles`, `PermitsHold`, `WindowIsFair` |
| `egress_parts` | `SyncLock`, `PushQueue`, `SyncHold`, `DestinationAttempt`, `MappingChange`, fair | `EgressTypeOK`, `LockServes`, `PromiseKept`, `NoChangeForgotten`, `RequestsDrained`, `HoldIsSound`, `BackoffClimbs`, `LimitHeld`, `PushesWhatIsMapped`, `WritingSettles` |
| `channels_narrow` | 1 Google and 1 Outlook calendar of 2 accounts, a narrowed sweep | violation: finding 4 |
| `first_sync` | 1 source, 2 attempts, 1 waiting mutation | violation: finding 5 |

**One part at a time.** `MCIngestParts` and `MCEgressParts` check several modules in one
run. Each module has its own view of what it shares with others, so it is enough to let
one of them move: the variable `part`, chosen in `Init`, names it and the others rest in their
initial state. The reachable states are the sum of the parts', not their product. A condition
of fairness on one part and one on another are then one condition on their disjunction,
which keeps TLC's tableau small: `FairStep(i)` joins the i-th conditions of all parts.
`MCSyncLock` does the same with the requests that are never made (`absent`), `MCSyncSettings`
and `MCSyncConverges` with the instance of `DestinationSync` (`setting`, `provider`).

**Bounds.** The `.cfg` files have them all. *Lock*: three requests are enough for the stack's
interesting shapes: a holder, a waiter, and one above or between them. *Schedule*:
`MaxReleases` counts triggers that change
a row: three let a calendar be parked, released and parked again during one read.
Two claims let a late round meet the next owner's. *Destination*: two slots and one state are the
least in which a series has two occurrences that trade ids and a single event
becomes a series; a chunk of one puts each operation in a chunk of its own, and
the collision of updates needs two edits and an interrupted run.
`TargetedReadLimit` is 0 (always listing) or 1 (both kinds of
read) instead of 25, and `ChunkSize` 1 instead of 50. *Ingest*: two events over two days,
two ingestions, two changes: an ingestion that lost its lock meets the next one on either
side of its transaction. *Channels*: two calendars of two accounts, three rows, two mishaps: a dead
sweep and a fault while the next one repairs it. *Flush worker*: three
callers at a time, a heavy one with two light ones (the head is overtaken as often as it may be) or
with one light one and one that the headroom refuses; any of them may hang. *Tokens*: two calls of
a process and one of another, or one call each of three processes; one lapsed lock, one expiry. *Permits*: four requests in two processes on one slot. *Window*:
a large request behind small ones, a priority one, two that fall silent, each token passed by at most one other (`MaxPassed` = 1). *Queue*: two destinations, one call, one drain and two events; one drain at a time, because
a second one multiplies the states beyond a run (a drain that has timed out and still
runs beside the next is not covered). Three events were tried on the queue alone and hold as well. *Attempts*, *mappings*, *hold*: two
actors each, which is what the races in them take. `MaxMishaps`, `MaxEvents`,
`MaxLeases` and the like bound the faults and count down in the guards.

Runs over requests that end and budgets that run out do not check for deadlock
(`CHECK_DEADLOCK FALSE`); a destination always starts another run, and deadlock is checked there.

**Fairness.** *Lock*: a live call keeps running (its loop sleeps and wakes); poll
deadlines pass; a run asks `isCurrent` between pieces of work and releases in a
`finally`; the lock of a dead process expires (its renewal died with it). In
`PatientNext`, which `LockServes` is about, nobody gives up and only preempting runs end by
themselves, as they are bounded requests
of the API; background runs are not assumed to. *Schedule*: time passes, rounds end
(every source has a timeout), and claims are strongly fair because a claim takes
the rows that are due longest first and so passes none over for ever.
*Destination*: the worker keeps running jobs for the destination (cron enqueues
them each time), and a source's ingestion comes round again. *Ingest, channels*:
cron starts them again and again, and a lock nobody renews lapses. *Workers, limits, tokens*: calls that hold something return,
because each has a timeout, and pollers poll. Not so a flush: its preparation or run may hang and then never ends; only its
deadline's timer is fair. *Queue*: callers run to their end, the drain
runs every minute, workers take waiting jobs and end them by their deadline; nothing is assumed of the egress tick.
*Mappings*: `LockDestination` is strongly fair, because a mutation that waits preempts, and
`LockServes` is about just that. Nothing is assumed
of edits and faults, which are bounded: the liveness properties speak of what
follows the last one.

## Findings

1. **A disabled calendar becomes due** (`schedule_disabled`,
   `drizzle/0102_source_ingest_schedule_lock_order.sql:17`). `release_account` releases
   every row with `failureCount > 0`; disabling leaves the count, so a reconnect of
   the account makes a disabled calendar due and clears `parkedReason`. Two tests
   say that a disabled calendar is parked until it is enabled
   (`source-ingest-schedule.test.ts:237`, `:667`). The next round
   finds it unreadable, marks it `unresolvable` and leaves it in the rotation.
2. **A late verdict re-lights the demand** (`schedule_grant`, `ingest-sources.ts:897`).
   A read that began with the old credential raises `needsReauthentication` after
   the user has granted access again, which the comment at `oauth-sources.ts:954`
   says the grant settles.
3. **Orphans on small destinations** (`sync_duplicates`, `operations.ts:607`). When the
   worker dies between an Outlook push and its checkpoint, the next run pushes a
   second event; a destination with at most 25 mapped events is read by id, where
   unmapped copies never show, so the first one stays. Two tests that say otherwise
   (`degenerate-range-resilience.test.ts:220`, `destination-sync-state-machine.test.ts:353`)
   exercise the listing only.
4. **A narrowed sweep tears down the others' channels** (`channels_narrow`,
   `manage-push-channels-dependencies.ts:107`). Connecting an account runs the sweep "narrowed
   to the new account" (`register-account-channels.ts:14`), but only the list of calendars is
   narrowed: the live channels of every other account find no calendar in it and are deregistered,
   until cron's sweep makes them again.
5. **A first sync without copies** (`first_sync`, `sync-user.ts:1079`). A first run that yields to a waiting
   mapping mutation before it has copied anything is not marked as superseded, counts as
   succeeded, and its sources are recorded as synced; a test says a run records the
   first sync "once its copies landed" (`destination-backoff-engine.test.ts:686`). For the same
   reason, when the waiter leaves before the final look at the lock, a run that did
   nothing clears the backoff of its destination.

# 4. Proofs

The theorems hold for any value of the constants that satisfies the named assumption of
the module (`RequestAssumption`, `ScheduleAssumption`, `PushQueueAssumption`,
`MappingAssumption`, `TokenRefreshAssumption`, `OutlookPermitsAssumption`,
`SourceIngestAssumption`, `PushChannelsAssumption`, `FlushWorkerAssumption`, `RateWindowAssumption`,
`SyncHoldAssumption`, `AttemptAssumption`, `ReconcileAssumption` with `DestinationAssumption`): sets and maps
fit together, null values are not elements, bounds are natural numbers. Sets that are counted,
and the events and destinations of one user, are finite, as the rows of a table are. TLC
evaluates every assumption.

Each module but `DestinationSync` follows one scheme: `TypeParts` splits the type invariant
into named parts, a lemma per action (or per group of actions that touch the same variables) shows that
it keeps each conjunct of the inductive invariant, `...Invariance` is `Spec => []Inv`, and
the properties follow from it. `EgressPartsProofs` has the proofs of
`SyncLock`, `MappingChange`, `SyncHold` and `DestinationAttempt` in turn,
`IngestPartsProofs` has `TokenRefresh`, `OutlookPermits` and `RateWindow`; the others have one each.

**SyncLock** (`EgressPartsProofs`). `LockTyped` (`TypeOK`), `MutualExclusionHolds`, `HandleTruthful`,
`SignalNamesHead` (`SignalIsHead`), `WaitersAreKept` (`NoWaiterForgotten`), `SkippingIsSafe`
(`SkippedIsCovered`), `PreemptionIsVisible`, `OnlyNewerWaitersRevoke`. Three of them,
`SignalIsHead`, `HeldIsTruthful` and `RevokedByNewerWaiter`, are proved for every instance and have no run of
their own. None of the properties is inductive alone. `LockInv` adds
who may be found in the Redis keys: the lock names a request of that key that owns
or is giving it up and whose lease is intact (`LockOwner`), the stack holds only
requests of that key that have not been answered (`StackMembers`), a provisional
owner is still in the stack (`ProvisionalStacked`), and what the loop remembers
(`LoopState`). Mutual exclusion then follows from `HeldIsTruthful`: two intact
handles both equal the one value of the key. The lemmas on `LRem` and `LPush` say
what the Redis list commands do to members and duplicates; each script has a
lemma.

**IngestScheduleProofs.** `TypeCorrectness`, `NoDoubleReadHolds`, `NoWakeLostHolds`,
`EnabledStaysScheduled`, `ParkedStaysParkedHolds`. The strengthening relates the
memory of a round to the row: a claim that has not lapsed holds the row's lease
(`LeaseHeld`), its remembered numbers are not ahead of the row's (`ClaimIsBehind`),
the round the row names is not older than the last recorded read
(`ClaimIsLatest`), recorded reads do not run ahead of the wakes (`ServedIsBehind`), a calendar is out of the schedule only as
ineligible (`OutIsIneligible`), and one that went out during a read has a newer
release number than the round remembers (`OutIsReleased`). The last is why the
completion's comparison of `releaseSeq` is enough to keep a parked calendar parked.

**PushQueueProofs.** `NothingForgotten` (`NoChangeForgotten`) and `QueueImplementsPromise`: every
step of the queue is a step of `SyncPromise` or a stutter. `NoChangeForgotten` counts as cover
whatever exists now; the inductive `PushInv` says which of it will really bring a run. A change that
stands is *carried* by a job that has yet to begin or was cut short, or by a call that will still add one or record a row, or
there is a row newer than the job (`StandingIsServed`). A drain that has not decided to retain the row
has found no older job among the destinations it has looked at, and once it is about to acknowledge, every change the
row stood for is carried without it (`DrainIsSafe`, `MappingIsSafe`): hence an acknowledgement is harmless
whatever overlapped it.

**MappingChange** (`EgressPartsProofs`). `LimitAlwaysHeld` needs only the transaction, which counts before it commits.
`RunsWriteWhatIsMapped` needs that while no lease has lapsed the user's lock has one owner, held destination locks are
the call's own, what a call resolved is still what its change touches, and what a run has read is what is mapped
(`LocksTrusted`).

**TokenRefresh** (`IngestPartsProofs`). `RefreshesAreSafe` (`RefreshIsSafe`). The calls that believe they hold the lock, without the one
that does, are no more than the lapses (`LapsesAreCounted`, by cardinalities); only a process's leader
refreshes; a call under way has read the stored token if the access token has run out (`StaleIsRead`).

**OutlookPermits** (`IngestPartsProofs`). `PermitsAlwaysHold` (`PermitsHold`). The line of a gate holds each waiting or aborted request
once (`QueueIsWhole`), so that taking its head keeps the count exact; a lease in date is of one slot whose key is
its own (`LeasesOwned`), so leases inject into slots.

**RateWindow** (`IngestPartsProofs`). `NoneIsOvertaken` and `PlacesAreKept`, together `WindowStaysFair` (`WindowIsFair`).
`WindowInv` says that the queue names each waiter once, that whoever is noted is queued, and that whoever is noted long
enough to be dropped has stopped or has been passed; so reaping drops nobody who polls and was not passed. The lemmas on `Reaped`, `Without`
and `InsertAt` say what the ways out of and into the queue leave of the order of the others.

**FlushWorkerProofs.** `FlushBooksAlwaysBalance` (`FlushBooksBalance`). The weight outstanding is the cardinality of a
set with as many units for a caller as its reservation weighs, so that granting and freeing are unions and differences of finite
sets. `FlushInv` adds that each queue holds exactly who waits in it, once (`LineOf`), the bound
with the headroom, and that the head of the line does not fit (`HeadStays`); an aborted head may
stand only where the budget is exceeded. That is what makes `NoGrantMissed` survive an express reservation, which
grants the overtaken head or nobody.

**PushChannelsProofs.** `ActiveRowsAuthenticate` and `DriftSparesActive`, for cron's sweeps and those narrowed to an account,
and `ChannelsStaySafe` (`ChannelsAreSafe`). `ChannelsInv` follows the numbers that stand for channel ids and secrets. A
number names channels of one calendar (`OneCalendar`), live rows of one calendar are one (`RowsSound`), a row that was
activated is known by the secret its channel was given, and a call under way carries a number that is new or its own
row's (`CallSound`). A row is deleted and made anew while an answer is on its way: that is why what a sweep holds is
said to fit its row *or* the row is gone (`PlanSound`). For the drift, what an active row names
is in what the sweep knows, and nobody activates in between (`OneSweep`). New ids are
always found because those in use are finitely many (`FreshId`).

**SyncHold** (`EgressPartsProofs`). `HoldAlwaysExact` and `PercentClimbs`, together `HoldStaysSound` (`HoldIsSound`).
`HoldInv` adds that nothing is counted while a release is pending, that nobody has processed more than there
is to process, and that a held user who was told something was told the high-water mark, which until the
release is only raised. Processed and total operations are sums over the destinations, as cardinalities again; `SumIsNumber` and the lemmas
after it bound the one by the other, so a percentage is at most 100.

**DestinationAttempt** (`EgressPartsProofs`). `RetryClimbs` (`BackoffClimbs`). The comparison with the observed state makes the
step itself; `AttemptInv` shows that what is compared is a retry state: the next instants are
numbered afresh and are zero exactly without a failure, and what an attempt has done, failed and has left are no more
than the sources (`WorkBounded`).

**The parts together.** Every step of `MCIngestParts` and of `MCEgressParts` is a step of each part or leaves that part
alone (`PartsStep`; a step of `PatientNext` is one of the lock's `Next`), so a behaviour of `PartsSpec` is one of every part's own
specification, whichever `part` is chosen. Hence `IngestPartsTyped` (`IngestTypeOK`), `EgressPartsTyped` (`EgressTypeOK`), and
`IngestPartsSafe` and `EgressPartsSafe`, which put the safety properties of all parts side by side: the safety that TLC
checks in the composed run is proved of it for every value of the constants.

**SourceIngestProofs.** `StoredAlwaysSound` (`StoredIsSound`) and `CommitsGoForward` (`PersistsForward`). An ingestion whose
row nobody has written since it read it (`Underway`, the comparison of `ingestSeq`) still has the row's token and
coverage; a delta it fetched continues from the stored events, in a window that reaches as far as the coverage
(`ReadStands`).

**DestinationSyncProofs.** `SyncTyped` (`TypeOK`), `ForeignAlwaysKept` (`ForeignKept`) and `UpdatesNeverMeetTheIndex`
(`UpdatesNeverCollide`), through the whole of `computeSyncOperations`. `Sharp` types every variable more
narrowly than `TypeOK`: whatever a row, an operation or an unrecorded copy refers to is one of Keeper's events, and never the
user's own; so no delete identifier can address it. `WritesAreApart` says that what a run has still to write,
by operation or by mapping update, is for each event written once and finds no other row there: at the plan because
`Reassignments` pairs rows and new ids one to one (`PairsApart`, from the order of slots and from `RanksApart`) and gives an occurrence's
id only to the row of an occurrence that is not wanted any more; later because nobody but the run inserts rows (editing a source only clears `owned`).
`PendingIsApart` carries that through the checkpoint's transaction. The `unrecorded` steps, where a failed run only cleans
up, are excepted.

`RemovalsAreDue` (`DeletesOnlyWhatItMay`) and `CopiesAreRecorded` (`EveryCopyRecorded`) need two more invariants over `SyncInv`.
`TraceInv` (`TraceInvariance`) is what a run knows while others edit. Copies have uids of their own and every row's delete identifier
addresses the copy of its uid (`CopiesApart`, `Addressed`; for each provider by its own rule). What is left of the plan was
made for rows that are as the run read them, except that an edit may have cleared `owned` (`PlanStands`, `StillThere`), and reaches for no row twice
(`RowsApart`, from the one-to-one pairing). A row the run has rewritten is for a uid in `protected` (`RowsStand`), and the
changes not yet recorded are for rows nothing else reaches for (`ChangesStand`). So a removal that asks `protected` either finds a row it
was planned for, which the plan retires, or a copy that no row records. `RecordInv` says that every copy of Keeper's is
kept by a row the pending changes leave or by one they insert (`KeptBy`), that only CalDAV updates in place, that what
`replaceViaDeleteThenAdd` pushes again has been cleared, and that no checkpoint comes between the two halves: hence the
row that the second half drops holds no copy any more. TLC checked both invariants on instances for each of
the three providers before they were proved.

The proof gave two corrections of the model: a calendar's foreign event is a copy of no content in `Bodies`, and
`PushedCopyKept` above.

**Only model-checked.** Every liveness property, and the fairness half of the refinement of `SyncPromise`: the proof
system does not reason about them. `SettingsTypeOK` is the type invariant of `DestinationSync`, which
`SyncTyped` proves for every value of the constants, said of two instances at once; the theorem speaks of the
module's own constants, and its proof was not repeated for the operators of an INSTANCE.
That the sum of a function written as a cardinality is what a loop adds up is a matter of induction over
data, which the installed provers cannot do: the model states the sums as counts, and the proofs reason about counts.

# 5. Not modelled, and the plan

Not modelled: see the components in `PROJECT.json` with their reasons. Most of the
repository's lines are user interface, request handlers, protocol and text code
(serialisation of iCalendar, parsing of provider answers, recurrence and time zone
arithmetic, schemas, MCP tools, fixtures), which have no interleavings and which its unit tests
exercise directly; the map's share of all lines stays small for that reason. Of the
modelled files the following is abstracted: logging, wide events, counters and
progress; intervals, jitter and backoff lengths; correlation ids;
`DESTINATION_VERIFICATION_LIMIT` (200), which no small instance reaches; batching and
throttling of provider calls; serialisation and comparison of contents beyond
equality.

Done: the modules above; the proofs of section 4. Left, most important first:

1. Event mutations through the API (`services/api/src/mutations`): a provider write followed
   by an unlocked write of the stored row.
2. The composition of `SourceIngest` with `DestinationSync`, whose sources now change by
   actions of the environment.
