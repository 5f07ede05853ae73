--------------------------- MODULE DestinationSync ---------------------------
(***************************************************************************)
(* Reconciliation runs over one destination calendar: the reads of         *)
(* packages/sync/src/sync-user.ts, the plan of Reconcile, its execution in *)
(* chunks by packages/calendar/src/core/sync-engine/index.ts and the       *)
(* checkpoints that record it in event_mappings.                           *)
(*                                                                         *)
(* The calendar lock lets one run work at a time (module SyncLock); a run  *)
(* that loses it learns so at its next currency check.  Each call of the   *)
(* provider and each transaction is one step.  Between two steps a source  *)
(* is edited, the user edits the destination, the configuration changes or *)
(* the worker dies.  An item of a provider call succeeds, fails, or is     *)
(* carried out while its answer is lost.                                   *)
(***************************************************************************)
EXTENDS Reconcile

CONSTANTS
  Provider,           \* "google", "outlook" or "caldav"
  Unpushable,         \* contents the provider leaves out: Google's "workingElsewhere"
  TargetedReadLimit,  \* TARGETED_DESTINATION_READ_LIMIT
  ChunkSize,          \* OPERATION_CHUNK_SIZE
  MaxEdits,           \* bound: edits by users, sources and configuration
  MaxFaults           \* bound: failed or lost calls, failed flushes, crashes

ASSUME DestinationAssumption ==
  /\ Provider \in {"google", "outlook", "caldav"}
  /\ Unpushable \subseteq Bodies /\ (Unpushable # {} => Provider = "google")
  /\ TargetedReadLimit \in Nat
  /\ ChunkSize \in Nat \ {0}
  /\ MaxEdits \in Nat
  /\ MaxFaults \in Nat

Slots == 1..LastSlot
Windows == {lo..hi : lo \in Slots, hi \in 0..LastSlot}
EventIds == {Single(o) : o \in Owners} \cup (Owners \X Slots \X Slots)

VARIABLES
  source,      \* source[o]: the stored event state; no slots when it is deleted
  withheld,    \* series withheld for exceeding the occurrence budget
  coverage,    \* coverage[s]: the window the ingestion of s has recorded
  configured,  \* sources mapped to this destination
  requested,   \* the window the destination's ranges ask for
  rows,        \* event_mappings of the destination, by sync event id
  remote,      \* the copies on the provider's calendar
  pc,          \* where the run stands
  phase,       \* the group of the chunk being executed
  current,     \* the run still holds the lock and its deadline
  scope,       \* the reconciliation scope of the run
  seen,        \* the local events and mappings the run has read
  plan,        \* operations not yet taken, the current chunk, mapping updates
  work,        \* operations of the current group still to do
  protected,   \* protectedRemoteUids
  pending,     \* changes of the last call, to be checkpointed
  edits, faults

world == <<source, withheld, coverage, configured, requested>>
store == <<rows, remote>>
control == <<pc, phase, work>>
memory == <<scope, seen, plan, protected, pending>>
budget == <<edits, faults>>
vars == <<world, store, control, current, memory, budget>>

-----------------------------------------------------------------------------
(* Source events *)

Deleted == [start |-> 0, slots |-> {}, body |-> 0]
SingleStates == [start : {0}, slots : {{s} : s \in Slots}, body : Bodies]
SeriesStates == [start : Slots, slots : SUBSET Slots \ {{}}, body : Bodies]
EventStates ==
  SingleStates \cup {st \in SeriesStates : \A s \in st.slots : s >= st.start}

\* The ids materializeRecurrenceEvents gives the events of o.
IdsOf(o) ==
  IF source[o].start = 0
  THEN {Single(o) : s \in source[o].slots}
  ELSE {<<o, source[o].start, s>> : s \in source[o].slots}
SlotOf(e) == IF e[2] = 0 THEN CHOOSE s \in Slots : s \in source[e[1]].slots ELSE e[3]

EventsOfOwners(owners) ==
  [e \in UNION {IdsOf(o) : o \in owners} |->
     [slot |-> SlotOf(e), body |-> source[OwnerOf(e)].body]]

\* getBoundingSourceAuthorityWindow: from the first to the last slot covered.
BoundingWindow(windows) ==
  {s \in Slots : \E a, b \in UNION {windows[src] : src \in Sources} : a <= s /\ s <= b}

\* getEventsForCalendarsWithDiagnostics over the verified sources.
LocalEvents(windows) ==
  LET readable == {o \in Owners \ withheld : windows[SourceOf[o]] # {}}
      all == EventsOfOwners(readable)
  IN [e \in {x \in DOMAIN all : all[x].slot \in BoundingWindow(windows)} |-> all[e]]

-----------------------------------------------------------------------------
(* The provider's calendar *)

Foreign == <<NoEvent, 1>>
ForeignCopy == [uid |-> Foreign, id |-> Foreign, slot |-> 1, body |-> 1, keeper |-> FALSE]

\* The copies a delete identifier addresses.
AddressedBy(del) ==
  {c \in remote : IF del.form = "id" THEN c.id = del.ref ELSE c.uid = del.ref}

\* Identifiers of e that nothing refers to.
UsedRefs ==
  {c.id : c \in remote} \cup {rows[m].del.ref : m \in DOMAIN rows}
  \cup {op.del.ref : op \in plan.todo \cup plan.chunk}
FreshRef(e) ==
  <<e, CHOOSE n \in 1..(Cardinality(UsedRefs) + 1) :
         /\ <<e, n>> \notin UsedRefs
         /\ \A k \in 1..(n - 1) : <<e, k>> \in UsedRefs>>

\* Google imports by iCalUID and CalDAV names the object after the uid: both
\* find the copy of the event again.  Outlook makes a new event every time.
DerivedUid(e) == <<e, 0>>
CopiesOf(e) ==
  IF Provider = "outlook" THEN {} ELSE {c \in remote : c.uid = DerivedUid(e)}
WrittenCopy(e, slot, body) ==
  LET id == IF Provider = "caldav" THEN DerivedUid(e)
            ELSE IF CopiesOf(e) # {} THEN (CHOOSE c \in CopiesOf(e) : TRUE).id
            ELSE FreshRef(e)
  IN [uid |-> IF Provider = "outlook" THEN id ELSE DerivedUid(e),
      id |-> id, slot |-> slot, body |-> body, keeper |-> TRUE]
\* CalDAV answers a push with the bare uid, the others with the event id.
PushedDeleteId(copy) == IF Provider = "caldav" THEN ByUid(copy.uid) ELSE ById(copy.id)

\* updateEvents writes only to the object named after the event's own uid.
UpdateTargetMatches(op) == op.del.ref = DerivedUid(op.event)

Listing(window) ==
  {c \in remote : c.slot \in window /\ (Provider = "caldav" => c.keeper)}
\* withVerifiedUnconfirmedMappings: only Outlook has verifyEventsExist.
Verified(mappings, listing, window) ==
  IF Provider # "outlook" THEN {}
  ELSE UNION {AddressedBy(mappings[m].del) :
                m \in {k \in DOMAIN mappings :
                         /\ mappings[k].slot \in window
                         /\ \A c \in listing : c.uid # mappings[k].uid}}
LookUp(mappings, ms) == UNION {AddressedBy(mappings[m].del) : m \in ms}

-----------------------------------------------------------------------------
(* Flushing: one transaction of deletes, inserts and updates *)

NoRows == [m \in {} |-> 0]
NoChanges == [deletes |-> {}, inserts |-> NoRows, updates |-> {}]
IsEmpty(changes) ==
  changes.deletes = {} /\ DOMAIN changes.inserts = {} /\ changes.updates = {}

\* Mutant: the row of an event state that is gone is not inserted.
AfterInsertsOfLive(changes) ==
  LET kept == DOMAIN rows \ changes.deletes
      live == {m \in DOMAIN changes.inserts : source[OwnerOf(m)] # Deleted}
  IN [m \in kept \cup live |-> IF m \in kept THEN rows[m] ELSE changes.inserts[m]]

\* deletes, then inserts that do nothing on a conflict
AfterInserts(changes) ==
  LET kept == DOMAIN rows \ changes.deletes
  IN [m \in kept \cup DOMAIN changes.inserts |->
        IF m \in kept THEN rows[m]
        ELSE [changes.inserts[m] EXCEPT !.owned = source[OwnerOf(m)] # Deleted]]

UpdatedRow(row, u) == [row EXCEPT !.del = u.del, !.slot = u.slot, !.body = u.body]
\* updates by id; a row that is gone is not updated
Flushed(changes) ==
  LET base == AfterInserts(changes)
      effective == {u \in changes.updates : u.row \in DOMAIN base}
      left == DOMAIN base \ {u.row : u \in effective}
  IN [m \in left \cup {u.event : u \in effective} |->
        IF \E u \in effective : u.event = m
        THEN LET u == CHOOSE v \in effective : v.event = m
             IN UpdatedRow(base[u.row], u)
        ELSE base[m]]
\* The unique index refuses an update that gives a row another row's event, and
\* the transaction throws.  UpdatesNeverCollide shows that it has no occasion to.
ViolatesIndex(changes) ==
  LET base == AfterInserts(changes)
      effective == {u \in changes.updates : u.row \in DOMAIN base}
  IN \/ \E u \in effective : u.event # u.row /\ u.event \in DOMAIN base
     \/ \E u, v \in effective : u.row # v.row /\ u.event = v.event

-----------------------------------------------------------------------------
(* The run: reads and plan *)

NoScope == [requested |-> {}, configured |-> {}, windows |-> [s \in Sources |-> {}],
            withheld |-> {}, listed |-> FALSE, covered |-> {}]
NotSeen == [events |-> NoRows, rows |-> NoRows]
NoPlan == [todo |-> {}, chunk |-> {}, moves |-> {}]

EndRun ==
  /\ pc' = "idle" /\ phase' = "none" /\ work' = {}
  /\ current' = TRUE
  /\ scope' = NoScope /\ seen' = NotSeen /\ plan' = NoPlan
  /\ protected' = {} /\ pending' = NoChanges

\* The mapped sources and their authority before the local read.
StartRun ==
  /\ pc = "idle"
  /\ pc' = "started"
  /\ scope' = [NoScope EXCEPT
       !.requested = requested, !.configured = configured,
       !.windows = [s \in Sources |->
                      IF s \in configured THEN requested \cap coverage[s] ELSE {}]]
  /\ UNCHANGED <<world, store, phase, work, current, seen, plan, protected, pending, budget>>

\* Under the source ingest locks; a changed set of sources supersedes the run.
ReadLocal ==
  /\ pc = "started"
  /\ IF configured # scope.configured
     THEN EndRun
     ELSE LET windows == [s \in Sources |-> scope.windows[s] \cap coverage[s]]
          IN /\ pc' = "read"
             /\ scope' = [scope EXCEPT !.windows = windows,
                                       !.withheld = {o \in withheld : windows[SourceOf[o]] # {}}]
             /\ seen' = [events |-> LocalEvents(windows), rows |-> rows]
             /\ UNCHANGED <<phase, work, current, plan, protected, pending>>
  /\ UNCHANGED <<world, store, budget>>

\* planTargetedDestinationRead: the mapped events of the local read.
TargetRows == DOMAIN seen.events \cap DOMAIN seen.rows
TargetDeleteIds == {seen.rows[m].del : m \in TargetRows}
ReadsByListing == Cardinality(TargetDeleteIds) > TargetedReadLimit
RemoteRead ==
  IF ReadsByListing
  THEN LET listing == Listing(scope.requested)
       IN listing \cup Verified(seen.rows, listing, scope.requested)
  ELSE LookUp(seen.rows, TargetRows)

ReadRemoteAndPlan ==
  /\ pc = "read"
  /\ LET full == [scope EXCEPT !.listed = ReadsByListing, !.covered = TargetRows]
         planned == computeSyncOperations(seen.events, seen.rows, RemoteRead, full)
     IN IF ~current \/ (planned.operations = {} /\ planned.moves = {})
        THEN EndRun
        ELSE /\ pc' = "chunk"
             /\ scope' = full
             /\ plan' = [todo |-> planned.operations, chunk |-> {}, moves |-> planned.moves]
             /\ UNCHANGED <<phase, work, current, seen, protected, pending>>
  /\ UNCHANGED <<world, store, budget>>

-----------------------------------------------------------------------------
(* The run: chunks.  Removals, then replacements, then additions. *)

GroupOf(chunk, g) ==
  CASE g = "removes" -> {op \in chunk : op.type = "remove"}
    [] g = "replaces" -> {op \in chunk : op.type = "replace"}
    [] g = "adds" -> {op \in chunk : op.type = "add"}
FirstPhase(g) ==
  CASE g = "removes" -> "remove"
    [] g = "replaces" -> IF Provider = "caldav" THEN "update" ELSE "clear"
    [] g = "adds" -> "add"
Later(g) ==
  CASE g = "none" -> <<"removes", "replaces", "adds">>
    [] g = "removes" -> <<"replaces", "adds">>
    [] g = "replaces" -> <<"adds">>
    [] g = "adds" -> <<>>
GroupOfPhase(p) ==
  CASE p = "remove" -> "removes"
    [] p \in {"update", "clear", "readd"} -> "replaces"
    [] p = "add" -> "adds"

\* The first group after g that has operations, or the next chunk.
EnterAfter(g, chunk) ==
  LET left == {i \in DOMAIN Later(g) : GroupOf(chunk, Later(g)[i]) # {}}
  IN IF left = {}
     THEN pc' = "chunk" /\ phase' = "none" /\ work' = {}
     ELSE LET next == Later(g)[CHOOSE i \in left : \A j \in left : i <= j]
          IN pc' = "call" /\ phase' = FirstPhase(next) /\ work' = GroupOf(chunk, next)

TakeChunk ==
  /\ pc = "chunk"
  /\ IF plan.todo = {}
     THEN pc' = "moves" /\ UNCHANGED <<phase, work, plan>>
     ELSE \E chunk \in FirstChunks(plan.todo, ChunkSize) :
            /\ plan' = [plan EXCEPT !.todo = @ \ chunk, !.chunk = chunk]
            /\ EnterAfter("none", chunk)
  /\ UNCHANGED <<world, store, current, scope, seen, protected, pending, budget>>

\* checkSuperseded at the end of a group: a superseded run takes no more
\* operations, and goes on to its mapping updates.
LeaveGroup ==
  IF current
  THEN EnterAfter(GroupOfPhase(phase), plan.chunk)
  ELSE pc' = "moves" /\ phase' = "none" /\ work' = {}

\* A failed update falls back to deletion and addition, with no check between.
LeavePhase(rest) ==
  CASE phase = "update" /\ rest # {} -> pc' = "call" /\ phase' = "clear" /\ work' = rest
    [] phase = "clear" /\ rest # {} -> pc' = "call" /\ phase' = "readd" /\ work' = rest
    [] OTHER -> LeaveGroup

\* checkpointRun: nothing is flushed when nothing changed.
Checkpoint(changes, rest) ==
  IF IsEmpty(changes)
  THEN LeavePhase(rest) /\ pending' = NoChanges
  ELSE pc' = "flush" /\ work' = rest /\ pending' = changes /\ UNCHANGED phase

Faulty(result) == Cardinality({op \in DOMAIN result : result[op] # "ok"})
\* The results of one call, within the bound on faults.
Results(ops, outcomes) ==
  {result \in [ops -> outcomes] : faults + Faulty(result) <= MaxFaults}
Took(ops, result) == {op \in ops : result[op] \in {"ok", "lost"}}
Done(ops, result) == {op \in ops : result[op] = "ok"}

WithoutAddressed(ops) == remote \ UNION {AddressedBy(op.del) : op \in ops}
\* Writing the copies of ops, over the ones the provider recognises.
Written(ops) ==
  (remote \ UNION {CopiesOf(op.event) : op \in ops})
    \cup {WrittenCopy(op.event, op.slot, op.body) : op \in ops}

\* Mutant: every removal is carried out.
ActionableAll(removes) == removes

\* executeRemoves: a uid pushed or updated earlier in the run is left alone.
Actionable(removes) == {op \in removes : op.uid \notin protected}

\* Mutant: an orphan is taken for a row.
processDeleteResultsOfAll(done) == [NoChanges EXCEPT !.deletes = {op.row : op \in done}]

\* The copies of an orphan have no row to delete.
processDeleteResults(done) ==
  [NoChanges EXCEPT !.deletes = {op.row : op \in done} \ {NoEvent}]

RemoveCall ==
  /\ pc = "call" /\ phase = "remove"
  /\ LET actionable == Actionable(work)
     IN \E result \in Results(actionable, {"ok", "failed", "lost"}) :
          /\ remote' = WithoutAddressed(Took(actionable, result))
          /\ faults' = faults + Faulty(result)
          /\ Checkpoint(processDeleteResults(Done(actionable, result)), {})
  /\ UNCHANGED <<world, rows, current, scope, seen, plan, protected, edits>>

processUpdateResults(done) ==
  [NoChanges EXCEPT !.updates = {MoveOf(op.row, op.event, op, op.del) : op \in done}]

\* updateEvents of CalDAV, in place.
UpdateCall ==
  /\ pc = "call" /\ phase = "update"
  /\ LET matching == {op \in work : UpdateTargetMatches(op)}
     IN \E result \in Results(matching, {"ok", "failed", "lost"}) :
          LET done == Done(matching, result)
          IN /\ remote' = Written(Took(matching, result))
             /\ faults' = faults + Faulty(result)
             /\ protected' = protected \cup {op.uid : op \in done}
             /\ Checkpoint(processUpdateResults(done), work \ done)
  /\ UNCHANGED <<world, rows, current, scope, seen, plan, edits>>

\* The deletions of replaceViaDeleteThenAdd: the rows are kept, and only what
\* was deleted is pushed again.
ClearCall ==
  /\ pc = "call" /\ phase = "clear"
  /\ \E result \in Results(work, {"ok", "failed", "lost"}) :
       /\ remote' = WithoutAddressed(Took(work, result))
       /\ faults' = faults + Faulty(result)
       /\ LeavePhase(Done(work, result))
  /\ UNCHANGED <<world, rows, current, scope, seen, plan, protected, pending, edits>>

PushedRow(op) ==
  LET copy == WrittenCopy(op.event, op.slot, op.body)
  IN [uid |-> copy.uid, del |-> PushedDeleteId(copy), slot |-> op.slot,
      body |-> op.body, owned |-> TRUE]

InsertsOf(done) ==
  [e \in {op.event : op \in done} |-> PushedRow(CHOOSE op \in done : op.event = e)]

\* A pushed event is recorded in place of the row it replaces; a skipped one
\* has no copy, and loses its row.
processAddResults(done, skipped) ==
  [deletes |-> {op.row : op \in done \cup skipped} \ {NoEvent},
   inserts |-> InsertsOf(done), updates |-> {}]

\* "torn": the conflict recovery of CalDAV deleted the old object, which had
\* other content, and failed to create the new one.
PushOutcomes == {"ok", "failed", "lost"} \cup (IF Provider = "caldav" THEN {"torn"} ELSE {})

\* executeAddRun: pushEvents and processAddResults.
PushCall ==
  /\ pc = "call" /\ phase \in {"readd", "add"}
  /\ LET sent == {op \in work : op.body \notin Unpushable}
         skipped == work \ sent
     IN \E result \in Results(sent, PushOutcomes) :
          LET done == Done(sent, result)
              torn == {op \in sent : result[op] = "torn"}
          IN /\ \A op \in torn : \E c \in CopiesOf(op.event) :
                                  c.slot # op.slot \/ c.body # op.body
             /\ remote' = Written(Took(sent, result)) \ UNION {CopiesOf(op.event) : op \in torn}
             /\ faults' = faults + Faulty(result)
             /\ protected' = protected \cup {PushedRow(op).uid : op \in done}
             /\ Checkpoint(processAddResults(done, skipped), {})
  /\ UNCHANGED <<world, rows, current, scope, seen, plan, edits>>

-----------------------------------------------------------------------------
(* The run: checkpoints and end *)

Flush ==
  /\ pc = "flush"
  /\ rows' = Flushed(pending)
  /\ pending' = NoChanges
  /\ LeavePhase(work)
  /\ UNCHANGED <<world, remote, current, scope, seen, plan, protected, budget>>

\* The transaction throws, committed or not; copies it would have recorded
\* are deleted again and the run ends with the error.
FlushFails ==
  /\ pc = "flush"
  /\ faults < MaxFaults /\ faults' = faults + 1
  /\ rows' \in {rows, Flushed(pending)}
  /\ IF DOMAIN pending.inserts = {}
     THEN EndRun
     ELSE /\ pc' = "unrecorded"
          /\ UNCHANGED <<phase, work, current, memory>>
  /\ UNCHANGED <<world, remote, edits>>

deleteUnrecordedCopies ==
  /\ pc = "unrecorded"
  /\ \E result \in Results(DOMAIN pending.inserts, {"ok", "failed", "lost"}) :
       /\ remote' = remote \ UNION {AddressedBy(pending.inserts[e].del) :
                                      e \in Took(DOMAIN pending.inserts, result)}
       /\ faults' = faults + Faulty(result)
  /\ EndRun
  /\ UNCHANGED <<world, rows, edits>>

\* The mapping updates of the plan are flushed last, by a superseded run too.
FinishRun ==
  /\ pc = "moves"
  /\ LET changes == [NoChanges EXCEPT !.updates = plan.moves]
     IN \/ /\ rows' = Flushed(changes)
           /\ UNCHANGED faults
        \/ /\ plan.moves # {}
           /\ faults < MaxFaults
           /\ faults' = faults + 1
           /\ UNCHANGED rows
  /\ EndRun
  /\ UNCHANGED <<world, remote, edits>>

\* The worker dies, or a read or a call of the provider throws.
Crash ==
  /\ pc # "idle"
  /\ faults < MaxFaults /\ faults' = faults + 1
  /\ EndRun
  /\ UNCHANGED <<world, store, edits>>

RunStep ==
  \/ StartRun \/ ReadLocal \/ ReadRemoteAndPlan \/ TakeChunk
  \/ RemoveCall \/ UpdateCall \/ ClearCall \/ PushCall
  \/ Flush \/ FlushFails \/ deleteUnrecordedCopies \/ FinishRun

-----------------------------------------------------------------------------
(* What happens around the run *)

Edit == edits < MaxEdits /\ edits' = edits + 1
RunIdles == UNCHANGED <<control, memory, faults>>

EditEvent(o) ==
  /\ Edit
  /\ source[o] # Deleted
  /\ \E st \in EventStates \ {source[o]} : source' = [source EXCEPT ![o] = st]
  /\ withheld' = withheld \ {o}
  /\ RunIdles /\ UNCHANGED <<coverage, configured, requested, store, current>>

\* The foreign key sets the eventStateId of its mappings to null.
DeleteEvent(o) ==
  /\ Edit
  /\ source[o] # Deleted
  /\ source' = [source EXCEPT ![o] = Deleted]
  /\ withheld' = withheld \ {o}
  /\ rows' = [m \in DOMAIN rows |->
                IF OwnerOf(m) = o THEN [rows[m] EXCEPT !.owned = FALSE] ELSE rows[m]]
  /\ RunIdles /\ UNCHANGED <<coverage, configured, requested, remote, current>>

\* A series outgrows the occurrence budget.
WithholdSeries(o) ==
  /\ Edit
  /\ source[o].start # 0 /\ o \notin withheld
  /\ withheld' = withheld \cup {o}
  /\ RunIdles /\ UNCHANGED <<source, coverage, configured, requested, store, current>>

\* An ingestion records a narrower window, or none.
NarrowCoverage(s) ==
  /\ Edit
  /\ \E w \in Windows : w # coverage[s] /\ w \subseteq coverage[s]
                        /\ coverage' = [coverage EXCEPT ![s] = w]
  /\ RunIdles /\ UNCHANGED <<source, withheld, configured, requested, store, current>>

\* An ingestion records the whole range again.
RestoreCoverage(s) ==
  /\ coverage[s] # Slots
  /\ coverage' = [coverage EXCEPT ![s] = Slots]
  /\ RunIdles /\ UNCHANGED <<source, withheld, configured, requested, store, current, edits>>

\* Mapping mutations preempt the run's lock.
ChangeSources ==
  /\ Edit
  /\ configured' \in SUBSET Sources \ {configured}
  /\ current' = (pc = "idle")
  /\ RunIdles /\ UNCHANGED <<source, withheld, coverage, requested, store>>

\* Time passes, or the user changes a range.
ChangeWindow ==
  /\ Edit
  /\ requested' \in Windows \ {{}, requested}
  /\ RunIdles /\ UNCHANGED <<source, withheld, coverage, configured, store, current>>

\* The user changes, moves or deletes a copy on the destination calendar.
TamperCopy ==
  /\ Edit
  /\ \E c \in remote :
       /\ c.keeper
       /\ \/ remote' = remote \ {c}
          \/ \E s \in Slots, b \in Bodies :
               remote' = (remote \ {c}) \cup {[c EXCEPT !.slot = s, !.body = b]}
  /\ RunIdles /\ UNCHANGED <<world, rows, current>>

\* Another request takes the lock, or the deadline passes.
Supersede ==
  /\ Edit
  /\ pc # "idle" /\ current
  /\ current' = FALSE
  /\ RunIdles /\ UNCHANGED <<world, store>>

Environment ==
  \/ \E o \in Owners : EditEvent(o) \/ DeleteEvent(o) \/ WithholdSeries(o)
  \/ \E s \in Sources : NarrowCoverage(s) \/ RestoreCoverage(s)
  \/ ChangeSources \/ ChangeWindow \/ TamperCopy \/ Supersede \/ Crash

Init ==
  /\ source \in [Owners -> EventStates]
  /\ withheld = {}
  /\ coverage = [s \in Sources |-> Slots]
  /\ configured = Sources
  /\ requested = Slots
  /\ rows = NoRows
  /\ remote = {ForeignCopy}
  /\ pc = "idle" /\ phase = "none" /\ work = {}
  /\ current = TRUE
  /\ scope = NoScope /\ seen = NotSeen /\ plan = NoPlan
  /\ protected = {} /\ pending = NoChanges
  /\ edits = 0 /\ faults = 0

Next == RunStep \/ Environment

Spec == Init /\ [][Next]_vars

\* The worker keeps running jobs for the destination, and the ingestion of a
\* source comes round again.
FairSpec ==
  /\ Spec
  /\ WF_vars(RunStep)
  /\ \A s \in Sources : WF_vars(RestoreCoverage(s))

-----------------------------------------------------------------------------
(* Properties *)

Refs == ({NoEvent} \cup EventIds) \X Nat
DeleteIds == [form : {"uid", "id"}, ref : Refs]
RowType == [uid : Refs, del : DeleteIds, slot : Slots, body : Bodies, owned : BOOLEAN]
CopyType == [uid : Refs, id : Refs, slot : Slots, body : Bodies, keeper : BOOLEAN]
OpType == [type : {"add", "replace", "remove"}, row : EventIds \cup {NoEvent},
           event : EventIds \cup {NoEvent}, slot : Slots, body : Bodies \cup {0},
           uid : Refs, del : DeleteIds]
MoveType == [row : EventIds, event : EventIds, del : DeleteIds, slot : Slots, body : Bodies]
IsRows(f) == DOMAIN f \subseteq EventIds /\ \A m \in DOMAIN f : f[m] \in RowType

\* Every variable holds a value of its kind: the mapping table is a partial
\* function from sync event ids to rows, every delete identifier a reference,
\* and the run is at one of its program points.
TypeOK ==
  /\ \A o \in Owners : source[o] \in EventStates \cup {Deleted}
  /\ withheld \subseteq Owners
  /\ \A s \in Sources : coverage[s] \subseteq Slots
  /\ configured \subseteq Sources
  /\ requested \subseteq Slots
  /\ IsRows(rows)
  /\ remote \subseteq CopyType \cup {ForeignCopy}
  /\ pc \in {"idle", "started", "read", "chunk", "call", "flush", "unrecorded", "moves"}
  /\ phase \in {"none", "remove", "update", "clear", "readd", "add"}
  /\ pc \in {"call", "flush", "unrecorded"} <=> phase # "none"
  /\ current \in BOOLEAN
  /\ IsRows(seen.rows)
  /\ plan.todo \cup plan.chunk \cup work \subseteq OpType
  /\ plan.moves \cup pending.updates \subseteq MoveType
  /\ IsRows(pending.inserts)
  /\ pending.deletes \subseteq EventIds
  /\ edits \in 0..MaxEdits /\ faults \in 0..MaxFaults

\* No run ever touches an event of the user's own on the destination calendar:
\* what buildRemoveOperations and the mappings address is always a copy that
\* Keeper made.
ForeignKept == ForeignCopy \in remote

RecordedBy(m, c) == c \in MatchOf(rows[m], remote)

\* Without failed calls, flushes or crashes, every copy on the destination is
\* recorded in event_mappings whenever no run is under way, however sources,
\* windows, mappings and the copies themselves change during the runs and
\* wherever runs are superseded.
EveryCopyRecorded ==
  pc = "idle" /\ faults = 0 =>
    \A c \in remote : c.keeper => \E m \in DOMAIN rows : RecordedBy(m, c)

\* No mapping update gives a row an event that another row is for: the unique
\* index on (calendarId, syncEventId) would refuse the transaction, and with it
\* every later run that plans the same update.
UpdatesNeverCollide ==
  /\ pc = "flush" => ~ViolatesIndex(pending)
  /\ pc = "moves" => ~ViolatesIndex([NoChanges EXCEPT !.updates = plan.moves])

\* The removals of a run never delete a copy whose uid it has pushed or updated
\* before, in whichever chunk they come: executeRemoves asks protectedRemoteUids.
\* The deletions of replaceViaDeleteThenAdd do not ask it.
PushedCopyKept ==
  edits' = edits /\ pc = "call" /\ phase = "remove" =>
    \A c \in remote : c.uid \in protected => c \in remote'

\* A recorded copy that a run deletes for good is one that some row gives up: the
\* row has left the requested window, or a verified read of its source did not
\* have its event and the event is not merely withheld.
RetiresOnlyWhatIsGone ==
  edits' = edits /\ pc = "call" /\ phase = "remove" =>
    \A c \in remote \ remote' :
      (\E m \in DOMAIN rows : RecordedBy(m, c)) =>
         \E m \in DOMAIN rows :
           /\ RecordedBy(m, c)
           /\ \/ rows[m].slot \notin scope.requested
              \/ /\ InsideAuthority(scope, m, rows[m].slot)
                 /\ ~(rows[m].owned /\ OwnerOf(m) \in scope.withheld)
                 /\ m \notin DOMAIN Authoritative(seen.events, scope)

\* The removals of a run delete only what they may: no copy that the run itself
\* has pushed, and a recorded copy only on the word of a source that speaks for
\* it.
DeletesOnlyWhatItMay == [][PushedCopyKept /\ RetiresOnlyWhatIsGone]_vars

\* What the destination should show.
Wanted ==
  LET all == EventsOfOwners({o \in Owners \ withheld : SourceOf[o] \in configured})
  IN [e \in {x \in DOMAIN all :
                all[x].slot \in requested /\ all[x].body \notin Unpushable} |-> all[e]]

Mirrored ==
  /\ ForeignKept
  /\ \A e \in DOMAIN Wanted :
       /\ e \in DOMAIN rows
       /\ \E c \in remote : /\ RecordedBy(e, c)
                            /\ c.slot = Wanted[e].slot /\ c.body = Wanted[e].body
  /\ \A m \in DOMAIN rows : m \in DOMAIN Wanted \/ OwnerOf(m) \in withheld
  /\ \A m, k \in DOMAIN rows : m # k => rows[m].uid # rows[k].uid

\* "recovers from a lost mapping write without leaving a duplicate mirror
\* behind" (packages/calendar/tests/core/sync-engine/
\* degenerate-range-resilience.test.ts:220): in the end every Keeper copy on the
\* destination is the one of some mapping.
NoDuplicateLeft ==
  <>[](\A c \in remote : c.keeper => \E m \in DOMAIN rows : RecordedBy(m, c))
=============================================================================
