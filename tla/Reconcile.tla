------------------------------ MODULE Reconcile ------------------------------
(***************************************************************************)
(* What one reconciliation of a destination calendar decides to do         *)
(* (packages/calendar/src/core/sync/operations.ts): the pure function from *)
(* the local events, the event mappings, the remote copies and the scope   *)
(* of the run to remote operations and mapping updates.                    *)
(*                                                                         *)
(* Time is a row of slots and a window is a set of consecutive slots.  The *)
(* id of a synced event is <<o, 0, 0>> for a single event, whose id is its *)
(* event state's, and <<o, g, s>> for the occurrence in slot s of a series *)
(* that starts in slot g: the id of an occurrence is derived from the      *)
(* start of its master and its own start, so a moved master renames every  *)
(* occurrence.  A mapping row is named by the event it is for, which the   *)
(* unique index on (calendarId, syncEventId) justifies.  The content of an *)
(* event is one value; the stored hash of a row is its slot and content.   *)
(***************************************************************************)
EXTENDS Integers, FiniteSets

CONSTANTS
  Owners,     \* event states, positive numbers
  Sources,    \* source calendars
  SourceOf,   \* SourceOf[o]: the calendar event state o belongs to
  LastSlot,
  Bodies      \* contents an event may have, positive numbers

ASSUME ReconcileAssumption ==
  /\ Owners \subseteq Nat \ {0} /\ IsFiniteSet(Owners)
  /\ SourceOf \in [Owners -> Sources]
  /\ LastSlot \in Nat \ {0}
  /\ Bodies \subseteq Nat \ {0}

Single(o) == <<o, 0, 0>>
NoEvent == <<0, 0, 0>>
OwnerOf(e) == e[1]
SourceOfEvent(e) == SourceOf[OwnerOf(e)]

\* A uid or provider id is an event and a number; a delete identifier is one
\* or the other, as the bare uid and the object path of CalDAV are.
NoRef == <<NoEvent, 0>>
ByUid(ref) == [form |-> "uid", ref |-> ref]
ById(ref) == [form |-> "id", ref |-> ref]

-----------------------------------------------------------------------------
(* Authority *)

SourceWindow(scope, e) ==
  IF SourceOfEvent(e) \in scope.configured
  THEN scope.windows[SourceOfEvent(e)]
  ELSE scope.requested

InsideAuthority(scope, e, slot) == slot \in SourceWindow(scope, e)

\* createAggregateAuthorityWindow: every mapped source must speak for a slot.
AggregateWindow(scope) ==
  {s \in scope.requested :
     /\ scope.configured # {}
     /\ \A src \in scope.configured : s \in scope.windows[src]}

-----------------------------------------------------------------------------
(* Matching rows with remote copies; the result has at most one copy *)

ExactMatch(row, copies) ==
  {c \in copies : c.uid = row.uid /\ row.del = ById(c.id)}
SameUid(row, copies) == {c \in copies : c.uid = row.uid}
MatchOf(row, copies) ==
  IF ExactMatch(row, copies) # {} THEN ExactMatch(row, copies)
  ELSE IF row.del = ByUid(row.uid) /\ Cardinality(SameUid(row, copies)) = 1
       THEN SameUid(row, copies)
       ELSE {}

\* resolveMappingDeleteId
RowDeleteId(row, copies) ==
  IF MatchOf(row, copies) = {} THEN row.del
  ELSE ById((CHOOSE c \in MatchOf(row, copies) : TRUE).id)

-----------------------------------------------------------------------------
(* Occurrences that changed their id: pairReidentifiedMaterializedOccurrences *)

\* Mutant: an event that has a row already is paired again.
EventsOfOwner(events, rows, o) == {e \in DOMAIN events : OwnerOf(e) = o}

NewEvents(events, rows, o) ==
  {e \in DOMAIN events : OwnerOf(e) = o /\ e \notin DOMAIN rows}
LostRows(events, rows, scope, o) ==
  {m \in DOMAIN rows :
     /\ OwnerOf(m) = o
     /\ rows[m].owned
     /\ m \notin DOMAIN events
     /\ InsideAuthority(scope, m, rows[m].slot)}

EventBefore(events, a, b) ==
  \/ events[a].slot < events[b].slot
  \/ events[a].slot = events[b].slot /\ a[2] * (LastSlot + 1) + a[3]
                                          < b[2] * (LastSlot + 1) + b[3]
RowBefore(rows, a, b) == EventBefore(rows, a, b)

SlotPairs(events, rows, new, lost) ==
  {p \in new \X lost :
     /\ events[p[1]].slot = rows[p[2]].slot
     /\ \A k \in lost : rows[k].slot = rows[p[2]].slot => ~RowBefore(rows, k, p[2])
     /\ \A f \in new : events[f].slot = events[p[1]].slot => ~EventBefore(events, f, p[1])}

OrderPairs(events, rows, new, lost) ==
  {p \in new \X lost :
     Cardinality({f \in new : EventBefore(events, f, p[1])})
       = Cardinality({k \in lost : RowBefore(rows, k, p[2])})}

OwnerPairs(events, rows, new, lost) ==
  LET bySlot == SlotPairs(events, rows, new, lost)
  IN bySlot \cup OrderPairs(events, rows, new \ {p[1] : p \in bySlot},
                                          lost \ {p[2] : p \in bySlot})

Reassignments(events, rows, scope) ==
  UNION {OwnerPairs(events, rows, NewEvents(events, rows, o),
                                  LostRows(events, rows, scope, o)) : o \in Owners}

-----------------------------------------------------------------------------
(* Drift of a mapped event *)

RemoteStateChanged(row, event, copy) ==
  copy.body # event.body \/ copy.slot # row.slot
LocalHashChanged(row, event) ==
  row.slot # event.slot \/ row.body # event.body

\* scope.listed: the read paged the window; otherwise it looked up scope.covered.
ReadCovers(scope, m) == scope.listed \/ m \in scope.covered

\* Mutant: a copy that is missing from a covering read is not replaced.
IsStaleWhenFound(events, rows, copies, scope, m) ==
  /\ m \in DOMAIN events
  /\ \E c \in MatchOf(rows[m], copies) :
       LocalHashChanged(rows[m], events[m]) \/ RemoteStateChanged(rows[m], events[m], c)

\* Mutant: an occurrence that was read by its id is compared with its master's slot.
IsStaleByMaster(events, rows, copies, scope, m) ==
  /\ m \in DOMAIN events
  /\ \/ MatchOf(rows[m], copies) = {} /\ ReadCovers(scope, m)
     \/ \E c \in MatchOf(rows[m], copies) :
          \/ LocalHashChanged(rows[m], events[m])
          \/ RemoteStateChanged(rows[m], events[m], c)
          \/ ~scope.listed /\ m[2] # 0 /\ c.slot # m[2]

IsStale(events, rows, copies, scope, m) ==
  /\ m \in DOMAIN events
  /\ \/ MatchOf(rows[m], copies) = {} /\ ReadCovers(scope, m)
     \/ \E c \in MatchOf(rows[m], copies) :
          LocalHashChanged(rows[m], events[m]) \/ RemoteStateChanged(rows[m], events[m], c)

-----------------------------------------------------------------------------
(* The operations *)

AddOp(e, event) ==
  [type |-> "add", row |-> NoEvent, event |-> e, slot |-> event.slot,
   body |-> event.body, uid |-> NoRef, del |-> ById(NoRef)]
ReplaceOp(m, row, e, event, copies) ==
  [type |-> "replace", row |-> m, event |-> e, slot |-> event.slot,
   body |-> event.body, uid |-> row.uid, del |-> RowDeleteId(row, copies)]
RemoveRowOp(m, row, copies) ==
  [type |-> "remove", row |-> m, event |-> NoEvent, slot |-> row.slot,
   body |-> 0, uid |-> row.uid, del |-> RowDeleteId(row, copies)]
RemoveCopyOp(c) ==
  [type |-> "remove", row |-> NoEvent, event |-> NoEvent, slot |-> c.slot,
   body |-> 0, uid |-> c.uid, del |-> ById(c.id)]

\* A row the window no longer covers, or whose event an authoritative read
\* does not have; a series withheld for its size is not gone.
IsRetired(events, rows, scope, m) ==
  \/ rows[m].slot \notin scope.requested
  \/ /\ InsideAuthority(scope, m, rows[m].slot)
     /\ ~(rows[m].owned /\ OwnerOf(m) \in scope.withheld)
     /\ m \notin DOMAIN events

\* A Keeper copy no row accounts for; only a listing shows that it is one.
IsOrphan(rows, copies, scope, c) ==
  /\ \A m \in DOMAIN rows : c \notin MatchOf(rows[m], copies)
  /\ c.keeper
  /\ scope.listed
  /\ c.slot \in AggregateWindow(scope)

\* A mapping update rewrites row m for event e and leaves its uid alone.
MoveOf(m, e, event, del) ==
  [row |-> m, event |-> e, del |-> del, slot |-> event.slot, body |-> event.body]

Authoritative(events, scope) ==
  [e \in {x \in DOMAIN events : InsideAuthority(scope, x, events[x].slot)} |-> events[e]]

\* A reassignment the database alone can carry out: the copy is as it should be.
DatabaseOnly(events, rows, copies, p) ==
  /\ rows[p[2]].slot = events[p[1]].slot
  /\ \E c \in MatchOf(rows[p[2]], copies) :
       ~RemoteStateChanged(rows[p[2]], events[p[1]], c)

computeSyncOperations(localEvents, rows, copies, scope) ==
  LET events == Authoritative(localEvents, scope)
      pairs == Reassignments(events, rows, scope)
      moved == {p \in pairs : DatabaseOnly(events, rows, copies, p)}
      reassigned == {p[2] : p \in pairs}
      standard == {m \in DOMAIN rows \ reassigned :
                     InsideAuthority(scope, m, rows[m].slot)}
      stale == {m \in standard : IsStale(events, rows, copies, scope, m)}
      adds == {e \in DOMAIN events \ DOMAIN rows : \A p \in pairs : p[1] # e}
      relabelled ==
        {m \in standard \ stale :
           /\ m \in DOMAIN events
           /\ rows[m].del = ByUid(rows[m].uid)
           /\ MatchOf(rows[m], copies) # {}}
  IN [operations |->
        {AddOp(e, events[e]) : e \in adds}
        \cup {ReplaceOp(m, rows[m], m, events[m], copies) : m \in stale}
        \cup {ReplaceOp(p[2], rows[p[2]], p[1], events[p[1]], copies) : p \in pairs \ moved}
        \cup {RemoveRowOp(m, rows[m], copies) :
                m \in {k \in DOMAIN rows \ reassigned : IsRetired(events, rows, scope, k)}}
        \cup {RemoveCopyOp(c) : c \in {d \in copies : IsOrphan(rows, copies, scope, d)}},
      moves |->
        {MoveOf(m, m, events[m], RowDeleteId(rows[m], copies)) : m \in relabelled}
        \cup {MoveOf(p[2], p[1], events[p[1]], RowDeleteId(rows[p[2]], copies)) : p \in moved}]

\* sortOperationsByTime: by time, removals first; ties in any order.
Precedes(a, b) ==
  \/ a.slot < b.slot
  \/ a.slot = b.slot /\ a.type = "remove" /\ b.type # "remove"

\* chunkOperations: the first `size` operations of the sorted list.
FirstChunks(operations, size) ==
  {chunk \in SUBSET operations :
     /\ Cardinality(chunk) = IF Cardinality(operations) < size
                             THEN Cardinality(operations) ELSE size
     /\ \A a \in chunk, b \in operations \ chunk : ~Precedes(b, a)}
=============================================================================
