------------------------ MODULE DestinationSyncProofs ------------------------
(***************************************************************************)
(* The safety of DestinationSync for every set of sources, events and      *)
(* contents, every provider and any bounds: what the variables hold, that  *)
(* a run never reaches for an event of the user's own, that no mapping     *)
(* update meets the unique index, that a removal takes only what it may,   *)
(* and that without failures every copy is recorded.                       *)
(***************************************************************************)
EXTENDS DestinationSync, FiniteSetTheorems, WellFoundedInduction, TLAPS

-----------------------------------------------------------------------------
(* Types, sharper than TypeOK: what Keeper refers to is an event, and so    *)
(* never the user's own one.                                                *)

OurRefs == EventIds \X Nat
OurIds == [form : {"uid", "id"}, ref : OurRefs]
OurRows == [uid : OurRefs, del : OurIds, slot : Slots, body : Bodies, owned : BOOLEAN]
OurCopies == [uid : OurRefs, id : OurRefs, slot : Slots, body : Bodies, keeper : {TRUE}]
Table(f, S) == DOMAIN f \subseteq EventIds /\ \A m \in DOMAIN f : f[m] \in S

Adds == [type : {"add"}, row : {NoEvent}, event : EventIds, slot : Slots, body : Bodies,
         uid : {NoRef}, del : {ById(NoRef)}]
Replacements == [type : {"replace"}, row : EventIds, event : EventIds, slot : Slots,
                 body : Bodies, uid : OurRefs, del : OurIds]
Removals == [type : {"remove"}, row : EventIds \cup {NoEvent}, event : {NoEvent},
             slot : Slots, body : {0}, uid : OurRefs, del : OurIds]
Operations == Adds \cup Replacements \cup Removals
Moves == [row : EventIds, event : EventIds, del : OurIds, slot : Slots, body : Bodies]

Plans == [todo : SUBSET Operations, chunk : SUBSET Operations, moves : SUBSET Moves]
Scopes == [requested : SUBSET Slots, configured : SUBSET Sources,
           windows : [Sources -> SUBSET Slots], withheld : SUBSET Owners,
           listed : BOOLEAN, covered : SUBSET EventIds]
EventRecords == [slot : Slots, body : Bodies]

\* The operations of the group a phase belongs to.
KindOf(p) ==
  CASE p = "remove" -> Removals
    [] p \in {"update", "clear", "readd"} -> Replacements
    [] p = "add" -> Adds
    [] OTHER -> {}

WorldTyped ==
  /\ source \in [Owners -> EventStates \cup {Deleted}]
  /\ withheld \subseteq Owners
  /\ coverage \in [Sources -> SUBSET Slots]
  /\ configured \subseteq Sources
  /\ requested \subseteq Slots
RowsTyped == Table(rows, OurRows)
\* The calendar: the user's own event, and copies that Keeper made.
RemoteTyped ==
  /\ ForeignCopy \in remote
  /\ remote \subseteq OurCopies \cup {ForeignCopy}
  /\ IsFiniteSet(remote)
ControlTyped ==
  /\ pc \in {"idle", "started", "read", "chunk", "call", "flush", "unrecorded", "moves"}
  /\ phase \in {"none", "remove", "update", "clear", "readd", "add"}
  /\ pc \in {"call", "flush", "unrecorded"} <=> phase # "none"
  /\ work \subseteq plan.chunk \cap KindOf(phase)
  /\ current \in BOOLEAN
SeenTyped ==
  /\ scope \in Scopes
  /\ Table(seen.events, EventRecords) /\ Table(seen.rows, OurRows)
  /\ pc = "read" => DOMAIN seen.rows = DOMAIN rows
PlanTyped ==
  /\ plan \in Plans
  /\ IsFiniteSet(plan.todo) /\ IsFiniteSet(plan.chunk)
  /\ plan.todo \cap plan.chunk = {}
PendingTyped ==
  /\ pending.deletes \subseteq EventIds
  /\ Table(pending.inserts, OurRows)
  /\ pending.updates \subseteq Moves
BudgetTyped == edits \in 0..MaxEdits /\ faults \in 0..MaxFaults

Sharp == /\ WorldTyped /\ RowsTyped /\ RemoteTyped /\ ControlTyped /\ SeenTyped
         /\ PlanTyped /\ PendingTyped /\ BudgetTyped

-----------------------------------------------------------------------------
(* Writes of a run, by the event they are for.                              *)

\* The operations of the chunk that come after the phase, and all that are left.
Ahead(p, chunk) ==
  CASE p = "remove" -> chunk \ Removals
    [] p \in {"update", "clear", "readd"} -> chunk \cap Adds
    [] OTHER -> {}
Left == plan.todo \cup work \cup Ahead(phase, plan.chunk)

\* A write of u for an event needs that event to be without a row, or to have the one
\* that is written.
Fits(u) == u.event \in DOMAIN rows => u.event = u.row

EventsIn(changes) == DOMAIN changes.inserts \cup {u.event : u \in changes.updates}

\* Every event is written at most once in a run, by an operation or by an update, and
\* whatever is still to be written for an event does not find another row there.
WritesAreApart ==
  /\ \A a, b \in Left \ Removals : a.event = b.event => a = b
  /\ \A a \in Left \ Removals, u \in plan.moves : a.event # u.event
  /\ \A u, v \in plan.moves : u.event = v.event => u = v
  /\ \A a \in Left \cap Replacements : Fits(a)
  /\ \A u \in plan.moves : Fits(u)

\* What a transaction is about to record is written for no event a second time.
ChangesApart(changes, left) ==
  /\ \A a \in left \ Removals : a.event \notin EventsIn(changes)
  /\ \A u \in plan.moves : u.event \notin EventsIn(changes)
  /\ \A u, v \in changes.updates : u.event = v.event => u = v
  /\ changes.updates # {} => changes.deletes = {} /\ DOMAIN changes.inserts = {}
PendingIsApart ==
  /\ pc \notin {"flush", "unrecorded"} => pending = NoChanges
  /\ ChangesApart(pending, Left)

SyncInv ==
  /\ Sharp
  /\ PendingIsApart \/ pc = "unrecorded"
  /\ WritesAreApart \/ pc = "unrecorded"
  /\ pc = "flush" => \A u \in pending.updates : Fits(u)

-----------------------------------------------------------------------------
(* Identifiers *)

LEMMA TripleShape ==
  ASSUME NEW A, NEW B, NEW C, NEW e \in A \X B \X C
  PROVE  \E a \in A, b \in B, c \in C : e = <<a, b, c>>
<1>1. e[1] \in A /\ e[2] \in B /\ e[3] \in C /\ e = <<e[1], e[2], e[3]>>
  OBVIOUS
<1> QED
  BY <1>1, Zenon

\* An event id is an owner and two places in the row of slots; none is NoEvent.
LEMMA EventIdShape ==
  \A e \in EventIds : /\ e[1] \in Owners /\ e[1] \in Nat /\ e[1] # 0
                     /\ e[2] \in 0..LastSlot /\ e[3] \in 0..LastSlot
                     /\ e = <<e[1], e[2], e[3]>> /\ e # NoEvent
<1> SUFFICES ASSUME NEW e \in EventIds
             PROVE  /\ e[1] \in Owners /\ e[1] \in Nat /\ e[1] # 0
                    /\ e[2] \in 0..LastSlot /\ e[3] \in 0..LastSlot
                    /\ e = <<e[1], e[2], e[3]>> /\ e # NoEvent
  OBVIOUS
<1>1. CASE \E o \in Owners : e = <<o, 0, 0>>
  BY <1>1, ReconcileAssumption DEF NoEvent
<1>2. CASE e \in Owners \X Slots \X Slots
  <2>1. PICK o \in Owners, a \in Slots, b \in Slots : e = <<o, a, b>>
    BY <1>2, TripleShape
  <2>2. o \in Nat /\ o # 0 /\ a \in 0..LastSlot /\ b \in 0..LastSlot
    BY ReconcileAssumption DEF Slots
  <2> QED
    BY <2>1, <2>2 DEF NoEvent
<1> QED
  BY <1>1, <1>2 DEF EventIds, Single

\* What Keeper refers to is never the user's own event.
LEMMA OurRefShape ==
  /\ \A r \in OurRefs : r # Foreign /\ r \in Refs
  /\ \A d \in OurIds : d.ref # Foreign /\ d \in DeleteIds /\ d.ref \in OurRefs
  /\ \A e \in EventIds, n \in Nat : <<e, n>> \in OurRefs
  /\ \A r \in OurRefs : ByUid(r) \in OurIds /\ ById(r) \in OurIds
  /\ Foreign \in Refs /\ NoRef \in Refs /\ ById(NoRef) \in DeleteIds
<1>1. \A r \in OurRefs : r # Foreign /\ r \in Refs
  BY EventIdShape DEF OurRefs, Foreign, Refs
<1>2. \A d \in OurIds : d.ref \in OurRefs /\ d \in DeleteIds
  BY <1>1 DEF OurIds, DeleteIds
<1> QED
  BY <1>1, <1>2 DEF OurRefs, OurIds, ByUid, ById, DeleteIds, Refs, Foreign, NoRef

\* A function has no more values than arguments.
LEMMA ImageFinite ==
  ASSUME NEW S, IsFiniteSet(S), NEW f, DOMAIN f = S
  PROVE  IsFiniteSet({f[x] : x \in S})
<1> DEFINE T == {f[x] : x \in S}
           g == [x \in S |-> f[x]]
<1>1. g \in Surjection(S, T)
  BY DEF Surjection
<1> QED
  BY <1>1, FS_Surjection

LEMMA EventIdsFinite == IsFiniteSet(EventIds)
<1> DEFINE S == (Owners \X Slots) \X Slots
           f == [x \in S |-> <<x[1][1], x[1][2], x[2]>>]
           g == [o \in Owners |-> Single(o)]
<1>1. IsFiniteSet(Slots) /\ IsFiniteSet(Owners)
  BY FS_Interval, ReconcileAssumption DEF Slots
<1>2. IsFiniteSet(S)
  BY <1>1, FS_Product
<1>3. IsFiniteSet({f[x] : x \in S})
  <2> HIDE DEF S, f
  <2>1. DOMAIN f = S
    BY DEF f
  <2> QED
    BY <1>2, <2>1, ImageFinite
<1>4. IsFiniteSet({g[o] : o \in Owners})
  <2> HIDE DEF g
  <2>1. DOMAIN g = Owners
    BY DEF g
  <2> QED
    BY <1>1, <2>1, ImageFinite
<1>5. {g[o] : o \in Owners} = {Single(o) : o \in Owners}
  OBVIOUS
<1>6. {f[x] : x \in S} = Owners \X Slots \X Slots
  <2>1. ASSUME NEW x \in S PROVE f[x] \in Owners \X Slots \X Slots
    OBVIOUS
  <2>2. ASSUME NEW o \in Owners, NEW a \in Slots, NEW b \in Slots
        PROVE  \E x \in S : f[x] = <<o, a, b>>
    <3>1. <<<<o, a>>, b>> \in S /\ f[<<<<o, a>>, b>>] = <<o, a, b>>
      OBVIOUS
    <3> QED
      BY <3>1, Zenon
  <2>3. \A e \in Owners \X Slots \X Slots :
          \E o \in Owners, a \in Slots, b \in Slots : e = <<o, a, b>>
    BY TripleShape
  <2> HIDE DEF S, f
  <2> QED
    BY <2>1, <2>2, <2>3
<1> QED
  BY <1>3, <1>4, <1>5, <1>6, FS_Union DEF EventIds

LEMMA TableFinite ==
  \A f, S : Table(f, S) => IsFiniteSet(DOMAIN f)
BY EventIdsFinite, FS_Subset DEF Table

LEMMA LeastOfNaturals ==
  ASSUME NEW T \in SUBSET Nat, T # {}
  PROVE  \E i \in T : \A j \in T : i <= j
<1>1. PICK i \in T : \A j \in T : <<j, i>> \notin OpToRel(<, Nat)
  BY NatLessThanWellFounded, WFMin, Zenon
<1>2. \A j \in T : ~(j < i)
  BY <1>1 DEF OpToRel
<1> QED
  BY <1>2

-----------------------------------------------------------------------------
(* Reassignments: an event takes over one row at most                       *)

\* What EventBefore compares after the slots.
Place(e) == e[2] * (LastSlot + 1) + e[3]

LEMMA PlacesApart ==
  /\ \A a \in EventIds : Place(a) \in Nat
  /\ \A a, b \in EventIds : OwnerOf(a) = OwnerOf(b) /\ Place(a) = Place(b) => a = b
<1>1. ASSUME NEW L \in Nat, NEW x \in 0..L, NEW y \in 0..L, NEW u \in 0..L, NEW v \in 0..L,
             x < u
      PROVE  x * (L + 1) + y < u * (L + 1) + v
  <2>1. PICK d \in Nat : u = x + 1 + d
    <3>1. u - x - 1 \in Nat /\ u = x + 1 + (u - x - 1)
      BY <1>1
    <3> QED
      BY <3>1
  <2>2. u * (L + 1) = x * (L + 1) + (L + 1) + d * (L + 1)
    BY <2>1
  <2>3. d * (L + 1) \in Nat /\ x * (L + 1) \in Nat
    BY <2>1
  <2> DEFINE p == d * (L + 1)
             q == x * (L + 1)
             r == u * (L + 1)
  <2>4. p \in Nat /\ q \in Nat /\ r = q + (L + 1) + p
    BY <2>2, <2>3
  <2> HIDE DEF p, q, r
  <2>5. q + y < r + v
    BY <2>4
  <2> QED
    BY <2>5 DEF q, r
<1>2. ASSUME NEW a \in EventIds PROVE Place(a) \in Nat
  BY EventIdShape, ReconcileAssumption DEF Place
<1>3. ASSUME NEW a \in EventIds, NEW b \in EventIds, OwnerOf(a) = OwnerOf(b),
             Place(a) = Place(b)
      PROVE  a = b
  <2>1. /\ a[2] \in 0..LastSlot /\ a[3] \in 0..LastSlot /\ a = <<a[1], a[2], a[3]>>
        /\ b[2] \in 0..LastSlot /\ b[3] \in 0..LastSlot /\ b = <<b[1], b[2], b[3]>>
        /\ LastSlot \in Nat /\ Place(a) \in Nat /\ Place(b) \in Nat
    BY EventIdShape, ReconcileAssumption, <1>2
  <2>2. ~(a[2] < b[2])
    <3>1. a[2] < b[2] => Place(a) < Place(b)
      BY <1>1, <2>1 DEF Place
    <3> QED
      BY <3>1, <1>3, <2>1
  <2>3. ~(b[2] < a[2])
    <3>1. b[2] < a[2] => Place(b) < Place(a)
      BY <1>1, <2>1 DEF Place
    <3> QED
      BY <3>1, <1>3, <2>1
  <2>4. a[2] = b[2]
    BY <2>1, <2>2, <2>3
  <2>5. a[3] = b[3]
    <3> DEFINE q == a[2] * (LastSlot + 1)
    <3>1. q \in Nat /\ q + a[3] = q + b[3]
      BY <1>3, <2>1, <2>4 DEF Place
    <3> HIDE DEF q
    <3> QED
      BY <3>1, <2>1
  <2> QED
    BY <1>3, <2>1, <2>4, <2>5 DEF OwnerOf
<1> QED
  BY <1>2, <1>3

\* The rows of one owner are in a strict order.
LEMMA RowsInOrder ==
  ASSUME NEW rs, NEW lost \in SUBSET EventIds, NEW o,
         \A m \in lost : OwnerOf(m) = o /\ rs[m].slot \in Nat
  PROVE  /\ \A m \in lost : ~RowBefore(rs, m, m)
         /\ \A j, k, m \in lost : RowBefore(rs, j, k) /\ RowBefore(rs, k, m)
                                     => RowBefore(rs, j, m)
         /\ \A k, m \in lost : k # m => RowBefore(rs, k, m) \/ RowBefore(rs, m, k)
<1>1. \A a, b : RowBefore(rs, a, b) <=>
                 (rs[a].slot < rs[b].slot \/ (rs[a].slot = rs[b].slot /\ Place(a) < Place(b)))
  BY Zenon DEF RowBefore, EventBefore, Place
<1>2. \A m \in lost : Place(m) \in Nat
  BY PlacesApart
<1>3. \A k, m \in lost : k # m => Place(k) # Place(m)
  BY PlacesApart
<1>4. ASSUME NEW j \in lost, NEW k \in lost, NEW m \in lost
      PROVE  /\ ~RowBefore(rs, m, m)
             /\ RowBefore(rs, j, k) /\ RowBefore(rs, k, m) => RowBefore(rs, j, m)
             /\ k # m => RowBefore(rs, k, m) \/ RowBefore(rs, m, k)
  <2> DEFINE sj == rs[j].slot
             sk == rs[k].slot
             sm == rs[m].slot
             pj == Place(j)
             pk == Place(k)
             pm == Place(m)
  <2>1. sj \in Nat /\ sk \in Nat /\ sm \in Nat /\ pj \in Nat /\ pk \in Nat /\ pm \in Nat
    BY <1>2
  <2>2. /\ RowBefore(rs, j, k) <=> sj < sk \/ (sj = sk /\ pj < pk)
        /\ RowBefore(rs, k, m) <=> sk < sm \/ (sk = sm /\ pk < pm)
        /\ RowBefore(rs, j, m) <=> sj < sm \/ (sj = sm /\ pj < pm)
        /\ RowBefore(rs, m, k) <=> sm < sk \/ (sm = sk /\ pm < pk)
        /\ RowBefore(rs, m, m) <=> sm < sm \/ (sm = sm /\ pm < pm)
    BY <1>1, Zenon
  <2>3. k # m => pk # pm
    BY <1>3
  <2> HIDE DEF sj, sk, sm, pj, pk, pm
  <2> QED
    BY <2>1, <2>2, <2>3
<1> QED
  BY <1>4

\* How many rows come before.
Rank(rs, lost, m) == Cardinality({j \in lost : RowBefore(rs, j, m)})

\* No two rows of one owner have as many before them.
LEMMA RanksApart ==
  ASSUME NEW rs, NEW lost \in SUBSET EventIds, NEW o,
         \A m \in lost : OwnerOf(m) = o /\ rs[m].slot \in Nat,
         NEW k \in lost, NEW m \in lost, RowBefore(rs, k, m)
  PROVE  Rank(rs, lost, k) # Rank(rs, lost, m)
<1> DEFINE K == {j \in lost : RowBefore(rs, j, k)}
           M == {j \in lost : RowBefore(rs, j, m)}
<1>1. K \in SUBSET M /\ k \in M /\ k \notin K
  BY RowsInOrder
<1>2. IsFiniteSet(M)
  BY EventIdsFinite, FS_Subset
<1> HIDE DEF K, M
<1>3. Cardinality(K) # Cardinality(M)
  BY <1>1, <1>2, FS_Subset
<1> QED
  BY <1>3 DEF K, M, Rank

LEMMA OwnerPairsApart ==
  ASSUME NEW events, NEW rs, NEW new, NEW lost \in SUBSET EventIds, NEW o,
         \A m \in lost : OwnerOf(m) = o /\ rs[m].slot \in Nat
  PROVE  /\ OwnerPairs(events, rs, new, lost) \subseteq new \X lost
         /\ \A p, q \in OwnerPairs(events, rs, new, lost) : p[1] = q[1] => p = q
<1>0. \A k, m \in lost : k # m => RowBefore(rs, k, m) \/ RowBefore(rs, m, k)
  BY RowsInOrder
<1> DEFINE bySlot == SlotPairs(events, rs, new, lost)
           lateNew == new \ {p[1] : p \in bySlot}
           lateLost == lost \ {p[2] : p \in bySlot}
           byOrder == OrderPairs(events, rs, lateNew, lateLost)
<1>1. OwnerPairs(events, rs, new, lost) = bySlot \cup byOrder
  BY DEF OwnerPairs
<1>2. bySlot \subseteq new \X lost /\ byOrder \subseteq lateNew \X lateLost
  BY DEF SlotPairs, OrderPairs
<1>3. ASSUME NEW p \in bySlot, NEW q \in bySlot, p[1] = q[1] PROVE p[2] = q[2]
  <2>1. /\ p[2] \in lost /\ q[2] \in lost
        /\ rs[p[2]].slot = events[p[1]].slot /\ rs[q[2]].slot = events[p[1]].slot
        /\ ~RowBefore(rs, q[2], p[2]) /\ ~RowBefore(rs, p[2], q[2])
    BY <1>2, <1>3 DEF SlotPairs
  <2> QED
    BY <2>1, <1>0
<1>4. ASSUME NEW p \in byOrder, NEW q \in byOrder, p[1] = q[1] PROVE p[2] = q[2]
  <2>1. /\ p[2] \in lateLost /\ q[2] \in lateLost
        /\ Rank(rs, lateLost, p[2]) = Rank(rs, lateLost, q[2])
    BY <1>2, <1>4 DEF OrderPairs, Rank
  <2>2. lateLost \in SUBSET EventIds /\ \A m \in lateLost : OwnerOf(m) = o /\ rs[m].slot \in Nat
    OBVIOUS
  <2> HIDE DEF lateLost
  <2>3. p[2] # q[2] => RowBefore(rs, p[2], q[2]) \/ RowBefore(rs, q[2], p[2])
    BY <2>1, <1>0 DEF lateLost
  <2>4. ASSUME NEW k \in lateLost, NEW m \in lateLost, RowBefore(rs, k, m)
        PROVE  Rank(rs, lateLost, k) # Rank(rs, lateLost, m)
    BY <2>2, <2>4, RanksApart
  <2> QED
    BY <2>1, <2>3, <2>4
<1>5. \A p \in bySlot, q \in byOrder : p[1] # q[1]
  BY <1>2
<1>6. bySlot \cup byOrder \subseteq new \X lost
  BY <1>2
<1>7. ASSUME NEW p \in bySlot \cup byOrder, NEW q \in bySlot \cup byOrder, p[1] = q[1]
      PROVE  p = q
  <2>1. \A x \in new \X lost : x = <<x[1], x[2]>>
    OBVIOUS
  <2>2. p[2] = q[2]
    BY <1>3, <1>4, <1>5, <1>7
  <2> QED
    BY <1>6, <1>7, <2>1, <2>2
<1> HIDE DEF bySlot, byOrder
<1> QED
  BY <1>1, <1>6, <1>7

\* A reassignment gives an event without a row the row of an event that is gone, and
\* no event takes over two rows.
LEMMA PairsApart ==
  ASSUME NEW events, NEW rs, NEW sc, Table(rs, OurRows)
  PROVE  /\ \A p \in Reassignments(events, rs, sc) :
              /\ p[1] \in DOMAIN events \ DOMAIN rs
              /\ p[2] \in DOMAIN rs \ DOMAIN events
              /\ p = <<p[1], p[2]>>
         /\ \A p, q \in Reassignments(events, rs, sc) : p[1] = q[1] => p = q
<1> DEFINE new(o) == NewEvents(events, rs, o)
           lost(o) == LostRows(events, rs, sc, o)
<1>1. ASSUME NEW o
      PROVE  /\ OwnerPairs(events, rs, new(o), lost(o)) \subseteq new(o) \X lost(o)
             /\ \A p, q \in OwnerPairs(events, rs, new(o), lost(o)) : p[1] = q[1] => p = q
  <2>1. lost(o) \in SUBSET EventIds /\ \A m \in lost(o) : OwnerOf(m) = o /\ rs[m].slot \in Nat
    BY DEF LostRows, Table, OurRows, Slots
  <2> HIDE DEF new, lost
  <2> QED
    BY <2>1, OwnerPairsApart
<1>2. ASSUME NEW o, NEW p \in OwnerPairs(events, rs, new(o), lost(o))
      PROVE  /\ p[1] \in DOMAIN events \ DOMAIN rs /\ OwnerOf(p[1]) = o
             /\ p[2] \in DOMAIN rs \ DOMAIN events
             /\ p = <<p[1], p[2]>>
  <2>1. p[1] \in new(o) /\ p[2] \in lost(o) /\ p = <<p[1], p[2]>>
    BY <1>1
  <2> QED
    BY <2>1 DEF NewEvents, LostRows
<1>3. \A p \in Reassignments(events, rs, sc) :
        \E o \in Owners : p \in OwnerPairs(events, rs, new(o), lost(o))
  BY DEF Reassignments
<1> HIDE DEF new, lost
<1> QED
  BY <1>1, <1>2, <1>3

-----------------------------------------------------------------------------
(* The plan                                                                 *)

Copies == OurCopies \cup {ForeignCopy}

\* A copy that matches a row carries its uid, and so is one that Keeper made.
LEMMA RowDeleteIdTyped ==
  ASSUME NEW row \in OurRows, NEW copies \in SUBSET Copies
  PROVE  RowDeleteId(row, copies) \in OurIds
<1>1. row.uid \in OurRefs /\ row.del \in OurIds
  BY DEF OurRows
<1>2. ASSUME NEW c \in copies, c.uid = row.uid PROVE c.id \in OurRefs
  <2>1. c # ForeignCopy
    BY <1>1, <1>2, OurRefShape DEF ForeignCopy
  <2>2. c \in OurCopies
    BY <2>1 DEF Copies
  <2> QED
    BY <2>2 DEF OurCopies
<1>3. \A c \in MatchOf(row, copies) : c \in copies /\ c.uid = row.uid
  BY DEF MatchOf, ExactMatch, SameUid
<1>4. CASE MatchOf(row, copies) = {}
  BY <1>1, <1>4 DEF RowDeleteId
<1>5. CASE MatchOf(row, copies) # {}
  <2> DEFINE c == CHOOSE x \in MatchOf(row, copies) : TRUE
  <2>1. c \in MatchOf(row, copies)
    BY <1>5
  <2>2. RowDeleteId(row, copies) = ById(c.id)
    BY <1>5 DEF RowDeleteId
  <2> HIDE DEF c
  <2> QED
    BY <1>2, <1>3, <2>1, <2>2, OurRefShape
<1> QED
  BY <1>4, <1>5

\* The operations and updates planned, over what the run has read.
PlannedOperations(evs, rs, copies, sc) == computeSyncOperations(evs, rs, copies, sc).operations
PlannedMoves(evs, rs, copies, sc) == computeSyncOperations(evs, rs, copies, sc).moves

PlannedWrites(evs, rs, copies, sc) == PlannedOperations(evs, rs, copies, sc) \ Removals

\* Each kind of operation is of its type, and there are finitely many of them.
LEMMA PlanTypes ==
  ASSUME NEW evs, NEW rs, NEW copies \in SUBSET Copies, NEW sc,
         Table(evs, EventRecords), Table(rs, OurRows), IsFiniteSet(copies)
  PROVE  /\ PlannedOperations(evs, rs, copies, sc) \subseteq Operations
         /\ IsFiniteSet(PlannedOperations(evs, rs, copies, sc))
         /\ PlannedMoves(evs, rs, copies, sc) \subseteq Moves
<1> DEFINE events == Authoritative(evs, sc)
           pairs == Reassignments(events, rs, sc)
           moved == {p \in pairs : DatabaseOnly(events, rs, copies, p)}
           reassigned == {p[2] : p \in pairs}
           standard == {m \in DOMAIN rs \ reassigned : InsideAuthority(sc, m, rs[m].slot)}
           stale == {m \in standard : IsStale(events, rs, copies, sc, m)}
           adds == {e \in DOMAIN events \ DOMAIN rs : \A p \in pairs : p[1] # e}
           relabelled == {m \in standard \ stale : /\ m \in DOMAIN events
                                                  /\ rs[m].del = ByUid(rs[m].uid)
                                                  /\ MatchOf(rs[m], copies) # {}}
           retired == {k \in DOMAIN rs \ reassigned : IsRetired(events, rs, sc, k)}
           orphans == {d \in copies : IsOrphan(rs, copies, sc, d)}
           addOps == [e \in adds |-> AddOp(e, events[e])]
           staleOps == [m \in stale |-> ReplaceOp(m, rs[m], m, events[m], copies)]
           pairOps == [p \in pairs \ moved |-> ReplaceOp(p[2], rs[p[2]], p[1], events[p[1]], copies)]
           retireOps == [m \in retired |-> RemoveRowOp(m, rs[m], copies)]
           orphanOps == [c \in orphans |-> RemoveCopyOp(c)]
<1>1. PlannedOperations(evs, rs, copies, sc)
        = {addOps[e] : e \in adds} \cup {staleOps[m] : m \in stale}
          \cup {pairOps[p] : p \in pairs \ moved} \cup {retireOps[m] : m \in retired}
          \cup {orphanOps[c] : c \in orphans}
  BY DEF PlannedOperations, computeSyncOperations
<1>2. PlannedMoves(evs, rs, copies, sc)
        = {MoveOf(m, m, events[m], RowDeleteId(rs[m], copies)) : m \in relabelled}
          \cup {MoveOf(p[2], p[1], events[p[1]], RowDeleteId(rs[p[2]], copies)) : p \in moved}
  BY DEF PlannedMoves, computeSyncOperations
<1>3. \A e \in DOMAIN events : e \in EventIds /\ events[e].slot \in Slots /\ events[e].body \in Bodies
  BY DEF Authoritative, Table, EventRecords
<1>4. \A m \in DOMAIN rs : /\ m \in EventIds /\ rs[m].uid \in OurRefs /\ rs[m].slot \in Slots
                           /\ RowDeleteId(rs[m], copies) \in OurIds
  BY RowDeleteIdTyped DEF Table, OurRows
<1>5. \A p \in pairs : p[1] \in DOMAIN events /\ p[2] \in DOMAIN rs /\ p = <<p[1], p[2]>>
  BY PairsApart
<1>6. \A c \in orphans : c \in OurCopies
  BY DEF IsOrphan, Copies, ForeignCopy
<1>7. /\ \A m \in stale : m \in DOMAIN events /\ m \in DOMAIN rs
      /\ \A m \in relabelled : m \in DOMAIN events /\ m \in DOMAIN rs
      /\ \A e \in adds : e \in DOMAIN events
      /\ \A m \in retired : m \in DOMAIN rs
      /\ moved \subseteq pairs
  BY DEF IsStale
<1> HIDE DEF events, pairs, moved, reassigned, standard, stale, adds, relabelled, retired, orphans
<1>8. \A e \in adds : addOps[e] \in Adds
  BY <1>3, <1>7 DEF AddOp, Adds
<1>9. \A m \in stale : staleOps[m] \in Replacements
  BY <1>3, <1>4, <1>7 DEF ReplaceOp, Replacements
<1>10. \A p \in pairs \ moved : pairOps[p] \in Replacements
  BY <1>3, <1>4, <1>5 DEF ReplaceOp, Replacements
<1>11. \A m \in retired : retireOps[m] \in Removals
  BY <1>4, <1>7 DEF RemoveRowOp, Removals
<1>12. \A c \in orphans : orphanOps[c] \in Removals
  BY <1>6, OurRefShape DEF RemoveCopyOp, Removals, OurCopies
<1>13. PlannedMoves(evs, rs, copies, sc) \subseteq Moves
  <2>1. \A m \in relabelled : MoveOf(m, m, events[m], RowDeleteId(rs[m], copies)) \in Moves
    BY <1>3, <1>4, <1>7 DEF MoveOf, Moves
  <2>2. \A p \in moved : MoveOf(p[2], p[1], events[p[1]], RowDeleteId(rs[p[2]], copies)) \in Moves
    BY <1>3, <1>4, <1>5, <1>7 DEF MoveOf, Moves
  <2> QED
    BY <1>2, <2>1, <2>2
<1>14. IsFiniteSet(adds) /\ IsFiniteSet(stale) /\ IsFiniteSet(retired) /\ IsFiniteSet(orphans)
  <2>1. adds \subseteq EventIds /\ stale \subseteq EventIds /\ retired \subseteq EventIds
    BY <1>3, <1>4, <1>7
  <2>2. orphans \subseteq copies
    BY DEF orphans
  <2> QED
    BY <2>1, <2>2, EventIdsFinite, FS_Subset
<1>15. IsFiniteSet(pairs \ moved)
  <2>1. pairs \ moved \in SUBSET (EventIds \X EventIds)
    BY <1>3, <1>4, <1>5
  <2>2. IsFiniteSet(EventIds \X EventIds)
    BY EventIdsFinite, FS_Product
  <2> QED
    BY <2>1, <2>2, FS_Subset
<1>16. /\ DOMAIN addOps = adds /\ DOMAIN staleOps = stale /\ DOMAIN pairOps = pairs \ moved
       /\ DOMAIN retireOps = retired /\ DOMAIN orphanOps = orphans
  OBVIOUS
<1> HIDE DEF addOps, staleOps, pairOps, retireOps, orphanOps
<1>17. /\ IsFiniteSet({addOps[e] : e \in adds})
       /\ IsFiniteSet({staleOps[m] : m \in stale})
       /\ IsFiniteSet({pairOps[p] : p \in pairs \ moved})
       /\ IsFiniteSet({retireOps[m] : m \in retired})
       /\ IsFiniteSet({orphanOps[c] : c \in orphans})
  BY <1>14, <1>15, <1>16, ImageFinite
<1>18. IsFiniteSet(PlannedOperations(evs, rs, copies, sc))
  <2> DEFINE A == {addOps[e] : e \in adds}
             B == {staleOps[m] : m \in stale}
             C == {pairOps[p] : p \in pairs \ moved}
             D == {retireOps[m] : m \in retired}
             E == {orphanOps[c] : c \in orphans}
  <2>1. /\ IsFiniteSet(A) /\ IsFiniteSet(B) /\ IsFiniteSet(C) /\ IsFiniteSet(D) /\ IsFiniteSet(E)
        /\ PlannedOperations(evs, rs, copies, sc) = A \cup B \cup C \cup D \cup E
    BY <1>1, <1>17
  <2> HIDE DEF A, B, C, D, E
  <2>2. IsFiniteSet(A \cup B)
    BY <2>1, FS_Union
  <2>3. IsFiniteSet(A \cup B \cup C)
    BY <2>1, <2>2, FS_Union
  <2>4. IsFiniteSet(A \cup B \cup C \cup D)
    BY <2>1, <2>3, FS_Union
  <2>5. IsFiniteSet(A \cup B \cup C \cup D \cup E)
    BY <2>1, <2>4, FS_Union
  <2> QED
    BY <2>1, <2>5
<1>19. PlannedOperations(evs, rs, copies, sc) \subseteq Operations
  BY <1>1, <1>8, <1>9, <1>10, <1>11, <1>12 DEF Operations
<1> QED
  BY <1>13, <1>18, <1>19

\* The plan writes an event once, and only one without a row or over its own row.
PlanIsApart(ops, mvs, rs) ==
  /\ \A a, b \in ops : a.event = b.event => a = b
  /\ \A a \in ops, u \in mvs : a.event # u.event
  /\ \A u, v \in mvs : u.event = v.event => u = v
  /\ \A a \in ops : a.event \in DOMAIN rs => a.event = a.row
  /\ \A u \in mvs : u.event \in DOMAIN rs => u.event = u.row

LEMMA PlanApart ==
  ASSUME NEW evs, NEW rs, NEW copies \in SUBSET Copies, NEW sc,
         Table(evs, EventRecords), Table(rs, OurRows), IsFiniteSet(copies)
  PROVE  PlanIsApart(PlannedWrites(evs, rs, copies, sc), PlannedMoves(evs, rs, copies, sc), rs)
<1> DEFINE ops == PlannedWrites(evs, rs, copies, sc)
           mvs == PlannedMoves(evs, rs, copies, sc)
<1> DEFINE events == Authoritative(evs, sc)
           pairs == Reassignments(events, rs, sc)
           moved == {p \in pairs : DatabaseOnly(events, rs, copies, p)}
           reassigned == {p[2] : p \in pairs}
           standard == {m \in DOMAIN rs \ reassigned : InsideAuthority(sc, m, rs[m].slot)}
           stale == {m \in standard : IsStale(events, rs, copies, sc, m)}
           adds == {e \in DOMAIN events \ DOMAIN rs : \A p \in pairs : p[1] # e}
           relabelled == {m \in standard \ stale : /\ m \in DOMAIN events
                                                  /\ rs[m].del = ByUid(rs[m].uid)
                                                  /\ MatchOf(rs[m], copies) # {}}
           retired == {k \in DOMAIN rs \ reassigned : IsRetired(events, rs, sc, k)}
           orphans == {d \in copies : IsOrphan(rs, copies, sc, d)}
<1>1. PlannedOperations(evs, rs, copies, sc)
        = {AddOp(e, events[e]) : e \in adds}
          \cup {ReplaceOp(m, rs[m], m, events[m], copies) : m \in stale}
          \cup {ReplaceOp(p[2], rs[p[2]], p[1], events[p[1]], copies) : p \in pairs \ moved}
          \cup {RemoveRowOp(m, rs[m], copies) : m \in retired}
          \cup {RemoveCopyOp(c) : c \in orphans}
  BY DEF PlannedOperations, computeSyncOperations
<1>2. mvs
        = {MoveOf(m, m, events[m], RowDeleteId(rs[m], copies)) : m \in relabelled}
          \cup {MoveOf(p[2], p[1], events[p[1]], RowDeleteId(rs[p[2]], copies)) : p \in moved}
  BY DEF PlannedMoves, computeSyncOperations
<1>3. /\ \A p \in pairs : p[1] \notin DOMAIN rs
      /\ \A p, q \in pairs : p[1] = q[1] => p = q
  BY PairsApart
<1>4. /\ \A e \in adds : e \notin DOMAIN rs /\ \A p \in pairs : p[1] # e
      /\ \A m \in stale : m \in DOMAIN rs /\ m \notin relabelled
      /\ \A m \in relabelled : m \in DOMAIN rs
      /\ moved \subseteq pairs
  OBVIOUS
<1>5. /\ \A m \in retired : RemoveRowOp(m, rs[m], copies) \in Removals
      /\ \A c \in orphans : RemoveCopyOp(c) \in Removals
  <2>1. \A m \in retired : /\ m \in EventIds /\ rs[m].uid \in OurRefs /\ rs[m].slot \in Slots
                           /\ RowDeleteId(rs[m], copies) \in OurIds
    BY RowDeleteIdTyped DEF Table, OurRows
  <2>2. \A c \in orphans : c \in OurCopies
    BY DEF IsOrphan, Copies, ForeignCopy
  <2> HIDE DEF retired, orphans
  <2> QED
    BY <2>1, <2>2, OurRefShape DEF RemoveRowOp, RemoveCopyOp, Removals, OurCopies
<1>20. ops = PlannedOperations(evs, rs, copies, sc) \ Removals
  BY DEF PlannedWrites
<1> HIDE DEF ops, mvs, events, pairs, moved, reassigned, standard, stale, adds, relabelled,
             retired, orphans
\* the writes, by their kind
<1> DEFINE IsAdd(a) == \E e \in adds : a = AddOp(e, events[e])
           IsFix(a) == \E m \in stale : a = ReplaceOp(m, rs[m], m, events[m], copies)
           IsPair(a) == \E p \in pairs \ moved :
                          a = ReplaceOp(p[2], rs[p[2]], p[1], events[p[1]], copies)
           IsLabel(u) == \E m \in relabelled :
                           u = MoveOf(m, m, events[m], RowDeleteId(rs[m], copies))
           IsMoved(u) == \E p \in moved :
                           u = MoveOf(p[2], p[1], events[p[1]], RowDeleteId(rs[p[2]], copies))
<1>6. \A a \in ops : IsAdd(a) \/ IsFix(a) \/ IsPair(a)
  BY <1>1, <1>5, <1>20
<1>7. \A u \in mvs : IsLabel(u) \/ IsMoved(u)
  BY <1>2
<1>8. \A a : IsAdd(a) => a.event \in adds /\ a = AddOp(a.event, events[a.event])
  BY DEF AddOp
<1>9. \A a : IsFix(a) => /\ a.event \in stale /\ a.row = a.event
                         /\ a = ReplaceOp(a.event, rs[a.event], a.event, events[a.event], copies)
  BY DEF ReplaceOp
<1>10. \A a : IsPair(a) => \E p \in pairs \ moved :
                a.event = p[1] /\ a = ReplaceOp(p[2], rs[p[2]], p[1], events[p[1]], copies)
  BY DEF ReplaceOp
<1>11. \A u : IsLabel(u) =>
         /\ u.event \in relabelled /\ u.row = u.event
         /\ u = MoveOf(u.event, u.event, events[u.event], RowDeleteId(rs[u.event], copies))
  BY DEF MoveOf
<1>12. \A u : IsMoved(u) => \E p \in moved :
         u.event = p[1] /\ u = MoveOf(p[2], p[1], events[p[1]], RowDeleteId(rs[p[2]], copies))
  BY DEF MoveOf
<1> HIDE DEF IsAdd, IsFix, IsPair, IsLabel, IsMoved
<1>13. \A a, b \in ops : a.event = b.event => a = b
  <2> SUFFICES ASSUME NEW a \in ops, NEW b \in ops, a.event = b.event PROVE a = b
    OBVIOUS
  <2>1. CASE IsAdd(a)
    <3>1. IsAdd(b)
      BY <1>3, <1>4, <1>6, <1>8, <1>9, <1>10, <2>1
    <3> QED
      BY <1>8, <2>1, <3>1
  <2>2. CASE IsFix(a)
    <3>1. IsFix(b)
      BY <1>3, <1>4, <1>6, <1>8, <1>9, <1>10, <2>2
    <3> QED
      BY <1>9, <2>2, <3>1
  <2>3. CASE IsPair(a)
    <3>1. IsPair(b)
      BY <1>3, <1>4, <1>6, <1>8, <1>9, <1>10, <2>3
    <3>2. PICK p \in pairs \ moved :
            a.event = p[1] /\ a = ReplaceOp(p[2], rs[p[2]], p[1], events[p[1]], copies)
      BY <1>10, <2>3
    <3>3. PICK q \in pairs \ moved :
            b.event = q[1] /\ b = ReplaceOp(q[2], rs[q[2]], q[1], events[q[1]], copies)
      BY <1>10, <3>1
    <3>4. p = q
      BY <1>3, <3>2, <3>3
    <3> QED
      BY <3>2, <3>3, <3>4
  <2> QED
    BY <1>6, <2>1, <2>2, <2>3
<1>14. \A u, v \in mvs : u.event = v.event => u = v
  <2> SUFFICES ASSUME NEW u \in mvs, NEW v \in mvs, u.event = v.event PROVE u = v
    OBVIOUS
  <2>1. CASE IsLabel(u)
    <3>1. IsLabel(v)
      BY <1>3, <1>4, <1>7, <1>11, <1>12, <2>1
    <3> QED
      BY <1>11, <2>1, <3>1
  <2>2. CASE IsMoved(u)
    <3>1. IsMoved(v)
      BY <1>3, <1>4, <1>7, <1>11, <1>12, <2>2
    <3>2. PICK p \in moved : u.event = p[1]
              /\ u = MoveOf(p[2], p[1], events[p[1]], RowDeleteId(rs[p[2]], copies))
      BY <1>12, <2>2
    <3>3. PICK q \in moved : v.event = q[1]
              /\ v = MoveOf(q[2], q[1], events[q[1]], RowDeleteId(rs[q[2]], copies))
      BY <1>12, <3>1
    <3>4. p = q
      BY <1>3, <1>4, <3>2, <3>3
    <3> QED
      BY <3>2, <3>3, <3>4
  <2> QED
    BY <1>7, <2>1, <2>2
<1>15. ASSUME NEW a \in ops, NEW u \in mvs PROVE a.event # u.event
  <2>1. CASE IsAdd(a)
    BY <1>3, <1>4, <1>7, <1>8, <1>11, <1>12, <2>1
  <2>2. CASE IsFix(a)
    BY <1>3, <1>4, <1>7, <1>9, <1>11, <1>12, <2>2
  <2>3. CASE IsPair(a)
    BY <1>3, <1>4, <1>7, <1>10, <1>11, <1>12, <2>3
  <2> QED
    BY <1>6, <2>1, <2>2, <2>3
<1>16. \A a \in ops : a.event \in DOMAIN rs => a.event = a.row
  BY <1>3, <1>4, <1>6, <1>8, <1>9, <1>10
<1>17. \A u \in mvs : u.event \in DOMAIN rs => u.event = u.row
  BY <1>3, <1>4, <1>7, <1>11, <1>12
<1> QED
  BY <1>13, <1>14, <1>15, <1>16, <1>17 DEF PlanIsApart, ops, mvs

-----------------------------------------------------------------------------
(* The calendar                                                             *)

\* An identifier that nothing refers to exists: there are more numbers than references.
LEMMA FreshRefIsNew ==
  ASSUME RowsTyped, RemoteTyped, PlanTyped, NEW e \in EventIds
  PROVE  \E n \in Nat : FreshRef(e) = <<e, n>> /\ <<e, n>> \notin UsedRefs
<1> DEFINE ids == [c \in remote |-> c.id]
           refs == [m \in DOMAIN rows |-> rows[m].del.ref]
           ops == plan.todo \cup plan.chunk
           dels == [op \in ops |-> op.del.ref]
           N == Cardinality(UsedRefs) + 1
           free == {n \in 1..N : <<e, n>> \notin UsedRefs}
<1>1. IsFiniteSet(UsedRefs)
  <2>1. IsFiniteSet(remote) /\ IsFiniteSet(DOMAIN rows) /\ IsFiniteSet(ops)
    BY TableFinite, FS_Union DEF RowsTyped, RemoteTyped, PlanTyped
  <2>2. UsedRefs = {ids[c] : c \in remote} \cup {refs[m] : m \in DOMAIN rows}
                   \cup {dels[op] : op \in ops}
    BY DEF UsedRefs
  <2>3. DOMAIN ids = remote /\ DOMAIN refs = DOMAIN rows /\ DOMAIN dels = ops
    OBVIOUS
  <2> HIDE DEF ids, refs, ops, dels
  <2>4. /\ IsFiniteSet({ids[c] : c \in remote}) /\ IsFiniteSet({refs[m] : m \in DOMAIN rows})
        /\ IsFiniteSet({dels[op] : op \in ops})
    BY <2>1, <2>3, ImageFinite
  <2>5. IsFiniteSet({ids[c] : c \in remote} \cup {refs[m] : m \in DOMAIN rows})
    BY <2>4, FS_Union
  <2> QED
    BY <2>2, <2>4, <2>5, FS_Union
<1>2. N \in Nat /\ N > Cardinality(UsedRefs) /\ Cardinality(UsedRefs) \in Nat
  BY <1>1, FS_CardinalityType
<1>3. free # {}
  <2> SUFFICES ASSUME free = {} PROVE FALSE
    OBVIOUS
  <2> DEFINE f == [n \in 1..N |-> <<e, n>>]
  <2> HIDE DEF N
  <2>1. f \in [1..N -> UsedRefs]
    OBVIOUS
  <2>2. IsFiniteSet(1..N) /\ Cardinality(1..N) = N
    BY <1>2, FS_Interval
  <2>3. \A x, y \in 1..N : x # y => f[x] # f[y]
    OBVIOUS
  <2> HIDE DEF f
  <2> QED
    BY <1>1, <1>2, <2>1, <2>2, <2>3, FS_PigeonHole
<1>4. free \in SUBSET Nat
  BY <1>2
<1>5. PICK i \in free : \A j \in free : i <= j
  <2> HIDE DEF free
  <2> QED
    BY <1>3, <1>4, LeastOfNaturals
<1>6. \E n \in 1..N : <<e, n>> \notin UsedRefs /\ \A k \in 1..(n - 1) : <<e, k>> \in UsedRefs
  <2>1. i \in 1..N /\ <<e, i>> \notin UsedRefs /\ i \in Nat
    BY <1>2, <1>5
  <2> HIDE DEF N
  <2>2. ASSUME NEW k \in 1..(i - 1) PROVE <<e, k>> \in UsedRefs
    <3>1. k \in 1..N /\ ~(i <= k)
      BY <1>2, <2>1
    <3>2. k \notin free
      BY <1>5, <3>1
    <3> QED
      BY <3>1, <3>2
  <2> QED
    BY <2>1, <2>2
<1>7. \E n \in Nat : FreshRef(e) = <<e, n>> /\ <<e, n>> \notin UsedRefs
  <2> DEFINE c == CHOOSE n \in 1..N : /\ <<e, n>> \notin UsedRefs
                                     /\ \A k \in 1..(n - 1) : <<e, k>> \in UsedRefs
  <2>1. c \in 1..N /\ <<e, c>> \notin UsedRefs
    BY <1>6, Zenon
  <2>2. FreshRef(e) = <<e, c>>
    BY DEF FreshRef
  <2> HIDE DEF c
  <2> QED
    BY <1>2, <2>1, <2>2
<1> QED
  BY <1>7

LEMMA FreshRefTyped ==
  ASSUME RowsTyped, RemoteTyped, PlanTyped, NEW e \in EventIds
  PROVE  FreshRef(e) \in OurRefs
BY FreshRefIsNew, OurRefShape

\* A copy that a run writes is Keeper's.
LEMMA WrittenCopyTyped ==
  ASSUME RowsTyped, RemoteTyped, PlanTyped,
         NEW e \in EventIds, NEW s \in Slots, NEW b \in Bodies
  PROVE  WrittenCopy(e, s, b) \in OurCopies
<1> DEFINE id == IF Provider = "caldav" THEN DerivedUid(e)
                 ELSE IF CopiesOf(e) # {} THEN (CHOOSE c \in CopiesOf(e) : TRUE).id
                 ELSE FreshRef(e)
<1>1. DerivedUid(e) \in OurRefs
  BY OurRefShape DEF DerivedUid
<1>2. FreshRef(e) \in OurRefs
  BY FreshRefTyped
<1>3. ASSUME NEW c \in CopiesOf(e) PROVE c.id \in OurRefs
  <2>1. c \in remote /\ c.uid = DerivedUid(e)
    BY DEF CopiesOf
  <2>2. c # ForeignCopy
    BY <1>1, <2>1, OurRefShape DEF ForeignCopy
  <2> QED
    BY <2>1, <2>2 DEF RemoteTyped, OurCopies
<1>4. id \in OurRefs
  BY <1>1, <1>2, <1>3
<1>5. WrittenCopy(e, s, b) =
        [uid |-> IF Provider = "outlook" THEN id ELSE DerivedUid(e),
         id |-> id, slot |-> s, body |-> b, keeper |-> TRUE]
  BY DEF WrittenCopy
<1> HIDE DEF id
<1> QED
  BY <1>1, <1>4, <1>5 DEF OurCopies

\* No identifier that Keeper holds, and no copy of an event of its own, is the user's event.
LEMMA ForeignUnaddressed ==
  /\ \A del \in OurIds : ForeignCopy \notin AddressedBy(del)
  /\ \A e \in EventIds : ForeignCopy \notin CopiesOf(e)
<1>1. \A e \in EventIds : DerivedUid(e) # Foreign
  BY OurRefShape DEF DerivedUid
<1> QED
  BY <1>1, OurRefShape DEF AddressedBy, CopiesOf, ForeignCopy

LEMMA CalendarChanges ==
  ASSUME RemoteTyped, NEW S \in SUBSET OurCopies, IsFiniteSet(S),
         remote' \subseteq remote \cup S, ForeignCopy \in remote'
  PROVE  RemoteTyped'
<1>1. IsFiniteSet(remote \cup S)
  BY FS_Union DEF RemoteTyped
<1>2. IsFiniteSet(remote')
  BY <1>1, FS_Subset
<1> QED
  BY <1>2 DEF RemoteTyped

\* Deleting what operations address leaves the user's event.
LEMMA DeletionKeeps ==
  ASSUME RemoteTyped, NEW ops, \A op \in ops : op.del \in OurIds
  PROVE  WithoutAddressed(ops) \subseteq remote /\ ForeignCopy \in WithoutAddressed(ops)
BY ForeignUnaddressed DEF WithoutAddressed, RemoteTyped

\* So does writing copies.
LEMMA WritingKeeps ==
  ASSUME RowsTyped, RemoteTyped, PlanTyped, NEW ops, IsFiniteSet(ops),
         \A op \in ops : op.event \in EventIds /\ op.slot \in Slots /\ op.body \in Bodies
  PROVE  \E S \in SUBSET OurCopies :
           /\ IsFiniteSet(S)
           /\ Written(ops) \subseteq remote \cup S
           /\ ForeignCopy \in Written(ops)
<1> DEFINE f == [op \in ops |-> WrittenCopy(op.event, op.slot, op.body)]
           S == {f[op] : op \in ops}
<1>1. \A op \in ops : f[op] \in OurCopies
  BY WrittenCopyTyped
<1>2. S \in SUBSET OurCopies
  BY <1>1
<1>3. IsFiniteSet(S)
  <2>1. DOMAIN f = ops
    OBVIOUS
  <2> HIDE DEF f
  <2> QED
    BY <2>1, ImageFinite
<1>4. Written(ops) \subseteq remote \cup S
  BY DEF Written
<1>5. ForeignCopy \in Written(ops)
  BY ForeignUnaddressed DEF Written, RemoteTyped
<1> HIDE DEF S
<1> QED
  BY <1>2, <1>3, <1>4, <1>5

-----------------------------------------------------------------------------
(* Phases                                                                   *)

\* The control of a run after a step, over operations of the chunk that were ahead.
ControlWithin(ahead) ==
  /\ pc' \in {"chunk", "call", "moves"}
  /\ phase' \in {"none", "remove", "update", "clear", "readd", "add"}
  /\ pc' = "call" <=> phase' # "none"
  /\ work' \subseteq KindOf(phase')
  /\ work' \subseteq ahead

\* A group that is entered has the kind of its first phase, and was ahead.
LEMMA GroupShape ==
  ASSUME NEW chunk \in SUBSET Operations
  PROVE  /\ FirstPhase("removes") = "remove" /\ FirstPhase("adds") = "add"
         /\ FirstPhase("replaces") \in {"update", "clear"}
         /\ GroupOf(chunk, "removes") = chunk \cap Removals
         /\ GroupOf(chunk, "replaces") = chunk \cap Replacements
         /\ GroupOf(chunk, "adds") = chunk \cap Adds
         /\ \A op \in chunk \cap Removals : op \notin Replacements /\ op \notin Adds
         /\ \A op \in chunk \cap Replacements : op \notin Adds
<1>1. \A op \in chunk : /\ op \in Removals <=> op.type = "remove"
                        /\ op \in Replacements <=> op.type = "replace"
                        /\ op \in Adds <=> op.type = "add"
  BY DEF Operations, Removals, Replacements, Adds
<1> QED
  BY <1>1 DEF FirstPhase, GroupOf

\* What is ahead of a group: the groups after it.
AfterGroup(g, chunk) ==
  CASE g = "none" -> chunk
    [] g = "removes" -> chunk \ Removals
    [] g = "replaces" -> chunk \cap Adds
    [] g = "adds" -> {}

LEMMA EnterAfterMoves ==
  ASSUME NEW chunk \in SUBSET Operations, NEW g \in {"none", "removes", "replaces", "adds"},
         EnterAfter(g, chunk)
  PROVE  /\ ControlWithin(AfterGroup(g, chunk)) /\ work' \subseteq chunk
         /\ Ahead(phase', chunk) \subseteq AfterGroup(g, chunk)
<1> DEFINE groups == Later(g)
           left == {i \in DOMAIN groups : GroupOf(chunk, groups[i]) # {}}
           least == CHOOSE i \in left : \A j \in left : i <= j
<1>1. /\ DOMAIN groups \subseteq Nat
      /\ \A i \in DOMAIN groups :
           /\ groups[i] \in {"removes", "replaces", "adds"}
           /\ g = "removes" => groups[i] # "removes"
           /\ g = "replaces" => groups[i] = "adds"
           /\ g # "adds"
  BY DEF Later
<1>2. CASE left = {}
  <2>1. pc' = "chunk" /\ phase' = "none" /\ work' = {}
    BY <1>2 DEF EnterAfter
  <2> QED
    BY <2>1 DEF ControlWithin, KindOf, Ahead
<1>3. CASE left # {}
  <2>1. \E i \in left : \A j \in left : i <= j
    <3>1. left \in SUBSET Nat
      BY <1>1
    <3> HIDE DEF left
    <3> QED
      BY <1>3, <3>1, LeastOfNaturals
  <2>2. least \in left
    BY <2>1, Zenon
  <2>3. pc' = "call" /\ phase' = FirstPhase(groups[least]) /\ work' = GroupOf(chunk, groups[least])
    BY <1>3 DEF EnterAfter
  <2> DEFINE n == groups[least]
  <2>4. /\ n \in {"removes", "replaces", "adds"}
        /\ g = "removes" => n # "removes"
        /\ g = "replaces" => n = "adds"
        /\ g # "adds"
    BY <1>1, <2>2
  <2>5. pc' = "call" /\ phase' = FirstPhase(n) /\ work' = GroupOf(chunk, n)
    BY <2>3
  <2> HIDE DEF n, left, least, groups
  <2>6. work' \subseteq chunk
    BY <2>4, <2>5, GroupShape
  <2>7. work' \subseteq AfterGroup(g, chunk)
    BY <2>4, <2>5, GroupShape DEF AfterGroup
  <2>8. work' \subseteq KindOf(phase')
    BY <2>4, <2>5, GroupShape DEF KindOf
  <2>9. Ahead(phase', chunk) \subseteq AfterGroup(g, chunk)
    BY <2>4, <2>5, GroupShape DEF Ahead, AfterGroup
  <2>10. phase' \in {"remove", "update", "clear", "add"}
    BY <2>4, <2>5, GroupShape
  <2> QED
    BY <2>5, <2>6, <2>7, <2>8, <2>9, <2>10 DEF ControlWithin
<1> QED
  BY <1>2, <1>3

\* Leaving a phase: the rest goes on to the next one, or the group after comes.
LEMMA LeavePhaseMoves ==
  ASSUME ControlTyped, PlanTyped, phase # "none", NEW rest \in SUBSET work,
         LeavePhase(rest), UNCHANGED <<plan, current>>
  PROVE  /\ ControlTyped' /\ pc' \in {"chunk", "call", "moves"}
         /\ Left' \subseteq plan.todo \cup rest \cup Ahead(phase, plan.chunk)
<1> DEFINE chunk == plan.chunk
           ahead == Ahead(phase, chunk)
<1>1. chunk \in SUBSET Operations /\ plan' = plan /\ current' = current
  BY DEF PlanTyped, Plans
<1>2. rest \subseteq chunk /\ rest \subseteq KindOf(phase)
  BY DEF ControlTyped
<1>3. ahead \subseteq chunk
  BY DEF Ahead
<1> SUFFICES /\ ControlWithin(rest \cup ahead) /\ work' \subseteq chunk
             /\ Ahead(phase', chunk) \subseteq rest \cup ahead
  <2>1. current' \in BOOLEAN
    BY <1>1 DEF ControlTyped
  <2>2. ControlWithin(rest \cup ahead) /\ work' \subseteq chunk => ControlTyped'
    BY <1>1, <2>1 DEF ControlTyped, ControlWithin
  <2> QED
    BY <1>1, <2>2 DEF ControlWithin, Left
<1>4. CASE phase = "update" /\ rest # {}
  <2>1. pc' = "call" /\ phase' = "clear" /\ work' = rest
    BY <1>4 DEF LeavePhase
  <2> QED
    BY <1>2, <1>4, <2>1 DEF ControlWithin, KindOf, Ahead
<1>5. CASE phase = "clear" /\ rest # {}
  <2>1. pc' = "call" /\ phase' = "readd" /\ work' = rest
    BY <1>5 DEF LeavePhase
  <2> QED
    BY <1>2, <1>5, <2>1 DEF ControlWithin, KindOf, Ahead
<1>6. CASE ~(phase = "update" /\ rest # {}) /\ ~(phase = "clear" /\ rest # {})
  <2>1. LeaveGroup
    BY <1>6 DEF LeavePhase
  <2>2. CASE current
    <3>1. EnterAfter(GroupOfPhase(phase), chunk)
      BY <2>1, <2>2 DEF LeaveGroup
    <3>2. /\ GroupOfPhase(phase) \in {"none", "removes", "replaces", "adds"}
          /\ AfterGroup(GroupOfPhase(phase), chunk) = ahead
      BY DEF GroupOfPhase, AfterGroup, Ahead, ControlTyped
    <3> HIDE DEF ahead
    <3>3. /\ ControlWithin(ahead) /\ work' \subseteq chunk /\ Ahead(phase', chunk) \subseteq ahead
      BY <1>1, <3>1, <3>2, EnterAfterMoves
    <3> QED
      BY <3>3 DEF ControlWithin
  <2>3. CASE ~current
    <3>1. pc' = "moves" /\ phase' = "none" /\ work' = {}
      BY <2>1, <2>3 DEF LeaveGroup
    <3> QED
      BY <3>1 DEF ControlWithin, KindOf, Ahead
  <2> QED
    BY <2>2, <2>3
<1> QED
  BY <1>4, <1>5, <1>6

\* Recording the changes of a call, or going on when there are none.
LEMMA CheckpointMoves ==
  ASSUME ControlTyped, PlanTyped, pc = "call", NEW rest \in SUBSET work, NEW changes,
         Checkpoint(changes, rest), UNCHANGED <<plan, current>>
  PROVE  /\ ControlTyped'
         /\ \/ pc' \in {"chunk", "call", "moves"} /\ pending' = NoChanges
            \/ pc' = "flush" /\ pending' = changes
         /\ Left' \subseteq plan.todo \cup rest \cup Ahead(phase, plan.chunk)
<1>1. phase # "none"
  BY DEF ControlTyped
<1>2. CASE IsEmpty(changes)
  BY <1>1, <1>2, LeavePhaseMoves DEF Checkpoint
<1>3. CASE ~IsEmpty(changes)
  <2>1. pc' = "flush" /\ work' = rest /\ pending' = changes /\ phase' = phase
        /\ plan' = plan /\ current' = current
    BY <1>3 DEF Checkpoint
  <2> QED
    BY <1>1, <2>1 DEF ControlTyped, Left
<1> QED
  BY <1>2, <1>3

\* The run ends.
LEMMA RunEnds ==
  ASSUME EndRun
  PROVE  /\ pc' = "idle" /\ Left' = {} /\ plan'.moves = {} /\ pending' = NoChanges
         /\ ControlTyped' /\ SeenTyped' /\ PlanTyped' /\ PendingTyped'
<1>1. ControlTyped' /\ pc' = "idle" /\ Left' = {} /\ plan'.moves = {} /\ pending' = NoChanges
  BY DEF EndRun, ControlTyped, Left, NoPlan, KindOf, Ahead
<1>2. SeenTyped'
  BY DEF EndRun, SeenTyped, NoScope, NotSeen, NoRows, Scopes, Table
<1>3. PlanTyped'
  BY FS_EmptySet DEF EndRun, PlanTyped, NoPlan, Plans
<1>4. PendingTyped'
  BY DEF EndRun, PendingTyped, NoChanges, NoRows, Table
<1> QED
  BY <1>1, <1>2, <1>3, <1>4

-----------------------------------------------------------------------------
(* The mapping table                                                        *)

\* What a transaction may record.
ChangesTyped(changes) ==
  /\ changes.deletes \subseteq EventIds
  /\ Table(changes.inserts, OurRows)
  /\ changes.updates \subseteq Moves

\* A transaction leaves rows, and rows only for events that had one or are written.
LEMMA FlushedTyped ==
  ASSUME RowsTyped, NEW changes, ChangesTyped(changes)
  PROVE  /\ Table(Flushed(changes), OurRows)
         /\ DOMAIN Flushed(changes) \subseteq DOMAIN rows \cup EventsIn(changes)
<1> DEFINE base == AfterInserts(changes)
           effective == {u \in changes.updates : u.row \in DOMAIN base}
           left == DOMAIN base \ {u.row : u \in effective}
           events == {u.event : u \in effective}
           final(m) == IF \E u \in effective : u.event = m
                       THEN LET u == CHOOSE v \in effective : v.event = m
                            IN UpdatedRow(base[u.row], u)
                       ELSE base[m]
<1>1. DOMAIN base \subseteq DOMAIN rows \cup DOMAIN changes.inserts
  BY DEF AfterInserts
<1>2. Table(base, OurRows)
  <2> DEFINE kept == DOMAIN rows \ changes.deletes
             row(m) == IF m \in kept THEN rows[m]
                       ELSE [changes.inserts[m] EXCEPT !.owned = source[OwnerOf(m)] # Deleted]
  <2>1. base = [m \in kept \cup DOMAIN changes.inserts |-> row(m)]
    BY DEF AfterInserts
  <2>2. ASSUME NEW m \in DOMAIN base PROVE base[m] \in OurRows
    <3>1. m \in kept \cup DOMAIN changes.inserts /\ base[m] = row(m)
      BY <2>1
    <3>2. CASE m \in kept
      BY <3>1, <3>2 DEF RowsTyped, Table
    <3>3. CASE m \notin kept
      <4>1. changes.inserts[m] \in OurRows
        BY <3>1, <3>3 DEF ChangesTyped, Table
      <4>2. (source[OwnerOf(m)] # Deleted) \in BOOLEAN
        OBVIOUS
      <4> QED
        BY <3>1, <3>3, <4>1, <4>2 DEF OurRows
    <3> QED
      BY <3>2, <3>3
  <2>3. DOMAIN base \subseteq EventIds
    BY <1>1 DEF RowsTyped, ChangesTyped, Table
  <2> HIDE DEF base
  <2> QED
    BY <2>2, <2>3 DEF Table
<1>3. Flushed(changes) = [m \in left \cup events |-> final(m)]
  BY DEF Flushed
<1>4. left \subseteq DOMAIN base /\ effective \subseteq changes.updates
      /\ \A u \in effective : u.row \in DOMAIN base
  OBVIOUS
<1>5. \A u \in effective : u \in Moves /\ u.event \in EventIds
  BY <1>4 DEF ChangesTyped, Moves
<1> HIDE DEF base, effective, left
<1>6. ASSUME NEW m \in left \cup events PROVE final(m) \in OurRows
  <2>1. CASE \E u \in effective : u.event = m
    <3> DEFINE u == CHOOSE v \in effective : v.event = m
    <3>1. u \in effective
      BY <2>1
    <3>2. final(m) = UpdatedRow(base[u.row], u)
      BY <2>1
    <3> HIDE DEF u
    <3>3. base[u.row] \in OurRows /\ u \in Moves
      BY <1>2, <1>4, <1>5, <3>1 DEF Table
    <3> QED
      BY <3>2, <3>3 DEF UpdatedRow, OurRows, Moves
  <2>2. CASE ~\E u \in effective : u.event = m
    <3>1. final(m) = base[m] /\ m \in left
      BY <2>2
    <3> QED
      BY <1>2, <1>4, <3>1 DEF Table
  <2> QED
    BY <2>1, <2>2
<1>7. left \cup events \subseteq EventIds
  BY <1>2, <1>4, <1>5 DEF Table
<1>8. left \cup events \subseteq DOMAIN rows \cup EventsIn(changes)
  BY <1>1, <1>4 DEF EventsIn
<1> HIDE DEF final, events
<1> QED
  BY <1>3, <1>6, <1>7, <1>8 DEF Table

-----------------------------------------------------------------------------
(* Steps that leave the run's memory alone, and steps that end it           *)

LEMMA RunUntouched ==
  ASSUME SyncInv, UNCHANGED <<control, memory>>, current' \in BOOLEAN,
         WorldTyped', RowsTyped', RemoteTyped', BudgetTyped', DOMAIN rows' = DOMAIN rows
  PROVE  SyncInv'
<1> USE DEF SyncInv, Sharp, control, memory
<1>1. ControlTyped' /\ PlanTyped' /\ PendingTyped' /\ Left' = Left
  BY DEF ControlTyped, PlanTyped, PendingTyped, Left
<1>2. SeenTyped'
  BY DEF SeenTyped
<1>3. PendingIsApart => PendingIsApart'
  BY <1>1 DEF PendingIsApart, ChangesApart, EventsIn
<1>4. WritesAreApart => WritesAreApart'
  BY <1>1 DEF WritesAreApart, Fits
<1>5. (\A u \in pending.updates : Fits(u)) => (\A u \in pending.updates : Fits(u))'
  BY DEF Fits
<1> QED
  BY <1>1, <1>2, <1>3, <1>4, <1>5

LEMMA RunEndsStep ==
  ASSUME SyncInv, EndRun, WorldTyped', RowsTyped', RemoteTyped', BudgetTyped'
  PROVE  SyncInv'
<1>1. Sharp'
  BY RunEnds DEF Sharp
<1>2. pending' = NoChanges /\ Left' = {} /\ plan'.moves = {} /\ pc' = "idle"
  BY RunEnds
<1>3. PendingIsApart'
  BY <1>2 DEF PendingIsApart, ChangesApart, EventsIn, NoChanges, NoRows
<1>4. WritesAreApart'
  BY <1>2 DEF WritesAreApart
<1> QED
  BY <1>1, <1>2, <1>3, <1>4 DEF SyncInv

-----------------------------------------------------------------------------
(* What happens around the run                                              *)

LEMMA EditCounts ==
  ASSUME BudgetTyped PROVE Edit /\ faults' = faults => BudgetTyped'
BY DestinationAssumption DEF BudgetTyped, Edit

LEMMA FaultCounts ==
  ASSUME BudgetTyped, edits' = edits, faults < MaxFaults, faults' = faults + 1
  PROVE  BudgetTyped'
BY DestinationAssumption DEF BudgetTyped

LEMMA WindowsAreSlots == \A w \in Windows : w \subseteq Slots
<1> SUFFICES ASSUME NEW w \in Windows PROVE w \subseteq Slots
  OBVIOUS
<1>1. PICK lo \in Slots, hi \in 0..LastSlot : w = lo..hi
  BY DEF Windows
<1> QED
  BY <1>1, ReconcileAssumption DEF Slots

LEMMA TamperTyped ==
  ASSUME RemoteTyped, TamperCopy PROVE RemoteTyped'
<1>1. PICK c \in remote :
        /\ c.keeper
        /\ \/ remote' = remote \ {c}
           \/ \E s \in Slots, b \in Bodies :
                remote' = (remote \ {c}) \cup {[c EXCEPT !.slot = s, !.body = b]}
  BY DEF TamperCopy
<1>2. c # ForeignCopy /\ c \in OurCopies
  <2>1. c.keeper
    BY <1>1, Zenon
  <2>2. ~ForeignCopy.keeper
    BY DEF ForeignCopy
  <2>3. c # ForeignCopy
    BY <2>1, <2>2, Zenon
  <2> QED
    BY <2>3 DEF RemoteTyped
<1>3. CASE remote' = remote \ {c}
  BY <1>2, <1>3, FS_EmptySet, CalendarChanges DEF RemoteTyped
<1>4. ASSUME NEW s \in Slots, NEW b \in Bodies,
             remote' = (remote \ {c}) \cup {[c EXCEPT !.slot = s, !.body = b]}
      PROVE  RemoteTyped'
  <2> DEFINE d == [c EXCEPT !.slot = s, !.body = b]
  <2>1. d \in OurCopies
    BY <1>2 DEF OurCopies
  <2>2. IsFiniteSet({d}) /\ {d} \in SUBSET OurCopies
    BY <2>1, FS_Singleton
  <2>3. remote' \subseteq remote \cup {d} /\ ForeignCopy \in remote'
    BY <1>2, <1>4 DEF RemoteTyped
  <2> QED
    BY <2>2, <2>3, CalendarChanges
<1> QED
  BY <1>1, <1>3, <1>4

LEMMA EnvironmentStep ==
  ASSUME SyncInv, Environment PROVE SyncInv'
<1>1. /\ WorldTyped /\ RowsTyped /\ RemoteTyped /\ BudgetTyped /\ current \in BOOLEAN
  BY DEF SyncInv, Sharp, ControlTyped
<1> USE DEF world, store, control, memory, RunIdles, WorldTyped, RowsTyped
<1>2. ASSUME NEW o \in Owners, EditEvent(o) PROVE SyncInv'
  <2>1. UNCHANGED <<control, memory, store, current, coverage, configured, requested, faults>>
    BY <1>2 DEF EditEvent
  <2>2. source' \in [Owners -> EventStates \cup {Deleted}] /\ withheld' \subseteq Owners
    BY <1>1, <1>2 DEF EditEvent
  <2>3. BudgetTyped'
    BY <1>1, <1>2, <2>1, EditCounts DEF EditEvent
  <2>4. RemoteTyped'
    BY <1>1, <2>1 DEF RemoteTyped
  <2> QED
    BY <1>1, <2>1, <2>2, <2>3, <2>4, RunUntouched
<1>3. ASSUME NEW o \in Owners, DeleteEvent(o) PROVE SyncInv'
  <2>1. UNCHANGED <<control, memory, remote, current, coverage, configured, requested, faults>>
    BY <1>3 DEF DeleteEvent
  <2>2. source' \in [Owners -> EventStates \cup {Deleted}] /\ withheld' \subseteq Owners
    BY <1>1, <1>3 DEF DeleteEvent
  <2>3. BudgetTyped'
    BY <1>1, <1>3, <2>1, EditCounts DEF DeleteEvent
  <2>4. RemoteTyped'
    BY <1>1, <2>1 DEF RemoteTyped
  <2>5. rows' = [m \in DOMAIN rows |->
                   IF OwnerOf(m) = o THEN [rows[m] EXCEPT !.owned = FALSE] ELSE rows[m]]
    BY <1>3 DEF DeleteEvent
  <2>6. RowsTyped' /\ DOMAIN rows' = DOMAIN rows
    <3>1. \A m \in DOMAIN rows : /\ rows[m] \in OurRows
                                 /\ [rows[m] EXCEPT !.owned = FALSE] \in OurRows
      BY <1>1 DEF Table, OurRows
    <3> QED
      BY <1>1, <2>5, <3>1 DEF Table
  <2> QED
    BY <1>1, <2>1, <2>2, <2>3, <2>4, <2>6, RunUntouched
<1>4. ASSUME NEW o \in Owners, WithholdSeries(o) PROVE SyncInv'
  <2>1. UNCHANGED <<control, memory, store, source, current, coverage, configured, requested, faults>>
    BY <1>4 DEF WithholdSeries
  <2>2. withheld' \subseteq Owners
    BY <1>1, <1>4 DEF WithholdSeries
  <2>3. BudgetTyped'
    BY <1>1, <1>4, <2>1, EditCounts DEF WithholdSeries
  <2>4. RemoteTyped'
    BY <1>1, <2>1 DEF RemoteTyped
  <2> QED
    BY <1>1, <2>1, <2>2, <2>3, <2>4, RunUntouched
<1>5. ASSUME NEW s \in Sources, NarrowCoverage(s) \/ RestoreCoverage(s) PROVE SyncInv'
  <2>1. UNCHANGED <<control, memory, store, source, withheld, current, configured, requested, faults>>
    BY <1>5 DEF NarrowCoverage, RestoreCoverage
  <2>2. coverage' \in [Sources -> SUBSET Slots]
    BY <1>1, <1>5 DEF NarrowCoverage, RestoreCoverage
  <2>3. BudgetTyped'
    <3>1. BudgetTyped /\ Edit => BudgetTyped'
      BY <2>1, EditCounts
    <3>2. edits' = edits => BudgetTyped'
      BY <1>1, <2>1 DEF BudgetTyped
    <3> QED
      BY <1>1, <1>5, <3>1, <3>2 DEF NarrowCoverage, RestoreCoverage
  <2>4. RemoteTyped'
    BY <1>1, <2>1 DEF RemoteTyped
  <2> QED
    BY <1>1, <2>1, <2>2, <2>3, <2>4, RunUntouched
<1>6. CASE ChangeSources
  <2>1. UNCHANGED <<control, memory, store, source, withheld, coverage, requested, faults>>
    BY <1>6 DEF ChangeSources
  <2>2. configured' \subseteq Sources /\ current' \in BOOLEAN
    BY <1>6 DEF ChangeSources
  <2>3. BudgetTyped'
    BY <1>1, <1>6, <2>1, EditCounts DEF ChangeSources
  <2>4. RemoteTyped'
    BY <1>1, <2>1 DEF RemoteTyped
  <2> QED
    BY <1>1, <2>1, <2>2, <2>3, <2>4, RunUntouched
<1>7. CASE ChangeWindow
  <2>1. UNCHANGED <<control, memory, store, source, withheld, coverage, configured, current, faults>>
    BY <1>7 DEF ChangeWindow
  <2>2. requested' \subseteq Slots
    BY <1>7, WindowsAreSlots DEF ChangeWindow
  <2>3. BudgetTyped'
    BY <1>1, <1>7, <2>1, EditCounts DEF ChangeWindow
  <2>4. RemoteTyped'
    BY <1>1, <2>1 DEF RemoteTyped
  <2> QED
    BY <1>1, <2>1, <2>2, <2>3, <2>4, RunUntouched
<1>8. CASE TamperCopy
  <2>1. UNCHANGED <<control, memory, world, rows, current, faults>>
    BY <1>8 DEF TamperCopy
  <2>2. RemoteTyped'
    BY <1>1, <1>8, TamperTyped
  <2>3. BudgetTyped'
    BY <1>1, <1>8, <2>1, EditCounts DEF TamperCopy
  <2> QED
    BY <1>1, <2>1, <2>2, <2>3, RunUntouched
<1>9. CASE Supersede
  <2>1. UNCHANGED <<control, memory, world, store, faults>> /\ current' = FALSE
    BY <1>9 DEF Supersede
  <2>2. RemoteTyped'
    BY <1>1, <2>1 DEF RemoteTyped
  <2>3. BudgetTyped'
    BY <1>1, <1>9, <2>1, EditCounts DEF Supersede
  <2> QED
    BY <1>1, <2>1, <2>2, <2>3, RunUntouched
<1>10. CASE Crash
  <2>1. EndRun /\ UNCHANGED <<world, store, edits>> /\ BudgetTyped'
    BY <1>1, <1>10, FaultCounts DEF Crash
  <2>2. RemoteTyped'
    BY <1>1, <2>1 DEF RemoteTyped
  <2> QED
    BY <1>1, <2>1, <2>2, RunEndsStep
<1> QED
  BY <1>2, <1>3, <1>4, <1>5, <1>6, <1>7, <1>8, <1>9, <1>10 DEF Environment

-----------------------------------------------------------------------------
(* Reads, plan and chunks                                                   *)

\* What is left to write only grows smaller, and rows appear for nothing of it.
LEMMA LeftShrinks ==
  ASSUME WritesAreApart, Left' \subseteq Left, plan'.moves = plan.moves,
         \A a \in Left' \cap Replacements : a.event \in DOMAIN rows' => a.event \in DOMAIN rows,
         \A u \in plan.moves : u.event \in DOMAIN rows' => u.event \in DOMAIN rows
  PROVE  WritesAreApart'
BY DEF WritesAreApart, Fits

LEMMA NothingPending ==
  ASSUME pending' = NoChanges PROVE PendingIsApart' /\ PendingTyped'
BY DEF PendingIsApart, PendingTyped, ChangesApart, EventsIn, NoChanges, NoRows, Table

LEMMA SourceShape ==
  ASSUME WorldTyped, NEW o \in Owners
  PROVE  /\ source[o].start = 0 \/ source[o].start \in Slots
         /\ source[o].slots \subseteq Slots
         /\ source[o].slots # {} => source[o].body \in Bodies
<1>1. source[o] \in EventStates \/ source[o] = Deleted
  BY DEF WorldTyped
<1>2. CASE source[o] = Deleted
  BY <1>2 DEF Deleted
<1>3. CASE source[o] \in SingleStates
  BY <1>3 DEF SingleStates
<1>4. CASE source[o] \in SeriesStates
  BY <1>4 DEF SeriesStates
<1> QED
  BY <1>1, <1>2, <1>3, <1>4 DEF EventStates

\* The local read holds events with a slot and a content.
LEMMA LocalEventsTyped ==
  ASSUME WorldTyped, NEW windows
  PROVE  Table(LocalEvents(windows), EventRecords)
<1> DEFINE readable == {o \in Owners \ withheld : windows[SourceOf[o]] # {}}
           all == EventsOfOwners(readable)
           inside == {x \in DOMAIN all : all[x].slot \in BoundingWindow(windows)}
<1>1. LocalEvents(windows) = [e \in inside |-> all[e]]
  BY DEF LocalEvents
<1>2. DOMAIN all = UNION {IdsOf(o) : o \in readable}
      /\ \A e \in DOMAIN all : all[e] = [slot |-> SlotOf(e), body |-> source[OwnerOf(e)].body]
  BY DEF EventsOfOwners
<1>3. \A s \in BoundingWindow(windows) : s \in Slots
  BY DEF BoundingWindow
<1>4. ASSUME NEW o \in Owners, NEW e \in IdsOf(o)
      PROVE  e \in EventIds /\ source[OwnerOf(e)].body \in Bodies
  <2>1. /\ source[o].start = 0 \/ source[o].start \in Slots
        /\ source[o].slots \subseteq Slots
        /\ source[o].slots # {} => source[o].body \in Bodies
    BY SourceShape
  <2>2. CASE source[o].start = 0
    <3>1. e = Single(o) /\ source[o].slots # {}
      BY <1>4, <2>2 DEF IdsOf
    <3> QED
      BY <2>1, <3>1 DEF Single, EventIds, OwnerOf
  <2>3. CASE source[o].start # 0
    <3>1. PICK s \in source[o].slots : e = <<o, source[o].start, s>>
      BY <1>4, <2>3 DEF IdsOf
    <3> QED
      BY <2>1, <2>3, <3>1 DEF EventIds, OwnerOf
  <2> QED
    BY <2>2, <2>3
<1>6. \A e \in inside : e \in DOMAIN all /\ all[e].slot \in BoundingWindow(windows)
  OBVIOUS
<1> HIDE DEF all, inside
<1>5. ASSUME NEW e \in inside PROVE e \in EventIds /\ all[e] \in EventRecords
  <2>1. PICK o \in Owners : e \in IdsOf(o)
    BY <1>2, <1>6
  <2>2. e \in EventIds /\ source[OwnerOf(e)].body \in Bodies
    BY <1>4, <2>1
  <2>3. all[e].slot \in Slots
    BY <1>3, <1>6
  <2>4. all[e] = [slot |-> SlotOf(e), body |-> source[OwnerOf(e)].body]
    BY <1>2, <1>6
  <2> QED
    BY <2>2, <2>3, <2>4 DEF EventRecords
<1> QED
  BY <1>1, <1>5 DEF Table

LEMMA RemoteReadTyped == RemoteRead \subseteq remote
BY DEF RemoteRead, Listing, Verified, LookUp, AddressedBy

LEMMA StartRunStep ==
  ASSUME SyncInv, StartRun PROVE SyncInv'
<1> USE DEF SyncInv, Sharp
<1>1. /\ pc = "idle" /\ pc' = "started"
      /\ UNCHANGED <<world, store, phase, work, current, seen, plan, protected, pending, budget>>
  BY DEF StartRun
<1> USE DEF world, store, budget
<1>2. scope' \in Scopes
  <2> DEFINE w == [s \in Sources |-> IF s \in configured THEN requested \cap coverage[s] ELSE {}]
  <2>1. scope' = [requested |-> requested, configured |-> configured, windows |-> w,
                  withheld |-> {}, listed |-> FALSE, covered |-> {}]
    BY DEF StartRun, NoScope
  <2>2. w \in [Sources -> SUBSET Slots] /\ requested \subseteq Slots /\ configured \subseteq Sources
    BY DEF WorldTyped
  <2> HIDE DEF w
  <2> QED
    BY <2>1, <2>2 DEF Scopes
<1>3. WorldTyped' /\ RowsTyped' /\ RemoteTyped' /\ BudgetTyped' /\ PlanTyped' /\ PendingTyped'
  BY <1>1 DEF WorldTyped, RowsTyped, RemoteTyped, BudgetTyped, PlanTyped, PendingTyped
<1>4. ControlTyped' /\ SeenTyped'
  BY <1>1, <1>2 DEF ControlTyped, SeenTyped
<1>5. PendingIsApart'
  BY <1>1, NothingPending DEF PendingIsApart
<1>6. WritesAreApart'
  BY <1>1 DEF WritesAreApart, Left, Fits
<1> QED
  BY <1>1, <1>3, <1>4, <1>5, <1>6

LEMMA ReadLocalStep ==
  ASSUME SyncInv, ReadLocal PROVE SyncInv'
<1> USE DEF SyncInv, Sharp, world, store, budget
<1>1. pc = "started" /\ UNCHANGED <<world, store, budget>>
  BY DEF ReadLocal
<1>2. WorldTyped' /\ RowsTyped' /\ RemoteTyped' /\ BudgetTyped'
  BY <1>1 DEF WorldTyped, RowsTyped, RemoteTyped, BudgetTyped
<1>3. CASE configured # scope.configured
  BY <1>2, <1>3, RunEndsStep DEF ReadLocal
<1>4. CASE configured = scope.configured
  <2> DEFINE windows == [s \in Sources |-> scope.windows[s] \cap coverage[s]]
             late == {o \in withheld : windows[SourceOf[o]] # {}}
  <2>1. /\ pc' = "read" /\ UNCHANGED <<phase, work, current, plan, protected, pending>>
        /\ scope' = [scope EXCEPT !.windows = windows, !.withheld = late]
        /\ seen' = [events |-> LocalEvents(windows), rows |-> rows]
    BY <1>4 DEF ReadLocal
  <2>2. windows \in [Sources -> SUBSET Slots] /\ late \subseteq Owners
    BY DEF SeenTyped, Scopes, WorldTyped
  <2>3. Table(LocalEvents(windows), EventRecords)
    BY LocalEventsTyped
  <2> HIDE DEF windows, late
  <2>4. scope' \in Scopes
    BY <2>1, <2>2 DEF SeenTyped, Scopes
  <2>5. SeenTyped'
    BY <1>1, <2>1, <2>3, <2>4 DEF SeenTyped, RowsTyped
  <2>6. ControlTyped' /\ PlanTyped' /\ PendingTyped'
    BY <1>1, <2>1 DEF ControlTyped, PlanTyped, PendingTyped
  <2>7. PendingIsApart'
    BY <1>1, <2>1, NothingPending DEF PendingIsApart
  <2>8. WritesAreApart'
    BY <1>1, <2>1 DEF WritesAreApart, Left, Fits
  <2> QED
    BY <1>2, <2>1, <2>5, <2>6, <2>7, <2>8
<1> QED
  BY <1>3, <1>4

LEMMA ReadRemoteAndPlanStep ==
  ASSUME SyncInv, ReadRemoteAndPlan PROVE SyncInv'
<1> USE DEF SyncInv, Sharp, world, store, budget
<1> DEFINE full == [scope EXCEPT !.listed = ReadsByListing, !.covered = TargetRows]
           ops == PlannedOperations(seen.events, seen.rows, RemoteRead, full)
           mvs == PlannedMoves(seen.events, seen.rows, RemoteRead, full)
<1>1. pc = "read" /\ UNCHANGED <<world, store, budget>>
  BY DEF ReadRemoteAndPlan
<1>2. WorldTyped' /\ RowsTyped' /\ RemoteTyped' /\ BudgetTyped'
  BY <1>1 DEF WorldTyped, RowsTyped, RemoteTyped, BudgetTyped
<1>3. CASE EndRun
  BY <1>2, <1>3, RunEndsStep
<1>4. CASE ~EndRun
  <2>1. /\ pc' = "chunk" /\ UNCHANGED <<phase, work, current, seen, protected, pending>>
        /\ scope' = full /\ plan' = [todo |-> ops, chunk |-> {}, moves |-> mvs]
    BY <1>4 DEF ReadRemoteAndPlan, PlannedOperations, PlannedMoves
  <2>2. /\ Table(seen.events, EventRecords) /\ Table(seen.rows, OurRows)
        /\ DOMAIN seen.rows = DOMAIN rows
    BY <1>1 DEF SeenTyped
  <2>3. RemoteRead \in SUBSET Copies /\ IsFiniteSet(RemoteRead)
    BY RemoteReadTyped, FS_Subset DEF RemoteTyped, Copies
  <2>4. full \in Scopes
    <3>1. TargetRows \subseteq EventIds /\ ReadsByListing \in BOOLEAN
      BY <2>2 DEF TargetRows, ReadsByListing, Table
    <3> QED
      BY <3>1 DEF SeenTyped, Scopes
  <2> HIDE DEF full
  <2>5. ops \subseteq Operations /\ IsFiniteSet(ops) /\ mvs \subseteq Moves
    BY <2>2, <2>3, PlanTypes
  <2>6. PlanIsApart(ops \ Removals, mvs, seen.rows)
    BY <2>2, <2>3, PlanApart DEF PlannedWrites
  <2> HIDE DEF ops, mvs
  <2>7. phase = "none" /\ work = {} /\ pending = NoChanges
    BY <1>1 DEF ControlTyped, PendingIsApart, KindOf
  <2>8. Left' = ops /\ plan'.moves = mvs
    BY <2>1, <2>7 DEF Left, Ahead
  <2>9. ControlTyped'
    BY <1>1, <2>1, <2>7 DEF ControlTyped
  <2>10. SeenTyped'
    BY <2>1, <2>4 DEF SeenTyped
  <2>11. PlanTyped'
    BY <2>1, <2>5, FS_EmptySet DEF PlanTyped, Plans
  <2>12. PendingIsApart' /\ PendingTyped'
    BY <2>1, <2>7, NothingPending
  <2>13. \A a \in ops \cap Replacements : a \in ops \ Removals
    BY DEF Replacements, Removals
  <2>14. WritesAreApart'
    BY <1>1, <2>2, <2>6, <2>8, <2>13 DEF WritesAreApart, Fits, PlanIsApart
  <2> QED
    BY <1>2, <2>1, <2>9, <2>10, <2>11, <2>12, <2>14
<1> QED
  BY <1>3, <1>4

LEMMA TakeChunkStep ==
  ASSUME SyncInv, TakeChunk PROVE SyncInv'
<1> USE DEF SyncInv, Sharp, world, store, budget
<1>1. /\ pc = "chunk"
      /\ UNCHANGED <<world, store, current, scope, seen, protected, pending, budget>>
  BY DEF TakeChunk
<1>2. WorldTyped' /\ RowsTyped' /\ RemoteTyped' /\ BudgetTyped'
  BY <1>1 DEF WorldTyped, RowsTyped, RemoteTyped, BudgetTyped
<1>3. PendingIsApart' /\ PendingTyped'
  BY <1>1, NothingPending DEF PendingIsApart
<1>4. CASE plan.todo = {}
  <2>1. pc' = "moves" /\ UNCHANGED <<phase, work, plan>>
    BY <1>4 DEF TakeChunk
  <2>2. ControlTyped' /\ SeenTyped' /\ PlanTyped'
    BY <1>1, <2>1 DEF ControlTyped, SeenTyped, PlanTyped
  <2>3. WritesAreApart'
    BY <1>1, <2>1 DEF WritesAreApart, Left, Fits
  <2> QED
    BY <1>2, <1>3, <2>1, <2>2, <2>3
<1>5. CASE plan.todo # {}
  <2>1. PICK chunk \in FirstChunks(plan.todo, ChunkSize) :
          /\ plan' = [plan EXCEPT !.todo = @ \ chunk, !.chunk = chunk]
          /\ EnterAfter("none", chunk)
    BY <1>5 DEF TakeChunk
  <2>2. chunk \subseteq plan.todo
    BY DEF FirstChunks
  <2>3. /\ plan.todo \subseteq Operations /\ IsFiniteSet(plan.todo)
        /\ plan'.todo = plan.todo \ chunk /\ plan'.chunk = chunk /\ plan'.moves = plan.moves
        /\ plan' \in Plans
    BY <2>1, <2>2 DEF PlanTyped, Plans
  <2>4. ControlWithin(chunk) /\ work' \subseteq chunk /\ Ahead(phase', chunk) \subseteq chunk
    <3>1. /\ ControlWithin(AfterGroup("none", chunk)) /\ work' \subseteq chunk
          /\ Ahead(phase', chunk) \subseteq AfterGroup("none", chunk)
      BY <2>1, <2>2, <2>3, EnterAfterMoves
    <3> QED
      BY <3>1 DEF AfterGroup
  <2>5. PlanTyped'
    <3>1. IsFiniteSet(chunk) /\ IsFiniteSet(plan.todo \ chunk)
      BY <2>2, <2>3, FS_Subset
    <3> QED
      BY <2>3, <3>1 DEF PlanTyped
  <2>6. ControlTyped'
    BY <1>1, <2>3, <2>4 DEF ControlTyped, ControlWithin
  <2>7. SeenTyped' /\ pc' # "unrecorded" /\ pc' # "flush"
    BY <1>1, <2>4 DEF SeenTyped, ControlWithin
  <2>8. Left' \subseteq Left
    BY <2>2, <2>3, <2>4 DEF Left
  <2>9. WritesAreApart'
    BY <1>1, <2>3, <2>8, LeftShrinks
  <2> QED
    BY <1>2, <1>3, <2>5, <2>6, <2>7, <2>9
<1> QED
  BY <1>4, <1>5

-----------------------------------------------------------------------------
(* Calls of the provider                                                    *)

LEMMA ResultsCount ==
  ASSUME BudgetTyped, NEW ops, IsFiniteSet(ops), NEW outcomes,
         NEW result \in Results(ops, outcomes),
         faults' = faults + Faulty(result), edits' = edits
  PROVE  BudgetTyped' /\ Took(ops, result) \subseteq ops /\ Done(ops, result) \subseteq ops
<1> DEFINE bad == {op \in DOMAIN result : result[op] # "ok"}
<1>1. DOMAIN result = ops /\ faults + Faulty(result) <= MaxFaults
  BY DEF Results
<1>2. IsFiniteSet(bad)
  BY <1>1, FS_Subset
<1>3. Faulty(result) \in Nat
  BY <1>2, FS_CardinalityType DEF Faulty
<1> QED
  BY <1>1, <1>3, DestinationAssumption DEF BudgetTyped, Took, Done

\* What a call works on.
LEMMA WorkShape ==
  ASSUME SyncInv, pc = "call"
  PROVE  /\ IsFiniteSet(work) /\ work \subseteq plan.chunk /\ work \subseteq Operations
         /\ phase = "remove" => work \subseteq Removals
         /\ phase \in {"update", "clear", "readd"} => work \subseteq Replacements
         /\ phase = "add" => work \subseteq Adds
         /\ pending = NoChanges
<1>1. /\ work \subseteq plan.chunk \cap KindOf(phase) /\ IsFiniteSet(plan.chunk)
      /\ plan.chunk \subseteq Operations
  BY DEF SyncInv, Sharp, ControlTyped, PlanTyped, Plans
<1>2. IsFiniteSet(work)
  BY <1>1, FS_Subset
<1>3. pending = NoChanges
  BY DEF SyncInv, PendingIsApart
<1> QED
  BY <1>1, <1>2, <1>3 DEF KindOf

\* What is left after a write of the work is for other events.
LEMMA OthersLeft ==
  ASSUME SyncInv, pc = "call", phase # "remove", NEW op \in work, NEW rest \in SUBSET work,
         op \notin rest
  PROVE  /\ \A a \in (plan.todo \cup rest \cup Ahead(phase, plan.chunk)) \ Removals :
              a.event # op.event
         /\ \A u \in plan.moves : u.event # op.event
<1>1. WritesAreApart
  BY DEF SyncInv
<1>2. work \subseteq plan.chunk /\ work \subseteq Left /\ plan.todo \cap plan.chunk = {}
      /\ plan.todo \cup rest \cup Ahead(phase, plan.chunk) \subseteq Left
  BY WorkShape DEF Left, SyncInv, Sharp, PlanTyped
<1>3. phase \in {"update", "clear", "readd", "add"}
  BY DEF SyncInv, Sharp, ControlTyped
<1>4. op \in Left \ Removals /\ op \notin Ahead(phase, plan.chunk)
  BY <1>2, <1>3, WorkShape DEF Ahead, Replacements, Adds, Removals
<1> QED
  BY <1>1, <1>2, <1>4 DEF WritesAreApart

\* A call that records its changes, or has none to record.
LEMMA RecordStep ==
  ASSUME SyncInv, pc = "call", NEW rest \in SUBSET work, NEW changes,
         Checkpoint(changes, rest), ChangesTyped(changes),
         ChangesApart(changes, plan.todo \cup rest \cup Ahead(phase, plan.chunk)),
         \A u \in changes.updates : Fits(u),
         UNCHANGED <<world, rows, current, scope, seen, plan>>, BudgetTyped', RemoteTyped'
  PROVE  SyncInv'
<1> USE DEF SyncInv, Sharp
<1>1. /\ UNCHANGED <<source, withheld, coverage, configured, requested>>
      /\ rows' = rows /\ current' = current /\ scope' = scope /\ seen' = seen /\ plan' = plan
  BY DEF world
<1> DEFINE left == plan.todo \cup rest \cup Ahead(phase, plan.chunk)
<1>2. /\ ControlTyped'
      /\ \/ pc' \in {"chunk", "call", "moves"} /\ pending' = NoChanges
         \/ pc' = "flush" /\ pending' = changes
      /\ Left' \subseteq left
  BY <1>1, CheckpointMoves
<1>3. left \subseteq Left
  BY DEF Left
<1> HIDE DEF left
<1>4. WorldTyped' /\ RowsTyped' /\ PlanTyped'
  BY <1>1 DEF WorldTyped, RowsTyped, PlanTyped
<1>5. SeenTyped'
  BY <1>1, <1>2 DEF SeenTyped
<1>6. WritesAreApart'
  BY <1>1, <1>2, <1>3, LeftShrinks
<1>7. PendingIsApart' /\ PendingTyped' /\ (pc' = "flush" => \A u \in pending'.updates : Fits(u)')
  <2>1. CASE pending' = NoChanges /\ pc' # "flush"
    BY <2>1, NothingPending
  <2>2. CASE pc' = "flush" /\ pending' = changes
    <3>1. ChangesApart(changes, left)
      BY DEF left
    <3>2. ChangesApart(pending, Left)'
      BY <1>1, <1>2, <2>2, <3>1 DEF ChangesApart, EventsIn
    <3> QED
      BY <1>1, <2>2, <3>2 DEF PendingIsApart, PendingTyped, ChangesTyped, Fits
  <2> QED
    BY <1>2, <2>1, <2>2
<1> QED
  BY <1>2, <1>4, <1>5, <1>6, <1>7

LEMMA RemoveCallStep ==
  ASSUME SyncInv, RemoveCall PROVE SyncInv'
<1>1. /\ pc = "call" /\ phase = "remove"
      /\ UNCHANGED <<world, rows, current, scope, seen, plan>> /\ edits' = edits
  BY DEF RemoveCall
<1> DEFINE actionable == Actionable(work)
<1>2. PICK result \in Results(actionable, {"ok", "failed", "lost"}) :
        /\ remote' = WithoutAddressed(Took(actionable, result))
        /\ faults' = faults + Faulty(result)
        /\ Checkpoint(processDeleteResults(Done(actionable, result)), {})
  BY DEF RemoveCall
<1>3. actionable \subseteq work /\ IsFiniteSet(actionable)
  BY <1>1, WorkShape, FS_Subset DEF Actionable
<1>4. RowsTyped /\ RemoteTyped /\ BudgetTyped
  BY DEF SyncInv, Sharp
<1> HIDE DEF actionable
<1>5. /\ BudgetTyped' /\ Took(actionable, result) \subseteq work
      /\ Done(actionable, result) \subseteq work
  BY <1>1, <1>2, <1>3, <1>4, ResultsCount
<1>6. \A op \in work : op.del \in OurIds /\ op.row \in EventIds \cup {NoEvent}
  BY <1>1, WorkShape DEF Removals
<1>7. RemoteTyped'
  <2>1. \A op \in Took(actionable, result) : op.del \in OurIds
    BY <1>5, <1>6
  <2>2. remote' \subseteq remote \cup {} /\ ForeignCopy \in remote'
    BY <1>2, <1>4, <2>1, DeletionKeeps
  <2> QED
    BY <1>4, <2>2, FS_EmptySet, CalendarChanges
<1> DEFINE changes == processDeleteResults(Done(actionable, result))
<1>8. changes.updates = {} /\ changes.inserts = NoRows /\ changes.deletes \subseteq EventIds
  BY <1>5, <1>6 DEF processDeleteResults, NoChanges
<1>9. Checkpoint(changes, {})
  BY <1>2
<1> HIDE DEF changes
<1>10. ChangesTyped(changes) /\ ChangesApart(changes, plan.todo \cup {} \cup Ahead(phase, plan.chunk))
  BY <1>8 DEF ChangesTyped, ChangesApart, EventsIn, NoRows, Table
<1> QED
  BY <1>1, <1>5, <1>7, <1>8, <1>9, <1>10, RecordStep

LEMMA UpdateCallStep ==
  ASSUME SyncInv, UpdateCall PROVE SyncInv'
<1>1. /\ pc = "call" /\ phase = "update"
      /\ UNCHANGED <<world, rows, current, scope, seen, plan>> /\ edits' = edits
  BY DEF UpdateCall
<1> DEFINE matching == {op \in work : UpdateTargetMatches(op)}
<1>2. PICK result \in Results(matching, {"ok", "failed", "lost"}) :
        /\ remote' = Written(Took(matching, result))
        /\ faults' = faults + Faulty(result)
        /\ Checkpoint(processUpdateResults(Done(matching, result)), work \ Done(matching, result))
  BY DEF UpdateCall
<1>3. matching \subseteq work /\ IsFiniteSet(matching) /\ IsFiniteSet(work)
  BY <1>1, WorkShape, FS_Subset
<1>4. RowsTyped /\ RemoteTyped /\ BudgetTyped /\ PlanTyped
  BY DEF SyncInv, Sharp
<1> HIDE DEF matching
<1> DEFINE took == Took(matching, result)
           done == Done(matching, result)
<1>5. BudgetTyped' /\ took \subseteq work /\ done \subseteq work
  BY <1>1, <1>2, <1>3, <1>4, ResultsCount
<1>6. \A op \in work : /\ op \in Replacements /\ op.del \in OurIds /\ op.row \in EventIds
                       /\ op.event \in EventIds /\ op.slot \in Slots /\ op.body \in Bodies
  BY <1>1, WorkShape DEF Replacements
<1> DEFINE changes == processUpdateResults(done)
<1>7. remote' = Written(took) /\ Checkpoint(changes, work \ done)
  BY <1>2
<1> HIDE DEF took, done
<1>8. RemoteTyped'
  <2>1. IsFiniteSet(took)
    BY <1>3, <1>5, FS_Subset
  <2>2. PICK S \in SUBSET OurCopies :
          IsFiniteSet(S) /\ Written(took) \subseteq remote \cup S /\ ForeignCopy \in Written(took)
    BY <1>4, <1>5, <1>6, <2>1, WritingKeeps
  <2> QED
    BY <1>4, <1>7, <2>2, CalendarChanges
<1>9. /\ changes.deletes = {} /\ changes.inserts = NoRows
      /\ changes.updates = {MoveOf(op.row, op.event, op, op.del) : op \in done}
  BY DEF processUpdateResults, NoChanges
<1> HIDE DEF changes
<1>10. ASSUME NEW u \in changes.updates
       PROVE  \E op \in done : u.event = op.event /\ u.row = op.row
                               /\ u = MoveOf(op.row, op.event, op, op.del) /\ u \in Moves
  BY <1>5, <1>6, <1>9 DEF MoveOf, Moves
<1>11. \A e \in EventsIn(changes) : \E op \in done : e = op.event
  BY <1>9, <1>10 DEF EventsIn, NoRows
<1>12. ChangesTyped(changes)
  BY <1>9, <1>10 DEF ChangesTyped, NoRows, Table
<1>13. WritesAreApart /\ work \subseteq Left
  BY <1>1 DEF SyncInv, Left
<1>14. \A op \in done : op \in Left \ Removals /\ op \in Left \cap Replacements
  BY <1>5, <1>6, <1>13 DEF Replacements, Removals
<1>15. \A u \in changes.updates : Fits(u)
  BY <1>10, <1>13, <1>14 DEF WritesAreApart, Fits
<1>16. \A u, v \in changes.updates : u.event = v.event => u = v
  BY <1>10, <1>13, <1>14 DEF WritesAreApart
<1>17. ChangesApart(changes, plan.todo \cup (work \ done) \cup Ahead(phase, plan.chunk))
  <2>1. \A op \in done :
          /\ \A a \in (plan.todo \cup (work \ done) \cup Ahead(phase, plan.chunk)) \ Removals :
               a.event # op.event
          /\ \A u \in plan.moves : u.event # op.event
    <3> DEFINE rest == work \ done
    <3>1. rest \in SUBSET work /\ phase # "remove" /\ \A op \in done : op \in work /\ op \notin rest
      BY <1>1, <1>5
    <3> HIDE DEF rest
    <3>2. \A op \in done :
            /\ \A a \in (plan.todo \cup rest \cup Ahead(phase, plan.chunk)) \ Removals :
                 a.event # op.event
            /\ \A u \in plan.moves : u.event # op.event
      BY <1>1, <3>1, OthersLeft
    <3> QED
      BY <3>2 DEF rest
  <2>2. DOMAIN changes.inserts = {}
    BY <1>9 DEF NoRows
  <2> QED
    BY <1>9, <1>11, <1>16, <2>1, <2>2 DEF ChangesApart
<1> QED
  BY <1>1, <1>5, <1>7, <1>8, <1>12, <1>15, <1>17, RecordStep

LEMMA ClearCallStep ==
  ASSUME SyncInv, ClearCall PROVE SyncInv'
<1> USE DEF SyncInv, Sharp
<1>1. /\ pc = "call" /\ phase = "clear"
      /\ UNCHANGED <<world, rows, current, scope, seen, plan, protected, pending, edits>>
  BY DEF ClearCall
<1>2. PICK result \in Results(work, {"ok", "failed", "lost"}) :
        /\ remote' = WithoutAddressed(Took(work, result))
        /\ faults' = faults + Faulty(result)
        /\ LeavePhase(Done(work, result))
  BY DEF ClearCall
<1> DEFINE took == Took(work, result)
           done == Done(work, result)
<1>3. IsFiniteSet(work) /\ work \subseteq Replacements /\ pending = NoChanges
  BY <1>1, WorkShape
<1>4. BudgetTyped' /\ took \subseteq work /\ done \subseteq work
  BY <1>1, <1>2, <1>3, ResultsCount
<1>5. remote' = WithoutAddressed(took) /\ LeavePhase(done)
  BY <1>2
<1> HIDE DEF took, done
<1>6. RemoteTyped'
  <2>1. \A op \in took : op.del \in OurIds
    BY <1>3, <1>4 DEF Replacements
  <2>2. remote' \subseteq remote \cup {} /\ ForeignCopy \in remote'
    BY <1>5, <2>1, DeletionKeeps
  <2> QED
    BY <2>2, FS_EmptySet, CalendarChanges
<1>7. /\ ControlTyped' /\ pc' \in {"chunk", "call", "moves"}
      /\ Left' \subseteq plan.todo \cup done \cup Ahead(phase, plan.chunk)
  BY <1>1, <1>4, <1>5, LeavePhaseMoves
<1>8. Left' \subseteq Left
  BY <1>4, <1>7 DEF Left
<1>9. WritesAreApart'
  BY <1>1, <1>8, LeftShrinks
<1>10. PendingIsApart' /\ PendingTyped'
  BY <1>1, <1>3, NothingPending
<1>11. WorldTyped' /\ RowsTyped' /\ PlanTyped'
  BY <1>1 DEF world, WorldTyped, RowsTyped, PlanTyped
<1>12. SeenTyped'
  BY <1>1, <1>7 DEF SeenTyped
<1> QED
  BY <1>4, <1>6, <1>7, <1>9, <1>10, <1>11, <1>12

\* A row for what was pushed, by the event it was pushed for.
LEMMA InsertsTyped ==
  ASSUME RowsTyped, RemoteTyped, PlanTyped, NEW done,
         \A op \in done : op.event \in EventIds /\ op.slot \in Slots /\ op.body \in Bodies
  PROVE  Table(InsertsOf(done), OurRows) /\ DOMAIN InsertsOf(done) = {op.event : op \in done}
<1> DEFINE events == {op.event : op \in done}
           of(e) == CHOOSE op \in done : op.event = e
<1>1. ASSUME NEW op \in done PROVE PushedRow(op) \in OurRows
  <2> DEFINE copy == WrittenCopy(op.event, op.slot, op.body)
  <2>1. copy \in OurCopies
    BY WrittenCopyTyped
  <2>2. PushedRow(op) = [uid |-> copy.uid, del |-> PushedDeleteId(copy), slot |-> op.slot,
                         body |-> op.body, owned |-> TRUE]
    BY DEF PushedRow
  <2> HIDE DEF copy
  <2>3. copy.uid \in OurRefs /\ copy.id \in OurRefs
    BY <2>1 DEF OurCopies
  <2>4. PushedDeleteId(copy) \in OurIds
    BY <2>3, OurRefShape DEF PushedDeleteId
  <2> QED
    BY <2>2, <2>3, <2>4 DEF OurRows
<1>2. InsertsOf(done) = [e \in events |-> PushedRow(of(e))]
  BY DEF InsertsOf
<1>3. ASSUME NEW e \in events PROVE of(e) \in done /\ e \in EventIds
  BY DEF of, events
<1> HIDE DEF events, of
<1>4. \A e \in events : PushedRow(of(e)) \in OurRows
  BY <1>1, <1>3
<1> QED
  BY <1>2, <1>3, <1>4 DEF Table, events

LEMMA PushCallStep ==
  ASSUME SyncInv, PushCall PROVE SyncInv'
<1>1. /\ pc = "call" /\ phase \in {"readd", "add"}
      /\ UNCHANGED <<world, rows, current, scope, seen, plan>> /\ edits' = edits
  BY DEF PushCall
<1> DEFINE sent == {op \in work : op.body \notin Unpushable}
           skipped == work \ sent
           torn(result) == {op \in sent : result[op] = "torn"}
<1>2. PICK result \in Results(sent, PushOutcomes) :
        /\ remote' = Written(Took(sent, result)) \ UNION {CopiesOf(op.event) : op \in torn(result)}
        /\ faults' = faults + Faulty(result)
        /\ Checkpoint(processAddResults(Done(sent, result), skipped), {})
  BY DEF PushCall
<1>3. sent \subseteq work /\ skipped \subseteq work /\ IsFiniteSet(sent) /\ IsFiniteSet(work)
  BY <1>1, WorkShape, FS_Subset
<1>4. RowsTyped /\ RemoteTyped /\ BudgetTyped /\ PlanTyped
  BY DEF SyncInv, Sharp
<1>5. torn(result) \subseteq work
  BY <1>3
<1> HIDE DEF sent, skipped, torn
<1> DEFINE took == Took(sent, result)
           done == Done(sent, result)
<1>6. BudgetTyped' /\ took \subseteq work /\ done \subseteq work
  BY <1>1, <1>2, <1>3, <1>4, ResultsCount
<1>7. \A op \in work : /\ op \notin Removals /\ op.row \in EventIds \cup {NoEvent}
                       /\ op.event \in EventIds /\ op.slot \in Slots /\ op.body \in Bodies
  <2>1. \A op \in Replacements \cup Adds :
          /\ op \notin Removals /\ op.row \in EventIds \cup {NoEvent}
          /\ op.event \in EventIds /\ op.slot \in Slots /\ op.body \in Bodies
    BY DEF Replacements, Adds, Removals
  <2> QED
    BY <1>1, <2>1, WorkShape
<1> DEFINE changes == processAddResults(done, skipped)
           wiped == UNION {CopiesOf(op.event) : op \in torn(result)}
<1>8. remote' = Written(took) \ wiped /\ Checkpoint(changes, {})
  BY <1>2
<1>9. ForeignCopy \notin wiped
  BY <1>5, <1>7, ForeignUnaddressed
<1> HIDE DEF took, done, wiped
<1>10. RemoteTyped'
  <2>1. IsFiniteSet(took)
    BY <1>3, <1>6, FS_Subset
  <2>2. PICK S \in SUBSET OurCopies :
          IsFiniteSet(S) /\ Written(took) \subseteq remote \cup S /\ ForeignCopy \in Written(took)
    BY <1>4, <1>6, <1>7, <2>1, WritingKeeps
  <2>3. remote' \subseteq remote \cup S /\ ForeignCopy \in remote'
    BY <1>8, <1>9, <2>2
  <2> QED
    BY <1>4, <2>2, <2>3, CalendarChanges
<1>11. Table(InsertsOf(done), OurRows) /\ DOMAIN InsertsOf(done) = {op.event : op \in done}
  BY <1>4, <1>6, <1>7, InsertsTyped
<1>12. /\ changes.deletes \subseteq EventIds /\ changes.updates = {}
       /\ changes.inserts = InsertsOf(done)
  BY <1>3, <1>6, <1>7 DEF processAddResults
<1> HIDE DEF changes
<1>13. ChangesTyped(changes)
  BY <1>11, <1>12 DEF ChangesTyped
<1>14. \A e \in EventsIn(changes) : \E op \in done : e = op.event
  BY <1>11, <1>12 DEF EventsIn
<1>15. ChangesApart(changes, plan.todo \cup {} \cup Ahead(phase, plan.chunk))
  <2> DEFINE rest == {}
  <2>1. rest \in SUBSET work /\ phase # "remove" /\ \A op \in done : op \in work /\ op \notin rest
    BY <1>1, <1>6
  <2> HIDE DEF rest
  <2>2. \A op \in done :
          /\ \A a \in (plan.todo \cup rest \cup Ahead(phase, plan.chunk)) \ Removals :
               a.event # op.event
          /\ \A u \in plan.moves : u.event # op.event
    BY <1>1, <2>1, OthersLeft
  <2>3. ChangesApart(changes, plan.todo \cup rest \cup Ahead(phase, plan.chunk))
    BY <1>12, <1>14, <2>2 DEF ChangesApart
  <2> QED
    BY <2>3 DEF rest
<1> QED
  BY <1>1, <1>6, <1>8, <1>10, <1>12, <1>13, <1>15, RecordStep

-----------------------------------------------------------------------------
(* Checkpoints and the end of a run                                         *)

LEMMA FlushStep ==
  ASSUME SyncInv, Flush PROVE SyncInv'
<1> USE DEF SyncInv, Sharp
<1>1. /\ pc = "flush" /\ rows' = Flushed(pending) /\ pending' = NoChanges /\ LeavePhase(work)
      /\ UNCHANGED <<world, remote, current, scope, seen, plan, protected, budget>>
  BY DEF Flush
<1>2. phase # "none"
  BY <1>1 DEF ControlTyped
<1>3. /\ ControlTyped' /\ pc' \in {"chunk", "call", "moves"}
      /\ Left' \subseteq plan.todo \cup work \cup Ahead(phase, plan.chunk)
  BY <1>1, <1>2, LeavePhaseMoves
<1>4. Left' \subseteq Left
  BY <1>3 DEF Left
<1>5. /\ Table(rows', OurRows)
      /\ DOMAIN rows' \subseteq DOMAIN rows \cup EventsIn(pending)
  <2>1. ChangesTyped(pending)
    BY DEF PendingTyped, ChangesTyped
  <2> QED
    BY <1>1, <2>1, FlushedTyped
<1>6. ChangesApart(pending, Left)
  BY <1>1 DEF PendingIsApart
<1>7. \A a \in Left \cap Replacements : a \notin Removals
  BY DEF Replacements, Removals
<1>8. /\ \A a \in Left' \cap Replacements : a.event \in DOMAIN rows' => a.event \in DOMAIN rows
      /\ \A u \in plan.moves : u.event \in DOMAIN rows' => u.event \in DOMAIN rows
  BY <1>4, <1>5, <1>6, <1>7 DEF ChangesApart
<1>9. WritesAreApart'
  BY <1>1, <1>4, <1>8, LeftShrinks
<1>10. PendingIsApart' /\ PendingTyped'
  BY <1>1, NothingPending
<1>11. WorldTyped' /\ RowsTyped' /\ RemoteTyped' /\ PlanTyped' /\ BudgetTyped'
  BY <1>1, <1>5 DEF world, budget, WorldTyped, RowsTyped, RemoteTyped, PlanTyped, BudgetTyped
<1>12. SeenTyped'
  BY <1>1, <1>3 DEF SeenTyped
<1> QED
  BY <1>3, <1>9, <1>10, <1>11, <1>12

LEMMA FlushFailsStep ==
  ASSUME SyncInv, FlushFails PROVE SyncInv'
<1> USE DEF SyncInv, Sharp
<1>1. /\ pc = "flush" /\ rows' \in {rows, Flushed(pending)}
      /\ UNCHANGED <<world, remote, edits>>
      /\ faults < MaxFaults /\ faults' = faults + 1
  BY DEF FlushFails
<1>2. ChangesTyped(pending)
  BY DEF PendingTyped, ChangesTyped
<1>3. RowsTyped'
  BY <1>1, <1>2, FlushedTyped DEF RowsTyped
<1>4. WorldTyped' /\ RemoteTyped' /\ BudgetTyped'
  BY <1>1, FaultCounts DEF world, WorldTyped, RemoteTyped
<1>5. CASE DOMAIN pending.inserts = {}
  BY <1>3, <1>4, <1>5, RunEndsStep DEF FlushFails
<1>6. CASE DOMAIN pending.inserts # {}
  <2>1. pc' = "unrecorded" /\ UNCHANGED <<phase, work, current, scope, seen, plan, pending>>
    BY <1>6 DEF FlushFails, memory
  <2>2. ControlTyped' /\ SeenTyped' /\ PlanTyped' /\ PendingTyped'
    BY <1>1, <2>1 DEF ControlTyped, SeenTyped, PlanTyped, PendingTyped
  <2> QED
    BY <1>3, <1>4, <2>1, <2>2
<1> QED
  BY <1>5, <1>6

LEMMA DeleteUnrecordedStep ==
  ASSUME SyncInv, deleteUnrecordedCopies PROVE SyncInv'
<1> USE DEF SyncInv, Sharp
<1> DEFINE pushed == DOMAIN pending.inserts
<1>1. EndRun /\ UNCHANGED <<world, rows, edits>>
  BY DEF deleteUnrecordedCopies
<1>2. PICK result \in Results(pushed, {"ok", "failed", "lost"}) :
        /\ remote' = remote \ UNION {AddressedBy(pending.inserts[e].del) : e \in Took(pushed, result)}
        /\ faults' = faults + Faulty(result)
  BY DEF deleteUnrecordedCopies
<1>3. IsFiniteSet(pushed) /\ Table(pending.inserts, OurRows)
  BY TableFinite DEF PendingTyped
<1>4. BudgetTyped' /\ Took(pushed, result) \subseteq pushed
  BY <1>1, <1>2, <1>3, ResultsCount
<1>5. \A e \in Took(pushed, result) : ForeignCopy \notin AddressedBy(pending.inserts[e].del)
  BY <1>3, <1>4, ForeignUnaddressed DEF Table, OurRows
<1>6. remote' \subseteq remote \cup {} /\ ForeignCopy \in remote'
  BY <1>2, <1>5 DEF RemoteTyped
<1>7. RemoteTyped'
  BY <1>6, FS_EmptySet, CalendarChanges
<1>8. WorldTyped' /\ RowsTyped'
  BY <1>1 DEF world, WorldTyped, RowsTyped
<1> QED
  BY <1>1, <1>4, <1>7, <1>8, RunEndsStep

LEMMA FinishRunStep ==
  ASSUME SyncInv, FinishRun PROVE SyncInv'
<1> USE DEF SyncInv, Sharp
<1> DEFINE changes == [NoChanges EXCEPT !.updates = plan.moves]
<1>1. EndRun /\ UNCHANGED <<world, remote, edits>> /\ rows' \in {rows, Flushed(changes)}
  BY DEF FinishRun
<1>2. ChangesTyped(changes)
  BY DEF ChangesTyped, NoChanges, NoRows, Table, PlanTyped, Plans
<1> HIDE DEF changes
<1>3. RowsTyped'
  BY <1>1, <1>2, FlushedTyped DEF RowsTyped
<1>4. BudgetTyped'
  <2>1. faults' = faults \/ (faults < MaxFaults /\ faults' = faults + 1)
    BY DEF FinishRun
  <2>2. faults' = faults => BudgetTyped'
    BY <1>1 DEF BudgetTyped
  <2> QED
    BY <1>1, <2>1, <2>2, FaultCounts
<1>5. WorldTyped' /\ RemoteTyped'
  BY <1>1 DEF world, WorldTyped, RemoteTyped
<1> QED
  BY <1>1, <1>3, <1>4, <1>5, RunEndsStep

-----------------------------------------------------------------------------
(* The theorems                                                             *)

LEMMA InitSyncInv == Init => SyncInv
<1> SUFFICES ASSUME Init PROVE SyncInv
  OBVIOUS
<1> USE DEF Init
<1>1. WorldTyped
  BY DEF WorldTyped, Slots
<1>2. RowsTyped /\ SeenTyped /\ PendingTyped
  BY DEF RowsTyped, SeenTyped, PendingTyped, NoRows, NoScope, NotSeen, NoChanges, Scopes, Table
<1>3. RemoteTyped
  BY FS_Singleton DEF RemoteTyped
<1>4. ControlTyped
  BY DEF ControlTyped, KindOf
<1>5. PlanTyped
  BY FS_EmptySet DEF PlanTyped, NoPlan, Plans
<1>6. BudgetTyped
  BY DestinationAssumption DEF BudgetTyped
<1>7. Left = {} /\ plan.moves = {}
  BY DEF Left, NoPlan, Ahead
<1>8. PendingIsApart
  BY <1>7 DEF PendingIsApart, ChangesApart, EventsIn, NoChanges, NoRows
<1>9. WritesAreApart
  BY <1>7 DEF WritesAreApart
<1> QED
  BY <1>1, <1>2, <1>3, <1>4, <1>5, <1>6, <1>8, <1>9 DEF SyncInv, Sharp

LEMMA NextSyncInv == SyncInv /\ [Next]_vars => SyncInv'
<1> SUFFICES ASSUME SyncInv, [Next]_vars PROVE SyncInv'
  OBVIOUS
<1>1. CASE RunStep
  BY <1>1, StartRunStep, ReadLocalStep, ReadRemoteAndPlanStep, TakeChunkStep, RemoveCallStep,
     UpdateCallStep, ClearCallStep, PushCallStep, FlushStep, FlushFailsStep,
     DeleteUnrecordedStep, FinishRunStep DEF RunStep
<1>2. CASE Environment
  BY <1>2, EnvironmentStep
<1>3. CASE UNCHANGED vars
  <2>1. WorldTyped' /\ RowsTyped' /\ RemoteTyped' /\ BudgetTyped' /\ current' \in BOOLEAN
    BY <1>3 DEF SyncInv, Sharp, ControlTyped, vars, world, store, budget, WorldTyped, RowsTyped,
                RemoteTyped, BudgetTyped
  <2>2. UNCHANGED <<control, memory>> /\ DOMAIN rows' = DOMAIN rows
    BY <1>3 DEF vars, store
  <2> QED
    BY <2>1, <2>2, RunUntouched
<1> QED
  BY <1>1, <1>2, <1>3 DEF Next

\* The invariant of the runs over one destination, for every provider and any bounds.
THEOREM SyncInvariance == Spec => []SyncInv
BY InitSyncInv, NextSyncInv, PTL DEF Spec

\* Types of the run's variables: what the code of sync-user.ts and the sync engine holds.
THEOREM SyncTyped == Spec => []TypeOK
<1>1. SyncInv => TypeOK
  <2> SUFFICES ASSUME SyncInv PROVE TypeOK
    OBVIOUS
  <2> USE DEF SyncInv, Sharp
  <2>1. /\ \A o \in Owners : source[o] \in EventStates \cup {Deleted}
        /\ withheld \subseteq Owners
        /\ \A s \in Sources : coverage[s] \subseteq Slots
        /\ configured \subseteq Sources /\ requested \subseteq Slots
    BY DEF WorldTyped
  <2>2. OurRows \subseteq RowType /\ OurCopies \subseteq CopyType
    BY OurRefShape DEF OurRows, RowType, OurCopies, CopyType
  <2>3. Operations \subseteq OpType /\ Moves \subseteq MoveType
    BY OurRefShape DEF Operations, Adds, Replacements, Removals, OpType, Moves, MoveType
  <2>4. IsRows(rows) /\ IsRows(seen.rows) /\ IsRows(pending.inserts)
    BY <2>2 DEF IsRows, RowsTyped, SeenTyped, PendingTyped, Table
  <2>5. remote \subseteq CopyType \cup {ForeignCopy}
    BY <2>2 DEF RemoteTyped
  <2>6. plan.todo \cup plan.chunk \cup work \subseteq OpType
    BY <2>3 DEF PlanTyped, Plans, ControlTyped
  <2>7. plan.moves \cup pending.updates \subseteq MoveType /\ pending.deletes \subseteq EventIds
    BY <2>3 DEF PlanTyped, Plans, PendingTyped
  <2> QED
    BY <2>1, <2>4, <2>5, <2>6, <2>7 DEF TypeOK, ControlTyped, BudgetTyped
<1> QED
  BY <1>1, SyncInvariance, PTL

\* No run ever deletes or overwrites an event that is the user's own.
THEOREM ForeignAlwaysKept == Spec => []ForeignKept
<1>1. SyncInv => ForeignKept
  BY DEF SyncInv, Sharp, RemoteTyped, ForeignKept
<1> QED
  BY <1>1, SyncInvariance, PTL

\* No mapping update ever meets the unique index on (calendarId, syncEventId).
THEOREM UpdatesNeverMeetTheIndex == Spec => []UpdatesNeverCollide
<1>1. SyncInv => UpdatesNeverCollide
  <2> SUFFICES ASSUME SyncInv PROVE UpdatesNeverCollide
    OBVIOUS
  <2>1. ASSUME NEW changes, changes.deletes = {}, DOMAIN changes.inserts = {}
        PROVE  DOMAIN AfterInserts(changes) = DOMAIN rows
    BY <2>1 DEF AfterInserts
  <2>2. ASSUME NEW changes, changes.updates # {} => DOMAIN AfterInserts(changes) = DOMAIN rows,
               \A u \in changes.updates : Fits(u),
               \A u, v \in changes.updates : u.event = v.event => u = v
        PROVE  ~ViolatesIndex(changes)
    BY <2>2 DEF ViolatesIndex, Fits
  <2>3. pc = "flush" => ~ViolatesIndex(pending)
    BY <2>1, <2>2 DEF SyncInv, PendingIsApart, ChangesApart
  <2>4. pc = "moves" => ~ViolatesIndex([NoChanges EXCEPT !.updates = plan.moves])
    <3> DEFINE changes == [NoChanges EXCEPT !.updates = plan.moves]
    <3>1. /\ changes.deletes = {} /\ DOMAIN changes.inserts = {}
          /\ changes.updates = plan.moves
      BY DEF NoChanges, NoRows
    <3> HIDE DEF changes
    <3>2. pc = "moves" => WritesAreApart
      BY DEF SyncInv
    <3>3. pc = "moves" => ~ViolatesIndex(changes)
      BY <2>1, <2>2, <3>1, <3>2 DEF WritesAreApart
    <3> QED
      BY <3>3 DEF changes
  <2> QED
    BY <2>3, <2>4 DEF UpdatesNeverCollide
<1> QED
  BY <1>1, SyncInvariance, PTL

-----------------------------------------------------------------------------
(* What identifies a copy                                                   *)

\* The uid of the copy with an id, and the identifiers that address the copy of a uid.
UidOf(ref) == IF Provider = "outlook" THEN ref ELSE DerivedUid(ref[1])
Addresses(del, uid) ==
  /\ del.form = "id" => uid = UidOf(del.ref)
  /\ del.form = "uid" => Provider = "caldav"
  /\ Provider = "caldav" => del.ref = uid
Addressed(f) == \A m \in DOMAIN f : Addresses(f[m].del, f[m].uid)
SameCopy(del, other) == del = other \/ Provider = "caldav"

\* Copies have uids of their own, and their ids tell them.
ApartIn(copies) ==
  /\ \A c \in copies \ {ForeignCopy} : Addresses(ById(c.id), c.uid)
  /\ \A c, d \in copies : c.uid = d.uid => c = d
CopiesApart == ApartIn(remote)

\* What it takes of a row to be the record of a copy.
Holds(row, c) == c.uid = row.uid /\ SameCopy(row.del, ById(c.id))

\* The parts of a row.
LEMMA RowShape ==
  ASSUME NEW row \in OurRows
  PROVE  /\ row.uid \in OurRefs /\ row.del \in OurIds
         /\ row.del = [form |-> row.del.form, ref |-> row.del.ref]
         /\ row.del.form \in {"uid", "id"}
         /\ ForeignCopy.uid # row.uid
<1>1. row.uid \in OurRefs /\ row.del \in OurIds
  BY DEF OurRows
<1>2. row.del = [form |-> row.del.form, ref |-> row.del.ref] /\ row.del.form \in {"uid", "id"}
  BY <1>1 DEF OurIds
<1> QED
  BY <1>1, <1>2, OurRefShape DEF ForeignCopy

\* A row matches exactly the copy it is the record of, if that has been read.
LEMMA MatchesWhatItHolds ==
  ASSUME NEW row \in OurRows, Addresses(row.del, row.uid),
         NEW copies, ApartIn(copies), NEW c
  PROVE  c \in MatchOf(row, copies) <=> c \in copies /\ Holds(row, c)
<1>1. /\ row.del = [form |-> row.del.form, ref |-> row.del.ref]
      /\ row.del.form \in {"uid", "id"} /\ ForeignCopy.uid # row.uid
  BY RowShape
<1>2. ASSUME c \in MatchOf(row, copies) PROVE c \in copies /\ Holds(row, c)
  <2>1. \/ c \in copies /\ c.uid = row.uid /\ row.del = ById(c.id)
        \/ c \in copies /\ c.uid = row.uid /\ row.del = ByUid(row.uid)
    BY <1>2 DEF MatchOf, ExactMatch, SameUid
  <2>2. row.del = ByUid(row.uid) => Provider = "caldav"
    BY DEF Addresses, ByUid
  <2> QED
    BY <2>1, <2>2 DEF Holds, SameCopy
<1>3. ASSUME c \in copies, Holds(row, c) PROVE c \in MatchOf(row, copies)
  <2>1. c.uid = row.uid /\ (row.del = ById(c.id) \/ Provider = "caldav")
    BY <1>3 DEF Holds, SameCopy
  <2>2. CASE row.del = ById(c.id)
    BY <1>3, <2>1, <2>2 DEF MatchOf, ExactMatch
  <2>3. CASE row.del # ById(c.id)
    <3>1. Provider = "caldav" /\ c # ForeignCopy
      BY <1>1, <2>1, <2>3
    <3>2. ById(c.id).ref = c.uid /\ row.del.ref = row.uid
      BY <1>3, <3>1 DEF ApartIn, Addresses
    <3>3. c.id = row.uid
      BY <2>1, <3>2 DEF ById
    <3>4. row.del = ByUid(row.uid)
      BY <1>1, <2>3, <3>2, <3>3 DEF ById, ByUid
    <3>5. ExactMatch(row, copies) = {}
      BY <3>4 DEF ExactMatch, ByUid, ById
    <3>6. SameUid(row, copies) = {c}
      BY <1>3, <2>1 DEF SameUid, ApartIn
    <3>7. Cardinality(SameUid(row, copies)) = 1
      BY <3>6, FS_Singleton
    <3> QED
      BY <3>4, <3>5, <3>6, <3>7 DEF MatchOf
  <2> QED
    BY <2>2, <2>3
<1> QED
  BY <1>2, <1>3

\* What resolveMappingDeleteId returns still addresses the row's copy.
LEMMA RowDeleteIdKeeps ==
  ASSUME NEW row \in OurRows, Addresses(row.del, row.uid),
         NEW copies, ApartIn(copies)
  PROVE  /\ Addresses(RowDeleteId(row, copies), row.uid)
         /\ SameCopy(RowDeleteId(row, copies), row.del)
<1>1. CASE MatchOf(row, copies) = {}
  BY <1>1 DEF RowDeleteId, SameCopy
<1>2. CASE MatchOf(row, copies) # {}
  <2> DEFINE c == CHOOSE d \in MatchOf(row, copies) : TRUE
  <2>1. c \in MatchOf(row, copies)
    BY <1>2
  <2>2. RowDeleteId(row, copies) = ById(c.id)
    BY <1>2 DEF RowDeleteId
  <2> HIDE DEF c
  <2>3. c \in copies /\ Holds(row, c)
    BY <2>1, MatchesWhatItHolds
  <2>4. c # ForeignCopy
    BY <2>3, RowShape DEF Holds
  <2> QED
    BY <2>2, <2>3, <2>4 DEF ApartIn, Holds, SameCopy
<1> QED
  BY <1>1, <1>2

\* A delete identifier for a uid addresses copies of that uid only.
LEMMA AddressesItsUid ==
  ASSUME CopiesApart, NEW del \in OurIds, NEW uid, Addresses(del, uid),
         NEW c \in AddressedBy(del)
  PROVE  c \in remote /\ c # ForeignCopy /\ c.uid = uid
<1>1. c \in remote /\ c # ForeignCopy
  BY ForeignUnaddressed DEF AddressedBy
<1>2. del.form \in {"uid", "id"}
  BY DEF OurIds
<1>3. CASE del.form = "id"
  BY <1>1, <1>3 DEF AddressedBy, Addresses, CopiesApart, ApartIn, ById
<1>4. CASE del.form = "uid"
  BY <1>1, <1>4 DEF AddressedBy, Addresses
<1> QED
  BY <1>1, <1>2, <1>3, <1>4

\* Deleting what addresses the copy of a row takes every copy that the row holds.
LEMMA DeletesWhatItHolds ==
  ASSUME CopiesApart, NEW row, NEW c \in remote \ {ForeignCopy}, Holds(row, c),
         NEW del \in OurIds, SameCopy(del, row.del), Addresses(del, row.uid)
  PROVE  c \in AddressedBy(del)
<1>1. Addresses(ById(c.id), c.uid) /\ c.uid = row.uid
  BY DEF CopiesApart, ApartIn, Holds
<1>2. del.form \in {"uid", "id"}
  BY DEF OurIds
<1>3. CASE Provider = "caldav"
  <2>1. del.ref = c.uid /\ c.id = c.uid
    BY <1>1, <1>3 DEF Addresses, ById
  <2> QED
    BY <1>2, <2>1 DEF AddressedBy
<1>4. CASE Provider # "caldav"
  <2>1. del = ById(c.id)
    BY <1>4 DEF Holds, SameCopy
  <2> QED
    BY <2>1 DEF AddressedBy, ById
<1> QED
  BY <1>3, <1>4

\* Reading or losing copies keeps the rest apart.
LEMMA FewerApart ==
  ASSUME NEW copies, ApartIn(copies), NEW some \in SUBSET copies
  PROVE  ApartIn(some)
BY DEF ApartIn

\* The copy that a run writes of an event is named after it, and no copy of another
\* event has its uid.
LEMMA WrittenCopyIsItsOwn ==
  ASSUME RowsTyped, RemoteTyped, PlanTyped, CopiesApart,
         NEW e \in EventIds, NEW s, NEW b, NEW copy, copy = WrittenCopy(e, s, b)
  PROVE  /\ Addresses(ById(copy.id), copy.uid)
         /\ Addresses(PushedDeleteId(copy), copy.uid)
         /\ SameCopy(PushedDeleteId(copy), ById(copy.id))
         /\ Provider # "outlook" => copy.uid = DerivedUid(e)
         /\ Provider = "outlook" => \E n \in Nat : copy.uid = <<e, n>>
         /\ \A d \in remote \ CopiesOf(e) : d.uid # copy.uid
<1> DEFINE found == CHOOSE c \in CopiesOf(e) : TRUE
<1>1. PICK n \in Nat : FreshRef(e) = <<e, n>> /\ <<e, n>> \notin UsedRefs
  BY FreshRefIsNew
<1>2. CASE Provider = "outlook"
  <2>1. copy.id = <<e, n>> /\ copy.uid = <<e, n>>
    BY <1>1, <1>2 DEF WrittenCopy, CopiesOf
  <2>2. ASSUME NEW d \in remote PROVE d.uid # <<e, n>>
    <3>1. d.id # <<e, n>>
      BY <1>1 DEF UsedRefs
    <3>2. CASE d = ForeignCopy
      BY <3>1, <3>2 DEF ForeignCopy
    <3>3. CASE d # ForeignCopy
      <4>1. Addresses(ById(d.id), d.uid)
        BY <3>3 DEF CopiesApart, ApartIn
      <4> QED
        BY <1>2, <3>1, <4>1 DEF Addresses, ById, UidOf
    <3> QED
      BY <3>2, <3>3
  <2> QED
    BY <1>2, <2>1, <2>2 DEF Addresses, ById, UidOf, PushedDeleteId, SameCopy
<1>3. CASE Provider = "caldav"
  <2>1. copy.id = DerivedUid(e) /\ copy.uid = DerivedUid(e)
    BY <1>3 DEF WrittenCopy
  <2>2. \A d \in remote \ CopiesOf(e) : d.uid # DerivedUid(e)
    BY <1>3 DEF CopiesOf
  <2>3. UidOf(DerivedUid(e)) = DerivedUid(e)
    BY <1>3 DEF UidOf, DerivedUid
  <2> QED
    BY <1>3, <2>1, <2>2, <2>3 DEF Addresses, ById, ByUid, PushedDeleteId, SameCopy
<1>4. CASE Provider # "outlook" /\ Provider # "caldav"
  <2>1. copy.uid = DerivedUid(e)
    BY <1>4 DEF WrittenCopy
  <2>2. \A d \in remote \ CopiesOf(e) : d.uid # DerivedUid(e)
    BY <1>4 DEF CopiesOf
  <2>3. UidOf(copy.id) = DerivedUid(e)
    <3>1. CASE CopiesOf(e) # {}
      <4>1. found \in CopiesOf(e)
        BY <3>1
      <4>2. copy.id = found.id
        BY <1>4, <3>1 DEF WrittenCopy
      <4> HIDE DEF found
      <4>3. found \in remote /\ found # ForeignCopy /\ found.uid = DerivedUid(e)
        BY <1>4, <4>1, ForeignUnaddressed DEF CopiesOf
      <4>4. Addresses(ById(found.id), found.uid)
        BY <4>3 DEF CopiesApart, ApartIn
      <4> QED
        BY <4>2, <4>3, <4>4 DEF Addresses, ById
    <3>2. CASE CopiesOf(e) = {}
      <4>1. copy.id = <<e, n>>
        BY <1>1, <1>4, <3>2 DEF WrittenCopy
      <4> QED
        BY <1>4, <4>1 DEF UidOf, DerivedUid
    <3> QED
      BY <3>1, <3>2
  <2> QED
    BY <1>4, <2>1, <2>2, <2>3 DEF Addresses, ById, PushedDeleteId, SameCopy
<1> QED
  BY <1>2, <1>3, <1>4

\* Writing the copies of different events keeps all copies apart.
LEMMA WritingKeepsApart ==
  ASSUME RowsTyped, RemoteTyped, PlanTyped, CopiesApart, NEW ops,
         \A op \in ops : op.event \in EventIds,
         \A a, b \in ops : a.event = b.event => a = b
  PROVE  ApartIn(Written(ops))
<1> DEFINE copy(op) == WrittenCopy(op.event, op.slot, op.body)
           kept == remote \ UNION {CopiesOf(op.event) : op \in ops}
<1>1. ASSUME NEW c \in Written(ops) PROVE c \in kept \/ \E op \in ops : c = copy(op)
  BY DEF Written
<1>2. ASSUME NEW op \in ops
      PROVE  /\ Addresses(ById(copy(op).id), copy(op).uid)
             /\ Provider # "outlook" => copy(op).uid = DerivedUid(op.event)
             /\ Provider = "outlook" => \E n \in Nat : copy(op).uid = <<op.event, n>>
             /\ \A d \in kept : d.uid # copy(op).uid
  <2>1. op.event \in EventIds /\ kept \subseteq remote \ CopiesOf(op.event)
    OBVIOUS
  <2> HIDE DEF kept
  <2> QED
    BY <2>1, WrittenCopyIsItsOwn
<1>3. ASSUME NEW a \in ops, NEW b \in ops, copy(a).uid = copy(b).uid PROVE a = b
  <2>1. a.event = b.event
    BY <1>2, <1>3 DEF DerivedUid
  <2> QED
    BY <2>1
<1>4. ASSUME NEW c \in Written(ops), c # ForeignCopy PROVE Addresses(ById(c.id), c.uid)
  BY <1>1, <1>2, <1>4 DEF CopiesApart, ApartIn
<1>5. ASSUME NEW c \in Written(ops), NEW d \in Written(ops), c.uid = d.uid PROVE c = d
  <2>1. CASE c \in kept /\ d \in kept
    BY <1>5, <2>1 DEF CopiesApart, ApartIn
  <2>2. CASE c \notin kept \/ d \notin kept
    <3>1. \A op \in ops, x \in kept : x.uid # copy(op).uid
      BY <1>2
    <3> HIDE DEF copy, kept
    <3> QED
      BY <1>1, <1>3, <1>5, <2>2, <3>1
  <2> QED
    BY <2>1, <2>2
<1> QED
  BY <1>4, <1>5 DEF ApartIn

\* The user's changes to a copy leave its identity.
LEMMA TamperingKeepsApart ==
  ASSUME CopiesApart, TamperCopy
  PROVE  /\ CopiesApart'
         /\ \A d \in remote' \ {ForeignCopy} :
              \E c \in remote \ {ForeignCopy} : d.uid = c.uid /\ d.id = c.id
         /\ \A del : AddressedBy(del) = {} => AddressedBy(del)' = {}
<1>1. PICK c \in remote :
        /\ c.keeper
        /\ \/ remote' = remote \ {c}
           \/ \E s \in Slots, b \in Bodies :
                remote' = (remote \ {c}) \cup {[c EXCEPT !.slot = s, !.body = b]}
  BY DEF TamperCopy
<1>2. CASE remote' = remote \ {c}
  BY <1>2 DEF CopiesApart, ApartIn, AddressedBy
<1>3. ASSUME NEW s \in Slots, NEW b \in Bodies,
             remote' = (remote \ {c}) \cup {[c EXCEPT !.slot = s, !.body = b]}
      PROVE  /\ CopiesApart'
             /\ \A d \in remote' \ {ForeignCopy} :
                  \E x \in remote \ {ForeignCopy} : d.uid = x.uid /\ d.id = x.id
             /\ \A del : AddressedBy(del) = {} => AddressedBy(del)' = {}
  <2> DEFINE new == [c EXCEPT !.slot = s, !.body = b]
  <2>1. c # ForeignCopy
    <3>1. ~ForeignCopy.keeper
      BY DEF ForeignCopy
    <3> QED
      BY <1>1, <3>1, Zenon
  <2>2. new.uid = c.uid /\ new.id = c.id
    OBVIOUS
  <2>3. remote' = (remote \ {c}) \cup {new}
    BY <1>3
  <2> HIDE DEF new
  <2> QED
    BY <2>1, <2>2, <2>3 DEF CopiesApart, ApartIn, AddressedBy
<1> QED
  BY <1>1, <1>2, <1>3

-----------------------------------------------------------------------------
(* The plan reaches a row once, and for its copy                            *)

\* Within one owner's events, pairing gives each row to at most one new id.
LEMMA OwnerPairsRows ==
  ASSUME NEW events, NEW rs, NEW lost, NEW new \in SUBSET EventIds, NEW o,
         \A e \in new : OwnerOf(e) = o /\ events[e].slot \in Nat
  PROVE  \A p, q \in OwnerPairs(events, rs, new, lost) : p[2] = q[2] => p = q
<1>0. \A e, f \in new : e # f => EventBefore(events, e, f) \/ EventBefore(events, f, e)
  BY RowsInOrder DEF RowBefore
<1> DEFINE bySlot == SlotPairs(events, rs, new, lost)
           lateNew == new \ {p[1] : p \in bySlot}
           lateLost == lost \ {p[2] : p \in bySlot}
           byOrder == OrderPairs(events, rs, lateNew, lateLost)
<1>1. OwnerPairs(events, rs, new, lost) = bySlot \cup byOrder
  BY DEF OwnerPairs
<1>2. bySlot \subseteq new \X lost /\ byOrder \subseteq lateNew \X lateLost
  BY DEF SlotPairs, OrderPairs
<1>3. ASSUME NEW p \in bySlot, NEW q \in bySlot, p[2] = q[2] PROVE p[1] = q[1]
  <2>1. /\ p[1] \in new /\ q[1] \in new
        /\ events[p[1]].slot = rs[p[2]].slot /\ events[q[1]].slot = rs[p[2]].slot
        /\ ~EventBefore(events, q[1], p[1]) /\ ~EventBefore(events, p[1], q[1])
    BY <1>2, <1>3 DEF SlotPairs
  <2> QED
    BY <2>1, <1>0
<1>4. ASSUME NEW p \in byOrder, NEW q \in byOrder, p[2] = q[2] PROVE p[1] = q[1]
  <2>1. /\ p[1] \in lateNew /\ q[1] \in lateNew
        /\ Rank(events, lateNew, p[1]) = Rank(events, lateNew, q[1])
    BY <1>2, <1>4 DEF OrderPairs, Rank, RowBefore
  <2>2. lateNew \in SUBSET EventIds
        /\ \A e \in lateNew : OwnerOf(e) = o /\ events[e].slot \in Nat
    OBVIOUS
  <2> HIDE DEF lateNew
  <2>3. p[1] # q[1] => RowBefore(events, p[1], q[1]) \/ RowBefore(events, q[1], p[1])
    BY <2>1, <1>0 DEF lateNew, RowBefore
  <2>4. ASSUME NEW k \in lateNew, NEW m \in lateNew, RowBefore(events, k, m)
        PROVE  Rank(events, lateNew, k) # Rank(events, lateNew, m)
    BY <2>2, <2>4, RanksApart
  <2> QED
    BY <2>1, <2>3, <2>4
<1>5. \A p \in bySlot, q \in byOrder : p[2] # q[2]
  BY <1>2
<1>6. bySlot \cup byOrder \subseteq new \X lost
  BY <1>2
<1>7. ASSUME NEW p \in bySlot \cup byOrder, NEW q \in bySlot \cup byOrder, p[2] = q[2]
      PROVE  p = q
  <2>1. \A x \in new \X lost : x = <<x[1], x[2]>>
    OBVIOUS
  <2>2. p[1] = q[1]
    BY <1>3, <1>4, <1>5, <1>7
  <2> QED
    BY <1>6, <1>7, <2>1, <2>2
<1> HIDE DEF bySlot, byOrder
<1> QED
  BY <1>1, <1>7

\* No row is given up for two events.
LEMMA PairsRowsApart ==
  ASSUME NEW events, NEW rs, NEW sc, Table(events, EventRecords), Table(rs, OurRows)
  PROVE  \A p, q \in Reassignments(events, rs, sc) : p[2] = q[2] => p = q
<1> DEFINE new(o) == NewEvents(events, rs, o)
           lost(o) == LostRows(events, rs, sc, o)
<1>1. ASSUME NEW o
      PROVE  /\ OwnerPairs(events, rs, new(o), lost(o)) \subseteq new(o) \X lost(o)
             /\ \A p, q \in OwnerPairs(events, rs, new(o), lost(o)) : p[2] = q[2] => p = q
  <2>1. lost(o) \in SUBSET EventIds /\ \A m \in lost(o) : OwnerOf(m) = o /\ rs[m].slot \in Nat
    BY DEF LostRows, Table, OurRows, Slots
  <2>2. /\ new(o) \in SUBSET EventIds
        /\ \A e \in new(o) : OwnerOf(e) = o /\ events[e].slot \in Nat
    BY DEF NewEvents, Table, EventRecords, Slots
  <2> HIDE DEF new, lost
  <2> QED
    BY <2>1, <2>2, OwnerPairsApart, OwnerPairsRows
<1>2. ASSUME NEW o, NEW p \in OwnerPairs(events, rs, new(o), lost(o)) PROVE OwnerOf(p[2]) = o
  <2>1. p[2] \in lost(o)
    BY <1>1
  <2> QED
    BY <2>1 DEF LostRows
<1>3. \A p \in Reassignments(events, rs, sc) :
        \E o \in Owners : p \in OwnerPairs(events, rs, new(o), lost(o))
  BY DEF Reassignments
<1> HIDE DEF new, lost
<1> QED
  BY <1>1, <1>2, <1>3

\* The authority of a run lies in the window that is asked for.
WindowsWithin(sc) == \A s \in Sources : sc.windows[s] \subseteq sc.requested

\* A slot inside the run's authority is one it requested.
LEMMA AuthorityWithin ==
  ASSUME NEW sc, WindowsWithin(sc), NEW e \in EventIds, NEW s, InsideAuthority(sc, e, s)
  PROVE  s \in sc.requested
<1>1. SourceOfEvent(e) \in Sources
  BY EventIdShape, ReconcileAssumption DEF SourceOfEvent, OwnerOf
<1> QED
  BY <1>1 DEF WindowsWithin, InsideAuthority, SourceWindow

\* What the plan does for a row is aimed at the row's copy; a row to be removed is
\* retired, and a copy to be removed for want of a row is one that no row held.
FromPlan(a, evs, rs, sc) ==
  /\ a \notin Adds => Addresses(a.del, a.uid)
  /\ a.row # NoEvent => /\ a.row \in DOMAIN rs /\ a.uid = rs[a.row].uid
                        /\ SameCopy(a.del, rs[a.row].del)
  /\ a \in Adds => a.event \notin DOMAIN rs
  /\ a \in Removals /\ a.row # NoEvent => IsRetired(Authoritative(evs, sc), rs, sc, a.row)
  /\ a \in Removals /\ a.row = NoEvent =>
       \A m \in DOMAIN rs : ~(rs[m].uid = a.uid /\ SameCopy(rs[m].del, a.del))
MoveFromPlan(u, rs) ==
  u.row \in DOMAIN rs /\ Addresses(u.del, rs[u.row].uid) /\ SameCopy(u.del, rs[u.row].del)

\* computeSyncOperations aims what it plans at the rows and copies it was given.
LEMMA PlanAims ==
  ASSUME NEW evs, NEW rs, NEW copies \in SUBSET Copies, NEW sc,
         Table(evs, EventRecords), Table(rs, OurRows), IsFiniteSet(copies),
         Addressed(rs), ApartIn(copies)
  PROVE  /\ \A a \in PlannedOperations(evs, rs, copies, sc) : FromPlan(a, evs, rs, sc)
         /\ \A u \in PlannedMoves(evs, rs, copies, sc) : MoveFromPlan(u, rs)
<1> DEFINE events == Authoritative(evs, sc)
           pairs == Reassignments(events, rs, sc)
           moved == {p \in pairs : DatabaseOnly(events, rs, copies, p)}
           reassigned == {p[2] : p \in pairs}
           standard == {m \in DOMAIN rs \ reassigned : InsideAuthority(sc, m, rs[m].slot)}
           stale == {m \in standard : IsStale(events, rs, copies, sc, m)}
           adds == {e \in DOMAIN events \ DOMAIN rs : \A p \in pairs : p[1] # e}
           relabelled == {m \in standard \ stale : /\ m \in DOMAIN events
                                                  /\ rs[m].del = ByUid(rs[m].uid)
                                                  /\ MatchOf(rs[m], copies) # {}}
           retired == {k \in DOMAIN rs \ reassigned : IsRetired(events, rs, sc, k)}
           orphans == {d \in copies : IsOrphan(rs, copies, sc, d)}
<1>1. PlannedOperations(evs, rs, copies, sc)
        = {AddOp(e, events[e]) : e \in adds}
          \cup {ReplaceOp(m, rs[m], m, events[m], copies) : m \in stale}
          \cup {ReplaceOp(p[2], rs[p[2]], p[1], events[p[1]], copies) : p \in pairs \ moved}
          \cup {RemoveRowOp(m, rs[m], copies) : m \in retired}
          \cup {RemoveCopyOp(c) : c \in orphans}
  BY DEF PlannedOperations, computeSyncOperations
<1>2. PlannedMoves(evs, rs, copies, sc)
        = {MoveOf(m, m, events[m], RowDeleteId(rs[m], copies)) : m \in relabelled}
          \cup {MoveOf(p[2], p[1], events[p[1]], RowDeleteId(rs[p[2]], copies)) : p \in moved}
  BY DEF PlannedMoves, computeSyncOperations
<1>3. /\ \A m \in stale \cup relabelled \cup retired : m \in DOMAIN rs
      /\ \A p \in pairs : p[2] \in DOMAIN rs
      /\ moved \subseteq pairs
      /\ \A e \in adds : e \in DOMAIN events /\ e \notin DOMAIN rs
      /\ \A m \in retired : IsRetired(events, rs, sc, m)
  BY PairsApart
<1>4. ASSUME NEW m \in DOMAIN rs
      PROVE  /\ m # NoEvent
             /\ Addresses(RowDeleteId(rs[m], copies), rs[m].uid)
             /\ SameCopy(RowDeleteId(rs[m], copies), rs[m].del)
  <2>1. m \in EventIds /\ rs[m] \in OurRows /\ Addresses(rs[m].del, rs[m].uid)
    BY DEF Table, Addressed
  <2> QED
    BY <2>1, EventIdShape, RowDeleteIdKeeps
<1>5. ASSUME NEW c \in orphans
      PROVE  /\ Addresses(ById(c.id), c.uid)
             /\ \A m \in DOMAIN rs : ~(rs[m].uid = c.uid /\ SameCopy(rs[m].del, ById(c.id)))
  <2>1. c \in copies /\ c.keeper /\ \A m \in DOMAIN rs : c \notin MatchOf(rs[m], copies)
    BY Zenon DEF IsOrphan
  <2>2. c # ForeignCopy
    <3>1. ~ForeignCopy.keeper
      BY DEF ForeignCopy
    <3> QED
      BY <2>1, <3>1, Zenon
  <2>3. ASSUME NEW m \in DOMAIN rs, rs[m].uid = c.uid, SameCopy(rs[m].del, ById(c.id))
        PROVE  FALSE
    <3>1. rs[m] \in OurRows /\ Addresses(rs[m].del, rs[m].uid)
      BY DEF Table, Addressed
    <3>2. Holds(rs[m], c)
      BY <2>3 DEF Holds
    <3> QED
      BY <2>1, <3>1, <3>2, MatchesWhatItHolds
  <2> QED
    BY <2>1, <2>2, <2>3 DEF ApartIn
<1> HIDE DEF pairs, moved, reassigned, standard, stale, adds, relabelled,
             retired, orphans
<1>6. ASSUME NEW e \in adds PROVE FromPlan(AddOp(e, events[e]), evs, rs, sc)
  <2>1. e \in EventIds /\ events[e].slot \in Slots /\ events[e].body \in Bodies
    BY <1>3 DEF Authoritative, Table, EventRecords
  <2> DEFINE a == AddOp(e, events[e])
  <2>2. a.row = NoEvent /\ a.event = e /\ a.type = "add" /\ a \in Adds
    BY <2>1 DEF AddOp, Adds
  <2> HIDE DEF a, events
  <2>3. a \notin Removals
    BY <2>2 DEF Removals
  <2>4. FromPlan(a, evs, rs, sc)
    BY <1>3, <2>2, <2>3 DEF FromPlan
  <2> QED
    BY <2>4 DEF a
<1>7. ASSUME NEW m \in DOMAIN rs, NEW e, NEW event
      PROVE  FromPlan(ReplaceOp(m, rs[m], e, event, copies), evs, rs, sc)
  <2> DEFINE a == ReplaceOp(m, rs[m], e, event, copies)
  <2>1. a.row = m /\ a.uid = rs[m].uid /\ a.del = RowDeleteId(rs[m], copies) /\ a.type = "replace"
    BY DEF ReplaceOp
  <2> HIDE DEF a
  <2>2. a \notin Removals /\ a \notin Adds
    BY <2>1 DEF Removals, Adds
  <2>3. FromPlan(a, evs, rs, sc)
    BY <1>4, <2>1, <2>2 DEF FromPlan
  <2> QED
    BY <2>3 DEF a
<1>8. ASSUME NEW m \in retired PROVE FromPlan(RemoveRowOp(m, rs[m], copies), evs, rs, sc)
  <2> DEFINE a == RemoveRowOp(m, rs[m], copies)
  <2>1. a.row = m /\ a.uid = rs[m].uid /\ a.del = RowDeleteId(rs[m], copies) /\ a.type = "remove"
    BY DEF RemoveRowOp
  <2> HIDE DEF a
  <2>2. a \notin Adds
    BY <2>1 DEF Adds
  <2>3. IsRetired(Authoritative(evs, sc), rs, sc, m)
    BY <1>3
  <2>4. FromPlan(a, evs, rs, sc)
    BY <1>3, <1>4, <2>1, <2>2, <2>3 DEF FromPlan
  <2> QED
    BY <2>4 DEF a
<1>9. ASSUME NEW c \in orphans PROVE FromPlan(RemoveCopyOp(c), evs, rs, sc)
  <2> DEFINE a == RemoveCopyOp(c)
  <2>1. a.row = NoEvent /\ a.uid = c.uid /\ a.del = ById(c.id) /\ a.type = "remove"
    BY DEF RemoveCopyOp
  <2> HIDE DEF a
  <2>2. a \notin Adds
    BY <2>1 DEF Adds
  <2>3. FromPlan(a, evs, rs, sc)
    BY <1>5, <2>1, <2>2 DEF FromPlan
  <2> QED
    BY <2>3 DEF a
<1>10. ASSUME NEW m \in DOMAIN rs, NEW e, NEW event
       PROVE  MoveFromPlan(MoveOf(m, e, event, RowDeleteId(rs[m], copies)), rs)
  BY <1>4 DEF MoveFromPlan, MoveOf
<1>11. \A p \in pairs \ moved :
         FromPlan(ReplaceOp(p[2], rs[p[2]], p[1], events[p[1]], copies), evs, rs, sc)
  BY <1>3, <1>7
<1>12. \A m \in stale : FromPlan(ReplaceOp(m, rs[m], m, events[m], copies), evs, rs, sc)
  BY <1>3, <1>7
<1>13. \A p \in moved :
         MoveFromPlan(MoveOf(p[2], p[1], events[p[1]], RowDeleteId(rs[p[2]], copies)), rs)
  BY <1>3, <1>10
<1>14. \A m \in relabelled : MoveFromPlan(MoveOf(m, m, events[m], RowDeleteId(rs[m], copies)), rs)
  BY <1>3, <1>10
<1> HIDE DEF events
<1> QED
  BY <1>1, <1>2, <1>6, <1>8, <1>9, <1>11, <1>12, <1>13, <1>14

\* The plan reaches for no row twice.
RowsApart(ops, mvs) ==
  /\ \A a, b \in ops : a.row = b.row /\ a.row # NoEvent => a = b
  /\ \A a \in ops, u \in mvs : a.row # u.row

\* computeSyncOperations reaches for no row twice, and adds no event that has a row.
LEMMA PlanRowsApart ==
  ASSUME NEW evs, NEW rs, NEW copies \in SUBSET Copies, NEW sc, WindowsWithin(sc),
         Table(evs, EventRecords), Table(rs, OurRows), IsFiniteSet(copies)
  PROVE  RowsApart(PlannedOperations(evs, rs, copies, sc), PlannedMoves(evs, rs, copies, sc))
<1> DEFINE ops == PlannedOperations(evs, rs, copies, sc)
           mvs == PlannedMoves(evs, rs, copies, sc)
           events == Authoritative(evs, sc)
           pairs == Reassignments(events, rs, sc)
           moved == {p \in pairs : DatabaseOnly(events, rs, copies, p)}
           reassigned == {p[2] : p \in pairs}
           standard == {m \in DOMAIN rs \ reassigned : InsideAuthority(sc, m, rs[m].slot)}
           stale == {m \in standard : IsStale(events, rs, copies, sc, m)}
           adds == {e \in DOMAIN events \ DOMAIN rs : \A p \in pairs : p[1] # e}
           relabelled == {m \in standard \ stale : /\ m \in DOMAIN events
                                                  /\ rs[m].del = ByUid(rs[m].uid)
                                                  /\ MatchOf(rs[m], copies) # {}}
           retired == {k \in DOMAIN rs \ reassigned : IsRetired(events, rs, sc, k)}
           orphans == {d \in copies : IsOrphan(rs, copies, sc, d)}
<1>1. ops
        = {AddOp(e, events[e]) : e \in adds}
          \cup {ReplaceOp(m, rs[m], m, events[m], copies) : m \in stale}
          \cup {ReplaceOp(p[2], rs[p[2]], p[1], events[p[1]], copies) : p \in pairs \ moved}
          \cup {RemoveRowOp(m, rs[m], copies) : m \in retired}
          \cup {RemoveCopyOp(c) : c \in orphans}
  BY DEF PlannedOperations, computeSyncOperations
<1>2. mvs
        = {MoveOf(m, m, events[m], RowDeleteId(rs[m], copies)) : m \in relabelled}
          \cup {MoveOf(p[2], p[1], events[p[1]], RowDeleteId(rs[p[2]], copies)) : p \in moved}
  BY DEF PlannedMoves, computeSyncOperations
<1>3. \A p, q \in pairs : p[2] = q[2] => p = q
  <2>1. Table(events, EventRecords)
    BY DEF Authoritative, Table
  <2> HIDE DEF events
  <2> QED
    BY <2>1, PairsRowsApart
<1>4. ASSUME NEW m \in stale \cup relabelled, m \in retired PROVE FALSE
  <2>1. /\ m \in DOMAIN events /\ m \in EventIds /\ InsideAuthority(sc, m, rs[m].slot)
        /\ IsRetired(events, rs, sc, m)
    BY <1>4 DEF IsStale, Table
  <2>2. rs[m].slot \in sc.requested
    BY <2>1, AuthorityWithin
  <2> QED
    BY <2>1, <2>2 DEF IsRetired
<1>5. /\ \A m \in stale : m \in DOMAIN rs /\ m \notin relabelled /\ \A p \in pairs : p[2] # m
      /\ \A m \in relabelled : m \in DOMAIN rs /\ \A p \in pairs : p[2] # m
      /\ \A m \in retired : m \in DOMAIN rs /\ \A p \in pairs : p[2] # m
      /\ \A p \in pairs : p[2] \in DOMAIN rs
      /\ moved \subseteq pairs
  BY PairsApart
<1>6. \A m \in DOMAIN rs : m # NoEvent
  BY EventIdShape DEF Table
<1> HIDE DEF ops, mvs, events, pairs, moved, reassigned, standard, stale, adds, relabelled,
             retired, orphans
<1> DEFINE IsFix(a) == \E m \in stale : a = ReplaceOp(m, rs[m], m, events[m], copies)
           IsPair(a) == \E p \in pairs \ moved :
                          a = ReplaceOp(p[2], rs[p[2]], p[1], events[p[1]], copies)
           IsGone(a) == \E m \in retired : a = RemoveRowOp(m, rs[m], copies)
           IsLabel(u) == \E m \in relabelled :
                           u = MoveOf(m, m, events[m], RowDeleteId(rs[m], copies))
           IsMoved(u) == \E p \in moved :
                           u = MoveOf(p[2], p[1], events[p[1]], RowDeleteId(rs[p[2]], copies))
<1>7. \A a \in ops : a.row = NoEvent \/ IsFix(a) \/ IsPair(a) \/ IsGone(a)
  <2>1. (\A e : AddOp(e, events[e]).row = NoEvent) /\ (\A c : RemoveCopyOp(c).row = NoEvent)
    BY DEF AddOp, RemoveCopyOp
  <2> QED
    BY <1>1, <2>1
<1>8. \A u \in mvs : IsLabel(u) \/ IsMoved(u)
  BY <1>2
<1>9. \A a : IsFix(a) => a.row \in stale /\ a = ReplaceOp(a.row, rs[a.row], a.row, events[a.row], copies)
  BY DEF ReplaceOp
<1>10. \A a : IsPair(a) => \E p \in pairs \ moved :
                a.row = p[2] /\ a = ReplaceOp(p[2], rs[p[2]], p[1], events[p[1]], copies)
  BY DEF ReplaceOp
<1>11. \A a : IsGone(a) => a.row \in retired /\ a = RemoveRowOp(a.row, rs[a.row], copies)
  BY DEF RemoveRowOp
<1>12. \A u : IsLabel(u) => u.row \in relabelled
  BY DEF MoveOf
<1>13. \A u : IsMoved(u) => \E p \in moved : u.row = p[2]
  BY DEF MoveOf
<1> HIDE DEF IsFix, IsPair, IsGone, IsLabel, IsMoved
<1>14. ASSUME NEW a \in ops, NEW b \in ops, a.row = b.row, a.row # NoEvent PROVE a = b
  <2>1. CASE IsFix(a)
    <3>1. IsFix(b)
      BY <1>4, <1>5, <1>7, <1>9, <1>10, <1>11, <1>14, <2>1
    <3> QED
      BY <1>9, <1>14, <2>1, <3>1
  <2>2. CASE IsPair(a)
    <3>1. IsPair(b)
      BY <1>4, <1>5, <1>7, <1>9, <1>10, <1>11, <1>14, <2>2
    <3>2. PICK p \in pairs \ moved :
            a.row = p[2] /\ a = ReplaceOp(p[2], rs[p[2]], p[1], events[p[1]], copies)
      BY <1>10, <2>2
    <3>3. PICK q \in pairs \ moved :
            b.row = q[2] /\ b = ReplaceOp(q[2], rs[q[2]], q[1], events[q[1]], copies)
      BY <1>10, <3>1
    <3>4. p = q
      BY <1>3, <1>14, <3>2, <3>3
    <3> QED
      BY <3>2, <3>3, <3>4
  <2>3. CASE IsGone(a)
    <3>1. IsGone(b)
      BY <1>4, <1>5, <1>7, <1>9, <1>10, <1>11, <1>14, <2>3
    <3> QED
      BY <1>11, <1>14, <2>3, <3>1
  <2> QED
    BY <1>7, <1>14, <2>1, <2>2, <2>3
<1>15. ASSUME NEW a \in ops, NEW u \in mvs PROVE a.row # u.row
  <2>1. CASE a.row = NoEvent
    BY <1>5, <1>6, <1>8, <1>12, <1>13, <2>1
  <2>2. CASE IsFix(a)
    BY <1>5, <1>8, <1>9, <1>12, <1>13, <2>2
  <2>3. CASE IsPair(a)
    BY <1>3, <1>5, <1>8, <1>10, <1>12, <1>13, <2>3
  <2>4. CASE IsGone(a)
    BY <1>4, <1>5, <1>8, <1>11, <1>12, <1>13, <2>4
  <2> QED
    BY <1>7, <2>1, <2>2, <2>3, <2>4
<1> QED
  BY <1>14, <1>15 DEF RowsApart, ops, mvs

-----------------------------------------------------------------------------
(* What a run knows of the rows                                             *)

\* A row that the run has not reached: as read, but perhaps disowned since.
StillThere(m) ==
  /\ m \in DOMAIN seen.rows /\ m \in DOMAIN rows
  /\ rows[m].uid = seen.rows[m].uid
  /\ rows[m].del = seen.rows[m].del
  /\ rows[m].slot = seen.rows[m].slot
  /\ rows[m].owned => seen.rows[m].owned

\* Operations and updates still to come find the row they were planned for.
PlanStands ==
  /\ \A a \in Left : /\ FromPlan(a, seen.events, seen.rows, scope)
                     /\ a.row # NoEvent => StillThere(a.row)
                     /\ a \in Adds => a.event \notin DOMAIN rows
  /\ \A u \in plan.moves : MoveFromPlan(u, seen.rows) /\ StillThere(u.row)
  /\ RowsApart(Left, plan.moves)

\* A row that the run has reached is for a uid that it protects.
RowsStand == \A m \in DOMAIN rows : rows[m].uid \in protected \/ StillThere(m)

\* What is to be recorded is for rows that nothing else reaches for.
Touched(changes) == changes.deletes \cup {u.row : u \in changes.updates}
ChangesStand(changes, left, shielded) ==
  /\ \A a \in left : a.row \notin Touched(changes)
  /\ \A u \in plan.moves : u.row \notin Touched(changes)
  /\ \A e \in DOMAIN changes.inserts :
       /\ Addresses(changes.inserts[e].del, changes.inserts[e].uid)
       /\ changes.inserts[e].uid \in shielded
       /\ e \in DOMAIN rows => e \in changes.deletes
  /\ \A u \in changes.updates : MoveFromPlan(u, rows) /\ rows[u.row].uid \in shielded

Running == pc \in {"chunk", "call", "flush", "moves"}

TraceInv ==
  /\ CopiesApart /\ Addressed(rows)
  /\ WindowsWithin(scope)
  /\ pc = "read" => \A m \in DOMAIN rows : StillThere(m)
  /\ Running => PlanStands /\ RowsStand /\ ChangesStand(pending, Left, protected)

\* What a transaction makes of the rows, when its inserts find their place free and its
\* updates their row.
LEMMA FlushedShape ==
  ASSUME NEW changes,
         changes.updates # {} => changes.deletes = {} /\ DOMAIN changes.inserts = {},
         \A u, v \in changes.updates : u.event = v.event => u = v,
         \A u \in changes.updates : Fits(u) /\ u.row \in DOMAIN rows,
         \A e \in DOMAIN changes.inserts : e \in DOMAIN rows => e \in changes.deletes,
         NEW F, F = Flushed(changes)
  PROVE  /\ \A m \in DOMAIN F :
              \/ m \in DOMAIN rows \ Touched(changes) /\ F[m] = rows[m]
              \/ /\ m \in DOMAIN changes.inserts
                 /\ F[m].uid = changes.inserts[m].uid /\ F[m].del = changes.inserts[m].del
              \/ \E u \in changes.updates :
                   u.event = m /\ F[m].uid = rows[u.row].uid /\ F[m].del = u.del
         /\ \A m \in DOMAIN rows \ Touched(changes) : m \in DOMAIN F /\ F[m] = rows[m]
         /\ \A e \in DOMAIN changes.inserts :
              /\ e \in DOMAIN F
              /\ F[e].uid = changes.inserts[e].uid /\ F[e].del = changes.inserts[e].del
         /\ \A u \in changes.updates :
              u.event \in DOMAIN F /\ F[u.event].uid = rows[u.row].uid /\ F[u.event].del = u.del
<1> DEFINE base == AfterInserts(changes)
           kept == DOMAIN rows \ changes.deletes
           effective == {u \in changes.updates : u.row \in DOMAIN base}
           left == DOMAIN base \ {u.row : u \in effective}
           of(m) == CHOOSE v \in effective : v.event = m
<1>1. F = [m \in left \cup {u.event : u \in effective} |->
             IF \E u \in effective : u.event = m
             THEN UpdatedRow(base[of(m).row], of(m))
             ELSE base[m]]
  BY DEF Flushed
<1>2. DOMAIN base = kept \cup DOMAIN changes.inserts
  BY DEF AfterInserts
<1>3. \A m \in kept : base[m] = rows[m]
  BY DEF AfterInserts
<1>4. ASSUME NEW e \in DOMAIN changes.inserts
      PROVE  /\ e \notin kept
             /\ base[e].uid = changes.inserts[e].uid /\ base[e].del = changes.inserts[e].del
  <2>1. e \notin kept
    OBVIOUS
  <2>2. base[e] = [changes.inserts[e] EXCEPT !.owned = source[OwnerOf(e)] # Deleted]
    BY <1>2, <2>1 DEF AfterInserts
  <2> HIDE DEF base
  <2> QED
    BY <2>1, <2>2
<1> HIDE DEF base, of
<1>5. CASE changes.updates = {}
  <2>1. effective = {} /\ left = DOMAIN base
    BY <1>5
  <2> HIDE DEF effective, left
  <2>2. DOMAIN F = DOMAIN base /\ \A m \in DOMAIN base : F[m] = base[m]
    BY <1>1, <2>1
  <2>3. Touched(changes) = changes.deletes
    BY <1>5 DEF Touched
  <2> QED
    BY <1>2, <1>3, <1>4, <1>5, <2>2, <2>3
<1>6. CASE changes.updates # {}
  <2>1. kept = DOMAIN rows /\ DOMAIN base = DOMAIN rows /\ \A m \in DOMAIN rows : base[m] = rows[m]
    BY <1>2, <1>3, <1>6
  <2>2. effective = changes.updates
    BY <2>1
  <2>3. Touched(changes) = {u.row : u \in changes.updates}
    BY <1>6 DEF Touched
  <2>4. left = DOMAIN rows \ Touched(changes)
    BY <2>1, <2>2, <2>3
  <2> HIDE DEF kept, effective, left
  <2>5. ASSUME NEW u \in changes.updates
        PROVE  u.event \in DOMAIN F /\ F[u.event].uid = rows[u.row].uid /\ F[u.event].del = u.del
    <3>1. of(u.event) = u
      <4>1. of(u.event) \in changes.updates /\ of(u.event).event = u.event
        BY <2>2 DEF of
      <4> QED
        BY <4>1
    <3>2. u.event \in DOMAIN F /\ F[u.event] = UpdatedRow(base[u.row], u)
      BY <1>1, <2>2, <3>1
    <3>3. base[u.row] = rows[u.row]
      BY <2>1
    <3> QED
      BY <3>2, <3>3 DEF UpdatedRow
  <2>6. ASSUME NEW m \in DOMAIN rows \ Touched(changes) PROVE m \in DOMAIN F /\ F[m] = rows[m]
    <3>1. ~\E u \in effective : u.event = m
      BY <2>2, <2>3 DEF Fits
    <3>2. m \in DOMAIN F /\ F[m] = base[m]
      BY <1>1, <2>4, <3>1
    <3> QED
      BY <2>1, <3>2
  <2>7. \A m \in DOMAIN F : m \in DOMAIN rows \ Touched(changes)
                            \/ \E u \in changes.updates : u.event = m
    BY <1>1, <2>2, <2>4
  <2> QED
    BY <1>6, <2>5, <2>6, <2>7
<1> QED
  BY <1>5, <1>6

-----------------------------------------------------------------------------
(* Steps that leave the run's memory alone, and steps that end it           *)

\* The rows that a step leaves, and those that it disowns.
OnlyDisowns ==
  /\ DOMAIN rows' = DOMAIN rows
  /\ \A m \in DOMAIN rows : /\ rows'[m].uid = rows[m].uid /\ rows'[m].del = rows[m].del
                            /\ rows'[m].slot = rows[m].slot
                            /\ rows'[m].owned => rows[m].owned

\* Clearing the owner of a row does not take it from the run's memory.
LEMMA DisowningKeeps ==
  ASSUME OnlyDisowns, seen' = seen, NEW m, StillThere(m) PROVE StillThere(m)'
BY DEF OnlyDisowns, StillThere

\* A step of others that at most disowns rows keeps TraceInv.
LEMMA TraceUntouched ==
  ASSUME TraceInv, UNCHANGED <<control, memory>>, OnlyDisowns, CopiesApart'
  PROVE  TraceInv'
<1> USE DEF TraceInv, control, memory
<1>1. Addressed(rows)'
  BY DEF Addressed, OnlyDisowns
<1>2. \A m : StillThere(m) => StillThere(m)'
  BY DisowningKeeps
<1>3. Left' = Left /\ DOMAIN rows' = DOMAIN rows
  BY DEF Left, OnlyDisowns
<1>4. PlanStands => PlanStands'
  BY <1>2, <1>3 DEF PlanStands
<1>5. RowsStand => RowsStand'
  BY <1>2, <1>3 DEF RowsStand, OnlyDisowns
<1>6. ChangesStand(pending, Left, protected) => ChangesStand(pending, Left, protected)'
  BY <1>3 DEF ChangesStand, OnlyDisowns, MoveFromPlan
<1>7. Running' => Running /\ (pc' = "read" => pc = "read")
  BY DEF Running
<1>8. (\A m \in DOMAIN rows : StillThere(m)) => (\A m \in DOMAIN rows : StillThere(m))'
  BY <1>2, <1>3
<1> QED
  BY <1>1, <1>4, <1>5, <1>6, <1>7, <1>8

\* A run that ends remembers nothing that could go stale.
LEMMA TraceRunEnds ==
  ASSUME EndRun, CopiesApart', Addressed(rows)' PROVE TraceInv'
<1>1. pc' = "idle" /\ scope' = NoScope
  BY DEF EndRun
<1>2. WindowsWithin(scope)'
  BY <1>1 DEF WindowsWithin, NoScope
<1> QED
  BY <1>1, <1>2 DEF TraceInv, Running

\* Copies stay apart while the destination is not touched.
LEMMA SameRemoteApart ==
  ASSUME CopiesApart, remote' = remote PROVE CopiesApart'
BY DEF CopiesApart

\* A step that leaves the rows alone disowns none.
LEMMA SameRowsDisown ==
  ASSUME rows' = rows PROVE OnlyDisowns
BY DEF OnlyDisowns

\* Whatever sources, users and configuration do, what the run knows stays true.
LEMMA EnvironmentTrace ==
  ASSUME SyncInv, TraceInv, Environment PROVE TraceInv'
<1> USE DEF world, store, control, memory, RunIdles
<1>1. CopiesApart /\ Addressed(rows)
  BY DEF TraceInv
<1>2. ASSUME NEW o \in Owners, DeleteEvent(o) PROVE TraceInv'
  <2>1. UNCHANGED <<control, memory, remote>>
    BY <1>2 DEF DeleteEvent
  <2>2. rows' = [m \in DOMAIN rows |->
                   IF OwnerOf(m) = o THEN [rows[m] EXCEPT !.owned = FALSE] ELSE rows[m]]
    BY <1>2 DEF DeleteEvent
  <2>3. OnlyDisowns
    <3>1. \A m \in DOMAIN rows : LET r == [rows[m] EXCEPT !.owned = FALSE]
                                 IN /\ r.uid = rows[m].uid /\ r.del = rows[m].del
                                    /\ r.slot = rows[m].slot /\ r.owned = FALSE
      BY DEF SyncInv, Sharp, RowsTyped, Table, OurRows
    <3> QED
      BY <2>2, <3>1 DEF OnlyDisowns
  <2> QED
    BY <1>1, <2>1, <2>3, TraceUntouched, SameRemoteApart
<1>3. CASE TamperCopy
  <2>1. UNCHANGED <<control, memory, rows>>
    BY <1>3 DEF TamperCopy
  <2> QED
    BY <1>1, <1>3, <2>1, TraceUntouched, SameRowsDisown, TamperingKeepsApart
<1>4. CASE Crash
  <2>1. EndRun /\ UNCHANGED <<rows, remote>>
    BY <1>4 DEF Crash
  <2>2. Addressed(rows)'
    BY <1>1, <2>1 DEF Addressed
  <2> QED
    BY <1>1, <2>1, <2>2, TraceRunEnds, SameRemoteApart
<1>5. CASE UNCHANGED <<control, memory, rows, remote>>
  BY <1>1, <1>5, TraceUntouched, SameRowsDisown, SameRemoteApart
<1>6. ASSUME ~(\E o \in Owners : DeleteEvent(o)), ~TamperCopy, ~Crash
      PROVE  UNCHANGED <<control, memory, rows, remote>>
  BY <1>6 DEF Environment, EditEvent, WithholdSeries, NarrowCoverage, RestoreCoverage,
              ChangeSources, ChangeWindow, Supersede
<1> QED
  BY <1>2, <1>3, <1>4, <1>5, <1>6

-----------------------------------------------------------------------------
(* Reads, plan and chunks leave the rows as the run knows them              *)

\* A step that writes no row leaves what is known of the rows.
LEMMA TraceKeepsOn ==
  ASSUME TraceInv, Running, Left' \subseteq Left, plan'.moves = plan.moves,
         UNCHANGED <<seen, scope, rows>>, protected \subseteq protected', CopiesApart',
         ChangesStand(pending, Left, protected)', pc' # "read"
  PROVE  TraceInv'
<1> USE DEF TraceInv
<1>1. \A m : StillThere(m) => StillThere(m)'
  BY DEF StillThere
<1>2. PlanStands'
  BY <1>1 DEF PlanStands, RowsApart
<1>3. RowsStand'
  BY <1>1 DEF RowsStand
<1>4. Addressed(rows)'
  BY DEF Addressed
<1> QED
  BY <1>2, <1>3, <1>4

\* A run starts with windows within its request.
LEMMA StartRunTrace ==
  ASSUME SyncInv, TraceInv, StartRun PROVE TraceInv'
<1>1. /\ pc' = "started" /\ UNCHANGED <<rows, remote>>
      /\ scope'.requested = requested
      /\ scope'.windows = [s \in Sources |->
                             IF s \in configured THEN requested \cap coverage[s] ELSE {}]
  BY DEF StartRun, NoScope, store
<1>2. WindowsWithin(scope)'
  BY <1>1 DEF WindowsWithin
<1>3. Addressed(rows)'
  BY <1>1 DEF TraceInv, Addressed
<1>4. CopiesApart'
  BY <1>1, SameRemoteApart DEF TraceInv
<1> QED
  BY <1>1, <1>2, <1>3, <1>4 DEF TraceInv, Running

\* Local reads remember the rows as they are.
LEMMA ReadLocalTrace ==
  ASSUME SyncInv, TraceInv, ReadLocal PROVE TraceInv'
<1>1. UNCHANGED <<rows, remote>>
  BY DEF ReadLocal, store
<1>2. Addressed(rows)'
  BY <1>1 DEF TraceInv, Addressed
<1>3. CopiesApart'
  BY <1>1, SameRemoteApart DEF TraceInv
<1>4. CASE configured # scope.configured
  BY <1>2, <1>3, <1>4, TraceRunEnds DEF ReadLocal
<1>5. CASE configured = scope.configured
  <2> DEFINE windows == [s \in Sources |-> scope.windows[s] \cap coverage[s]]
             late == {o \in withheld : windows[SourceOf[o]] # {}}
  <2>1. /\ pc' = "read"
        /\ scope' = [scope EXCEPT !.windows = windows, !.withheld = late]
        /\ seen' = [events |-> LocalEvents(windows), rows |-> rows]
    BY <1>5 DEF ReadLocal
  <2>2. \A s \in Sources : windows[s] \subseteq scope.windows[s]
    OBVIOUS
  <2> HIDE DEF windows, late
  <2>3. scope \in Scopes
    BY DEF SyncInv, Sharp, SeenTyped
  <2>4. scope'.windows = windows /\ scope'.requested = scope.requested
    BY <2>1, <2>3 DEF Scopes
  <2>5. WindowsWithin(scope)'
    BY <2>2, <2>4 DEF TraceInv, WindowsWithin
  <2>6. \A m \in DOMAIN rows : StillThere(m)'
    BY <1>1, <2>1 DEF StillThere
  <2> QED
    BY <1>1, <1>2, <1>3, <2>1, <2>5, <2>6 DEF TraceInv, Running
<1> QED
  BY <1>4, <1>5

\* A fresh plan stands: it was computed from the rows as the run read them.
LEMMA ReadRemoteAndPlanTrace ==
  ASSUME SyncInv, TraceInv, ReadRemoteAndPlan PROVE TraceInv'
<1> USE DEF SyncInv, Sharp, store
<1> DEFINE full == [scope EXCEPT !.listed = ReadsByListing, !.covered = TargetRows]
           ops == PlannedOperations(seen.events, seen.rows, RemoteRead, full)
           mvs == PlannedMoves(seen.events, seen.rows, RemoteRead, full)
<1>1. pc = "read" /\ UNCHANGED <<rows, remote>>
  BY DEF ReadRemoteAndPlan
<1>2. Addressed(rows)'
  BY <1>1 DEF TraceInv, Addressed
<1>3. CopiesApart'
  BY <1>1, SameRemoteApart DEF TraceInv
<1>4. CASE EndRun
  BY <1>2, <1>3, <1>4, TraceRunEnds
<1>5. CASE ~EndRun
  <2>1. /\ pc' = "chunk" /\ UNCHANGED <<phase, work, current, seen, protected, pending>>
        /\ scope' = full /\ plan' = [todo |-> ops, chunk |-> {}, moves |-> mvs]
    BY <1>5 DEF ReadRemoteAndPlan, PlannedOperations, PlannedMoves
  <2>2. /\ Table(seen.events, EventRecords) /\ Table(seen.rows, OurRows)
        /\ DOMAIN seen.rows = DOMAIN rows
    BY <1>1 DEF SeenTyped
  <2>3. \A m \in DOMAIN rows : StillThere(m)
    BY <1>1 DEF TraceInv
  <2>4. RemoteRead \in SUBSET Copies /\ IsFiniteSet(RemoteRead) /\ RemoteRead \in SUBSET remote
    BY RemoteReadTyped, FS_Subset DEF RemoteTyped, Copies
  <2>5. ApartIn(RemoteRead)
    BY <2>4, FewerApart DEF TraceInv, CopiesApart
  <2>6. Addressed(seen.rows)
    BY <2>2, <2>3 DEF TraceInv, Addressed, StillThere
  <2>7. WindowsWithin(full)
    BY DEF TraceInv, WindowsWithin, SeenTyped, Scopes
  <2> HIDE DEF full
  <2>8. /\ \A a \in ops : FromPlan(a, seen.events, seen.rows, full)
        /\ \A u \in mvs : MoveFromPlan(u, seen.rows)
    BY <2>2, <2>4, <2>5, <2>6, PlanAims
  <2>9. RowsApart(ops, mvs)
    BY <2>2, <2>4, <2>7, PlanRowsApart
  <2> HIDE DEF ops, mvs
  <2>10. phase = "none" /\ work = {} /\ pending = NoChanges
    BY <1>1 DEF ControlTyped, PendingIsApart, KindOf
  <2>11. Left' = ops /\ plan'.moves = mvs
    BY <2>1, <2>10 DEF Left, Ahead
  <2>12. \A m \in DOMAIN rows : StillThere(m)'
    BY <1>1, <2>1, <2>3 DEF StillThere
  <2>13. PlanStands'
    <3>1. \A a \in ops : /\ FromPlan(a, seen.events, seen.rows, full)
                         /\ a.row # NoEvent => StillThere(a.row)'
                         /\ a \in Adds => a.event \notin DOMAIN rows
      BY <2>2, <2>8, <2>12 DEF FromPlan
    <3>2. \A u \in mvs : MoveFromPlan(u, seen.rows) /\ StillThere(u.row)'
      BY <2>2, <2>8, <2>12 DEF MoveFromPlan
    <3> QED
      BY <1>1, <2>1, <2>9, <2>11, <3>1, <3>2 DEF PlanStands
  <2>14. RowsStand'
    BY <1>1, <2>12 DEF RowsStand
  <2>15. ChangesStand(pending, Left, protected)'
    <3>1. pending' = NoChanges
      BY <2>1, <2>10
    <3> QED
      BY <3>1 DEF ChangesStand, Touched, NoChanges, NoRows
  <2>16. WindowsWithin(scope)'
    BY <2>1, <2>7 DEF WindowsWithin
  <2> QED
    BY <1>2, <1>3, <2>1, <2>13, <2>14, <2>15, <2>16 DEF TraceInv
<1> QED
  BY <1>4, <1>5

\* Taking a chunk moves operations, it reaches for nothing new.
LEMMA TakeChunkTrace ==
  ASSUME SyncInv, TraceInv, TakeChunk PROVE TraceInv'
<1> USE DEF SyncInv, Sharp, store
<1>1. /\ pc = "chunk" /\ UNCHANGED <<rows, remote, scope, seen, protected, pending>>
  BY DEF TakeChunk
<1>2. CopiesApart'
  BY <1>1, SameRemoteApart DEF TraceInv
<1>3. pending' = NoChanges
  BY <1>1 DEF PendingIsApart
<1>4. ChangesStand(pending, Left, protected)'
  BY <1>3 DEF ChangesStand, Touched, NoChanges, NoRows
<1>5. Left' \subseteq Left /\ plan'.moves = plan.moves /\ pc' # "read"
  <2>1. CASE plan.todo = {}
    BY <2>1 DEF TakeChunk, Left
  <2>2. CASE plan.todo # {}
    <3>1. PICK chunk \in FirstChunks(plan.todo, ChunkSize) :
            /\ plan' = [plan EXCEPT !.todo = @ \ chunk, !.chunk = chunk]
            /\ EnterAfter("none", chunk)
      BY <2>2 DEF TakeChunk
    <3>2. chunk \subseteq plan.todo
      BY DEF FirstChunks
    <3>3. /\ plan'.todo = plan.todo \ chunk /\ plan'.chunk = chunk /\ plan'.moves = plan.moves
          /\ chunk \in SUBSET Operations
      BY <3>1, <3>2 DEF PlanTyped, Plans
    <3>4. /\ ControlWithin(AfterGroup("none", chunk)) /\ work' \subseteq chunk
          /\ Ahead(phase', chunk) \subseteq AfterGroup("none", chunk)
      BY <3>1, <3>3, EnterAfterMoves
    <3> QED
      BY <3>2, <3>3, <3>4 DEF Left, AfterGroup, ControlWithin
  <2> QED
    BY <2>1, <2>2
<1> QED
  BY <1>1, <1>2, <1>4, <1>5, TraceKeepsOn DEF Running

-----------------------------------------------------------------------------
(* Calls of the provider, and what the run knows of the rows                *)

\* What a call works on stands where the plan saw it.
LEMMA WorkStands ==
  ASSUME SyncInv, TraceInv, pc = "call"
  PROVE  /\ work \subseteq Left
         /\ \A op \in work : /\ FromPlan(op, seen.events, seen.rows, scope)
                             /\ op.row # NoEvent => StillThere(op.row)
         /\ \A op \in work \ Adds : Addresses(op.del, op.uid)
         /\ \A op \in work : op.row # NoEvent =>
              MoveFromPlan(op, rows) /\ rows[op.row].uid = op.uid
<1>1. work \subseteq Left
  BY DEF Left
<1>2. \A op \in work : /\ FromPlan(op, seen.events, seen.rows, scope)
                       /\ op.row # NoEvent => StillThere(op.row)
  BY <1>1 DEF TraceInv, Running, PlanStands
<1>3. \A op \in work : op.row # NoEvent => op \notin Adds
  BY DEF Adds
<1> QED
  BY <1>1, <1>2, <1>3 DEF FromPlan, MoveFromPlan, StillThere

\* What is left after the work reaches for other rows.
LEMMA OtherRowsLeft ==
  ASSUME SyncInv, TraceInv, pc = "call", NEW op \in work, NEW rest \in SUBSET work,
         op \notin rest, op.row # NoEvent
  PROVE  /\ \A a \in plan.todo \cup rest \cup Ahead(phase, plan.chunk) : a.row # op.row
         /\ \A u \in plan.moves : u.row # op.row
<1>1. RowsApart(Left, plan.moves)
  BY DEF TraceInv, Running, PlanStands
<1>2. work \subseteq plan.chunk /\ work \subseteq Left /\ plan.todo \cap plan.chunk = {}
      /\ plan.todo \cup rest \cup Ahead(phase, plan.chunk) \subseteq Left
  BY WorkShape DEF Left, SyncInv, Sharp, PlanTyped
<1>3. phase \in {"remove", "update", "clear", "readd", "add"}
  BY DEF SyncInv, Sharp, ControlTyped
<1>4. op \in Left /\ op \notin Ahead(phase, plan.chunk)
  BY <1>2, <1>3, WorkShape DEF Ahead, Replacements, Adds, Removals
<1> QED
  BY <1>1, <1>2, <1>4 DEF RowsApart

\* A call that records its changes, or has none to record.
LEMMA TraceCall ==
  ASSUME SyncInv, TraceInv, pc = "call", NEW rest \in SUBSET work, NEW changes,
         Checkpoint(changes, rest),
         ChangesStand(changes, plan.todo \cup rest \cup Ahead(phase, plan.chunk), protected'),
         UNCHANGED <<rows, current, scope, seen, plan>>, protected \subseteq protected',
         CopiesApart'
  PROVE  TraceInv'
<1> DEFINE left == plan.todo \cup rest \cup Ahead(phase, plan.chunk)
<1>1. /\ \/ pc' \in {"chunk", "call", "moves"} /\ pending' = NoChanges
         \/ pc' = "flush" /\ pending' = changes
      /\ Left' \subseteq left
  BY CheckpointMoves DEF SyncInv, Sharp
<1>2. left \subseteq Left
  BY DEF Left
<1>3. ChangesStand(changes, left, protected')
  OBVIOUS
<1> HIDE DEF left
<1>4. ChangesStand(pending, Left, protected)'
  <2>1. CASE pending' = NoChanges
    BY <2>1 DEF ChangesStand, Touched, NoChanges, NoRows
  <2>2. CASE pending' = changes
    BY <1>1, <1>3, <2>2 DEF ChangesStand, Touched, MoveFromPlan
  <2> QED
    BY <1>1, <2>1, <2>2
<1>5. Left' \subseteq Left /\ pc' # "read"
  BY <1>1, <1>2
<1> QED
  BY <1>4, <1>5, TraceKeepsOn DEF Running

\* Deletions leave the other copies apart.
LEMMA FewerCopies ==
  ASSUME CopiesApart, remote' \subseteq remote PROVE CopiesApart'
BY DEF CopiesApart, ApartIn

\* executeRemoves records the deletion of rows nothing else reaches for.
LEMMA RemoveCallTrace ==
  ASSUME SyncInv, TraceInv, RemoveCall PROVE TraceInv'
<1>1. /\ pc = "call" /\ phase = "remove"
      /\ UNCHANGED <<world, rows, current, scope, seen, plan, protected>>
  BY DEF RemoveCall
<1> DEFINE actionable == Actionable(work)
<1>2. PICK result \in Results(actionable, {"ok", "failed", "lost"}) :
        /\ remote' = WithoutAddressed(Took(actionable, result))
        /\ Checkpoint(processDeleteResults(Done(actionable, result)), {})
  BY DEF RemoveCall
<1>3. Done(actionable, result) \subseteq work
  BY DEF Actionable, Done
<1>4. CopiesApart'
  <2>1. remote' \subseteq remote
    BY <1>2 DEF WithoutAddressed
  <2> QED
    BY <2>1, FewerCopies DEF TraceInv
<1> HIDE DEF actionable
<1> DEFINE changes == processDeleteResults(Done(actionable, result))
           rest == {}
<1>5. /\ \A m \in Touched(changes) : \E op \in work : op.row = m /\ m # NoEvent
      /\ changes.inserts = NoRows /\ changes.updates = {}
  BY <1>3 DEF processDeleteResults, NoChanges, Touched
<1>6. Checkpoint(changes, rest) /\ rest \in SUBSET work /\ \A op \in work : op \notin rest
  BY <1>2
<1> HIDE DEF changes, rest
<1>7. /\ \A m \in Touched(changes), a \in plan.todo \cup rest \cup Ahead(phase, plan.chunk) :
           a.row # m
      /\ \A m \in Touched(changes), u \in plan.moves : u.row # m
  BY <1>1, <1>5, <1>6, OtherRowsLeft
<1>8. ChangesStand(changes, plan.todo \cup rest \cup Ahead(phase, plan.chunk), protected')
  BY <1>5, <1>7 DEF ChangesStand, NoRows
<1> QED
  BY <1>1, <1>4, <1>6, <1>8, TraceCall

\* Updates in place protect the uid and keep the identity of the row.
LEMMA UpdateCallTrace ==
  ASSUME SyncInv, TraceInv, UpdateCall PROVE TraceInv'
<1>1. /\ pc = "call" /\ phase = "update"
      /\ UNCHANGED <<world, rows, current, scope, seen, plan>>
  BY DEF UpdateCall
<1> DEFINE matching == {op \in work : UpdateTargetMatches(op)}
<1>2. PICK result \in Results(matching, {"ok", "failed", "lost"}) :
        /\ remote' = Written(Took(matching, result))
        /\ protected' = protected \cup {op.uid : op \in Done(matching, result)}
        /\ Checkpoint(processUpdateResults(Done(matching, result)), work \ Done(matching, result))
  BY DEF UpdateCall
<1> DEFINE took == Took(matching, result)
           done == Done(matching, result)
           rest == work \ done
           changes == processUpdateResults(done)
<1>3. took \subseteq work /\ done \subseteq work
  BY DEF Took, Done
<1>4. /\ remote' = Written(took) /\ Checkpoint(changes, rest)
      /\ protected' = protected \cup {op.uid : op \in done}
      /\ rest \in SUBSET work /\ \A op \in done : op \notin rest
  BY <1>2
<1> HIDE DEF took, matching
<1>5. \A op \in work : op.event \in EventIds /\ op.row \in EventIds /\ op.row # NoEvent
  BY <1>1, WorkShape, EventIdShape DEF Replacements
<1>6. CopiesApart'
  <2>1. \A a, b \in took : a.event = b.event => a = b
    <3>1. \A a \in took : a \in Left \ Removals
      BY <1>1, <1>3, WorkShape DEF Left, Replacements, Removals
    <3> QED
      BY <1>1, <3>1 DEF SyncInv, WritesAreApart
  <2>2. ApartIn(Written(took))
    BY <1>3, <1>5, <2>1, WritingKeepsApart DEF SyncInv, Sharp, TraceInv
  <2> QED
    BY <1>4, <2>2 DEF CopiesApart
<1>7. /\ changes.deletes = {} /\ DOMAIN changes.inserts = {}
      /\ \A u \in changes.updates : \E op \in done : u.row = op.row /\ u.del = op.del
  BY DEF processUpdateResults, NoChanges, NoRows, MoveOf
<1> HIDE DEF changes, done, rest
<1>8. \A m \in Touched(changes) : \E op \in work : op \notin rest /\ op.row = m /\ m # NoEvent
  BY <1>3, <1>4, <1>5, <1>7 DEF Touched
<1>9. /\ \A m \in Touched(changes), a \in plan.todo \cup rest \cup Ahead(phase, plan.chunk) :
           a.row # m
      /\ \A m \in Touched(changes), u \in plan.moves : u.row # m
  BY <1>1, <1>4, <1>8, OtherRowsLeft
<1>10. \A u \in changes.updates : MoveFromPlan(u, rows) /\ rows[u.row].uid \in protected'
  <2>1. \A op \in done : MoveFromPlan(op, rows) /\ rows[op.row].uid = op.uid
    BY <1>1, <1>3, <1>5, WorkStands
  <2> QED
    BY <1>4, <1>7, <2>1 DEF MoveFromPlan
<1>11. ChangesStand(changes, plan.todo \cup rest \cup Ahead(phase, plan.chunk), protected')
  BY <1>7, <1>9, <1>10 DEF ChangesStand
<1> QED
  BY <1>1, <1>4, <1>6, <1>11, TraceCall

\* The delete half of a replacement takes copies away and touches no row.
LEMMA ClearCallTrace ==
  ASSUME SyncInv, TraceInv, ClearCall PROVE TraceInv'
<1> USE DEF SyncInv, Sharp
<1>1. /\ pc = "call" /\ phase = "clear"
      /\ UNCHANGED <<world, rows, current, scope, seen, plan, protected, pending>>
  BY DEF ClearCall
<1>2. PICK result \in Results(work, {"ok", "failed", "lost"}) :
        remote' = WithoutAddressed(Took(work, result)) /\ LeavePhase(Done(work, result))
  BY DEF ClearCall
<1>3. CopiesApart'
  <2>1. remote' \subseteq remote
    BY <1>2 DEF WithoutAddressed
  <2> QED
    BY <2>1, FewerCopies DEF TraceInv
<1>4. Done(work, result) \subseteq work
  BY DEF Done
<1>5. /\ pc' \in {"chunk", "call", "moves"}
      /\ Left' \subseteq plan.todo \cup Done(work, result) \cup Ahead(phase, plan.chunk)
  BY <1>1, <1>2, <1>4, LeavePhaseMoves
<1>6. Left' \subseteq Left
  BY <1>4, <1>5 DEF Left
<1>7. pending' = NoChanges
  BY <1>1 DEF PendingIsApart
<1>8. ChangesStand(pending, Left, protected)'
  BY <1>7 DEF ChangesStand, Touched, NoChanges, NoRows
<1> QED
  BY <1>1, <1>3, <1>5, <1>6, <1>8, TraceKeepsOn DEF Running

\* The row of a push is that of the copy pushed.
LEMMA InsertsAreOurs ==
  ASSUME SyncInv, TraceInv, pc = "call", NEW done, \A op \in done : op.event \in EventIds
  PROVE  /\ DOMAIN InsertsOf(done) = {op.event : op \in done}
         /\ \A e \in DOMAIN InsertsOf(done) : \E op \in done :
              op.event = e /\ InsertsOf(done)[e] = PushedRow(op)
         /\ \A op \in done : Addresses(PushedRow(op).del, PushedRow(op).uid)
<1> DEFINE of(e) == CHOOSE op \in done : op.event = e
<1>1. InsertsOf(done) = [e \in {op.event : op \in done} |-> PushedRow(of(e))]
  BY DEF InsertsOf
<1>2. \A e \in {op.event : op \in done} : of(e) \in done /\ of(e).event = e
  BY DEF of
<1> HIDE DEF of
<1>3. ASSUME NEW op \in done PROVE Addresses(PushedRow(op).del, PushedRow(op).uid)
  <2> DEFINE copy == WrittenCopy(op.event, op.slot, op.body)
  <2>1. PushedRow(op) = [uid |-> copy.uid, del |-> PushedDeleteId(copy), slot |-> op.slot,
                         body |-> op.body, owned |-> TRUE]
    BY DEF PushedRow
  <2>2. Addresses(PushedDeleteId(copy), copy.uid)
    BY WrittenCopyIsItsOwn DEF SyncInv, Sharp, TraceInv
  <2> HIDE DEF copy
  <2> QED
    BY <2>1, <2>2
<1> QED
  BY <1>1, <1>2, <1>3

\* A push protects the uids it creates, and their rows take free places.
LEMMA PushCallTrace ==
  ASSUME SyncInv, TraceInv, PushCall PROVE TraceInv'
<1>1. /\ pc = "call" /\ phase \in {"readd", "add"}
      /\ UNCHANGED <<world, rows, current, scope, seen, plan>>
  BY DEF PushCall
<1> DEFINE sent == {op \in work : op.body \notin Unpushable}
           skipped == work \ sent
           torn(result) == {op \in sent : result[op] = "torn"}
<1>2. PICK result \in Results(sent, PushOutcomes) :
        /\ remote' = Written(Took(sent, result)) \ UNION {CopiesOf(op.event) : op \in torn(result)}
        /\ protected' = protected \cup {PushedRow(op).uid : op \in Done(sent, result)}
        /\ Checkpoint(processAddResults(Done(sent, result), skipped), {})
  BY DEF PushCall
<1> DEFINE took == Took(sent, result)
           done == Done(sent, result)
           changes == processAddResults(done, skipped)
           rest == {}
<1>3. took \subseteq work /\ done \subseteq work /\ skipped \subseteq work
  BY DEF Took, Done
<1>4. /\ remote' \subseteq Written(took) /\ Checkpoint(changes, rest)
      /\ protected' = protected \cup {PushedRow(op).uid : op \in done}
      /\ rest \in SUBSET work /\ \A op \in work : op \notin rest
  BY <1>2
<1>5. /\ changes.deletes = {op.row : op \in done \cup skipped} \ {NoEvent}
      /\ changes.inserts = InsertsOf(done) /\ changes.updates = {}
  BY DEF processAddResults
<1> HIDE DEF took, sent, skipped, done, changes, rest
<1>6. /\ \A op \in work : op.event \in EventIds
      /\ \A op \in work : op \in Adds \/ (op \in Replacements /\ op.row \in EventIds)
      /\ \A op \in work : op \notin Removals
  BY <1>1, WorkShape DEF Replacements, Adds, Removals
<1>7. CopiesApart'
  <2>1. \A a, b \in took : a.event = b.event => a = b
    <3>1. \A a \in took : a \in Left \ Removals
      BY <1>1, <1>3, <1>6 DEF Left
    <3> QED
      BY <1>1, <3>1 DEF SyncInv, WritesAreApart
  <2>2. ApartIn(Written(took))
    BY <1>3, <1>6, <2>1, WritingKeepsApart DEF SyncInv, Sharp, TraceInv
  <2> QED
    BY <1>4, <2>2, FewerApart DEF CopiesApart
<1>8. \A m \in Touched(changes) : \E op \in work : op.row = m /\ m # NoEvent
  BY <1>3, <1>5 DEF Touched
<1>9. /\ \A m \in Touched(changes), a \in plan.todo \cup rest \cup Ahead(phase, plan.chunk) :
           a.row # m
      /\ \A m \in Touched(changes), u \in plan.moves : u.row # m
  BY <1>1, <1>4, <1>8, OtherRowsLeft
<1>10. ASSUME NEW e \in DOMAIN changes.inserts
       PROVE  /\ Addresses(changes.inserts[e].del, changes.inserts[e].uid)
              /\ changes.inserts[e].uid \in protected'
              /\ e \in DOMAIN rows => e \in changes.deletes
  <2>1. \A op \in done : op.event \in EventIds
    BY <1>3, <1>6
  <2>2. PICK op \in done : op.event = e /\ changes.inserts[e] = PushedRow(op)
    <3>1. \A x \in DOMAIN InsertsOf(done) : \E op \in done :
            op.event = x /\ InsertsOf(done)[x] = PushedRow(op)
      BY <1>1, <2>1, InsertsAreOurs
    <3> QED
      BY <1>5, <3>1
  <2>3. Addresses(PushedRow(op).del, PushedRow(op).uid)
    BY <1>1, <2>1, InsertsAreOurs
  <2>4. ASSUME e \in DOMAIN rows PROVE e \in changes.deletes
    <3>1. op \in Left
      BY <1>1, <1>3, WorkStands
    <3>2. op \notin Adds
      BY <1>1, <2>2, <2>4, <3>1 DEF TraceInv, Running, PlanStands
    <3>3. op \in Left \cap Replacements /\ op.row # NoEvent
      BY <1>3, <1>6, <3>1, <3>2, EventIdShape
    <3>4. Fits(op)
      BY <1>1, <3>3 DEF SyncInv, WritesAreApart
    <3> QED
      BY <1>5, <2>2, <2>4, <3>3, <3>4 DEF Fits
  <2> QED
    BY <1>4, <2>2, <2>3, <2>4
<1>11. ChangesStand(changes, plan.todo \cup rest \cup Ahead(phase, plan.chunk), protected')
  BY <1>5, <1>9, <1>10 DEF ChangesStand
<1> QED
  BY <1>1, <1>4, <1>7, <1>11, TraceCall

-----------------------------------------------------------------------------
(* Checkpoints and the end of a run leave rows that address their copies    *)

\* After a checkpoint's transaction each row addresses its copy, and only protected rows changed.
LEMMA FlushedAddressed ==
  ASSUME SyncInv, TraceInv, pc = "flush"
  PROVE  LET F == Flushed(pending)
         IN /\ \A m \in DOMAIN F : Addresses(F[m].del, F[m].uid)
            /\ \A m \in DOMAIN rows \ Touched(pending) : m \in DOMAIN F /\ F[m] = rows[m]
            /\ \A m \in DOMAIN F :
                 F[m].uid \in protected \/ (m \in DOMAIN rows \ Touched(pending) /\ F[m] = rows[m])
<1> DEFINE F == Flushed(pending)
<1>1. ChangesStand(pending, Left, protected) /\ Addressed(rows)
  BY DEF TraceInv, Running
<1>2. ChangesApart(pending, Left) /\ \A u \in pending.updates : Fits(u)
  BY DEF SyncInv, PendingIsApart
<1>3. /\ \A m \in DOMAIN F :
              \/ m \in DOMAIN rows \ Touched(pending) /\ F[m] = rows[m]
              \/ /\ m \in DOMAIN pending.inserts
                 /\ F[m].uid = pending.inserts[m].uid /\ F[m].del = pending.inserts[m].del
              \/ \E u \in pending.updates :
                   u.event = m /\ F[m].uid = rows[u.row].uid /\ F[m].del = u.del
      /\ \A m \in DOMAIN rows \ Touched(pending) : m \in DOMAIN F /\ F[m] = rows[m]
  <2> HIDE DEF F
  <2>1. F = Flushed(pending)
    BY DEF F
  <2> QED
    BY <1>1, <1>2, <2>1, FlushedShape DEF ChangesStand, ChangesApart, MoveFromPlan
<1> HIDE DEF F
<1>4. \A m \in DOMAIN F : Addresses(F[m].del, F[m].uid)
  BY <1>1, <1>3 DEF ChangesStand, MoveFromPlan, Addressed
<1>5. \A m \in DOMAIN F :
        F[m].uid \in protected \/ (m \in DOMAIN rows \ Touched(pending) /\ F[m] = rows[m])
  BY <1>1, <1>3 DEF ChangesStand
<1> QED
  BY <1>3, <1>4, <1>5 DEF F

\* A checkpoint that commits leaves the rest of the plan standing.
LEMMA FlushTrace ==
  ASSUME SyncInv, TraceInv, Flush PROVE TraceInv'
<1> USE DEF SyncInv, Sharp
<1>1. /\ pc = "flush" /\ rows' = Flushed(pending) /\ pending' = NoChanges /\ LeavePhase(work)
      /\ UNCHANGED <<remote, current, scope, seen, plan, protected>>
  BY DEF Flush
<1>2. CopiesApart'
  BY <1>1, SameRemoteApart DEF TraceInv
<1>3. /\ Addressed(rows)'
      /\ \A m \in DOMAIN rows \ Touched(pending) : m \in DOMAIN rows' /\ rows'[m] = rows[m]
      /\ \A m \in DOMAIN rows' :
           rows'[m].uid \in protected \/ (m \in DOMAIN rows \ Touched(pending) /\ rows'[m] = rows[m])
  BY <1>1, FlushedAddressed DEF Addressed
<1>4. phase # "none"
  BY <1>1 DEF ControlTyped
<1>5. /\ pc' \in {"chunk", "call", "moves"}
      /\ Left' \subseteq plan.todo \cup work \cup Ahead(phase, plan.chunk)
  BY <1>1, <1>4, LeavePhaseMoves
<1>6. Left' \subseteq Left
  BY <1>5 DEF Left
<1>7. PlanStands /\ RowsStand /\ ChangesStand(pending, Left, protected)
  BY <1>1 DEF TraceInv, Running
<1>8. \A m : StillThere(m) /\ m \notin Touched(pending) => StillThere(m)'
  BY <1>1, <1>3 DEF StillThere
<1>9. DOMAIN rows' \subseteq DOMAIN rows \cup EventsIn(pending)
  <2>1. ChangesTyped(pending)
    BY DEF PendingTyped, ChangesTyped
  <2> QED
    BY <1>1, <2>1, FlushedTyped
<1>10. PlanStands'
  <2>1. ASSUME NEW a \in Left'
        PROVE  /\ FromPlan(a, seen.events, seen.rows, scope)
               /\ a.row # NoEvent => StillThere(a.row)'
               /\ a \in Adds => a.event \notin DOMAIN rows'
    <3>1. a \in Left
      BY <1>6
    <3>2. a \in Adds => a.event \notin DOMAIN rows'
      <4>1. ChangesApart(pending, Left)
        BY <1>1 DEF PendingIsApart
      <4>2. a \in Adds => a \notin Removals
        BY DEF Adds, Removals
      <4> QED
        BY <1>7, <1>9, <3>1, <4>1, <4>2 DEF PlanStands, ChangesApart
    <3> QED
      BY <1>7, <1>8, <3>1, <3>2 DEF PlanStands, ChangesStand
  <2>2. \A u \in plan.moves : MoveFromPlan(u, seen.rows) /\ StillThere(u.row)'
    BY <1>7, <1>8 DEF PlanStands, ChangesStand
  <2>3. RowsApart(Left', plan.moves)
    BY <1>6, <1>7 DEF PlanStands, RowsApart
  <2> QED
    BY <1>1, <2>1, <2>2, <2>3 DEF PlanStands
<1>11. RowsStand'
  BY <1>1, <1>3, <1>7, <1>8 DEF RowsStand
<1>12. ChangesStand(pending, Left, protected)'
  BY <1>1 DEF ChangesStand, Touched, NoChanges, NoRows
<1> QED
  BY <1>1, <1>2, <1>3, <1>5, <1>10, <1>11, <1>12 DEF TraceInv

\* A checkpoint that fails, or whose answer is lost, leaves rows that address their copies.
LEMMA FlushFailsTrace ==
  ASSUME SyncInv, TraceInv, FlushFails PROVE TraceInv'
<1>1. pc = "flush" /\ rows' \in {rows, Flushed(pending)} /\ remote' = remote
  BY DEF FlushFails
<1>2. CopiesApart'
  BY <1>1, SameRemoteApart DEF TraceInv
<1>3. Addressed(rows)'
  <2>1. Addressed(rows)
    BY DEF TraceInv
  <2> QED
    BY <1>1, <2>1, FlushedAddressed DEF Addressed
<1>4. CASE DOMAIN pending.inserts = {}
  BY <1>2, <1>3, <1>4, TraceRunEnds DEF FlushFails
<1>5. CASE DOMAIN pending.inserts # {}
  <2>1. pc' = "unrecorded" /\ scope' = scope
    BY <1>5 DEF FlushFails, memory
  <2> QED
    BY <1>2, <1>3, <2>1 DEF TraceInv, Running, WindowsWithin
<1> QED
  BY <1>4, <1>5

\* Cleaning up after a failed checkpoint touches no row.
LEMMA DeleteUnrecordedTrace ==
  ASSUME SyncInv, TraceInv, deleteUnrecordedCopies PROVE TraceInv'
<1>1. EndRun /\ rows' = rows /\ remote' \subseteq remote
  BY DEF deleteUnrecordedCopies
<1>2. CopiesApart' /\ Addressed(rows)'
  BY <1>1, FewerCopies DEF TraceInv, Addressed
<1> QED
  BY <1>1, <1>2, TraceRunEnds

\* The mapping updates of the plan, as one transaction.
MoveChanges == [NoChanges EXCEPT !.updates = plan.moves]

\* The mapping updates at the end of the plan still find their rows.
LEMMA MovesStand ==
  ASSUME SyncInv, TraceInv, pc = "moves"
  PROVE  /\ MoveChanges.deletes = {} /\ DOMAIN MoveChanges.inserts = {}
         /\ MoveChanges.updates = plan.moves
         /\ \A u, v \in plan.moves : u.event = v.event => u = v
         /\ \A u \in plan.moves : Fits(u) /\ MoveFromPlan(u, rows)
<1>1. /\ MoveChanges.deletes = {} /\ DOMAIN MoveChanges.inserts = {}
      /\ MoveChanges.updates = plan.moves
  BY DEF MoveChanges, NoChanges, NoRows
<1>2. PlanStands
  BY DEF TraceInv, Running
<1> QED
  BY <1>1, <1>2 DEF SyncInv, WritesAreApart, PlanStands, MoveFromPlan, StillThere

\* The mapping updates at the end keep each row's address.
LEMMA FinishRunTrace ==
  ASSUME SyncInv, TraceInv, FinishRun PROVE TraceInv'
<1>1. pc = "moves" /\ EndRun /\ remote' = remote /\ rows' \in {rows, Flushed(MoveChanges)}
  BY DEF FinishRun, MoveChanges
<1>2. CopiesApart'
  BY <1>1, SameRemoteApart DEF TraceInv
<1>3. Addressed(rows)
  BY DEF TraceInv
<1>4. \A m \in DOMAIN Flushed(MoveChanges) :
        Addresses(Flushed(MoveChanges)[m].del, Flushed(MoveChanges)[m].uid)
  <2> DEFINE F == Flushed(MoveChanges)
  <2>1. \A m \in DOMAIN F :
          \/ m \in DOMAIN rows /\ F[m] = rows[m]
          \/ m \in DOMAIN MoveChanges.inserts
          \/ \E u \in MoveChanges.updates :
               u.event = m /\ F[m].uid = rows[u.row].uid /\ F[m].del = u.del
    <3>1. F = Flushed(MoveChanges)
      OBVIOUS
    <3> HIDE DEF F
    <3> QED
      BY <1>1, <3>1, MovesStand, FlushedShape DEF MoveFromPlan
  <2> HIDE DEF F
  <2>2. \A m \in DOMAIN F : Addresses(F[m].del, F[m].uid)
    BY <1>1, <1>3, <2>1, MovesStand DEF MoveFromPlan, Addressed
  <2> QED
    BY <2>2 DEF F
<1>5. Addressed(rows)'
  BY <1>1, <1>3, <1>4 DEF Addressed
<1> QED
  BY <1>1, <1>2, <1>5, TraceRunEnds

\* Before the first run there is nothing to know.
LEMMA InitTraceInv == Init => TraceInv
<1> SUFFICES ASSUME Init PROVE TraceInv
  OBVIOUS
<1>1. CopiesApart
  BY DEF Init, CopiesApart, ApartIn
<1>2. Addressed(rows) /\ WindowsWithin(scope)
  BY DEF Init, Addressed, NoRows, WindowsWithin, NoScope
<1> QED
  BY <1>1, <1>2 DEF Init, TraceInv, Running

\* Every step keeps TraceInv.
LEMMA NextTraceInv == SyncInv /\ TraceInv /\ [Next]_vars => TraceInv'
<1> SUFFICES ASSUME SyncInv, TraceInv, [Next]_vars PROVE TraceInv'
  OBVIOUS
<1>1. CASE RunStep
  BY <1>1, StartRunTrace, ReadLocalTrace, ReadRemoteAndPlanTrace, TakeChunkTrace,
     RemoveCallTrace, UpdateCallTrace, ClearCallTrace, PushCallTrace, FlushTrace,
     FlushFailsTrace, DeleteUnrecordedTrace, FinishRunTrace DEF RunStep
<1>2. CASE Environment
  BY <1>2, EnvironmentTrace
<1>3. CASE UNCHANGED vars
  <2>1. UNCHANGED <<control, memory>> /\ rows' = rows /\ remote' = remote
    BY <1>3 DEF vars, store
  <2> QED
    BY <2>1, TraceUntouched, SameRowsDisown, SameRemoteApart DEF TraceInv
<1> QED
  BY <1>1, <1>2, <1>3 DEF Next

\* What a run of the sync engine knows of the mapping table stays true while others edit:
\* rows it has not reached are as it read them, rows it has reached are for protected uids.
THEOREM TraceInvariance == Spec => []TraceInv
BY InitTraceInv, NextTraceInv, SyncInvariance, PTL DEF Spec

\* A removal takes only copies of its uid; one that a row holds is the removal's own row's.
LEMMA RemovalAims ==
  ASSUME SyncInv, TraceInv, pc = "call", phase = "remove",
         NEW op \in Actionable(work), NEW c \in AddressedBy(op.del)
  PROVE  /\ c \in remote /\ c # ForeignCopy /\ c.uid \notin protected
         /\ \A m \in DOMAIN rows : RecordedBy(m, c) =>
              /\ op.row # NoEvent /\ op.row \in DOMAIN rows
              /\ RecordedBy(op.row, c) /\ StillThere(op.row)
              /\ IsRetired(Authoritative(seen.events, scope), seen.rows, scope, op.row)
<1>1. op \in work /\ op.uid \notin protected
  BY DEF Actionable
<1>2. /\ op \in Removals /\ op \notin Adds /\ op.del \in OurIds
      /\ op.row \in EventIds \cup {NoEvent}
  BY <1>1, WorkShape DEF Removals, Adds
<1>3. Addresses(op.del, op.uid) /\ FromPlan(op, seen.events, seen.rows, scope)
      /\ (op.row # NoEvent => StillThere(op.row))
  BY <1>1, <1>2, WorkStands
<1>4. c \in remote /\ c # ForeignCopy /\ c.uid = op.uid
  BY <1>2, <1>3, AddressesItsUid DEF TraceInv
<1>5. SameCopy(op.del, ById(c.id))
  <2>1. CASE Provider = "caldav"
    BY <2>1 DEF SameCopy
  <2>2. CASE Provider # "caldav"
    <3>1. op.del = [form |-> op.del.form, ref |-> op.del.ref] /\ op.del.form = "id"
      BY <1>2, <1>3, <2>2 DEF OurIds, Addresses
    <3>2. c.id = op.del.ref
      BY <3>1 DEF AddressedBy
    <3> QED
      BY <3>1, <3>2 DEF SameCopy, ById
  <2> QED
    BY <2>1, <2>2
<1>6. \A m \in DOMAIN rows : RecordedBy(m, c) <=> Holds(rows[m], c)
  <2>1. \A m \in DOMAIN rows : rows[m] \in OurRows /\ Addresses(rows[m].del, rows[m].uid)
    BY DEF SyncInv, Sharp, RowsTyped, Table, TraceInv, Addressed
  <2>2. ApartIn(remote)
    BY DEF TraceInv, CopiesApart
  <2> QED
    BY <1>4, <2>1, <2>2, MatchesWhatItHolds DEF RecordedBy
<1>7. ASSUME NEW m \in DOMAIN rows, Holds(rows[m], c)
      PROVE  op.row # NoEvent
  <2> SUFFICES ASSUME op.row = NoEvent PROVE FALSE
    OBVIOUS
  <2>1. rows[m].uid = op.uid /\ StillThere(m)
    BY <1>1, <1>4, <1>7 DEF Holds, TraceInv, Running, RowsStand
  <2>2. seen.rows[m].uid = op.uid /\ SameCopy(seen.rows[m].del, op.del) /\ m \in DOMAIN seen.rows
    BY <1>5, <1>7, <2>1 DEF Holds, StillThere, SameCopy
  <2> QED
    BY <1>2, <1>3, <2>2 DEF FromPlan
<1>8. ASSUME op.row # NoEvent
      PROVE  /\ op.row \in DOMAIN rows /\ Holds(rows[op.row], c) /\ StillThere(op.row)
             /\ IsRetired(Authoritative(seen.events, scope), seen.rows, scope, op.row)
  <2>1. /\ StillThere(op.row) /\ op.uid = seen.rows[op.row].uid
        /\ SameCopy(op.del, seen.rows[op.row].del)
        /\ IsRetired(Authoritative(seen.events, scope), seen.rows, scope, op.row)
    BY <1>2, <1>3, <1>8 DEF FromPlan
  <2> QED
    BY <1>4, <1>5, <2>1 DEF StillThere, Holds, SameCopy
<1> QED
  BY <1>1, <1>4, <1>6, <1>7, <1>8

\* executeRemoves deletes no copy whose uid the run has pushed or updated, and a copy
\* that a mapping records only when the plan retires its own mapping.
THEOREM RemovalsAreDue == Spec => DeletesOnlyWhatItMay
<1> DEFINE Step == PushedCopyKept /\ RetiresOnlyWhatIsGone
<1>1. ASSUME SyncInv, TraceInv, [Next]_vars, edits' = edits, pc = "call", phase = "remove",
             NEW c \in remote \ remote'
      PROVE  \E op \in Actionable(work) : c \in AddressedBy(op.del)
  <2>1. CASE RemoveCall
    <3>1. PICK result \in Results(Actionable(work), {"ok", "failed", "lost"}) :
            remote' = WithoutAddressed(Took(Actionable(work), result))
      BY <2>1 DEF RemoveCall
    <3> QED
      BY <1>1, <3>1 DEF WithoutAddressed, Took
  <2>2. CASE Environment
    <3>1. edits' # edits \/ remote' = remote
      <4>1. Edit => edits' # edits
        BY DEF SyncInv, Sharp, BudgetTyped, Edit
      <4> QED
        BY <2>2, <4>1 DEF Environment, EditEvent, DeleteEvent, WithholdSeries, NarrowCoverage,
              RestoreCoverage, ChangeSources, ChangeWindow, TamperCopy, Supersede, Crash, store
    <3> QED
      BY <1>1, <3>1
  <2>3. CASE UNCHANGED vars
    BY <1>1, <2>3 DEF vars, store
  <2>4. CASE RunStep /\ ~RemoveCall
    BY <1>1, <2>4 DEF RunStep, StartRun, ReadLocal, ReadRemoteAndPlan, TakeChunk, UpdateCall,
                      ClearCall, PushCall, Flush, FlushFails, deleteUnrecordedCopies, FinishRun
  <2> QED
    BY <1>1, <2>1, <2>2, <2>3, <2>4 DEF Next
<1>2. SyncInv /\ TraceInv /\ [Next]_vars => Step
  <2> SUFFICES ASSUME SyncInv, TraceInv, [Next]_vars, edits' = edits, pc = "call",
                      phase = "remove"
               PROVE  /\ \A c \in remote : c.uid \in protected => c \in remote'
                      /\ \A c \in remote \ remote' :
                           (\E m \in DOMAIN rows : RecordedBy(m, c)) =>
                              \E m \in DOMAIN rows :
                                /\ RecordedBy(m, c)
                                /\ \/ rows[m].slot \notin scope.requested
                                   \/ /\ InsideAuthority(scope, m, rows[m].slot)
                                      /\ ~(rows[m].owned /\ OwnerOf(m) \in scope.withheld)
                                      /\ m \notin DOMAIN Authoritative(seen.events, scope)
    BY DEF PushedCopyKept, RetiresOnlyWhatIsGone
  <2>1. ASSUME NEW c \in remote \ remote' PROVE c.uid \notin protected
    BY <1>1, <2>1, RemovalAims
  <2>2. ASSUME NEW c \in remote \ remote', NEW k \in DOMAIN rows, RecordedBy(k, c)
        PROVE  \E m \in DOMAIN rows :
                 /\ RecordedBy(m, c)
                 /\ \/ rows[m].slot \notin scope.requested
                    \/ /\ InsideAuthority(scope, m, rows[m].slot)
                       /\ ~(rows[m].owned /\ OwnerOf(m) \in scope.withheld)
                       /\ m \notin DOMAIN Authoritative(seen.events, scope)
    <3>1. PICK op \in Actionable(work) : c \in AddressedBy(op.del)
      BY <1>1, <2>2
    <3>2. /\ op.row \in DOMAIN rows /\ RecordedBy(op.row, c) /\ StillThere(op.row)
          /\ IsRetired(Authoritative(seen.events, scope), seen.rows, scope, op.row)
      BY <2>2, <3>1, RemovalAims
    <3> QED
      BY <3>2 DEF IsRetired, StillThere
  <2> QED
    BY <2>1, <2>2
<1> QED
  BY <1>2, SyncInvariance, TraceInvariance, PTL DEF Spec, DeletesOnlyWhatItMay

-----------------------------------------------------------------------------
(* Every copy is recorded while nothing fails                               *)

\* A copy is the one of a row that changes keep, or of a row that they insert.
KeptBy(changes, c) ==
  \/ \E e \in DOMAIN changes.inserts : Holds(changes.inserts[e], c)
  \/ \E m \in DOMAIN rows \ changes.deletes : Holds(rows[m], c)
KeeperCopies == remote \ {ForeignCopy}

\* What replaceViaDeleteThenAdd pushes again has been cleared, and without faults every
\* copy is kept.
RecordInv ==
  /\ phase = "update" => Provider = "caldav"
  /\ pc = "flush" => phase # "clear"
  /\ pc = "call" /\ phase = "readd" => \A op \in work : AddressedBy(op.del) = {}
  /\ faults = 0 => pc # "unrecorded" /\ \A c \in KeeperCopies : KeptBy(pending, c)

\* A call all of whose items succeed, as it must be when there are no faults after it.
LEMMA AllSucceed ==
  ASSUME SyncInv, NEW ops, IsFiniteSet(ops), NEW outcomes, NEW result \in Results(ops, outcomes),
         faults' = faults + Faulty(result), faults' = 0
  PROVE  faults = 0 /\ Took(ops, result) = ops /\ Done(ops, result) = ops
<1> DEFINE bad == {op \in DOMAIN result : result[op] # "ok"}
<1>1. DOMAIN result = ops /\ faults \in Nat
  BY DestinationAssumption DEF Results, SyncInv, Sharp, BudgetTyped
<1>2. IsFiniteSet(bad)
  BY <1>1, FS_Subset
<1>3. Faulty(result) = Cardinality(bad)
  BY DEF Faulty
<1> HIDE DEF bad
<1>4. Cardinality(bad) \in Nat
  BY <1>2, FS_CardinalityType
<1>5. faults = 0 /\ Cardinality(bad) = 0
  BY <1>1, <1>3, <1>4
<1>6. bad = {}
  BY <1>2, <1>5, FS_EmptySet
<1> QED
  BY <1>1, <1>5, <1>6 DEF bad, Took, Done

\* CalDAV alone updates in place.
LEMMA EnterAfterPhase ==
  ASSUME NEW chunk, NEW g \in {"none", "removes", "replaces", "adds"}, EnterAfter(g, chunk)
  PROVE  /\ phase' = "update" => Provider = "caldav"
         /\ phase' # "readd" /\ pc' # "flush" /\ pc' # "unrecorded"
<1> DEFINE groups == Later(g)
           left == {i \in DOMAIN groups : GroupOf(chunk, groups[i]) # {}}
           least == CHOOSE i \in left : \A j \in left : i <= j
<1>1. /\ DOMAIN groups \subseteq Nat
      /\ \A i \in DOMAIN groups : groups[i] \in {"removes", "replaces", "adds"}
  BY DEF Later
<1>2. CASE left = {}
  BY <1>2 DEF EnterAfter
<1>3. CASE left # {}
  <2>1. \E i \in left : \A j \in left : i <= j
    <3>1. left \in SUBSET Nat
      BY <1>1
    <3> HIDE DEF left
    <3> QED
      BY <1>3, <3>1, LeastOfNaturals
  <2>2. least \in left
    BY <2>1, Zenon
  <2>3. pc' = "call" /\ phase' = FirstPhase(groups[least])
    BY <1>3 DEF EnterAfter
  <2>4. groups[least] \in {"removes", "replaces", "adds"}
    BY <1>1, <2>2
  <2> HIDE DEF groups, left, least
  <2> QED
    BY <2>3, <2>4 DEF FirstPhase
<1> QED
  BY <1>2, <1>3

\* Only caldav updates in place; a second half follows a first half with its work.
LEMMA PhaseAfterLeaving ==
  ASSUME ControlTyped, phase # "none", NEW rest, LeavePhase(rest)
  PROVE  /\ phase' = "update" => Provider = "caldav"
         /\ phase' = "readd" => phase = "clear" /\ work' = rest
         /\ pc' # "flush" /\ pc' # "unrecorded"
<1>1. GroupOfPhase(phase) \in {"none", "removes", "replaces", "adds"}
  BY DEF ControlTyped, GroupOfPhase
<1>2. CASE LeaveGroup
  <2>1. CASE current
    <3>1. EnterAfter(GroupOfPhase(phase), plan.chunk)
      BY <1>2, <2>1 DEF LeaveGroup
    <3> QED
      BY <1>1, <3>1, EnterAfterPhase
  <2>2. CASE ~current
    BY <1>2, <2>2 DEF LeaveGroup
  <2> QED
    BY <2>1, <2>2
<1>3. CASE ~LeaveGroup
  BY <1>3 DEF LeavePhase
<1> QED
  BY <1>2, <1>3

\* A checkpoint is never taken between the halves of a replacement.
LEMMA PhaseAfterCheckpoint ==
  ASSUME SyncInv, RecordInv, pc = "call", phase # "clear", NEW changes, NEW rest,
         Checkpoint(changes, rest)
  PROVE  /\ phase' = "update" => Provider = "caldav"
         /\ pc' = "flush" => phase' # "clear"
         /\ pc' = "call" => phase' # "readd"
         /\ pc' # "unrecorded"
<1>1. ControlTyped /\ phase # "none"
  BY DEF SyncInv, Sharp, ControlTyped
<1>2. CASE IsEmpty(changes)
  BY <1>1, <1>2, PhaseAfterLeaving DEF Checkpoint
<1>3. CASE ~IsEmpty(changes)
  BY <1>3 DEF Checkpoint, RecordInv
<1> QED
  BY <1>2, <1>3

\* What the changes of a call keep is kept when they are pending.
LEMMA KeptAfterCheckpoint ==
  ASSUME NEW changes, NEW rest, Checkpoint(changes, rest), rows' = rows,
         NEW c, KeptBy(changes, c)
  PROVE  KeptBy(pending, c)'
<1>1. CASE IsEmpty(changes)
  BY <1>1 DEF Checkpoint, IsEmpty, KeptBy, NoChanges, NoRows
<1>2. CASE ~IsEmpty(changes)
  BY <1>2 DEF Checkpoint, KeptBy
<1> QED
  BY <1>1, <1>2

\* A call that reports what it did keeps RecordInv.
LEMMA RecordCall ==
  ASSUME SyncInv, RecordInv, pc = "call", phase # "clear", NEW changes, NEW rest,
         Checkpoint(changes, rest), rows' = rows,
         faults' = 0 => \A c \in KeeperCopies' : KeptBy(changes, c)
  PROVE  RecordInv'
<1>1. faults' = 0 => \A c \in KeeperCopies' : KeptBy(pending, c)'
  BY KeptAfterCheckpoint
<1> QED
  BY <1>1, PhaseAfterCheckpoint DEF RecordInv

\* A run that ends keeps RecordInv when every copy has its row.
LEMMA RecordRunEnds ==
  ASSUME EndRun,
         faults' = 0 => \A c \in KeeperCopies' : \E m \in DOMAIN rows' : Holds(rows'[m], c)
  PROVE  RecordInv'
<1>1. pc' = "idle" /\ phase' = "none" /\ pending' = NoChanges
  BY DEF EndRun
<1>2. pending'.deletes = {}
  BY <1>1 DEF NoChanges
<1> QED
  BY <1>1, <1>2 DEF RecordInv, KeptBy

\* With nothing pending, a row holds each copy.
LEMMA HeldByRow ==
  ASSUME RecordInv, faults = 0, pending = NoChanges, NEW c \in KeeperCopies
  PROVE  \E m \in DOMAIN rows : Holds(rows[m], c)
BY DEF RecordInv, KeptBy, NoChanges, NoRows

\* A step of others that adds no copy and drops no row keeps RecordInv.
LEMMA RecordUntouched ==
  ASSUME RecordInv, UNCHANGED <<control, pending, faults>>, OnlyDisowns,
         \A d \in KeeperCopies' : \E c \in KeeperCopies : d.uid = c.uid /\ d.id = c.id,
         \A del : AddressedBy(del) = {} => AddressedBy(del)' = {}
  PROVE  RecordInv'
<1> USE DEF control
<1>1. ASSUME NEW d \in KeeperCopies', faults = 0 PROVE KeptBy(pending, d)'
  <2>1. PICK c \in KeeperCopies : d.uid = c.uid /\ d.id = c.id
    OBVIOUS
  <2>2. KeptBy(pending, c)
    BY <1>1, <2>1 DEF RecordInv
  <2>3. \A row : Holds(row, c) => Holds(row, d)
    BY <2>1 DEF Holds
  <2>4. \A m \in DOMAIN rows : Holds(rows[m], d) => Holds(rows'[m], d)
    BY DEF OnlyDisowns, Holds
  <2> QED
    BY <2>2, <2>3, <2>4 DEF KeptBy, OnlyDisowns
<1> QED
  BY <1>1 DEF RecordInv

\* Steps that change neither the rows nor the calendar nor what is pending.
LEMMA RecordStays ==
  ASSUME RecordInv, UNCHANGED <<rows, remote, pending, faults>>, pc' # "unrecorded",
         phase' = "update" => Provider = "caldav",
         pc' = "flush" => phase' # "clear",
         pc' = "call" => phase' # "readd"
  PROVE  RecordInv'
<1>1. \A c : KeptBy(pending, c) => KeptBy(pending, c)'
  BY DEF KeptBy
<1>2. KeeperCopies' = KeeperCopies
  BY DEF KeeperCopies
<1> QED
  BY <1>1, <1>2 DEF RecordInv

\* A run that ends with nothing pending leaves what is recorded.
LEMMA RecordRunEndsIdle ==
  ASSUME RecordInv, EndRun, pending = NoChanges, UNCHANGED <<rows, remote, faults>>
  PROVE  RecordInv'
<1>1. ASSUME faults = 0, NEW c \in KeeperCopies' PROVE \E m \in DOMAIN rows' : Holds(rows'[m], c)
  <2>1. c \in KeeperCopies
    BY <1>1 DEF KeeperCopies
  <2> QED
    BY <1>1, <2>1, HeldByRow
<1> QED
  BY <1>1, RecordRunEnds

\* Reads and plans change no copy and no row.
LEMMA ReadsRecord ==
  ASSUME SyncInv, RecordInv, StartRun \/ ReadLocal \/ ReadRemoteAndPlan \/ TakeChunk
  PROVE  RecordInv'
<1> USE DEF store, budget
<1>1. pc \in {"idle", "started", "read", "chunk"} /\ UNCHANGED <<rows, remote, faults>>
  BY DEF StartRun, ReadLocal, ReadRemoteAndPlan, TakeChunk
<1>2. phase = "none" /\ pending = NoChanges
  BY <1>1 DEF SyncInv, Sharp, ControlTyped, PendingIsApart
<1>3. CASE EndRun
  BY <1>1, <1>2, <1>3, RecordRunEndsIdle
<1>4. CASE TakeChunk /\ plan.todo # {}
  <2>1. \E chunk : EnterAfter("none", chunk)
    BY <1>4 DEF TakeChunk
  <2>2. /\ phase' = "update" => Provider = "caldav"
        /\ phase' # "readd" /\ pc' # "flush" /\ pc' # "unrecorded"
    BY <2>1, EnterAfterPhase
  <2>3. pending' = pending
    BY <1>4 DEF TakeChunk
  <2> QED
    BY <1>1, <2>2, <2>3, RecordStays
<1>5. CASE ~EndRun /\ ~(TakeChunk /\ plan.todo # {})
  <2>1. pc' \in {"started", "read", "chunk", "moves"} /\ phase' = phase /\ pending' = pending
    BY <1>5 DEF StartRun, ReadLocal, ReadRemoteAndPlan, TakeChunk
  <2> QED
    BY <1>1, <1>2, <2>1, RecordStays
<1> QED
  BY <1>3, <1>4, <1>5

\* A removed copy needs no row; the rows dropped with it held nothing else.
LEMMA RemoveCallRecords ==
  ASSUME SyncInv, TraceInv, RecordInv, RemoveCall PROVE RecordInv'
<1>1. /\ pc = "call" /\ phase = "remove" /\ rows' = rows
  BY DEF RemoveCall
<1> DEFINE actionable == Actionable(work)
<1>2. PICK result \in Results(actionable, {"ok", "failed", "lost"}) :
        /\ remote' = WithoutAddressed(Took(actionable, result))
        /\ faults' = faults + Faulty(result)
        /\ Checkpoint(processDeleteResults(Done(actionable, result)), {})
  BY DEF RemoveCall
<1>3. actionable \subseteq work /\ IsFiniteSet(actionable) /\ pending = NoChanges
  BY <1>1, WorkShape, FS_Subset DEF Actionable
<1> HIDE DEF actionable
<1> DEFINE changes == processDeleteResults(Done(actionable, result))
           rest == {}
<1>4. changes.deletes = {op.row : op \in Done(actionable, result)} \ {NoEvent}
  BY DEF processDeleteResults, NoChanges
<1>5. Checkpoint(changes, rest)
  BY <1>2
<1> HIDE DEF changes, rest
<1>6. ASSUME faults' = 0, NEW c \in KeeperCopies' PROVE KeptBy(changes, c)
  <2>1. /\ faults = 0 /\ Took(actionable, result) = actionable
        /\ Done(actionable, result) = actionable
    BY <1>2, <1>3, <1>6, AllSucceed
  <2>2. c \in KeeperCopies /\ \A op \in actionable : c \notin AddressedBy(op.del)
    BY <1>2, <1>6, <2>1 DEF KeeperCopies, WithoutAddressed
  <2>3. PICK m \in DOMAIN rows : Holds(rows[m], c)
    BY <1>3, <2>1, <2>2, HeldByRow
  <2>4. ASSUME NEW op \in actionable, op.row = m, m # NoEvent PROVE FALSE
    <3>1. op \in work /\ op.del \in OurIds
      BY <1>1, <1>3, WorkShape DEF Removals
    <3>2. MoveFromPlan(op, rows)
      BY <1>1, <2>4, <3>1, WorkStands
    <3>3. Addresses(op.del, rows[m].uid) /\ SameCopy(op.del, rows[m].del)
      BY <2>4, <3>2 DEF MoveFromPlan
    <3>4. c \in AddressedBy(op.del)
      BY <2>2, <2>3, <3>1, <3>3, DeletesWhatItHolds DEF TraceInv, KeeperCopies
    <3> QED
      BY <2>2, <3>4
  <2>5. m \notin changes.deletes
    BY <1>4, <2>1, <2>4
  <2> QED
    BY <2>3, <2>5 DEF KeptBy
<1> QED
  BY <1>1, <1>5, <1>6, RecordCall

\* An update in place keeps the copy that the row holds.
LEMMA UpdateCallRecords ==
  ASSUME SyncInv, TraceInv, RecordInv, UpdateCall PROVE RecordInv'
<1>1. pc = "call" /\ phase = "update" /\ rows' = rows /\ Provider = "caldav"
  BY DEF UpdateCall, RecordInv
<1> DEFINE matching == {op \in work : UpdateTargetMatches(op)}
<1>2. PICK result \in Results(matching, {"ok", "failed", "lost"}) :
        /\ remote' = Written(Took(matching, result))
        /\ faults' = faults + Faulty(result)
        /\ Checkpoint(processUpdateResults(Done(matching, result)), work \ Done(matching, result))
  BY DEF UpdateCall
<1> DEFINE took == Took(matching, result)
           done == Done(matching, result)
           rest == work \ done
           changes == processUpdateResults(done)
<1>3. /\ took \subseteq matching /\ matching \subseteq work /\ IsFiniteSet(matching)
      /\ pending = NoChanges
  BY <1>1, WorkShape, FS_Subset DEF Took
<1>4. changes.deletes = {}
  BY DEF processUpdateResults, NoChanges
<1>5. remote' = Written(took) /\ Checkpoint(changes, rest)
  BY <1>2
<1>6. faults' = 0 => faults = 0
  <2> HIDE DEF matching
  <2> QED
    BY <1>2, <1>3, AllSucceed
<1>7. \A op \in took : op \in work /\ op.del.ref = DerivedUid(op.event)
  BY <1>3 DEF UpdateTargetMatches
<1> HIDE DEF took, matching, done, changes, rest
<1>8. ASSUME faults' = 0, NEW c \in KeeperCopies' PROVE KeptBy(changes, c)
  <2>1. CASE c \in remote
    <3>1. \E m \in DOMAIN rows : Holds(rows[m], c)
      BY <1>3, <1>6, <1>8, <2>1, HeldByRow DEF KeeperCopies
    <3> QED
      BY <1>4, <3>1 DEF KeptBy
  <2>2. CASE c \notin remote
    <3>1. PICK op \in took : c = WrittenCopy(op.event, op.slot, op.body)
      BY <1>5, <1>8, <2>2 DEF KeeperCopies, Written
    <3>2. op \in work /\ op.del.ref = DerivedUid(op.event)
      BY <1>7
    <3>3. op \in Replacements /\ op.event \in EventIds /\ op.row # NoEvent
      BY <1>1, <3>2, WorkShape, EventIdShape DEF Replacements
    <3>4. c.uid = DerivedUid(op.event)
      BY <1>1, <3>1, <3>3, WrittenCopyIsItsOwn DEF SyncInv, Sharp, TraceInv
    <3>5. MoveFromPlan(op, rows)
      BY <1>1, <3>2, <3>3, WorkStands
    <3>6. op.row \in DOMAIN rows /\ rows[op.row].uid = c.uid
      BY <1>1, <3>2, <3>4, <3>5 DEF MoveFromPlan, Addresses
    <3> QED
      BY <1>1, <1>4, <3>6 DEF KeptBy, Holds, SameCopy
  <2> QED
    BY <2>1, <2>2
<1> QED
  BY <1>1, <1>5, <1>8, RecordCall

\* When nothing fails, what the delete half clears is gone from the destination.
LEMMA ClearCallRecords ==
  ASSUME SyncInv, TraceInv, RecordInv, ClearCall PROVE RecordInv'
<1>1. pc = "call" /\ phase = "clear" /\ rows' = rows /\ pending' = pending
  BY DEF ClearCall
<1>2. PICK result \in Results(work, {"ok", "failed", "lost"}) :
        /\ remote' = WithoutAddressed(Took(work, result))
        /\ faults' = faults + Faulty(result)
        /\ LeavePhase(Done(work, result))
  BY DEF ClearCall
<1>3. ControlTyped /\ IsFiniteSet(work) /\ pending = NoChanges
  BY <1>1, WorkShape DEF SyncInv, Sharp
<1>4. /\ phase' = "update" => Provider = "caldav"
      /\ phase' = "readd" => work' = Done(work, result)
      /\ pc' # "flush" /\ pc' # "unrecorded"
  BY <1>1, <1>2, <1>3, PhaseAfterLeaving
<1>5. \A op \in Done(work, result) : AddressedBy(op.del)' = {}
  BY <1>2 DEF Done, Took, WithoutAddressed, AddressedBy
<1>6. phase' = "readd" => \A op \in work' : AddressedBy(op.del)' = {}
  BY <1>4, <1>5
<1>7. ASSUME faults' = 0, NEW c \in KeeperCopies' PROVE KeptBy(pending, c)'
  <2>1. faults = 0
    BY <1>2, <1>3, <1>7, AllSucceed
  <2>2. c \in KeeperCopies
    BY <1>2, <1>7 DEF KeeperCopies, WithoutAddressed
  <2> QED
    BY <1>1, <2>1, <2>2 DEF RecordInv, KeptBy
<1> QED
  BY <1>4, <1>6, <1>7 DEF RecordInv

\* Each pushed copy has an insert, or an update of its row, in the changes.
LEMMA PushCallRecords ==
  ASSUME SyncInv, TraceInv, RecordInv, PushCall PROVE RecordInv'
<1>1. pc = "call" /\ phase \in {"readd", "add"} /\ rows' = rows
  BY DEF PushCall
<1> DEFINE sent == {op \in work : op.body \notin Unpushable}
           skipped == work \ sent
           torn(result) == {op \in sent : result[op] = "torn"}
<1>2. PICK result \in Results(sent, PushOutcomes) :
        /\ remote' = Written(Took(sent, result)) \ UNION {CopiesOf(op.event) : op \in torn(result)}
        /\ faults' = faults + Faulty(result)
        /\ Checkpoint(processAddResults(Done(sent, result), skipped), {})
  BY DEF PushCall
<1>3. sent \subseteq work /\ skipped \subseteq work /\ IsFiniteSet(sent) /\ pending = NoChanges
  BY <1>1, WorkShape, FS_Subset
<1> HIDE DEF sent, skipped
<1> DEFINE took == Took(sent, result)
           done == Done(sent, result)
           changes == processAddResults(done, skipped)
           rest == {}
<1>4. remote' \subseteq Written(took) /\ Checkpoint(changes, rest)
  BY <1>2
<1>5. faults' = 0 => faults = 0 /\ took = done /\ done \subseteq work
  BY <1>2, <1>3, AllSucceed
<1>6. /\ changes.deletes = {op.row : op \in done \cup skipped} \ {NoEvent}
      /\ changes.inserts = InsertsOf(done)
  BY DEF processAddResults
<1> HIDE DEF took, done, changes, rest
<1>7. /\ \A op \in work : op.event \in EventIds /\ op \notin Removals
      /\ phase = "add" => \A op \in work : op.row = NoEvent
      /\ phase = "readd" => \A op \in work : op.del \in OurIds
  BY <1>1, WorkShape DEF Replacements, Adds, Removals
<1>8. ASSUME faults' = 0, NEW c \in KeeperCopies' PROVE KeptBy(changes, c)
  <2>1. CASE \E op \in done : c = WrittenCopy(op.event, op.slot, op.body)
    <3>1. PICK op \in done : c = WrittenCopy(op.event, op.slot, op.body)
      BY <2>1
    <3>2. \A a \in done : a \in work /\ a.event \in EventIds
      BY <1>5, <1>7, <1>8
    <3>3. /\ DOMAIN InsertsOf(done) = {a.event : a \in done}
          /\ \A e \in DOMAIN InsertsOf(done) : \E a \in done :
               a.event = e /\ InsertsOf(done)[e] = PushedRow(a)
      BY <1>1, <3>2, InsertsAreOurs
    <3>4. PICK a \in done : a.event = op.event /\ InsertsOf(done)[op.event] = PushedRow(a)
      BY <3>1, <3>3
    <3>5. a = op
      <4>1. a \in Left \ Removals /\ op \in Left \ Removals
        BY <1>7, <3>1, <3>2, <3>4 DEF Left
      <4> QED
        BY <1>1, <3>4, <4>1 DEF SyncInv, WritesAreApart
    <3>6. SameCopy(PushedDeleteId(c), ById(c.id))
      BY <3>1, <3>2, WrittenCopyIsItsOwn DEF SyncInv, Sharp, TraceInv
    <3>7. PushedRow(op).uid = c.uid /\ PushedRow(op).del = PushedDeleteId(c)
      BY <3>1 DEF PushedRow
    <3>8. Holds(InsertsOf(done)[op.event], c)
      BY <3>4, <3>5, <3>6, <3>7 DEF Holds
    <3> QED
      BY <1>6, <3>1, <3>3, <3>8 DEF KeptBy
  <2>2. CASE ~\E op \in done : c = WrittenCopy(op.event, op.slot, op.body)
    <3>1. c \in KeeperCopies
      BY <1>4, <1>5, <1>8, <2>2 DEF KeeperCopies, Written
    <3>2. PICK m \in DOMAIN rows : Holds(rows[m], c)
      BY <1>3, <1>5, <1>8, <3>1, HeldByRow
    <3>3. ASSUME NEW op \in work, op.row = m, m # NoEvent PROVE FALSE
      <4>1. phase = "readd" /\ op.del \in OurIds
        BY <1>1, <1>7, <3>3
      <4>2. MoveFromPlan(op, rows)
        BY <1>1, <3>3, WorkStands
      <4>3. c \in AddressedBy(op.del)
        BY <3>1, <3>2, <3>3, <4>1, <4>2, DeletesWhatItHolds DEF TraceInv, KeeperCopies, MoveFromPlan
      <4> QED
        BY <1>1, <4>1, <4>3 DEF RecordInv
    <3>4. m \notin changes.deletes
      BY <1>3, <1>5, <1>6, <1>8, <3>3
    <3> QED
      BY <3>2, <3>4 DEF KeptBy
  <2> QED
    BY <2>1, <2>2
<1> QED
  BY <1>1, <1>4, <1>8, RecordCall

\* A transaction leaves a row for every copy that it keeps.
LEMMA FlushedKeeps ==
  ASSUME NEW changes,
         changes.updates # {} => changes.deletes = {} /\ DOMAIN changes.inserts = {},
         \A u, v \in changes.updates : u.event = v.event => u = v,
         \A u \in changes.updates : Fits(u) /\ MoveFromPlan(u, rows),
         \A e \in DOMAIN changes.inserts : e \in DOMAIN rows => e \in changes.deletes,
         NEW F, F = Flushed(changes), NEW c, KeptBy(changes, c)
  PROVE  \E m \in DOMAIN F : Holds(F[m], c)
<1>1. /\ \A m \in DOMAIN rows \ Touched(changes) : m \in DOMAIN F /\ F[m] = rows[m]
      /\ \A e \in DOMAIN changes.inserts :
           /\ e \in DOMAIN F
           /\ F[e].uid = changes.inserts[e].uid /\ F[e].del = changes.inserts[e].del
      /\ \A u \in changes.updates :
           u.event \in DOMAIN F /\ F[u.event].uid = rows[u.row].uid /\ F[u.event].del = u.del
  BY FlushedShape DEF MoveFromPlan
<1>2. CASE \E e \in DOMAIN changes.inserts : Holds(changes.inserts[e], c)
  BY <1>1, <1>2 DEF Holds
<1>3. ASSUME NEW m \in DOMAIN rows \ changes.deletes, Holds(rows[m], c)
      PROVE  \E k \in DOMAIN F : Holds(F[k], c)
  <2>1. CASE m \notin Touched(changes)
    BY <1>1, <1>3, <2>1
  <2>2. CASE m \in Touched(changes)
    <3>1. PICK u \in changes.updates : u.row = m
      BY <1>3, <2>2 DEF Touched
    <3>2. SameCopy(u.del, rows[m].del)
      BY <3>1 DEF MoveFromPlan
    <3>3. Holds(F[u.event], c)
      BY <1>1, <1>3, <3>1, <3>2 DEF Holds, SameCopy
    <3> QED
      BY <1>1, <3>1, <3>3
  <2> QED
    BY <2>1, <2>2
<1> QED
  BY <1>2, <1>3 DEF KeptBy

\* What a checkpoint commits records every copy of the changes.
LEMMA FlushRecords ==
  ASSUME SyncInv, TraceInv, RecordInv, Flush PROVE RecordInv'
<1>1. /\ pc = "flush" /\ rows' = Flushed(pending) /\ pending' = NoChanges /\ LeavePhase(work)
      /\ UNCHANGED <<remote, faults>>
  BY DEF Flush, budget
<1>2. phase # "none" /\ phase # "clear" /\ ControlTyped
  BY <1>1 DEF SyncInv, Sharp, ControlTyped, RecordInv
<1>3. /\ phase' = "update" => Provider = "caldav"
      /\ phase' # "readd" /\ pc' # "flush" /\ pc' # "unrecorded"
  BY <1>1, <1>2, PhaseAfterLeaving
<1>4. ASSUME faults = 0, NEW c \in KeeperCopies' PROVE \E m \in DOMAIN rows' : Holds(rows'[m], c)
  <2>1. KeptBy(pending, c)
    BY <1>1, <1>4 DEF RecordInv, KeeperCopies
  <2>2. ChangesStand(pending, Left, protected)
    BY <1>1 DEF TraceInv, Running
  <2>3. ChangesApart(pending, Left) /\ \A u \in pending.updates : Fits(u)
    BY <1>1 DEF SyncInv, PendingIsApart
  <2>4. \E m \in DOMAIN Flushed(pending) : Holds(Flushed(pending)[m], c)
    BY <2>1, <2>2, <2>3, FlushedKeeps DEF ChangesStand, ChangesApart
  <2> QED
    BY <1>1, <2>4
<1>5. \A c \in KeeperCopies' : faults = 0 => KeptBy(pending, c)'
  <2>1. pending'.deletes = {}
    BY <1>1 DEF NoChanges
  <2> QED
    BY <1>4, <2>1 DEF KeptBy
<1> QED
  BY <1>1, <1>3, <1>5 DEF RecordInv

\* Mapping updates at the end leave each copy its row.
LEMMA FinishRunRecords ==
  ASSUME SyncInv, TraceInv, RecordInv, FinishRun PROVE RecordInv'
<1>1. pc = "moves" /\ EndRun /\ remote' = remote
  BY DEF FinishRun
<1>2. pending = NoChanges /\ faults \in Nat
  BY <1>1, DestinationAssumption DEF SyncInv, Sharp, PendingIsApart, BudgetTyped
<1>3. faults' = 0 => faults = 0 /\ rows' = Flushed(MoveChanges)
  BY <1>2 DEF FinishRun, MoveChanges
<1>4. ASSUME faults' = 0, NEW c \in KeeperCopies' PROVE \E m \in DOMAIN rows' : Holds(rows'[m], c)
  <2>1. \E m \in DOMAIN rows : Holds(rows[m], c)
    BY <1>1, <1>2, <1>3, <1>4, HeldByRow DEF KeeperCopies
  <2>2. KeptBy(MoveChanges, c)
    BY <1>1, <2>1, MovesStand DEF KeptBy
  <2>3. \E m \in DOMAIN Flushed(MoveChanges) : Holds(Flushed(MoveChanges)[m], c)
    BY <1>1, <2>2, MovesStand, FlushedKeeps
  <2> QED
    BY <1>3, <1>4, <2>3
<1> QED
  BY <1>1, <1>4, RecordRunEnds

\* A failure of a flush or a worker counts as a fault.
LEMMA FaultsRecord ==
  ASSUME SyncInv, RecordInv, FlushFails \/ deleteUnrecordedCopies \/ Crash
  PROVE  RecordInv'
<1>1. faults \in Nat
  BY DestinationAssumption DEF SyncInv, Sharp, BudgetTyped
<1>2. faults' # 0
  <2>1. CASE deleteUnrecordedCopies
    <3> DEFINE pushed == DOMAIN pending.inserts
    <3>1. pc = "unrecorded" /\ \E result \in Results(pushed, {"ok", "failed", "lost"}) :
            faults' = faults + Faulty(result)
      BY <2>1 DEF deleteUnrecordedCopies
    <3>2. IsFiniteSet(pushed)
      BY TableFinite DEF SyncInv, Sharp, PendingTyped
    <3> HIDE DEF pushed
    <3> QED
      BY <3>1, <3>2, AllSucceed DEF RecordInv
  <2>2. CASE FlushFails \/ Crash
    BY <1>1, <2>2 DEF FlushFails, Crash
  <2> QED
    BY <2>1, <2>2
<1>3. CASE EndRun
  BY <1>2, <1>3, RecordRunEnds
<1>4. CASE ~EndRun
  <2>1. pc' = "unrecorded" /\ phase' = phase
    BY <1>4 DEF FlushFails, deleteUnrecordedCopies, Crash
  <2> QED
    BY <1>2, <2>1 DEF RecordInv
<1> QED
  BY <1>3, <1>4

\* Whatever sources, users and configuration do, they make no copy of Keeper's.
LEMMA EnvironmentRecords ==
  ASSUME SyncInv, TraceInv, RecordInv, Environment PROVE RecordInv'
<1> USE DEF world, store, control, memory, RunIdles
<1>1. ASSUME NEW o \in Owners, DeleteEvent(o) PROVE RecordInv'
  <2>1. UNCHANGED <<control, pending, faults, remote>>
    BY <1>1 DEF DeleteEvent
  <2>2. rows' = [m \in DOMAIN rows |->
                   IF OwnerOf(m) = o THEN [rows[m] EXCEPT !.owned = FALSE] ELSE rows[m]]
    BY <1>1 DEF DeleteEvent
  <2>3. OnlyDisowns
    <3>1. \A m \in DOMAIN rows : LET r == [rows[m] EXCEPT !.owned = FALSE]
                                 IN /\ r.uid = rows[m].uid /\ r.del = rows[m].del
                                    /\ r.slot = rows[m].slot /\ r.owned = FALSE
      BY DEF SyncInv, Sharp, RowsTyped, Table, OurRows
    <3> QED
      BY <2>2, <3>1 DEF OnlyDisowns
  <2> QED
    BY <2>1, <2>3, RecordUntouched DEF KeeperCopies, AddressedBy
<1>2. CASE TamperCopy
  <2>1. UNCHANGED <<control, pending, faults, rows>>
    BY <1>2 DEF TamperCopy
  <2>2. CopiesApart
    BY DEF TraceInv
  <2> QED
    BY <1>2, <2>1, <2>2, RecordUntouched, SameRowsDisown, TamperingKeepsApart DEF KeeperCopies
<1>3. CASE Crash
  BY <1>3, FaultsRecord
<1>4. CASE UNCHANGED <<control, pending, faults, rows, remote>>
  BY <1>4, RecordUntouched, SameRowsDisown DEF KeeperCopies, AddressedBy
<1>5. ASSUME ~(\E o \in Owners : DeleteEvent(o)), ~TamperCopy, ~Crash
      PROVE  UNCHANGED <<control, pending, faults, rows, remote>>
  BY <1>5 DEF Environment, EditEvent, WithholdSeries, NarrowCoverage, RestoreCoverage,
              ChangeSources, ChangeWindow, Supersede
<1> QED
  BY <1>1, <1>2, <1>3, <1>4, <1>5

\* At first no copy is Keeper's.
LEMMA InitRecordInv == Init => RecordInv
BY DEF Init, RecordInv, KeeperCopies

\* Every step keeps RecordInv.
LEMMA NextRecordInv == SyncInv /\ TraceInv /\ RecordInv /\ [Next]_vars => RecordInv'
<1> SUFFICES ASSUME SyncInv, TraceInv, RecordInv, [Next]_vars PROVE RecordInv'
  OBVIOUS
<1>1. CASE RunStep
  BY <1>1, ReadsRecord, RemoveCallRecords, UpdateCallRecords, ClearCallRecords,
     PushCallRecords, FlushRecords, FinishRunRecords, FaultsRecord DEF RunStep
<1>2. CASE Environment
  BY <1>2, EnvironmentRecords
<1>3. CASE UNCHANGED vars
  <2>1. UNCHANGED <<control, pending, faults, rows, remote>>
    BY <1>3 DEF vars, store, memory, budget
  <2> QED
    BY <2>1, RecordUntouched, SameRowsDisown DEF KeeperCopies, AddressedBy
<1> QED
  BY <1>1, <1>2, <1>3 DEF Next

\* With no failed call, flush or worker, the checkpoints of the sync engine leave no copy
\* on the destination that event_mappings does not record, whatever sources, users and
\* configuration do during the runs.
THEOREM CopiesAreRecorded == Spec => []EveryCopyRecorded
<1>1. SyncInv /\ TraceInv /\ RecordInv => EveryCopyRecorded
  <2> SUFFICES ASSUME SyncInv, TraceInv, RecordInv, pc = "idle", faults = 0,
                      NEW c \in remote, c.keeper
               PROVE  \E m \in DOMAIN rows : RecordedBy(m, c)
    BY DEF EveryCopyRecorded
  <2>1. c # ForeignCopy
    <3>1. ~ForeignCopy.keeper
      BY DEF ForeignCopy
    <3> QED
      BY <3>1, Zenon
  <2>2. pending = NoChanges /\ c \in KeeperCopies
    BY <2>1 DEF SyncInv, PendingIsApart, KeeperCopies
  <2>3. PICK m \in DOMAIN rows : Holds(rows[m], c)
    BY <2>2, HeldByRow
  <2>4. rows[m] \in OurRows /\ Addresses(rows[m].del, rows[m].uid) /\ ApartIn(remote)
    BY DEF SyncInv, Sharp, RowsTyped, Table, TraceInv, Addressed, CopiesApart
  <2> QED
    BY <2>3, <2>4, MatchesWhatItHolds DEF RecordedBy
<1> QED
  BY <1>1, InitRecordInv, NextRecordInv, SyncInvariance, TraceInvariance, PTL DEF Spec
=============================================================================
