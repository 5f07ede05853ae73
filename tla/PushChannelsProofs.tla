------------------------- MODULE PushChannelsProofs -------------------------
(***************************************************************************)
(* The safety properties of PushChannels for every set of calendars, rows  *)
(* and sweeps, one of which runs at a time: an active row names a channel  *)
(* whose notifications it authenticates, and the drift reconciliation ends *)
(* no such channel.                                                        *)
(***************************************************************************)
EXTENDS PushChannels, FiniteSetTheorems, TLAPS

States == LiveStates \cup {"none", "failed", "removed"}
AnyCal == Calendars \cup {NoCal}
ActType == [type : {"none", "register", "renew", "deregister"}, row : Rows \cup {0},
            cal : AnyCal, previous : Nat]
RowType == [state : States, cal : AnyCal, pcid : Nat, secret : Nat,
            reached : BOOLEAN, life : {"none", "far", "near"}, next : {"none", "later", "past"},
            stale : BOOLEAN, asked : BOOLEAN, fails : 0..MaxDeregister]
SubType == [id : Nat \ {0}, cal : Calendars, secret : Nat]
SweepType == [pc : {"idle", "act", "call", "write", "stop", "drift"}, scope : SUBSET Accounts,
              listed : SUBSET Calendars, todo : SUBSET ActType, act : ActType, id : Nat,
              activated : SUBSET Nat, known : SUBSET Nat]

Typed ==
  /\ eligible \subseteq existing /\ existing \subseteq Calendars
  /\ rows \in [Rows -> RowType] /\ subs \in SUBSET SubType
  /\ sweep \in [Sweeps -> SweepType] /\ tick \in SUBSET Sweeps /\ mishaps \in 0..MaxMishaps

\* Only the sweep that holds the lock is under way.
OneSweep ==
  /\ \A v, w \in tick : v = w
  /\ \A w \in Sweeps : sweep[w].pc # "idle" => w \in tick

-----------------------------------------------------------------------------
(* The rows and the numbers                                                 *)

\* A row that has been activated is known by the secret its channel was given.
RowSound(row) ==
  /\ row.state = "none" => row = NoRow
  /\ row.state # "none" => row.cal \in Calendars
  /\ row.state \in {"active", "degraded"} => row.secret = row.pcid /\ row.pcid # NoId

RowsSound(rs) ==
  /\ \A r \in Rows : RowSound(rs[r])
  /\ \A r, q \in Rows : rs[r].state \in LiveStates /\ rs[q].state \in LiveStates
                          /\ rs[r].cal = rs[q].cal => r = q

\* A secret is the number of the channel it was made for.
SubsSound(ss) == \A s \in ss : s.secret = s.id

\* A number names the channels of one calendar.
Named(i, c, rs, ss) == \/ \E r \in Rows : rs[r].pcid = i /\ rs[r].cal = c
                       \/ \E s \in ss : s.id = i /\ s.cal = c
OneCalendar(rs, ss) ==
  \A i \in Nat \ {0} : \A c, d \in AnyCal : Named(i, c, rs, ss) /\ Named(i, d, rs, ss) => c = d

-----------------------------------------------------------------------------
(* What a sweep has in hand                                                 *)

\* A planned action is about a row of its calendar, unless the row is gone.
PlanSound(a, rs) ==
  /\ a.type # "none" /\ a.cal \in Calendars
  /\ a.row = 0 => a.type = "register"
  /\ a.row # 0 => rs[a.row].state = "none" \/ rs[a.row].cal = a.cal

Creating(x) == x.act.type = "register" \/ (x.act.type = "renew" /\ Google(x.act.cal))

\* What the answer to a call is written to, and the number it was made with.
CallSound(x, rs, ss) ==
  /\ x.act.row # 0 /\ PlanSound(x.act, rs)
  /\ x.id # NoId => \A d \in AnyCal : Named(x.id, d, rs, ss) => d = x.act.cal
  /\ x.act.type \in {"register", "renew"} => x.id # NoId
  /\ x.act.type = "renew" /\ rs[x.act.row].state # "none" =>
       /\ rs[x.act.row].secret = rs[x.act.row].pcid /\ rs[x.act.row].pcid # NoId
       /\ Google(x.act.cal) \/ rs[x.act.row].pcid = x.id
  /\ x.pc = "write" => x.act.type # "deregister"
  /\ x.pc = "call" /\ x.act.type = "renew" =>
       \A q \in Rows : rs[q].state \in LiveStates /\ rs[q].cal = x.act.cal => q = x.act.row

SweepSound(x, rs, ss) ==
  /\ x.pc = "idle" => x = IdleSweep
  /\ \A a \in x.todo : PlanSound(a, rs)
  /\ x.pc \in {"call", "write"} => CallSound(x, rs, ss)
  /\ x.pc = "drift" => \A r \in Rows : rs[r].state = "active" => rs[r].pcid \in x.known

ChannelsInv ==
  /\ Typed /\ OneSweep
  /\ RowsSound(rows) /\ SubsSound(subs) /\ OneCalendar(rows, subs)
  /\ \A w \in Sweeps : SweepSound(sweep[w], rows, subs)
  /\ IsFiniteSet(UsedIds)

-----------------------------------------------------------------------------
(* Numbers                                                                  *)

\* A number that is not in use, and the numbers that are.
LEMMA FreshId ==
  ASSUME ChannelsInv
  PROVE  NewId \in Nat \ {0} /\ NewId \notin UsedIds
<1> DEFINE k == Cardinality(UsedIds)
<1>1. IsFiniteSet(UsedIds) /\ k \in Nat
  BY FS_CardinalityType DEF ChannelsInv
<1>2. IsFiniteSet(1..k + 1) /\ Cardinality(1..k + 1) = k + 1
  <2> HIDE DEF k
  <2>1. 1 \in Int /\ k + 1 \in Int /\ ~(1 > k + 1) /\ (k + 1) - 1 + 1 = k + 1
    BY <1>1
  <2> QED
    BY <2>1, FS_Interval
<1>3. ~(1..k + 1 \subseteq UsedIds)
  <2>1. SUFFICES ASSUME 1..k + 1 \subseteq UsedIds PROVE FALSE
    OBVIOUS
  <2>2. Cardinality(1..k + 1) <= Cardinality(UsedIds)
    BY <1>1, <2>1, FS_Subset
  <2> HIDE DEF k
  <2>3. k + 1 <= k
    BY <1>2, <2>2 DEF k
  <2> QED
    BY <1>1, <2>3
<1>4. \E n \in 1..k + 1 : n \notin UsedIds
  BY <1>3
<1>5. NewId \in 1..k + 1 /\ NewId \notin UsedIds
  BY <1>4 DEF NewId
<1> QED
  BY <1>1, <1>5

IdsOf(x) == {x.id, x.act.previous} \cup x.activated \cup x.known \cup {a.previous : a \in x.todo}

LEMMA InUse ==
  /\ \A r \in Rows : rows[r].pcid \in UsedIds /\ rows[r].secret \in UsedIds
  /\ \A s \in subs : s.id \in UsedIds
  /\ \A w \in Sweeps : IdsOf(sweep[w]) \subseteq UsedIds
<1>1. UsedIds = {rows[r].pcid : r \in Rows} \cup {rows[r].secret : r \in Rows}
                  \cup {s.id : s \in subs} \cup UNION {IdsOf(sweep[w]) : w \in Sweeps}
  BY DEF UsedIds, IdsOf
<1> QED
  BY <1>1

\* In a step every number is one in use, a new one or none.
LEMMA NumbersStayFinite ==
  ASSUME ChannelsInv,
         \A r \in Rows : /\ rows'[r].pcid \in UsedIds \cup {NewId, NoId}
                         /\ rows'[r].secret \in UsedIds \cup {NewId, NoId},
         \A s \in subs' : s.id \in UsedIds \cup {NewId, NoId},
         \A w \in Sweeps : IdsOf(sweep'[w]) \subseteq UsedIds \cup {NewId, NoId}
  PROVE  IsFiniteSet(UsedIds')
<1>1. UsedIds' = {rows'[r].pcid : r \in Rows} \cup {rows'[r].secret : r \in Rows}
                  \cup {s.id : s \in subs'} \cup UNION {IdsOf(sweep'[w]) : w \in Sweeps}
  BY DEF UsedIds, IdsOf
<1>2. UsedIds' \subseteq UsedIds \cup {NewId, NoId}
  BY <1>1
<1>3. IsFiniteSet(UsedIds \cup {NewId})
  BY FS_AddElement DEF ChannelsInv
<1>4. IsFiniteSet((UsedIds \cup {NewId}) \cup {NoId})
  BY <1>3, FS_AddElement
<1>5. UsedIds \cup {NewId, NoId} = (UsedIds \cup {NewId}) \cup {NoId}
  OBVIOUS
<1> QED
  BY <1>2, <1>4, <1>5, FS_Subset

LEMMA NamesGrow ==
  ASSUME NEW rs, NEW ss, NEW rs2, NEW ss2, OneCalendar(rs, ss),
         NEW j, NEW k, \A d \in AnyCal : Named(j, d, rs, ss) => d = k,
         \A i \in Nat \ {0}, c \in AnyCal :
           Named(i, c, rs2, ss2) => Named(i, c, rs, ss) \/ (i = j /\ c = k)
  PROVE  OneCalendar(rs2, ss2)
BY DEF OneCalendar

LEMMA NewIsUnnamed ==
  ASSUME ChannelsInv, NEW d PROVE ~Named(NewId, d, rows, subs)
BY FreshId, InUse DEF Named

-----------------------------------------------------------------------------
(* A step of the sweep under way, and a step around it                      *)

\* One sweep moves: what it leaves in hand, and the rows and channels, are sound.
LEMMA SweepMoves ==
  ASSUME ChannelsInv, NEW w \in Sweeps, NEW x \in SweepType,
         NEW rs \in [Rows -> RowType], NEW ss \in SUBSET SubType,
         sweep[w].pc # "idle" \/ tick = {},
         rows' = rs, subs' = ss, sweep' = [sweep EXCEPT ![w] = x],
         eligible' = eligible, existing' = existing, mishaps' \in 0..MaxMishaps,
         tick' = {w} \/ (x.pc = "idle" /\ tick' \in {tick, {}}),
         RowsSound(rs), SubsSound(ss), OneCalendar(rs, ss), SweepSound(x, rs, ss),
         \A r \in Rows : /\ rs[r].pcid \in UsedIds \cup {NewId, NoId}
                         /\ rs[r].secret \in UsedIds \cup {NewId, NoId},
         \A s \in ss : s.id \in UsedIds \cup {NewId, NoId},
         IdsOf(x) \subseteq UsedIds \cup {NewId, NoId}
  PROVE  ChannelsInv'
<1>1. \A v \in Sweeps : sweep'[v] = IF v = w THEN x ELSE sweep[v]
  BY DEF ChannelsInv, Typed
<1>2. \A v \in Sweeps : v # w => sweep[v] = IdleSweep
  BY DEF ChannelsInv, OneSweep, SweepSound
<1>3. Typed'
  BY DEF ChannelsInv, Typed
<1>4. OneSweep'
  <2>1. IdleSweep.pc = "idle"
    BY DEF IdleSweep
  <2> QED
    BY <1>1, <1>2, <2>1 DEF ChannelsInv, OneSweep
<1>5. SweepSound(IdleSweep, rs, ss)
  BY DEF SweepSound, IdleSweep
<1>6. \A v \in Sweeps : SweepSound(sweep'[v], rows', subs')
  BY <1>1, <1>2, <1>5
<1>7. \A v \in Sweeps : IdsOf(sweep'[v]) \subseteq UsedIds \cup {NewId, NoId}
  BY <1>1, InUse
<1>8. IsFiniteSet(UsedIds')
  BY <1>7, NumbersStayFinite
<1> QED
  BY <1>3, <1>4, <1>6, <1>8 DEF ChannelsInv

\* A row as it may become while no sweep looks: gone, ended or marked.
Faded(old, new) ==
  \/ new = NoRow
  \/ /\ new.pcid = old.pcid /\ new.secret = old.secret /\ new.cal = old.cal
     /\ old.state = "none" => new = old
     /\ new.state = old.state \/ (old.state # "none" /\ new.state = "removed")

\* A step around the sweeps takes channels away and lets rows fade.
LEMMA AroundTheSweeps ==
  ASSUME ChannelsInv, NEW rs \in [Rows -> RowType], rows' = rs, subs' \subseteq subs,
         \A r \in Rows : Faded(rows[r], rs[r]),
         sweep' = sweep, tick' = tick \/ (tick' = {} /\ \A w \in Sweeps : sweep[w].pc = "idle"),
         eligible' \subseteq existing', existing' \subseteq Calendars, mishaps' \in 0..MaxMishaps
  PROVE  ChannelsInv'
<1>1. /\ NoRow.pcid = NoId /\ NoRow.secret = NoId /\ NoRow.cal = NoCal /\ NoRow.state = "none"
      /\ "none" \notin LiveStates /\ "removed" \notin LiveStates /\ NoRow.state # "active"
  BY DEF NoRow, LiveStates
<1>2. RowsSound(rs)
  BY <1>1 DEF ChannelsInv, RowsSound, RowSound, Faded
<1>3. SubsSound(subs')
  BY DEF ChannelsInv, SubsSound
<1>4. \A i \in Nat \ {0} : \A c : Named(i, c, rs, subs') => Named(i, c, rows, subs)
  BY <1>1 DEF Named, Faded, NoId
<1>5. OneCalendar(rs, subs')
  BY <1>4 DEF ChannelsInv, OneCalendar
<1>6. ASSUME NEW a \in ActType, NEW q, PlanSound(a, rows) PROVE PlanSound(a, rs)
  <2>1. a.row # 0 => a.row \in Rows
    BY DEF ActType
  <2> QED
    BY <1>1, <1>6, <2>1 DEF PlanSound, Faded, ChannelsInv, RowsSound, RowSound
<1>7. ASSUME NEW w \in Sweeps PROVE SweepSound(sweep[w], rs, subs')
  <2> DEFINE x == sweep[w]
  <2>1. SweepSound(x, rows, subs) /\ x \in SweepType
    BY DEF ChannelsInv, Typed
  <2> HIDE DEF x
  <2>2. x.act \in ActType /\ x.todo \subseteq ActType /\ x.id \in Nat
    BY <2>1 DEF SweepType
  <2>3. \A a \in x.todo : PlanSound(a, rs)
    BY <1>6, <2>1, <2>2 DEF SweepSound
  <2>4. ASSUME x.pc \in {"call", "write"} PROVE CallSound(x, rs, subs')
    <3>1. CallSound(x, rows, subs)
      BY <2>1, <2>4 DEF SweepSound
    <3>2. PlanSound(x.act, rs)
      BY <1>6, <2>2, <3>1 DEF CallSound
    <3>3. x.act.row \in Rows
      BY <2>2, <3>1 DEF CallSound, ActType
    <3>4. x.id # NoId => \A d \in AnyCal : Named(x.id, d, rs, subs') => d = x.act.cal
      BY <1>4, <2>2, <3>1 DEF CallSound, NoId
    <3>5. x.act.type = "renew" /\ rs[x.act.row].state # "none" =>
            /\ rs[x.act.row].secret = rs[x.act.row].pcid /\ rs[x.act.row].pcid # NoId
            /\ Google(x.act.cal) \/ rs[x.act.row].pcid = x.id
      BY <1>1, <3>1, <3>3 DEF CallSound, Faded
    <3>6. \A q \in Rows : rs[q].state \in LiveStates =>
                            rows[q].state \in LiveStates /\ rs[q].cal = rows[q].cal
      BY <1>1 DEF Faded
    <3> QED
      BY <3>1, <3>2, <3>4, <3>5, <3>6 DEF CallSound
  <2>5. \A r \in Rows : rs[r].state = "active" => rows[r].state = "active" /\ rs[r].pcid = rows[r].pcid
    BY <1>1 DEF Faded
  <2>6. SweepSound(x, rs, subs')
    BY <2>1, <2>3, <2>4, <2>5 DEF SweepSound
  <2> QED
    BY <2>6 DEF x
<1>8. IsFiniteSet(UsedIds')
  <2>1. \A r \in Rows : rs[r].pcid \in UsedIds \cup {NewId, NoId} /\ rs[r].secret \in UsedIds \cup {NewId, NoId}
    BY <1>1, InUse DEF Faded
  <2> QED
    BY <2>1, InUse, NumbersStayFinite
<1>9. Typed'
  BY DEF ChannelsInv, Typed
<1>10. OneSweep'
  BY DEF ChannelsInv, OneSweep
<1> QED
  BY <1>2, <1>3, <1>5, <1>7, <1>8, <1>9, <1>10 DEF ChannelsInv

-----------------------------------------------------------------------------
(* What a step of the sweep may rely on                                     *)

LEMMA SweepFacts ==
  ASSUME ChannelsInv, NEW w \in Sweeps
  PROVE  /\ sweep[w] \in SweepType /\ sweep[w].todo \subseteq ActType /\ sweep[w].act \in ActType
         /\ sweep[w].id \in Nat /\ sweep[w].act.cal \in AnyCal /\ sweep[w].act.row \in Rows \cup {0}
         /\ SweepSound(sweep[w], rows, subs)
         /\ sweep[w].pc # "idle" => tick = {w}
         /\ rows \in [Rows -> RowType] /\ subs \in SUBSET SubType
         /\ RowsSound(rows) /\ SubsSound(subs) /\ OneCalendar(rows, subs)
<1>1. sweep[w] \in SweepType
  BY DEF ChannelsInv, Typed
<1>2. sweep[w].pc # "idle" => tick = {w}
  BY DEF ChannelsInv, OneSweep
<1> QED
  BY <1>1, <1>2 DEF ChannelsInv, Typed, SweepType, ActType

\* The rows stay sound when one of them changes, if a live one has its calendar alone.
LEMMA OneRowChanges ==
  ASSUME NEW rs \in [Rows -> RowType], NEW r \in Rows, NEW row \in RowType,
         RowsSound(rs), RowSound(row),
         row.state \in LiveStates =>
           \A q \in Rows : rs[q].state \in LiveStates /\ rs[q].cal = row.cal => q = r
  PROVE  [rs EXCEPT ![r] = row] \in [Rows -> RowType] /\ RowsSound([rs EXCEPT ![r] = row])
BY DEF RowsSound

\* Plans are about calendars: they stand while no row changes its own.
LEMMA PlansStand ==
  ASSUME NEW rs \in [Rows -> RowType], NEW rs2 \in [Rows -> RowType], NEW a \in ActType,
         PlanSound(a, rs), \A r \in Rows : rs2[r] = rs[r] \/ (rs2[r].cal = rs[r].cal /\ rs[r].state # "none")
  PROVE  PlanSound(a, rs2)
BY DEF PlanSound, ActType

-----------------------------------------------------------------------------
(* The steps of a sweep                                                     *)

LEMMA StartSweepKeeps ==
  ASSUME ChannelsInv, NEW w \in Sweeps, NEW scope \in SUBSET Accounts, StartSweep(w, scope)
  PROVE  ChannelsInv'
<1> DEFINE x == [IdleSweep EXCEPT !.pc = "act", !.scope = scope, !.listed = Listed(scope),
                                  !.todo = PlanActions(Listed(scope))]
<1>1. /\ x.pc = "act" /\ x.scope = scope /\ x.listed = Listed(scope)
      /\ x.todo = PlanActions(Listed(scope)) /\ x.act = NoAction /\ x.id = NoId
      /\ x.activated = {} /\ x.known = {}
  BY DEF IdleSweep
<1>2. Listed(scope) \subseteq Calendars
  BY DEF Listed, ChannelsInv, Typed
<1>3. ASSUME NEW a \in x.todo
      PROVE  a \in ActType /\ PlanSound(a, rows) /\ a.previous \in UsedIds \cup {NoId}
  <2>1. CASE \E c \in Listed(scope) : a = [type |-> "register", row |-> 0, cal |-> c, previous |-> NoId]
    BY <1>2, <2>1 DEF ActType, AnyCal, PlanSound, NoId
  <2>2. CASE \E r \in Rows : Live(r) /\ a \in PlannedFor(r, Listed(scope))
    <3>1. PICK r \in Rows : Live(r) /\ a \in PlannedFor(r, Listed(scope))
      BY <2>2
    <3>2. PICK type \in {"register", "renew", "deregister"} :
            a = [type |-> type, row |-> r, cal |-> rows[r].cal, previous |-> rows[r].pcid]
      BY <3>1 DEF PlannedFor
    <3>3. rows[r] \in RowType /\ rows[r].cal \in Calendars /\ r # 0 /\ rows[r].pcid \in Nat
      BY <3>1, PushChannelsAssumption DEF ChannelsInv, Typed, RowsSound, RowSound, Live, LiveStates, RowType
    <3> QED
      BY <3>2, <3>3, InUse DEF ActType, AnyCal, PlanSound
  <2>3. a \in PlanActions(Listed(scope))
    BY <1>1
  <2>4. \/ \E c \in Listed(scope) : a = [type |-> "register", row |-> 0, cal |-> c, previous |-> NoId]
        \/ \E r \in Rows : Live(r) /\ a \in PlannedFor(r, Listed(scope))
    <3>1. CASE a \in UNION {PlannedFor(r, Listed(scope)) : r \in {q \in Rows : Live(q)}}
      <4>1. PICK r \in {q \in Rows : Live(q)} : a \in PlannedFor(r, Listed(scope))
        BY <3>1
      <4> QED
        BY <4>1
    <3>2. CASE a \in {[type |-> "register", row |-> 0, cal |-> c, previous |-> NoId] :
                        c \in {k \in Listed(scope) : LiveRowsOf(k) = {}}}
      BY <3>2
    <3> QED
      BY <2>3, <3>1, <3>2 DEF PlanActions
  <2> QED
    BY <2>1, <2>2, <2>4
<1>4. NoAction \in ActType /\ NoAction.previous = NoId
  BY DEF NoAction, ActType, AnyCal, NoId
<1>5. x \in SweepType
  BY <1>1, <1>2, <1>3, <1>4 DEF SweepType, IdleSweep, NoId
<1>6. SweepSound(x, rows, subs)
  BY <1>1, <1>3 DEF SweepSound
<1>7. IdsOf(x) \subseteq UsedIds \cup {NewId, NoId}
  BY <1>1, <1>3, <1>4 DEF IdsOf
<1>8. /\ tick = {} /\ tick' = {w} /\ sweep' = [sweep EXCEPT ![w] = x] /\ rows' = rows /\ subs' = subs
      /\ eligible' = eligible /\ existing' = existing /\ mishaps' \in 0..MaxMishaps
  BY DEF StartSweep, ChannelsInv, Typed
<1> HIDE DEF x
<1> QED
  BY <1>5, <1>6, <1>7, <1>8, SweepFacts, InUse, SweepMoves

\* The sweep moves on and leaves rows and channels as they are.
LEMMA OnlySweepMoves ==
  ASSUME ChannelsInv, NEW w \in Sweeps, NEW x \in SweepType, sweep[w].pc # "idle",
         sweep' = [sweep EXCEPT ![w] = x], UNCHANGED <<existing, eligible, rows, subs>>,
         mishaps' \in 0..MaxMishaps, tick' = tick \/ (x.pc = "idle" /\ tick' = {}),
         SweepSound(x, rows, subs), IdsOf(x) \subseteq UsedIds \cup {NewId, NoId}
  PROVE  ChannelsInv'
<1>1. tick' = {w} \/ (x.pc = "idle" /\ tick' \in {tick, {}})
  BY SweepFacts
<1> QED
  BY <1>1, SweepFacts, InUse, SweepMoves

DropSweep(w, a) == [sweep[w] EXCEPT !.todo = @ \ {a}, !.act = NoAction, !.id = NoId, !.pc = "act"]

LEMMA Drops ==
  ASSUME ChannelsInv, NEW w \in Sweeps, NEW a, DropAction(w, a)
  PROVE  /\ DropSweep(w, a) \in SweepType /\ sweep' = [sweep EXCEPT ![w] = DropSweep(w, a)]
         /\ DropSweep(w, a).pc = "act" /\ DropSweep(w, a).todo = sweep[w].todo \ {a}
         /\ IdsOf(DropSweep(w, a)) \subseteq UsedIds \cup {NewId, NoId}
<1>1. sweep[w] \in SweepType /\ sweep \in [Sweeps -> SweepType]
  BY DEF ChannelsInv, Typed
<1>2. NoAction \in ActType /\ NoAction.previous = NoId /\ NoId \in Nat
  BY DEF NoAction, ActType, AnyCal, NoId
<1>3. DropSweep(w, a) \in SweepType
  BY <1>1, <1>2 DEF DropSweep, SweepType
<1>4. sweep' = [sweep EXCEPT ![w] = DropSweep(w, a)]
  BY <1>1 DEF DropAction, DropSweep, SweepType
<1>5. IdsOf(DropSweep(w, a)) \subseteq UsedIds \cup {NewId, NoId}
  BY <1>1, <1>2, InUse DEF DropSweep, SweepType, IdsOf
<1> QED
  BY <1>1, <1>3, <1>4, <1>5 DEF DropSweep, SweepType

LEMMA SkipActionKeeps ==
  ASSUME ChannelsInv, NEW w \in Sweeps, sweep[w].pc = "act", NEW a \in sweep[w].todo, SkipAction(w, a)
  PROVE  ChannelsInv'
<1>1. DropAction(w, a) /\ UNCHANGED <<existing, eligible, rows, subs, tick, mishaps>>
  BY DEF SkipAction
<1>2. SweepSound(DropSweep(w, a), rows, subs)
  BY <1>1, Drops, SweepFacts DEF SweepSound
<1> QED
  BY <1>1, <1>2, Drops, OnlySweepMoves DEF ChannelsInv, Typed

CallSweep(w, a, r, id) ==
  [sweep[w] EXCEPT !.todo = @ \ {a}, !.act = [a EXCEPT !.row = r], !.id = id, !.pc = "call"]

LEMMA Calls ==
  ASSUME ChannelsInv, NEW w \in Sweeps, NEW a \in sweep[w].todo, NEW r \in Rows,
         NEW id \in UsedIds \cup {NewId, NoId}, id \in Nat, CallFor(w, a, r, id)
  PROVE  LET x == CallSweep(w, a, r, id)
         IN  /\ x \in SweepType /\ sweep' = [sweep EXCEPT ![w] = x] /\ a \in ActType
             /\ x.pc = "call" /\ x.todo = sweep[w].todo \ {a} /\ x.id = id
             /\ x.act.row = r /\ x.act.type = a.type /\ x.act.cal = a.cal
             /\ IdsOf(x) \subseteq UsedIds \cup {NewId, NoId}
<1>1. sweep[w] \in SweepType /\ sweep \in [Sweeps -> SweepType] /\ a \in ActType
  BY SweepFacts DEF ChannelsInv, Typed
<1>2. [a EXCEPT !.row = r] \in ActType
  BY <1>1 DEF ActType
<1>3. CallSweep(w, a, r, id) \in SweepType
  BY <1>1, <1>2 DEF CallSweep, SweepType
<1>4. sweep' = [sweep EXCEPT ![w] = CallSweep(w, a, r, id)]
  BY <1>1 DEF CallFor, CallSweep, SweepType
<1>5. a.previous \in UsedIds
  BY InUse DEF IdsOf
<1>6. IdsOf(CallSweep(w, a, r, id)) \subseteq UsedIds \cup {NewId, NoId}
  BY <1>1, <1>5, InUse DEF CallSweep, SweepType, ActType, IdsOf
<1> QED
  BY <1>1, <1>3, <1>4, <1>6 DEF CallSweep, SweepType, ActType

LEMMA BeginRegisterKeeps ==
  ASSUME ChannelsInv, NEW w \in Sweeps, sweep[w].pc = "act", NEW a \in sweep[w].todo,
         Retained(a), BeginRegister(w, a)
  PROVE  ChannelsInv'
<1>1. a \in ActType /\ PlanSound(a, rows) /\ a.cal \in Calendars
  BY SweepFacts DEF SweepSound, PlanSound
<1>2. PICK r \in IF a.row = 0 THEN FreeRows ELSE {a.row} :
        IF IndexAllows(r, a.cal)
        THEN /\ rows' = [rows EXCEPT ![r] = Registering(IF a.row = 0 THEN NoRow ELSE @, a.cal, NewId)]
             /\ CallFor(w, a, r, NewId)
        ELSE DropAction(w, a) /\ UNCHANGED rows
  BY Zenon DEF BeginRegister
<1>3. /\ a.type = "register" /\ UNCHANGED <<existing, eligible, subs, tick, mishaps>>
      /\ mishaps' \in 0..MaxMishaps /\ sweep[w].pc # "idle" /\ r \in Rows /\ r # 0
  BY <1>1, PushChannelsAssumption DEF BeginRegister, ChannelsInv, Typed, FreeRows, ActType
<1>4. CASE ~IndexAllows(r, a.cal)
  <2>1. DropAction(w, a) /\ rows' = rows
    BY <1>2, <1>4
  <2>2. SweepSound(DropSweep(w, a), rows, subs)
    BY <2>1, Drops, SweepFacts DEF SweepSound
  <2> QED
    BY <1>3, <2>1, <2>2, Drops, OnlySweepMoves
<1>5. CASE IndexAllows(r, a.cal)
  <2> DEFINE row == Registering(IF a.row = 0 THEN NoRow ELSE rows[r], a.cal, NewId)
             rs == [rows EXCEPT ![r] = row]
             x == CallSweep(w, a, r, NewId)
  <2>1. rows' = rs /\ CallFor(w, a, r, NewId)
    BY <1>2, <1>3, <1>5, SweepFacts
  <2>2. rows \in [Rows -> RowType] /\ RowsSound(rows) /\ NoRow \in RowType
    BY SweepFacts, PushChannelsAssumption DEF NoRow, RowType, NoId, States, AnyCal
  <2>3. /\ row \in RowType /\ row.state = "registering" /\ row.cal = a.cal
        /\ row.secret = NewId /\ row.pcid \in {NewId, NoId}
    BY <1>1, <1>3, <2>2, FreshId DEF Registering, RowType, States, LiveStates, AnyCal, NoId
  <2> HIDE DEF row
  <2>4. rs \in [Rows -> RowType] /\ RowsSound(rs)
    <3>1. RowSound(row)
      BY <1>1, <2>3 DEF RowSound
    <3>2. \A q \in Rows : rows[q].state \in LiveStates /\ rows[q].cal = row.cal => q = r
      BY <1>5, <2>3 DEF IndexAllows, LiveRowsOf, Live
    <3> QED
      BY <1>3, <2>2, <2>3, <3>1, <3>2, OneRowChanges
  <2>5. \A q \in Rows : rs[q] = IF q = r THEN row ELSE rows[q]
    BY <1>3, <2>2
  <2> HIDE DEF rs
  <2>6. \A i \in Nat \ {0}, c \in AnyCal :
          Named(i, c, rs, subs) => Named(i, c, rows, subs) \/ (i = NewId /\ c = a.cal)
    BY <2>3, <2>5 DEF Named, NoId
  <2>7. OneCalendar(rs, subs)
    <3>1. OneCalendar(rows, subs) /\ \A d \in AnyCal : Named(NewId, d, rows, subs) => d = a.cal
      BY NewIsUnnamed, SweepFacts
    <3> QED
      BY <2>6, <3>1, NamesGrow
  <2>8. NewId \in Nat /\ NewId # NoId
    BY FreshId DEF NoId
  <2>9. /\ x \in SweepType /\ sweep' = [sweep EXCEPT ![w] = x]
        /\ x.pc = "call" /\ x.todo = sweep[w].todo \ {a} /\ x.id = NewId
        /\ x.act.row = r /\ x.act.type = a.type /\ x.act.cal = a.cal
        /\ IdsOf(x) \subseteq UsedIds \cup {NewId, NoId}
    BY <1>3, <2>1, <2>8, Calls
  <2> HIDE DEF x
  <2>10. ASSUME NEW b \in x.todo PROVE PlanSound(b, rs)
    <3>1. b \in sweep[w].todo /\ b \in ActType /\ PlanSound(b, rows)
      BY <2>9, SweepFacts DEF SweepSound
    <3>2. CASE b.row # r
      BY <2>5, <3>1, <3>2 DEF PlanSound, ActType
    <3>3. CASE b.row = r
      <4>1. r \in Referenced
        BY <3>1, <3>3 DEF Referenced
      <4>2. a.row = r
        BY <1>2, <4>1 DEF FreeRows
      <4>3. rows[r].state # "none" /\ rows[r].cal = a.cal
        BY <1>1, <1>3, <4>2 DEF Retained, PlanSound
      <4> QED
        BY <1>3, <2>3, <2>5, <3>1, <3>3, <4>3 DEF PlanSound
    <3> QED
      BY <3>2, <3>3
  <2>11. CallSound(x, rs, subs)
    <3>1. PlanSound(x.act, rs)
      BY <1>1, <1>3, <2>3, <2>5, <2>9 DEF PlanSound
    <3>2. \A d \in AnyCal : Named(x.id, d, rs, subs) => d = x.act.cal
      BY <2>3, <2>5, <2>8, <2>9, NewIsUnnamed DEF Named
    <3> QED
      BY <1>3, <2>8, <2>9, <3>1, <3>2 DEF CallSound
  <2>12. SweepSound(x, rs, subs)
    BY <2>9, <2>10, <2>11 DEF SweepSound
  <2>13. \A q \in Rows : /\ rs[q].pcid \in UsedIds \cup {NewId, NoId}
                         /\ rs[q].secret \in UsedIds \cup {NewId, NoId}
    BY <2>3, <2>5, InUse
  <2>14. tick' = {w} /\ subs' = subs /\ eligible' = eligible /\ existing' = existing
    BY <1>3, SweepFacts
  <2> QED
    BY <1>3, <2>1, <2>4, <2>7, <2>9, <2>12, <2>13, <2>14, InUse, SweepFacts, SweepMoves
<1> QED
  BY <1>4, <1>5

LEMMA BeginRenewKeeps ==
  ASSUME ChannelsInv, NEW w \in Sweeps, sweep[w].pc = "act", NEW a \in sweep[w].todo,
         Retained(a), BeginRenew(w, a)
  PROVE  ChannelsInv'
<1> DEFINE id == IF Google(a.cal) THEN NewId ELSE rows[a.row].pcid
           x == CallSweep(w, a, a.row, id)
<1>1. a \in ActType /\ PlanSound(a, rows) /\ a.cal \in Calendars
  BY SweepFacts DEF SweepSound, PlanSound
<1>2. /\ a.type = "renew" /\ CallFor(w, a, a.row, id)
      /\ UNCHANGED <<existing, eligible, rows, subs, tick, mishaps>> /\ mishaps' \in 0..MaxMishaps
  BY DEF BeginRenew, ChannelsInv, Typed
<1>3. a.row # 0 /\ a.row \in Rows
  BY <1>1, <1>2 DEF PlanSound, ActType
<1>4. /\ rows[a.row].state \in {"active", "degraded"} /\ rows[a.row].cal = a.cal
      /\ rows[a.row].secret = rows[a.row].pcid /\ rows[a.row].pcid # NoId
      /\ \A q \in Rows : rows[q].state \in LiveStates /\ rows[q].cal = a.cal => q = a.row
  BY <1>1, <1>2, <1>3, SweepFacts DEF Retained, PlanSound, RowsSound, RowSound, LiveStates
<1>5. id \in UsedIds \cup {NewId, NoId} /\ id \in Nat /\ id # NoId
  BY <1>3, <1>4, InUse, FreshId, SweepFacts DEF RowType, NoId
<1>6. \A d \in AnyCal : Named(id, d, rows, subs) => d = a.cal
  <2>1. CASE Google(a.cal)
    BY <2>1, NewIsUnnamed
  <2>2. CASE ~Google(a.cal)
    <3>1. Named(id, a.cal, rows, subs)
      BY <1>3, <1>4, <2>2 DEF Named
    <3>2. a.cal \in AnyCal /\ id \in Nat \ {0}
      BY <1>1, <1>5 DEF AnyCal, NoId
    <3> HIDE DEF id
    <3> QED
      BY <3>1, <3>2, SweepFacts DEF OneCalendar
  <2> QED
    BY <2>1, <2>2
<1>7. Google(a.cal) \/ rows[a.row].pcid = id
  OBVIOUS
<1> HIDE DEF id
<1>8. /\ x \in SweepType /\ sweep' = [sweep EXCEPT ![w] = x]
      /\ x.pc = "call" /\ x.todo = sweep[w].todo \ {a} /\ x.id = id
      /\ x.act.row = a.row /\ x.act.type = a.type /\ x.act.cal = a.cal
      /\ IdsOf(x) \subseteq UsedIds \cup {NewId, NoId}
  BY <1>2, <1>3, <1>5, Calls
<1> HIDE DEF x
<1>9. CallSound(x, rows, subs)
  BY <1>1, <1>2, <1>3, <1>4, <1>5, <1>6, <1>7, <1>8 DEF CallSound, PlanSound
<1>10. SweepSound(x, rows, subs)
  BY <1>8, <1>9, SweepFacts DEF SweepSound
<1> QED
  BY <1>2, <1>8, <1>10, OnlySweepMoves

LEMMA BeginDeregisterKeeps ==
  ASSUME ChannelsInv, NEW w \in Sweeps, sweep[w].pc = "act", NEW a \in sweep[w].todo,
         Retained(a), BeginDeregister(w, a)
  PROVE  ChannelsInv'
<1>1. a \in ActType /\ PlanSound(a, rows) /\ a.cal \in Calendars
  BY SweepFacts DEF SweepSound, PlanSound
<1>2. /\ a.type = "deregister" /\ UNCHANGED <<existing, eligible, subs, tick, mishaps>>
      /\ mishaps' \in 0..MaxMishaps
  BY DEF BeginDeregister, ChannelsInv, Typed
<1>3. a.row # 0 /\ a.row \in Rows
  BY <1>1, <1>2 DEF PlanSound, ActType
<1>4. Live(a.row) /\ rows[a.row].state # "none" /\ rows[a.row].cal = a.cal
  BY <1>1, <1>2, <1>3 DEF Retained, PlanSound
<1>5. CASE rows[a.row].pcid = NoId
  <2> DEFINE row == [rows[a.row] EXCEPT !.state = "failed"]
             rs == [rows EXCEPT ![a.row] = row]
             x == DropSweep(w, a)
  <2>1. DropAction(w, a) /\ rows' = rs
    BY <1>3, <1>5, SweepFacts DEF BeginDeregister, RowType
  <2>2. /\ row \in RowType /\ row.state = "failed" /\ row.cal = rows[a.row].cal
        /\ row.pcid = rows[a.row].pcid /\ row.secret = rows[a.row].secret
    BY <1>3, SweepFacts DEF RowType, States
  <2> HIDE DEF row
  <2>3. rs \in [Rows -> RowType] /\ RowsSound(rs)
    <3>1. RowSound(row)
      BY <1>1, <1>4, <2>2 DEF RowSound
    <3> QED
      BY <1>3, <2>2, <3>1, SweepFacts, OneRowChanges DEF LiveStates
  <2>4. \A q \in Rows : rs[q] = IF q = a.row THEN row ELSE rows[q]
    BY <1>3, SweepFacts
  <2> HIDE DEF rs
  <2>5. \A i \in Nat \ {0}, c \in AnyCal : Named(i, c, rs, subs) => Named(i, c, rows, subs)
    BY <1>3, <2>2, <2>4 DEF Named
  <2>6. OneCalendar(rs, subs)
    BY <2>5, SweepFacts DEF OneCalendar
  <2>7. \A b \in x.todo : PlanSound(b, rs)
    <3>1. \A q \in Rows : rs[q] = rows[q] \/ (rs[q].cal = rows[q].cal /\ rows[q].state # "none")
      <4> TAKE q \in Rows
      <4>1. CASE q = a.row
        BY <1>4, <2>2, <2>4, <4>1
      <4>2. CASE q # a.row
        BY <2>4, <4>2
      <4> QED
        BY <4>1, <4>2
    <3> QED
      BY <2>1, <2>3, <3>1, Drops, SweepFacts, PlansStand DEF SweepSound
  <2>8. SweepSound(x, rs, subs)
    BY <2>1, <2>7, Drops DEF SweepSound
  <2>9. \A q \in Rows : /\ rs[q].pcid \in UsedIds \cup {NewId, NoId}
                        /\ rs[q].secret \in UsedIds \cup {NewId, NoId}
    BY <1>3, <2>2, <2>4, InUse
  <2>10. tick' = {w} /\ subs' = subs /\ eligible' = eligible /\ existing' = existing
    BY <1>2, SweepFacts
  <2>11. /\ x \in SweepType /\ sweep' = [sweep EXCEPT ![w] = x]
         /\ IdsOf(x) \subseteq UsedIds \cup {NewId, NoId}
    BY <2>1, Drops
  <2> HIDE DEF x
  <2> QED
    BY <1>2, <2>1, <2>3, <2>6, <2>8, <2>9, <2>10, <2>11, InUse, SweepFacts, SweepMoves
<1>6. CASE rows[a.row].pcid # NoId
  <2> DEFINE id == rows[a.row].pcid
             x == CallSweep(w, a, a.row, id)
  <2>1. CallFor(w, a, a.row, id) /\ rows' = rows
    BY <1>6 DEF BeginDeregister
  <2>2. id \in UsedIds \cup {NewId, NoId} /\ id \in Nat
    BY <1>3, InUse, SweepFacts DEF RowType
  <2>3. \A d \in AnyCal : Named(id, d, rows, subs) => d = a.cal
    <3>1. Named(id, a.cal, rows, subs)
      BY <1>3, <1>4 DEF Named
    <3>2. a.cal \in AnyCal /\ id \in Nat \ {0}
      BY <1>1, <1>6, <2>2 DEF AnyCal, NoId
    <3> HIDE DEF id
    <3> QED
      BY <3>1, <3>2, SweepFacts DEF OneCalendar
  <2> HIDE DEF id
  <2>4. /\ x \in SweepType /\ sweep' = [sweep EXCEPT ![w] = x]
        /\ x.pc = "call" /\ x.todo = sweep[w].todo \ {a} /\ x.id = id
        /\ x.act.row = a.row /\ x.act.type = a.type /\ x.act.cal = a.cal
        /\ IdsOf(x) \subseteq UsedIds \cup {NewId, NoId}
    BY <1>3, <2>1, <2>2, Calls
  <2> HIDE DEF x
  <2>5. CallSound(x, rows, subs)
    BY <1>1, <1>2, <1>3, <1>4, <2>3, <2>4 DEF CallSound, PlanSound
  <2>6. SweepSound(x, rows, subs)
    BY <2>4, <2>5, SweepFacts DEF SweepSound
  <2> QED
    BY <1>2, <2>1, <2>4, <2>6, OnlySweepMoves
<1> QED
  BY <1>5, <1>6

\* What a sweep that waits for an answer, or writes it, has in hand.
LEMMA InHand ==
  ASSUME ChannelsInv, NEW w \in Sweeps, sweep[w].pc \in {"call", "write"}
  PROVE  /\ Act(w) \in ActType /\ Act(w).row \in Rows /\ Act(w).row # 0 /\ Act(w).cal \in Calendars
         /\ Act(w).type # "none" /\ Row(w) \in RowType /\ Row(w) = rows[Act(w).row]
         /\ Row(w).state # "none" => Row(w).cal = Act(w).cal
         /\ sweep[w].id \in Nat /\ sweep[w].id \in UsedIds /\ CallSound(sweep[w], rows, subs)
         /\ \A a \in sweep[w].todo : PlanSound(a, rows)
<1>1. CallSound(sweep[w], rows, subs) /\ Act(w) \in ActType /\ sweep[w].id \in Nat
  BY SweepFacts DEF SweepSound, Act
<1>2. sweep[w].id \in UsedIds
  BY InUse DEF IdsOf
<1>3. PlanSound(Act(w), rows) /\ Act(w).row # 0 /\ Act(w).row \in Rows
  BY <1>1 DEF CallSound, ActType, Act
<1>4. \A a \in sweep[w].todo : PlanSound(a, rows)
  BY SweepFacts DEF SweepSound
<1> QED
  BY <1>1, <1>2, <1>3, <1>4, SweepFacts DEF PlanSound, Row

LEMMA Dones ==
  ASSUME ChannelsInv, NEW w \in Sweeps
  PROVE  /\ Done(w) \in SweepType /\ Done(w).pc = "act" /\ Done(w).todo = sweep[w].todo
         /\ Done(w).activated = sweep[w].activated
         /\ IdsOf(Done(w)) \subseteq UsedIds \cup {NewId, NoId}
<1>1. sweep[w] \in SweepType
  BY SweepFacts
<1>2. NoAction \in ActType /\ NoAction.previous = NoId /\ NoId \in Nat
  BY DEF NoAction, ActType, AnyCal, NoId
<1>3. Done(w) \in SweepType
  BY <1>1, <1>2 DEF Done, SweepType
<1> QED
  BY <1>1, <1>2, <1>3, InUse DEF Done, SweepType, IdsOf

\* An action that is over leaves the plans, which stand on the rows.
LEMMA DoneIsSound ==
  ASSUME NEW x, NEW rs, NEW ss, x.pc \in {"act", "stop"}, \A a \in x.todo : PlanSound(a, rs)
  PROVE  SweepSound(x, rs, ss)
BY DEF SweepSound

Written(w, row) == [rows EXCEPT ![Act(w).row] = IF @.state = "none" THEN @ ELSE row]

\* Writing to the row in hand, if it is there, changes neither plans nor calendars.
LEMMA RowUpdates ==
  ASSUME ChannelsInv, NEW w \in Sweeps, sweep[w].pc \in {"call", "write"},
         NEW row \in RowType,
         Row(w).state # "none" =>
           /\ RowSound(row) /\ row.cal = Act(w).cal
           /\ row.state \in LiveStates =>
                \A q \in Rows : rows[q].state \in LiveStates /\ rows[q].cal = row.cal => q = Act(w).row
           /\ row.pcid \in UsedIds \cup {NewId, NoId} /\ row.secret \in UsedIds \cup {NewId, NoId}
  PROVE  LET rs == Written(w, row) IN
         /\ rs \in [Rows -> RowType] /\ RowsSound(rs)
         /\ \A q \in Rows : rs[q] = IF q = Act(w).row /\ Row(w).state # "none" THEN row ELSE rows[q]
         /\ \A a \in ActType : PlanSound(a, rows) => PlanSound(a, rs)
         /\ \A a \in sweep[w].todo : PlanSound(a, rs)
         /\ \A q \in Rows : /\ rs[q].pcid \in UsedIds \cup {NewId, NoId}
                            /\ rs[q].secret \in UsedIds \cup {NewId, NoId}
         /\ \A i, c, ss : Named(i, c, rs, ss) =>
              Named(i, c, rows, ss) \/ (Row(w).state # "none" /\ i = row.pcid /\ c = Act(w).cal)
<1> DEFINE r == Act(w).row
           rs == Written(w, row)
<1>1. r \in Rows /\ Row(w) = rows[r] /\ rows \in [Rows -> RowType] /\ RowsSound(rows)
      /\ (Row(w).state # "none" => Row(w).cal = Act(w).cal)
  BY InHand, SweepFacts
<1>0. rs = [rows EXCEPT ![r] = IF @.state = "none" THEN @ ELSE row]
  BY DEF Written
<1> HIDE DEF rs
<1>2. \A q \in Rows : rs[q] = IF q = r /\ Row(w).state # "none" THEN row ELSE rows[q]
  BY <1>0, <1>1
<1> HIDE DEF r
<1>3. rs \in [Rows -> RowType] /\ RowsSound(rs)
  <2>1. CASE Row(w).state = "none"
    <3>1. rs = rows
      BY <1>0, <1>1, <2>1 DEF r
    <3> QED
      BY <1>1, <3>1
  <2>2. CASE Row(w).state # "none"
    <3>1. rs = [rows EXCEPT ![r] = row]
      BY <1>0, <1>1, <2>2 DEF r
    <3>2. [rows EXCEPT ![r] = row] \in [Rows -> RowType] /\ RowsSound([rows EXCEPT ![r] = row])
      BY <1>1, <2>2, OneRowChanges DEF r
    <3> QED
      BY <3>1, <3>2
  <2> QED
    BY <2>1, <2>2
<1>4. ASSUME NEW a \in ActType, PlanSound(a, rows) PROVE PlanSound(a, rs)
  <2>1. \A q \in Rows : rs[q] = rows[q] \/ (rs[q].cal = rows[q].cal /\ rows[q].state # "none")
    BY <1>1, <1>2
  <2> QED
    BY <1>1, <1>3, <1>4, <2>1, PlansStand
<1>5. \A a \in sweep[w].todo : PlanSound(a, rs)
  BY <1>4, InHand, SweepFacts
<1>6. \A q \in Rows : /\ rs[q].pcid \in UsedIds \cup {NewId, NoId}
                      /\ rs[q].secret \in UsedIds \cup {NewId, NoId}
  BY <1>2, InUse
<1>7. \A i, c, ss : Named(i, c, rs, ss) =>
              Named(i, c, rows, ss) \/ (Row(w).state # "none" /\ i = row.pcid /\ c = Act(w).cal)
  BY <1>2 DEF Named
<1> QED
  BY <1>2, <1>3, <1>4, <1>5, <1>6, <1>7 DEF r, rs

LEMMA CallSucceedsKeeps ==
  ASSUME ChannelsInv, NEW w \in Sweeps, CallSucceeds(w) PROVE ChannelsInv'
<1> DEFINE x == [sweep[w] EXCEPT !.pc = "write"]
           ss == IF Creates(w) THEN subs \cup {Sub(w)} ELSE subs
<1>1. /\ sweep[w].pc = "call" /\ (Creates(w) \/ Extends(w)) /\ subs' = ss
      /\ UNCHANGED <<existing, eligible, rows, tick, mishaps>> /\ mishaps' \in 0..MaxMishaps
  BY DEF CallSucceeds, ChannelsInv, Typed
<1>2. Act(w).type \in {"register", "renew"} /\ sweep[w].id # NoId
  BY <1>1, InHand DEF Creates, Extends, CallSound, Act
<1>3. /\ x \in SweepType /\ sweep' = [sweep EXCEPT ![w] = x] /\ x.pc = "write" /\ x.todo = sweep[w].todo
      /\ x.act = sweep[w].act /\ x.id = sweep[w].id
      /\ x.activated = sweep[w].activated /\ x.known = sweep[w].known
  BY SweepFacts DEF CallSucceeds, SweepType, ChannelsInv, Typed
<1> HIDE DEF x
<1>4. Sub(w) \in SubType /\ Sub(w).secret = Sub(w).id /\ Sub(w).id = sweep[w].id /\ Sub(w).cal = Act(w).cal
  BY <1>1, <1>2, InHand DEF Sub, SubType, NoId
<1>5. ss \in SUBSET SubType /\ SubsSound(ss) /\ \A s \in ss : s.id \in UsedIds
  BY <1>1, <1>4, SweepFacts, InHand, InUse DEF SubsSound
<1>6. \A i, c : Named(i, c, rows, ss) => Named(i, c, rows, subs) \/ (i = sweep[w].id /\ c = Act(w).cal)
  BY <1>4 DEF Named
<1>7. \A d \in AnyCal : Named(sweep[w].id, d, rows, subs) => d = Act(w).cal
  BY <1>1, <1>2, InHand DEF CallSound, Act
<1> HIDE DEF ss
<1>8. OneCalendar(rows, ss)
  <2>1. OneCalendar(rows, subs)
    BY SweepFacts
  <2> QED
    BY <1>6, <1>7, <2>1, NamesGrow
<1>9. CallSound(x, rows, ss)
  <2>1. \A d \in AnyCal : Named(x.id, d, rows, ss) => d = x.act.cal
    BY <1>3, <1>6, <1>7 DEF Act
  <2>2. CallSound(sweep[w], rows, subs)
    BY <1>1, InHand
  <2> QED
    BY <1>2, <1>3, <2>1, <2>2 DEF CallSound, Act
<1>10. SweepSound(x, rows, ss)
  BY <1>1, <1>3, <1>9, InHand DEF SweepSound
<1>11. IdsOf(x) \subseteq UsedIds
  BY <1>3, InUse DEF IdsOf
<1>12. tick' = {w} /\ rows' = rows /\ eligible' = eligible /\ existing' = existing
       /\ sweep[w].pc # "idle"
  BY <1>1, SweepFacts
<1> QED
  BY <1>1, <1>3, <1>5, <1>8, <1>10, <1>11, <1>12, InUse, SweepFacts, SweepMoves

LEMMA WriteActivationKeeps ==
  ASSUME ChannelsInv, NEW w \in Sweeps, WriteActivation(w) PROVE ChannelsInv'
<1>1. /\ sweep[w].pc = "write" /\ UNCHANGED <<existing, eligible, subs, tick, mishaps>>
      /\ mishaps' \in 0..MaxMishaps
  BY DEF WriteActivation, ChannelsInv, Typed
<1>2. Act(w).type \in {"register", "renew"} /\ sweep[w].id # NoId
  BY <1>1, InHand DEF CallSound, Act, ActType
<1>3. CASE ~(Row(w).state = "none" \/ IndexAllows(Act(w).row, Act(w).cal))
  <2>1. sweep' = [sweep EXCEPT ![w] = Done(w)] /\ rows' = rows
    BY <1>3 DEF WriteActivation
  <2>2. SweepSound(Done(w), rows, subs)
    BY <1>1, Dones, DoneIsSound, InHand
  <2> QED
    BY <1>1, <2>1, <2>2, Dones, OnlySweepMoves
<1>4. CASE Row(w).state = "none" \/ IndexAllows(Act(w).row, Act(w).cal)
  <2> DEFINE row == Activated(Row(w), w)
             rs == Written(w, row)
             x == IF Act(w).type = "renew" /\ Creates(w) /\ Act(w).previous # NoId
                  THEN [sweep[w] EXCEPT !.pc = "stop", !.activated = @ \cup {sweep[w].id}]
                  ELSE [Done(w) EXCEPT !.activated = @ \cup {sweep[w].id}]
  <2>1. rows' = rs /\ sweep' = [sweep EXCEPT ![w] = x]
    <3>1. rows' = rs
      BY <1>4 DEF WriteActivation, Update, Written
    <3>2. sweep' = [sweep EXCEPT ![w] = x]
      BY <1>4, SweepFacts DEF WriteActivation
    <3> QED
      BY <3>1, <3>2
  <2>2. Row(w) \in RowType /\ sweep[w].id \in Nat
    BY <1>1, InHand
  <2>3. /\ row \in RowType /\ row.state = "active" /\ row.pcid = sweep[w].id /\ row.cal = Row(w).cal
        /\ row.secret = (IF Extends(w) THEN Row(w).secret ELSE sweep[w].id)
    <3> DEFINE secret == IF Extends(w) THEN Row(w).secret ELSE sweep[w].id
    <3>1. secret \in Nat /\ 0 \in 0..MaxDeregister
      BY <2>2, PushChannelsAssumption DEF RowType
    <3>2. row = [Row(w) EXCEPT !.state = "active", !.pcid = sweep[w].id, !.secret = secret,
                               !.reached = TRUE, !.life = "far", !.next = "none",
                               !.stale = FALSE, !.asked = FALSE, !.fails = 0]
      BY Zenon DEF Activated
    <3> HIDE DEF secret, row
    <3>3. /\ row \in RowType /\ row.state = "active" /\ row.pcid = sweep[w].id
          /\ row.cal = Row(w).cal /\ row.secret = secret
      BY <2>2, <3>1, <3>2 DEF RowType, States, LiveStates
    <3> QED
      BY <3>3 DEF secret
  <2>4. ASSUME Row(w).state # "none"
        PROVE  /\ row.secret = row.pcid /\ row.cal = Act(w).cal
               /\ \A q \in Rows : rows[q].state \in LiveStates /\ rows[q].cal = row.cal => q = Act(w).row
    <3>1. row.cal = Act(w).cal
      BY <1>1, <2>3, <2>4, InHand
    <3>2. Extends(w) => Row(w).secret = Row(w).pcid /\ Row(w).pcid = sweep[w].id
      BY <1>1, <2>4, InHand DEF Extends, CallSound, Act, Row
    <3>3. \A q \in Rows : rows[q].state \in LiveStates /\ rows[q].cal = row.cal => q = Act(w).row
      BY <1>4, <2>4, <3>1 DEF IndexAllows, LiveRowsOf, Live
    <3> QED
      BY <2>3, <3>1, <3>2, <3>3
  <2> HIDE DEF row
  <2>5. /\ rs \in [Rows -> RowType] /\ RowsSound(rs)
        /\ \A a \in sweep[w].todo : PlanSound(a, rs)
        /\ \A q \in Rows : /\ rs[q].pcid \in UsedIds \cup {NewId, NoId}
                           /\ rs[q].secret \in UsedIds \cup {NewId, NoId}
        /\ \A i, c, ss : Named(i, c, rs, ss) =>
             Named(i, c, rows, ss) \/ (i = sweep[w].id /\ c = Act(w).cal)
    <3>1. Row(w).state # "none" =>
            /\ RowSound(row) /\ row.cal = Act(w).cal
            /\ row.state \in LiveStates =>
                 \A q \in Rows : rows[q].state \in LiveStates /\ rows[q].cal = row.cal => q = Act(w).row
            /\ row.pcid \in UsedIds \cup {NewId, NoId} /\ row.secret \in UsedIds \cup {NewId, NoId}
      BY <1>1, <1>2, <2>3, <2>4, InHand DEF RowSound
    <3>2. sweep[w].pc \in {"call", "write"}
      BY <1>1
    <3>3. /\ rs \in [Rows -> RowType] /\ RowsSound(rs)
          /\ \A a \in sweep[w].todo : PlanSound(a, rs)
          /\ \A q \in Rows : /\ rs[q].pcid \in UsedIds \cup {NewId, NoId}
                             /\ rs[q].secret \in UsedIds \cup {NewId, NoId}
          /\ \A i, c, ss : Named(i, c, rs, ss) =>
               Named(i, c, rows, ss) \/ (Row(w).state # "none" /\ i = row.pcid /\ c = Act(w).cal)
      BY <2>3, <3>1, <3>2, RowUpdates
    <3> QED
      BY <2>3, <3>3
  <2> HIDE DEF rs
  <2>6. OneCalendar(rs, subs)
    <3>1. \A d \in AnyCal : Named(sweep[w].id, d, rows, subs) => d = Act(w).cal
      BY <1>1, <1>2, InHand DEF CallSound, Act
    <3>2. OneCalendar(rows, subs)
      BY SweepFacts
    <3> QED
      BY <2>5, <3>1, <3>2, NamesGrow
  <2>7. /\ x \in SweepType /\ x.pc \in {"act", "stop"} /\ x.todo = sweep[w].todo
        /\ IdsOf(x) \subseteq UsedIds \cup {NewId, NoId}
    <3>1. sweep[w] \in SweepType /\ sweep[w].id \in Nat /\ sweep[w].id \in UsedIds
      BY <1>1, InHand, SweepFacts
    <3>2. CASE Act(w).type = "renew" /\ Creates(w) /\ Act(w).previous # NoId
      <4> DEFINE y == [sweep[w] EXCEPT !.pc = "stop", !.activated = @ \cup {sweep[w].id}]
      <4>1. y \in SweepType
        BY <3>1 DEF SweepType
      <4>2. y.pc = "stop" /\ y.todo = sweep[w].todo /\ IdsOf(y) \subseteq UsedIds
        BY <3>1, InUse DEF SweepType, IdsOf
      <4> HIDE DEF y
      <4>3. x = y
        BY <3>2 DEF y
      <4> HIDE DEF x
      <4> QED
        BY <4>1, <4>2, <4>3
    <3>3. CASE ~(Act(w).type = "renew" /\ Creates(w) /\ Act(w).previous # NoId)
      <4> DEFINE y == [Done(w) EXCEPT !.activated = @ \cup {sweep[w].id}]
      <4>1. y \in SweepType
        BY <3>1, Dones DEF SweepType
      <4>2. /\ y.pc = "act" /\ y.todo = sweep[w].todo
            /\ IdsOf(y) \subseteq UsedIds \cup {NewId, NoId}
        BY <3>1, Dones DEF SweepType, IdsOf
      <4> HIDE DEF y
      <4>3. x = y
        BY <3>3 DEF y
      <4> HIDE DEF x
      <4> QED
        BY <4>1, <4>2, <4>3
    <3> QED
      BY <3>2, <3>3
  <2> HIDE DEF x
  <2>8. SweepSound(x, rs, subs)
    BY <2>5, <2>7, DoneIsSound
  <2>9. tick' = {w} /\ subs' = subs /\ eligible' = eligible /\ existing' = existing
        /\ sweep[w].pc # "idle"
    BY <1>1, SweepFacts
  <2> QED
    BY <1>1, <2>1, <2>5, <2>6, <2>7, <2>8, <2>9, InUse, SweepFacts, SweepMoves
<1> QED
  BY <1>3, <1>4

\* What a sweep does at the end of an action: some channels go, the row is written.
LEMMA ActionEnds ==
  ASSUME ChannelsInv, NEW w \in Sweeps, sweep[w].pc \in {"call", "stop"},
         NEW rs \in [Rows -> RowType], NEW ss \in SUBSET SubType,
         rows' = rs, subs' = ss, sweep' = [sweep EXCEPT ![w] = Done(w)],
         UNCHANGED <<existing, eligible, tick>>, mishaps' \in 0..MaxMishaps,
         RowsSound(rs), SubsSound(ss), OneCalendar(rs, ss),
         \A a \in sweep[w].todo : PlanSound(a, rs),
         \A q \in Rows : /\ rs[q].pcid \in UsedIds \cup {NewId, NoId}
                         /\ rs[q].secret \in UsedIds \cup {NewId, NoId},
         \A s \in ss : s.id \in UsedIds \cup {NewId, NoId}
  PROVE  ChannelsInv'
<1>1. SweepSound(Done(w), rs, ss)
  BY Dones, DoneIsSound
<1>2. tick' = {w} /\ eligible' = eligible /\ existing' = existing /\ sweep[w].pc # "idle"
  BY SweepFacts
<1> QED
  BY <1>1, <1>2, Dones, SweepMoves

LEMMA StopSupersededKeeps ==
  ASSUME ChannelsInv, NEW w \in Sweeps, NEW stopped \in BOOLEAN, StopSuperseded(w, stopped)
  PROVE  ChannelsInv'
<1>1. /\ sweep[w].pc = "stop" /\ subs' \subseteq subs /\ rows' = rows
      /\ sweep' = [sweep EXCEPT ![w] = Done(w)] /\ UNCHANGED <<existing, eligible, tick>>
      /\ mishaps' \in 0..MaxMishaps
  BY PushChannelsAssumption DEF StopSuperseded, Mishap, ChannelsInv, Typed
<1>2. OneCalendar(rows, subs') /\ SubsSound(subs') /\ subs' \in SUBSET SubType
  BY <1>1, SweepFacts DEF OneCalendar, Named, SubsSound
<1>3. \A a \in sweep[w].todo : PlanSound(a, rows)
  BY SweepFacts DEF SweepSound
<1> QED
  BY <1>1, <1>2, <1>3, InUse, SweepFacts, ActionEnds

LEMMA BackedOffTyped ==
  ASSUME NEW row \in RowType, NEW state \in States
  PROVE  /\ BackedOff(row, state) \in RowType /\ BackedOff(row, state).state = state
         /\ BackedOff(row, state).pcid = row.pcid /\ BackedOff(row, state).cal = row.cal
         /\ BackedOff(row, state).secret = row.secret
<1> DEFINE fails == IF row.fails < MaxDeregister THEN row.fails + 1 ELSE row.fails
           new == BackedOff(row, state)
<1>1. fails \in 0..MaxDeregister
  BY PushChannelsAssumption DEF RowType
<1>2. new = [row EXCEPT !.state = state, !.next = "later", !.stale = FALSE, !.fails = fails]
  BY DEF BackedOff
<1> HIDE DEF fails, new
<1>3. /\ new \in RowType /\ new.state = state /\ new.pcid = row.pcid /\ new.cal = row.cal
      /\ new.secret = row.secret
  BY <1>1, <1>2 DEF RowType
<1> QED
  BY <1>3 DEF new

LEMMA CallFailsKeeps ==
  ASSUME ChannelsInv, NEW w \in Sweeps, NEW effect \in BOOLEAN, CallFails(w, effect)
  PROVE  ChannelsInv'
<1> DEFINE state == IF Act(w).type = "register" THEN "registering" ELSE "degraded"
           row == BackedOff(Row(w), state)
           ss == IF effect /\ Creates(w) THEN subs \cup {Sub(w)} ELSE subs
<1>1. /\ sweep[w].pc = "call" /\ (Creates(w) \/ Extends(w)) /\ subs' = ss
      /\ sweep' = [sweep EXCEPT ![w] = Done(w)] /\ UNCHANGED <<existing, eligible, tick>>
      /\ mishaps' \in 0..MaxMishaps
  BY PushChannelsAssumption DEF CallFails, Mishap, ChannelsInv, Typed
<1>2. Act(w).type \in {"register", "renew"} /\ sweep[w].id # NoId
  BY <1>1, InHand DEF Creates, Extends, CallSound, Act
<1>3. Sub(w) \in SubType /\ Sub(w).secret = Sub(w).id /\ Sub(w).id = sweep[w].id /\ Sub(w).cal = Act(w).cal
  BY <1>1, <1>2, InHand DEF Sub, SubType, NoId
<1>4. ss \in SUBSET SubType /\ SubsSound(ss) /\ \A s \in ss : s.id \in UsedIds \cup {NewId, NoId}
  BY <1>1, <1>3, SweepFacts, InHand, InUse DEF SubsSound
<1>5. \A i, c : Named(i, c, rows, ss) => Named(i, c, rows, subs) \/ (i = sweep[w].id /\ c = Act(w).cal)
  BY <1>3 DEF Named
<1>6. \A d \in AnyCal : Named(sweep[w].id, d, rows, subs) => d = Act(w).cal
  BY <1>1, <1>2, InHand DEF CallSound, Act
<1> HIDE DEF ss
<1>7. OneCalendar(rows, ss)
  <2>1. OneCalendar(rows, subs)
    BY SweepFacts
  <2> QED
    BY <1>5, <1>6, <2>1, NamesGrow
<1>8. Row(w) \in RowType /\ state \in {"registering", "degraded"} /\ (state = "degraded" => Act(w).type = "renew")
  BY <1>1, <1>2, InHand
<1> HIDE DEF state
<1>9. /\ row \in RowType /\ row.state = state /\ row.pcid = Row(w).pcid
      /\ row.cal = Row(w).cal /\ row.secret = Row(w).secret
  BY <1>8, BackedOffTyped DEF States, LiveStates
<1> HIDE DEF row
<1>10. CASE IndexAllows(Act(w).row, Act(w).cal)
  <2> DEFINE rs == Written(w, row)
  <2>1. rows' = rs
    BY <1>10 DEF CallFails, Update, Written, row, state
  <2>2. Row(w).state # "none" =>
          /\ RowSound(row) /\ row.cal = Act(w).cal
          /\ row.state \in LiveStates =>
               \A q \in Rows : rows[q].state \in LiveStates /\ rows[q].cal = row.cal => q = Act(w).row
          /\ row.pcid \in UsedIds \cup {NewId, NoId} /\ row.secret \in UsedIds \cup {NewId, NoId}
    <3> HAVE Row(w).state # "none"
    <3>1. row.cal = Act(w).cal /\ row.cal \in Calendars
      BY <1>1, <1>9, InHand
    <3>2. state = "degraded" => Row(w).secret = Row(w).pcid /\ Row(w).pcid # NoId
      BY <1>1, <1>8, InHand DEF CallSound, Act, Row
    <3>3. \A q \in Rows : rows[q].state \in LiveStates /\ rows[q].cal = row.cal => q = Act(w).row
      BY <1>10, <3>1 DEF IndexAllows, LiveRowsOf, Live
    <3>4. Row(w).pcid \in UsedIds /\ Row(w).secret \in UsedIds
      BY <1>1, InHand, InUse
    <3> QED
      BY <1>8, <1>9, <3>1, <3>2, <3>3, <3>4 DEF RowSound
  <2>3. sweep[w].pc \in {"call", "write"}
    BY <1>1
  <2>4. /\ rs \in [Rows -> RowType] /\ RowsSound(rs)
        /\ \A q \in Rows : rs[q] = IF q = Act(w).row /\ Row(w).state # "none" THEN row ELSE rows[q]
        /\ \A a \in sweep[w].todo : PlanSound(a, rs)
        /\ \A q \in Rows : /\ rs[q].pcid \in UsedIds \cup {NewId, NoId}
                           /\ rs[q].secret \in UsedIds \cup {NewId, NoId}
    BY <1>9, <2>2, <2>3, RowUpdates
  <2> HIDE DEF rs
  <2>5. OneCalendar(rs, ss)
    <3>1. \A q \in Rows : rs[q].pcid = rows[q].pcid /\ rs[q].cal = rows[q].cal
      BY <1>1, <1>9, <2>4, InHand
    <3> QED
      BY <1>7, <3>1 DEF OneCalendar, Named
  <2> QED
    BY <1>1, <1>4, <2>1, <2>4, <2>5, ActionEnds
<1>11. CASE ~IndexAllows(Act(w).row, Act(w).cal)
  <2>1. rows' = rows
    BY <1>11 DEF CallFails
  <2>2. \A a \in sweep[w].todo : PlanSound(a, rows)
    BY SweepFacts DEF SweepSound
  <2> QED
    BY <1>1, <1>4, <1>7, <2>1, <2>2, SweepFacts, InUse, ActionEnds
<1> QED
  BY <1>10, <1>11

\* The row of an activation: its secret goes with the channel it names.
LEMMA ActivatedSound ==
  ASSUME ChannelsInv, NEW w \in Sweeps, sweep[w].pc = "write", Row(w).state # "none"
  PROVE  LET row == Activated(Row(w), w) IN
         /\ row \in RowType /\ row.state = "active" /\ row.cal = Act(w).cal
         /\ row.pcid = sweep[w].id /\ row.secret = sweep[w].id
<1> DEFINE row == Activated(Row(w), w)
           secret == IF Extends(w) THEN Row(w).secret ELSE sweep[w].id
<1>1. Row(w) \in RowType /\ sweep[w].id \in Nat /\ Row(w).cal = Act(w).cal
  BY InHand
<1>2. secret = sweep[w].id
  BY InHand DEF Extends, CallSound, Act, Row
<1>3. 0 \in 0..MaxDeregister
  BY PushChannelsAssumption
<1>4. row = [Row(w) EXCEPT !.state = "active", !.pcid = sweep[w].id, !.secret = secret,
                           !.reached = TRUE, !.life = "far", !.next = "none",
                           !.stale = FALSE, !.asked = FALSE, !.fails = 0]
  BY Zenon DEF Activated
<1> HIDE DEF secret, row
<1>5. /\ row \in RowType /\ row.state = "active" /\ row.pcid = sweep[w].id
      /\ row.cal = Row(w).cal /\ row.secret = secret
  BY <1>1, <1>2, <1>3, <1>4 DEF RowType, States, LiveStates
<1> QED
  BY <1>1, <1>2, <1>5 DEF row

LEMMA ActivationFailsKeeps ==
  ASSUME ChannelsInv, NEW w \in Sweeps, NEW written \in BOOLEAN, ActivationFails(w, written)
  PROVE  ChannelsInv'
<1> DEFINE new == IF written THEN Activated(Row(w), w) ELSE Row(w)
           base == [new EXCEPT !.fails = Row(w).fails]
           left == IF Act(w).type = "renew" THEN new ELSE BackedOff(base, "registering")
           rs == Written(w, left)
           y == [Done(w) EXCEPT !.activated = @ \cup {sweep[w].id}]
           x == IF written THEN y ELSE Done(w)
<1>1. /\ sweep[w].pc = "write" /\ UNCHANGED <<existing, eligible, subs, tick>>
      /\ mishaps' \in 0..MaxMishaps
      /\ Row(w).state = "none" \/ IndexAllows(Act(w).row, Act(w).cal)
  BY PushChannelsAssumption DEF ActivationFails, Mishap, ChannelsInv, Typed
<1>2. rows' = rs
  BY DEF ActivationFails, Update, Written
<1>3. sweep' = [sweep EXCEPT ![w] = x]
  BY DEF ActivationFails
<1>4. /\ x \in SweepType /\ x.pc = "act" /\ x.todo = sweep[w].todo
      /\ IdsOf(x) \subseteq UsedIds \cup {NewId, NoId}
  <2>1. /\ sweep[w].id \in Nat /\ sweep[w].id \in UsedIds
        /\ Done(w) \in SweepType /\ Done(w).pc = "act" /\ Done(w).todo = sweep[w].todo
        /\ IdsOf(Done(w)) \subseteq UsedIds \cup {NewId, NoId}
    BY <1>1, InHand, Dones
  <2>2. /\ y \in SweepType /\ y.pc = "act" /\ y.todo = sweep[w].todo
        /\ IdsOf(y) \subseteq UsedIds \cup {NewId, NoId}
    BY <2>1 DEF SweepType, IdsOf
  <2> HIDE DEF y
  <2> QED
    BY <2>1, <2>2
<1> HIDE DEF x, y
<1>5. CASE Row(w).state = "none"
  <2>1. rs = rows
    BY <1>1, <1>5, InHand, SweepFacts DEF Written
  <2>2. SweepSound(x, rows, subs)
    BY <1>1, <1>4, DoneIsSound, InHand
  <2>3. tick' = {w} /\ subs' = subs /\ eligible' = eligible /\ existing' = existing
        /\ sweep[w].pc # "idle"
    BY <1>1, SweepFacts
  <2> HIDE DEF rs
  <2> QED
    BY <1>1, <1>2, <1>3, <1>4, <2>1, <2>2, <2>3, InUse, SweepFacts, SweepMoves
<1>6. CASE Row(w).state # "none"
  <2>1. /\ new \in RowType /\ new.cal = Act(w).cal
        /\ new.pcid \in {Row(w).pcid, sweep[w].id}
        /\ new.secret = Row(w).secret \/ (new.pcid = sweep[w].id /\ new.secret = sweep[w].id)
        /\ ~written => new = Row(w)
        /\ new.state # "none"
        /\ written => new.pcid = sweep[w].id /\ new.secret = sweep[w].id
    BY <1>1, <1>6, ActivatedSound, InHand
  <2>2. /\ left \in RowType /\ left.cal = new.cal /\ left.pcid = new.pcid
        /\ left.secret = new.secret
        /\ Act(w).type # "renew" => left.state = "registering"
        /\ Act(w).type = "renew" => left = new
    <3>1. Row(w) \in RowType
      BY <1>1, InHand
    <3> HIDE DEF new
    <3>2. base \in RowType /\ base.cal = new.cal /\ base.pcid = new.pcid /\ base.secret = new.secret
      BY <2>1, <3>1 DEF RowType
    <3> HIDE DEF base
    <3>3. "registering" \in States
      BY DEF States, LiveStates
    <3> QED
      BY <2>1, <3>2, <3>3, BackedOffTyped
  <2> HIDE DEF new, base, left
  <2>3. RowSound(left)
    <3>1. Act(w).cal \in Calendars /\ sweep[w].id # NoId
      BY <1>1, InHand DEF CallSound, Act, ActType
    <3>2. ASSUME Act(w).type = "renew"
          PROVE  left.secret = left.pcid /\ left.pcid # NoId /\ left.state # "none"
      <4>1. Row(w).secret = Row(w).pcid /\ Row(w).pcid # NoId
        BY <1>1, <1>6, <3>2, InHand DEF CallSound, Act, Row
      <4>2. left = new
        BY <2>2, <3>2
      <4> QED
        BY <2>1, <3>1, <4>1, <4>2
    <3> QED
      BY <2>1, <2>2, <3>1, <3>2 DEF RowSound
  <2>4. \A q \in Rows : rows[q].state \in LiveStates /\ rows[q].cal = left.cal => q = Act(w).row
    BY <1>1, <1>6, <2>1, <2>2 DEF IndexAllows, LiveRowsOf, Live
  <2>5. left.pcid \in UsedIds /\ left.secret \in UsedIds /\ left.cal = Act(w).cal
    BY <1>1, <2>1, <2>2, InHand, InUse
  <2>6. /\ rs \in [Rows -> RowType] /\ RowsSound(rs)
        /\ \A a \in sweep[w].todo : PlanSound(a, rs)
        /\ \A q \in Rows : /\ rs[q].pcid \in UsedIds \cup {NewId, NoId}
                           /\ rs[q].secret \in UsedIds \cup {NewId, NoId}
        /\ \A i, c, ss : Named(i, c, rs, ss) =>
             Named(i, c, rows, ss) \/ (i = left.pcid /\ c = Act(w).cal)
    <3>1. sweep[w].pc \in {"call", "write"}
      BY <1>1
    <3> QED
      BY <2>2, <2>3, <2>4, <2>5, <3>1, RowUpdates
  <2> HIDE DEF rs
  <2>7. OneCalendar(rs, subs)
    <3>1. \A d \in AnyCal : Named(sweep[w].id, d, rows, subs) => d = Act(w).cal
      BY <1>1, InHand DEF CallSound, Act, ActType
    <3>2. OneCalendar(rows, subs) /\ rows \in [Rows -> RowType]
      BY SweepFacts
    <3>3. left.pcid = Row(w).pcid => Named(left.pcid, Act(w).cal, rows, subs)
      BY <1>1, <1>6, InHand DEF Named
    <3>4. left.pcid \in {Row(w).pcid, sweep[w].id}
      BY <2>1, <2>2
    <3>5. \A i, c : Named(i, c, rs, subs) => Named(i, c, rows, subs) \/ (i = sweep[w].id /\ c = Act(w).cal)
      BY <2>6, <3>3, <3>4
    <3> QED
      BY <3>1, <3>2, <3>5, NamesGrow
  <2>8. SweepSound(x, rs, subs)
    BY <1>4, <2>6, DoneIsSound
  <2>9. tick' = {w} /\ subs' = subs /\ eligible' = eligible /\ existing' = existing
        /\ sweep[w].pc # "idle"
    BY <1>1, SweepFacts
  <2> QED
    BY <1>1, <1>2, <1>3, <1>4, <2>6, <2>7, <2>8, <2>9, InUse, SweepFacts, SweepMoves
<1> QED
  BY <1>5, <1>6

LEMMA RenewalGoneKeeps ==
  ASSUME ChannelsInv, NEW w \in Sweeps, RenewalGone(w) PROVE ChannelsInv'
<1> DEFINE row == Registering(Row(w), Act(w).cal, NewId)
           rs == Written(w, row)
           x == [sweep[w] EXCEPT !.act = [sweep[w].act EXCEPT !.type = "register"], !.id = NewId]
<1>1. /\ sweep[w].pc = "call" /\ Extends(w) /\ rows' = rs
      /\ UNCHANGED <<existing, eligible, subs, tick, mishaps>> /\ mishaps' \in 0..MaxMishaps
  BY DEF RenewalGone, Update, Written, ChannelsInv, Typed
<1>2. NewId \in Nat /\ NewId # NoId /\ NoId \in Nat
  BY FreshId DEF NoId
<1>3. /\ x \in SweepType /\ sweep' = [sweep EXCEPT ![w] = x] /\ x.pc = "call" /\ x.todo = sweep[w].todo
      /\ x.act.row = Act(w).row /\ x.act.cal = Act(w).cal /\ x.act.type = "register" /\ x.id = NewId
      /\ IdsOf(x) \subseteq UsedIds \cup {NewId, NoId}
  <2>1. sweep[w] \in SweepType /\ sweep[w].act \in ActType /\ sweep \in [Sweeps -> SweepType]
    BY SweepFacts DEF ChannelsInv, Typed
  <2> DEFINE y == [sweep[w].act EXCEPT !.type = "register"]
  <2>2. /\ y \in ActType /\ y.row = Act(w).row /\ y.cal = Act(w).cal /\ y.type = "register"
        /\ y.previous = sweep[w].act.previous
    BY <2>1 DEF ActType, Act
  <2>3. sweep' = [sweep EXCEPT ![w] = x]
    BY <2>1 DEF RenewalGone, SweepType, ActType
  <2> HIDE DEF y
  <2>4. x = [sweep[w] EXCEPT !.act = y, !.id = NewId]
    BY DEF y
  <2>5. /\ x \in SweepType /\ x.act = y /\ x.pc = "call" /\ x.todo = sweep[w].todo /\ x.id = NewId
        /\ x.activated = sweep[w].activated /\ x.known = sweep[w].known
    BY <1>1, <1>2, <2>1, <2>2, <2>4 DEF SweepType
  <2> HIDE DEF x
  <2>6. IdsOf(x) \subseteq UsedIds \cup {NewId, NoId}
    BY <2>2, <2>5, InUse DEF IdsOf
  <2> QED
    BY <2>2, <2>3, <2>5, <2>6
<1>4. Row(w) \in RowType /\ Act(w).cal \in Calendars /\ Act(w).type = "renew" /\ ~Google(Act(w).cal)
  BY <1>1, InHand DEF Extends
<1>5. /\ row \in RowType /\ row.state = "registering" /\ row.cal = Act(w).cal
      /\ row.secret = NewId /\ row.pcid = NoId
  BY <1>2, <1>4 DEF Registering, RowType, States, LiveStates, AnyCal
<1> HIDE DEF row, x
<1>6. /\ rs \in [Rows -> RowType] /\ RowsSound(rs)
      /\ \A q \in Rows : rs[q] = IF q = Act(w).row /\ Row(w).state # "none" THEN row ELSE rows[q]
      /\ \A a \in ActType : PlanSound(a, rows) => PlanSound(a, rs)
      /\ \A a \in sweep[w].todo : PlanSound(a, rs)
      /\ \A q \in Rows : /\ rs[q].pcid \in UsedIds \cup {NewId, NoId}
                         /\ rs[q].secret \in UsedIds \cup {NewId, NoId}
  <2>1. Row(w).state # "none" =>
          /\ RowSound(row) /\ row.cal = Act(w).cal
          /\ row.state \in LiveStates =>
               \A q \in Rows : rows[q].state \in LiveStates /\ rows[q].cal = row.cal => q = Act(w).row
          /\ row.pcid \in UsedIds \cup {NewId, NoId} /\ row.secret \in UsedIds \cup {NewId, NoId}
    <3> HAVE Row(w).state # "none"
    <3>1. \A q \in Rows : rows[q].state \in LiveStates /\ rows[q].cal = row.cal => q = Act(w).row
      BY <1>1, <1>4, <1>5, InHand DEF CallSound, Act
    <3> QED
      BY <1>4, <1>5, <3>1 DEF RowSound
  <2>2. sweep[w].pc \in {"call", "write"}
    BY <1>1
  <2> QED
    BY <1>5, <2>1, <2>2, RowUpdates
<1> HIDE DEF rs
<1>7. \A i \in Nat \ {0}, c \in AnyCal : Named(i, c, rs, subs) => Named(i, c, rows, subs)
  BY <1>5, <1>6 DEF Named, NoId
<1>8. OneCalendar(rs, subs)
  BY <1>7, SweepFacts DEF OneCalendar
<1>9. CallSound(x, rs, subs)
  <2>1. PlanSound(x.act, rs)
    <3>1. PlanSound(Act(w), rs) /\ Act(w).row # 0
      BY <1>1, <1>6, InHand DEF CallSound, Act
    <3> QED
      BY <1>3, <1>4, <3>1 DEF PlanSound
  <2>2. \A d \in AnyCal : Named(x.id, d, rs, subs) => d = x.act.cal
    BY <1>2, <1>3, <1>7, NewIsUnnamed DEF NoId
  <2> QED
    BY <1>1, <1>2, <1>3, <2>1, <2>2, InHand DEF CallSound
<1>10. SweepSound(x, rs, subs)
  BY <1>3, <1>6, <1>9 DEF SweepSound
<1>11. tick' = {w} /\ subs' = subs /\ eligible' = eligible /\ existing' = existing /\ sweep[w].pc # "idle"
  BY <1>1, SweepFacts
<1> QED
  BY <1>1, <1>3, <1>6, <1>8, <1>10, <1>11, InUse, SweepFacts, SweepMoves

\* A deregistration that is over: the channels are fewer, the row keeps its numbers.
LEMMA DeregistrationEnds ==
  ASSUME ChannelsInv, NEW w \in Sweeps, sweep[w].pc = "call",
         NEW row \in RowType, row.state = Row(w).state \/ row.state \notin LiveStates \cup {"none"},
         row.pcid = Row(w).pcid, row.secret = Row(w).secret, row.cal = Row(w).cal,
         subs' \subseteq subs, Update(Act(w).row, row), sweep' = [sweep EXCEPT ![w] = Done(w)],
         UNCHANGED <<existing, eligible, tick>>, mishaps' \in 0..MaxMishaps
  PROVE  ChannelsInv'
<1> DEFINE rs == Written(w, row)
<1>1. rows' = rs
  BY DEF Update, Written
<1>2. Row(w).state # "none" =>
        /\ RowSound(row) /\ row.cal = Act(w).cal
        /\ row.state \in LiveStates =>
             \A q \in Rows : rows[q].state \in LiveStates /\ rows[q].cal = row.cal => q = Act(w).row
        /\ row.pcid \in UsedIds \cup {NewId, NoId} /\ row.secret \in UsedIds \cup {NewId, NoId}
  <2> HAVE Row(w).state # "none"
  <2>1. row.cal = Act(w).cal /\ row.cal \in Calendars /\ Act(w).row \in Rows /\ Row(w) = rows[Act(w).row]
    BY InHand
  <2>2. RowSound(Row(w)) /\ RowsSound(rows)
    BY <2>1, SweepFacts DEF RowsSound
  <2>3. RowSound(row)
    BY <2>1, <2>2 DEF RowSound, LiveStates
  <2>4. row.state \in LiveStates =>
             \A q \in Rows : rows[q].state \in LiveStates /\ rows[q].cal = row.cal => q = Act(w).row
    BY <2>1, <2>2 DEF RowsSound
  <2> QED
    BY <2>1, <2>3, <2>4, InUse
<1>3. /\ rs \in [Rows -> RowType] /\ RowsSound(rs)
      /\ \A q \in Rows : rs[q] = IF q = Act(w).row /\ Row(w).state # "none" THEN row ELSE rows[q]
      /\ \A a \in sweep[w].todo : PlanSound(a, rs)
      /\ \A q \in Rows : /\ rs[q].pcid \in UsedIds \cup {NewId, NoId}
                         /\ rs[q].secret \in UsedIds \cup {NewId, NoId}
  <2>1. sweep[w].pc \in {"call", "write"}
    OBVIOUS
  <2> QED
    BY <1>2, <2>1, RowUpdates
<1> HIDE DEF rs
<1>4. OneCalendar(rs, subs') /\ SubsSound(subs') /\ subs' \in SUBSET SubType
  <2>1. \A q \in Rows : rs[q].pcid = rows[q].pcid /\ rs[q].cal = rows[q].cal
    BY <1>3, InHand
  <2> QED
    BY <2>1, SweepFacts DEF OneCalendar, Named, SubsSound
<1> QED
  BY <1>1, <1>3, <1>4, InUse, ActionEnds

LEMMA DeregisterSucceedsKeeps ==
  ASSUME ChannelsInv, NEW w \in Sweeps, DeregisterSucceeds(w) PROVE ChannelsInv'
<1> DEFINE row == [Row(w) EXCEPT !.state = "removed"]
<1>1. /\ sweep[w].pc = "call" /\ subs' \subseteq subs /\ Update(Act(w).row, row)
      /\ sweep' = [sweep EXCEPT ![w] = Done(w)] /\ UNCHANGED <<existing, eligible, tick>>
      /\ mishaps' \in 0..MaxMishaps
  BY DEF DeregisterSucceeds, ChannelsInv, Typed
<1>2. Row(w) \in RowType
  BY <1>1, InHand
<1>3. /\ row \in RowType /\ row.state = "removed" /\ row.pcid = Row(w).pcid
      /\ row.secret = Row(w).secret /\ row.cal = Row(w).cal
  BY <1>2 DEF RowType, States
<1> HIDE DEF row
<1> QED
  BY <1>1, <1>3, DeregistrationEnds DEF LiveStates

LEMMA DeregisterFailsKeeps ==
  ASSUME ChannelsInv, NEW w \in Sweeps, NEW effect \in BOOLEAN, DeregisterFails(w, effect)
  PROVE  ChannelsInv'
<1> DEFINE row == IF Row(w).fails + 1 >= MaxDeregister THEN [Row(w) EXCEPT !.state = "failed"]
                  ELSE BackedOff(Row(w), Row(w).state)
<1>1. /\ sweep[w].pc = "call" /\ subs' \subseteq subs /\ Update(Act(w).row, row)
      /\ sweep' = [sweep EXCEPT ![w] = Done(w)] /\ UNCHANGED <<existing, eligible, tick>>
      /\ mishaps' \in 0..MaxMishaps
  BY PushChannelsAssumption DEF DeregisterFails, Mishap, ChannelsInv, Typed
<1>2. Row(w) \in RowType
  BY <1>1, InHand
<1>3. /\ row \in RowType /\ (row.state = Row(w).state \/ row.state = "failed")
      /\ row.pcid = Row(w).pcid /\ row.secret = Row(w).secret /\ row.cal = Row(w).cal
  <2>1. /\ BackedOff(Row(w), Row(w).state) \in RowType
        /\ BackedOff(Row(w), Row(w).state).state = Row(w).state
        /\ BackedOff(Row(w), Row(w).state).pcid = Row(w).pcid
        /\ BackedOff(Row(w), Row(w).state).cal = Row(w).cal
        /\ BackedOff(Row(w), Row(w).state).secret = Row(w).secret
    <3>1. Row(w).state \in States
      BY <1>2 DEF RowType
    <3> QED
      BY <1>2, <3>1, BackedOffTyped
  <2> DEFINE failed == [Row(w) EXCEPT !.state = "failed"]
  <2>2. /\ failed \in RowType /\ failed.state = "failed" /\ failed.pcid = Row(w).pcid
        /\ failed.secret = Row(w).secret /\ failed.cal = Row(w).cal
    BY <1>2 DEF RowType, States
  <2>3. row = failed \/ row = BackedOff(Row(w), Row(w).state)
    OBVIOUS
  <2> HIDE DEF failed, row
  <2> QED
    BY <2>1, <2>2, <2>3
<1> HIDE DEF row
<1> QED
  BY <1>1, <1>3, DeregistrationEnds DEF LiveStates

LEMMA DriftReadKeeps ==
  ASSUME ChannelsInv, NEW w \in Sweeps, DriftRead(w) PROVE ChannelsInv'
<1> DEFINE known == sweep[w].activated \cup {rows[r].pcid : r \in {q \in Rows : Live(q)}}
           x == [sweep[w] EXCEPT !.pc = "drift", !.known = known]
<1>1. sweep[w] \in SweepType /\ sweep \in [Sweeps -> SweepType] /\ rows \in [Rows -> RowType]
  BY DEF ChannelsInv, Typed
<1>2. known \subseteq Nat /\ known \subseteq UsedIds
  BY <1>1, InUse DEF SweepType, RowType, IdsOf
<1>3. sweep' = [sweep EXCEPT ![w] = x]
  BY <1>1 DEF DriftRead, SweepType
<1>4. \A r \in Rows : rows[r].state = "active" => rows[r].pcid \in known
  BY DEF Live, LiveStates
<1> HIDE DEF known
<1>5. /\ x \in SweepType /\ x.pc = "drift" /\ x.known = known /\ x.todo = sweep[w].todo
      /\ x.act = sweep[w].act /\ x.id = sweep[w].id /\ x.activated = sweep[w].activated
  BY <1>1, <1>2 DEF SweepType
<1> HIDE DEF x
<1>6. SweepSound(x, rows, subs)
  BY <1>4, <1>5, SweepFacts DEF SweepSound
<1>7. IdsOf(x) \subseteq UsedIds
  BY <1>2, <1>5, InUse DEF IdsOf
<1>8. /\ sweep[w].pc # "idle" /\ UNCHANGED <<existing, eligible, rows, subs>>
      /\ tick' = tick /\ mishaps' \in 0..MaxMishaps
  BY DEF DriftRead, ChannelsInv, Typed
<1> QED
  BY <1>3, <1>5, <1>6, <1>7, <1>8, OnlySweepMoves

\* A sweep that is over, or dead, leaves the rows as they are.
LEMMA SweepEndsKeeps ==
  ASSUME ChannelsInv, NEW w \in Sweeps, sweep[w].pc # "idle", subs' \subseteq subs,
         sweep' = [sweep EXCEPT ![w] = IdleSweep], tick' \in {tick, {}},
         UNCHANGED <<existing, eligible, rows>>, mishaps' \in 0..MaxMishaps
  PROVE  ChannelsInv'
<1>1. NoAction \in ActType /\ NoAction.previous = NoId /\ NoId \in Nat
  BY DEF NoAction, ActType, AnyCal, NoId
<1>2. /\ IdleSweep \in SweepType /\ IdleSweep.pc = "idle"
      /\ IdsOf(IdleSweep) \subseteq UsedIds \cup {NewId, NoId}
  BY <1>1 DEF IdleSweep, SweepType, IdsOf
<1>3. SweepSound(IdleSweep, rows, subs')
  BY DEF SweepSound, IdleSweep
<1>4. OneCalendar(rows, subs') /\ SubsSound(subs') /\ subs' \in SUBSET SubType
  BY SweepFacts DEF OneCalendar, Named, SubsSound
<1>5. eligible' = eligible /\ existing' = existing /\ rows' = rows
  OBVIOUS
<1> QED
  BY <1>2, <1>3, <1>4, <1>5, InUse, SweepFacts, SweepMoves

LEMMA SweepStepKeeps ==
  ASSUME ChannelsInv, NEW w \in Sweeps, SweepStep(w) \/ SweepFaults(w) PROVE ChannelsInv'
<1>1. CASE RunAction(w)
  BY <1>1, SkipActionKeeps, BeginRegisterKeeps, BeginRenewKeeps, BeginDeregisterKeeps DEF RunAction
<1>2. CASE CallSucceeds(w) \/ WriteActivation(w) \/ RenewalGone(w) \/ DeregisterSucceeds(w) \/ DriftRead(w)
  BY <1>2, CallSucceedsKeeps, WriteActivationKeeps, RenewalGoneKeeps, DeregisterSucceedsKeeps, DriftReadKeeps
<1>3. CASE StopSuperseded(w, TRUE) \/ StopSuperseded(w, FALSE)
  BY <1>3, StopSupersededKeeps
<1>4. CASE \E effect \in BOOLEAN : \/ CallFails(w, effect) \/ DeregisterFails(w, effect)
                                   \/ ActivationFails(w, effect)
  BY <1>4, CallFailsKeeps, DeregisterFailsKeeps, ActivationFailsKeeps
<1>5. CASE DriftSweep(w) \/ DriftFails(w) \/ SweepDies(w)
  <2>1. /\ sweep[w].pc # "idle" /\ subs' \subseteq subs /\ sweep' = [sweep EXCEPT ![w] = IdleSweep]
        /\ tick' \in {tick, {}} /\ UNCHANGED <<existing, eligible, rows>> /\ mishaps' \in 0..MaxMishaps
    BY <1>5, PushChannelsAssumption DEF DriftSweep, DriftFails, SweepDies, Mishap, ChannelsInv, Typed
  <2> QED
    BY <2>1, SweepEndsKeeps
<1> QED
  BY <1>1, <1>2, <1>3, <1>4, <1>5 DEF SweepStep, SweepFaults

-----------------------------------------------------------------------------
(* The steps around the sweeps                                              *)

LEMMA AroundKeeps ==
  ASSUME ChannelsInv,
         \/ TickLapses
         \/ \E c \in Calendars : EligibilityChanges(c)
         \/ \E account \in Accounts, stopped \in SUBSET Rows : DeleteAccount(account, stopped)
         \/ \E s \in subs : \/ \E told \in BOOLEAN : SubscriptionRemoved(s, told)
                            \/ ChannelExpires(s)
         \/ \E r \in Rows : ReauthorizationRequired(r) \/ TimePasses(r)
  PROVE  ChannelsInv'
<1>1. /\ rows \in [Rows -> RowType] /\ subs \in SUBSET SubType /\ eligible \subseteq existing
      /\ existing \subseteq Calendars /\ mishaps \in 0..MaxMishaps /\ MaxMishaps \in Nat
      /\ RowsSound(rows)
  BY PushChannelsAssumption DEF ChannelsInv, Typed
<1>2. \A row \in RowType : Faded(row, row)
  BY DEF Faded
<1>3. CASE TickLapses
  <2>1. \A w \in Sweeps : sweep[w].pc = "idle"
    BY <1>3 DEF TickLapses, ChannelsInv, OneSweep
  <2> QED
    BY <1>1, <1>2, <1>3, <2>1, AroundTheSweeps DEF TickLapses
<1>4. ASSUME NEW c \in Calendars, EligibilityChanges(c) PROVE ChannelsInv'
  <2>1. /\ existing' = existing /\ rows' = rows /\ subs' = subs /\ sweep' = sweep /\ tick' = tick
        /\ eligible' \subseteq existing' /\ mishaps' \in 0..MaxMishaps
    BY <1>1, <1>4 DEF EligibilityChanges, Mishap
  <2> QED
    BY <1>1, <1>2, <2>1, AroundTheSweeps
<1>5. ASSUME NEW account \in Accounts, NEW stopped \in SUBSET Rows, DeleteAccount(account, stopped)
      PROVE  ChannelsInv'
  <2>1. NoRow \in RowType
    BY PushChannelsAssumption DEF NoRow, RowType, NoId, States, AnyCal
  <2>2. /\ rows' \in [Rows -> RowType] /\ \A r \in Rows : rows'[r] = NoRow \/ rows'[r] = rows[r]
    BY <1>1, <1>5, <2>1 DEF DeleteAccount
  <2>3. \A r \in Rows : Faded(rows[r], rows'[r])
    BY <1>1, <1>2, <2>2 DEF Faded
  <2>4. /\ subs' \subseteq subs /\ sweep' = sweep /\ tick' = tick /\ mishaps' \in 0..MaxMishaps
        /\ eligible' \subseteq existing' /\ existing' \subseteq Calendars
    BY <1>1, <1>5 DEF DeleteAccount, Mishap
  <2> QED
    BY <2>2, <2>3, <2>4, AroundTheSweeps
<1>6. ASSUME NEW s \in subs, NEW told \in BOOLEAN, SubscriptionRemoved(s, told) PROVE ChannelsInv'
  <2>1. s.id # NoId
    BY <1>1 DEF SubType, NoId
  <2>2. \A r \in Rows : /\ rows'[r] \in RowType
                        /\ rows'[r] = rows[r] \/ (rows[r].pcid = s.id /\ rows'[r] = [rows[r] EXCEPT !.state = "removed"])
    BY <1>1, <1>6 DEF SubscriptionRemoved, RowType, States
  <2>3. rows' \in [Rows -> RowType]
    BY <1>6, <2>2 DEF SubscriptionRemoved
  <2>4. ASSUME NEW r \in Rows PROVE Faded(rows[r], rows'[r])
    <3>1. CASE rows'[r] = rows[r]
      BY <1>1, <1>2, <3>1
    <3>2. CASE rows[r].pcid = s.id /\ rows'[r] = [rows[r] EXCEPT !.state = "removed"]
      <4>1. rows[r].state # "none"
        BY <1>1, <2>1, <3>2 DEF RowsSound, RowSound, NoRow
      <4> QED
        BY <1>1, <3>2, <4>1 DEF Faded, RowType
    <3> QED
      BY <2>2, <3>1, <3>2
  <2>5. /\ subs' \subseteq subs /\ sweep' = sweep /\ tick' = tick /\ mishaps' \in 0..MaxMishaps
        /\ eligible' = eligible /\ existing' = existing
    BY <1>1, <1>6 DEF SubscriptionRemoved, Mishap
  <2> QED
    BY <1>1, <2>3, <2>4, <2>5, AroundTheSweeps
<1>7. ASSUME NEW s \in subs, ChannelExpires(s) PROVE ChannelsInv'
  <2>1. /\ subs' \subseteq subs /\ rows' = rows /\ sweep' = sweep /\ tick' = tick /\ mishaps' \in 0..MaxMishaps
        /\ eligible' = eligible /\ existing' = existing
    BY <1>1, <1>7 DEF ChannelExpires, Mishap
  <2> QED
    BY <1>1, <1>2, <2>1, AroundTheSweeps
<1>8. ASSUME NEW r \in Rows, ReauthorizationRequired(r) \/ TimePasses(r) PROVE ChannelsInv'
  <2> DEFINE new == rows'[r]
  <2>1. /\ rows' = [rows EXCEPT ![r] = new]
        /\ \/ new = [rows[r] EXCEPT !.asked = TRUE, !.stale = FALSE]
           \/ new = [rows[r] EXCEPT !.next = "past"]
           \/ new = [rows[r] EXCEPT !.stale = TRUE]
           \/ new = [rows[r] EXCEPT !.life = "near"]
    BY <1>1, <1>8 DEF ReauthorizationRequired, TimePasses, RowType
  <2>2. rows[r].state # "none" /\ rows[r] \in RowType
    BY <1>1, <1>8 DEF ReauthorizationRequired, TimePasses, Live, LiveStates
  <2> HIDE DEF new
  <2>3. /\ new \in RowType /\ new.state = rows[r].state /\ new.cal = rows[r].cal
        /\ new.pcid = rows[r].pcid /\ new.secret = rows[r].secret
    BY <2>1, <2>2 DEF RowType
  <2>4. rows' \in [Rows -> RowType] /\ \A q \in Rows : Faded(rows[q], rows'[q])
    BY <1>1, <1>2, <2>1, <2>2, <2>3 DEF Faded
  <2>5. /\ subs' = subs /\ sweep' = sweep /\ tick' = tick /\ mishaps' \in 0..MaxMishaps
        /\ eligible' = eligible /\ existing' = existing
    BY <1>1, <1>8 DEF ReauthorizationRequired, TimePasses, Mishap
  <2> QED
    BY <1>1, <2>4, <2>5, AroundTheSweeps
<1> QED
  BY <1>3, <1>4, <1>5, <1>6, <1>7, <1>8

LEMMA ChannelsStep ==
  ASSUME ChannelsInv, [NarrowSweepNext]_channelVars PROVE ChannelsInv'
<1>1. CASE UNCHANGED channelVars
  <2>1. \A r \in Rows : Faded(rows[r], rows[r])
    BY DEF Faded
  <2>2. /\ rows \in [Rows -> RowType] /\ eligible \subseteq existing /\ existing \subseteq Calendars
        /\ mishaps \in 0..MaxMishaps
    BY DEF ChannelsInv, Typed
  <2> QED
    BY <1>1, <2>1, <2>2, AroundTheSweeps DEF channelVars
<1>2. ASSUME NEW w \in Sweeps, NEW account \in Accounts, StartSweep(w, All) \/ StartSweep(w, {account})
      PROVE  ChannelsInv'
  BY <1>2, StartSweepKeeps DEF All
<1>3. ASSUME NEW w \in Sweeps, StartSweep(w, All)
      PROVE  ChannelsInv'
  BY <1>3, StartSweepKeeps DEF All
<1>4. ASSUME NEW w \in Sweeps, SweepStep(w) \/ SweepFaults(w)
      PROVE  ChannelsInv'
  BY <1>4, SweepStepKeeps
<1> QED
  BY <1>1, <1>2, <1>3, <1>4, AroundKeeps DEF NarrowSweepNext, PushChannelsNext

LEMMA ChannelsStart ==
  ASSUME PushChannelsInit PROVE ChannelsInv
<1>1. NoRow \in RowType /\ NoAction \in ActType /\ NoId \in Nat
  BY PushChannelsAssumption DEF NoRow, NoAction, RowType, ActType, NoId, States, AnyCal
<1>2. IdleSweep \in SweepType
  BY <1>1 DEF IdleSweep, SweepType
<1>3. Typed
  BY <1>1, <1>2, PushChannelsAssumption DEF PushChannelsInit, Typed
<1>4. OneSweep
  BY DEF PushChannelsInit, OneSweep, IdleSweep
<1>5. RowsSound(rows)
  BY DEF PushChannelsInit, RowsSound, RowSound, NoRow, LiveStates
<1>6. SubsSound(subs) /\ OneCalendar(rows, subs)
  BY DEF PushChannelsInit, SubsSound, OneCalendar, Named, NoRow, NoId
<1>7. \A w \in Sweeps : SweepSound(sweep[w], rows, subs)
  BY DEF PushChannelsInit, SweepSound, IdleSweep
<1>8. IsFiniteSet(UsedIds)
  <2>1. IdsOf(IdleSweep) \subseteq {NoId}
    BY DEF IdsOf, IdleSweep, NoAction
  <2>2. UsedIds \subseteq {NoId}
    BY <2>1 DEF PushChannelsInit, UsedIds, IdsOf, NoRow
  <2>3. IsFiniteSet({NoId})
    BY FS_Singleton
  <2> QED
    BY <2>2, <2>3, FS_Subset
<1> QED
  BY <1>3, <1>4, <1>5, <1>6, <1>7, <1>8 DEF ChannelsInv

\* Along every behaviour, that of narrowed sweeps included, a number names the
\* channels of one calendar, an activated row has the secret its channel was
\* given, and one sweep at a time plans and writes on rows of its calendars.
THEOREM ChannelsInvAlways == NarrowSweepSpec => []ChannelsInv
BY ChannelsStart, ChannelsStep, PTL DEF NarrowSweepSpec

LEMMA WideIsNarrow == PushChannelsSpec => NarrowSweepSpec
<1>1. [PushChannelsNext]_channelVars => [NarrowSweepNext]_channelVars
  BY DEF NarrowSweepNext
<1> QED
  BY <1>1, PTL DEF PushChannelsSpec, NarrowSweepSpec

LEMMA ChannelsInvTyped == ASSUME ChannelsInv PROVE PushChannelsTypeOK
<1>1. \A r \in Rows : rows[r] \in RowType
  BY DEF ChannelsInv, Typed
<1>2. \A r \in Rows : rows[r].state # "none" => rows[r].cal \in Calendars
  BY DEF ChannelsInv, RowsSound, RowSound
<1>3. ASSUME NEW c \in Calendars PROVE Cardinality(LiveRowsOf(c)) <= 1
  <2>1. \A r, q \in LiveRowsOf(c) : r = q
    BY DEF LiveRowsOf, Live, ChannelsInv, RowsSound
  <2>2. CASE LiveRowsOf(c) = {}
    BY <2>2, FS_EmptySet
  <2>3. CASE LiveRowsOf(c) # {}
    <3>1. PICK r : LiveRowsOf(c) = {r}
      BY <2>1, <2>3
    <3>2. Cardinality({r}) = 1
      BY FS_Singleton
    <3> QED
      BY <3>1, <3>2
  <2> QED
    BY <2>2, <2>3
<1>4. Cardinality(tick) <= 1
  <2>1. CASE tick = {}
    BY <2>1, FS_EmptySet
  <2>2. CASE tick # {}
    <3>1. PICK w : tick = {w}
      BY <2>2 DEF ChannelsInv, OneSweep
    <3> QED
      BY <3>1, FS_Singleton
  <2> QED
    BY <2>1, <2>2
<1>5. \A s \in subs : s.cal \in Calendars
  BY DEF ChannelsInv, Typed, SubType
<1> QED
  BY <1>1, <1>2, <1>3, <1>4, <1>5 DEF ChannelsInv, Typed, PushChannelsTypeOK, RowType, States

\* The rows, channels and sweeps keep their kinds, and a calendar has at most
\* one live row: the unique index of calendar_push_channels.
THEOREM ChannelsTyped == NarrowSweepSpec => []PushChannelsTypeOK
BY ChannelsInvAlways, ChannelsInvTyped, PTL

LEMMA InvAuthenticates == ASSUME ChannelsInv PROVE ActiveRowAuthenticates
<1> SUFFICES ASSUME NEW r \in Rows, NEW s \in subs, rows[r].state = "active", s.id = rows[r].pcid
             PROVE  s.secret = rows[r].secret /\ s.cal = rows[r].cal
  BY DEF ActiveRowAuthenticates
<1>1. s \in SubType /\ rows[r] \in RowType
  BY DEF ChannelsInv, Typed
<1>2. s.secret = s.id /\ rows[r].secret = rows[r].pcid
  BY DEF ChannelsInv, SubsSound, RowsSound, RowSound
<1>3. Named(s.id, s.cal, rows, subs) /\ Named(s.id, rows[r].cal, rows, subs)
  BY DEF Named
<1>4. s.id \in Nat \ {0} /\ s.cal \in AnyCal /\ rows[r].cal \in AnyCal
  BY <1>1 DEF SubType, RowType, AnyCal
<1> QED
  BY <1>2, <1>3, <1>4 DEF ChannelsInv, OneCalendar

\* An active row authenticates the channel it names, whatever was retried,
\* renewed, registered anew or lost: manage-push-channels.ts.
THEOREM ActiveRowsAuthenticate == NarrowSweepSpec => []ActiveRowAuthenticates
BY ChannelsInvAlways, InvAuthenticates, PTL

LEMMA DriftStep ==
  ASSUME ChannelsInv, [NarrowSweepNext]_channelVars,
         NEW w \in Sweeps, sweep[w].pc = "drift", sweep'[w].pc = "idle",
         NEW s \in subs \ subs', NEW r \in Rows, rows[r].state = "active", rows[r].pcid = s.id
  PROVE  FALSE
<1>1. rows[r].pcid \in sweep[w].known
  BY SweepFacts DEF SweepSound
<1>2. tick = {w} /\ \A v \in Sweeps : v # w => sweep[v].pc = "idle"
  BY SweepFacts DEF ChannelsInv, OneSweep
<1>3. sweep' # sweep /\ sweep \in [Sweeps -> SweepType]
  BY DEF ChannelsInv, Typed
<1>4. \A v \in Sweeps : ~RunAction(v) /\ ~CallSucceeds(v) /\ ~WriteActivation(v) /\ ~RenewalGone(v)
  BY <1>2 DEF RunAction, CallSucceeds, WriteActivation, RenewalGone
<1>5. \A v \in Sweeps : /\ ~DeregisterSucceeds(v) /\ ~DriftRead(v)
                        /\ \A stopped \in BOOLEAN : ~StopSuperseded(v, stopped)
                        /\ \A effect \in BOOLEAN : /\ ~CallFails(v, effect) /\ ~DeregisterFails(v, effect)
                                                   /\ ~ActivationFails(v, effect)
  BY <1>2 DEF DeregisterSucceeds, DriftRead, StopSuperseded, CallFails, DeregisterFails, ActivationFails
<1>6. \A v \in Sweeps : \A scope : ~StartSweep(v, scope)
  BY <1>2 DEF StartSweep
<1>7. PICK v \in Sweeps : DriftSweep(v) \/ DriftFails(v) \/ SweepDies(v)
  <2>1. ~TickLapses /\ (\A c \in Calendars : ~EligibilityChanges(c))
    BY <1>3 DEF TickLapses, EligibilityChanges
  <2>2. \A account \in Accounts, stopped \in SUBSET Rows : ~DeleteAccount(account, stopped)
    BY <1>3 DEF DeleteAccount
  <2>3. \A t \in subs : ~ChannelExpires(t) /\ \A told \in BOOLEAN : ~SubscriptionRemoved(t, told)
    BY <1>3 DEF ChannelExpires, SubscriptionRemoved
  <2>4. \A q \in Rows : ~ReauthorizationRequired(q) /\ ~TimePasses(q)
    BY <1>3 DEF ReauthorizationRequired, TimePasses
  <2>5. ~UNCHANGED channelVars
    BY <1>3 DEF channelVars
  <2> QED
    BY <1>4, <1>5, <1>6, <2>1, <2>2, <2>3, <2>4, <2>5
       DEF NarrowSweepNext, PushChannelsNext, SweepStep, SweepFaults
<1>8. v = w
  BY <1>2, <1>7 DEF DriftSweep, DriftFails, SweepDies
<1>9. DriftSweep(w)
  BY <1>7, <1>8 DEF DriftFails, SweepDies
<1> QED
  BY <1>1, <1>9 DEF DriftSweep

\* The drift reconciliation ends no channel that an active row names: rows are
\* read again after the actions, and no sweep activates one in between.
THEOREM DriftSparesActive == NarrowSweepSpec => DriftSparesKnown
<1>1. ChannelsInv /\ [NarrowSweepNext]_channelVars =>
        [\A w \in Sweeps : sweep[w].pc = "drift" /\ sweep'[w].pc = "idle" =>
           \A s \in subs \ subs' : \A r \in Rows :
             ~(rows[r].state = "active" /\ rows[r].pcid = s.id)]_channelVars
  BY DriftStep
<1> QED
  BY <1>1, ChannelsInvAlways, PTL DEF NarrowSweepSpec, DriftSparesKnown

\* The cron's sweeps of all accounts keep the channels safe.
THEOREM ChannelsStaySafe == PushChannelsSpec => ChannelsAreSafe
BY WideIsNarrow, ActiveRowsAuthenticate, DriftSparesActive, PTL DEF ChannelsAreSafe
=============================================================================
