--------------------------- MODULE MappingChange ---------------------------
(* Changes of a user's source-destination mappings against the runs that      *)
(* read them: services/api/src/utils/{source-destination-mappings,            *)
(* mapping-change}.ts and the reads of packages/sync/src/sync-user.ts.        *)
(* A change takes the user's mutation lock, then the lock of every            *)
(* destination it may touch, and commits in one transaction; a run takes the  *)
(* lock of its destination unless the mutation lock is taken.  The locks are  *)
(* what module SyncLock proves of them: one holder with an intact lease, a    *)
(* holder that can ask whether it still is one, and a waiting mutation that   *)
(* a run sees at its next currency check.  What follows the commit (request   *)
(* row, jobs, acknowledgement) is MappingChanged of PushQueue.                *)
EXTENDS Naturals, FiniteSets

CONSTANTS MapSources, MapTargets,  \* the user's sources and destinations, numbers
          Changes,          \* the changes asked for: by, of, kind, ids
          Mutations,        \* calls of the API
          MappingLimit,     \* what the user's plan allows
          InitialMaps,      \* the mappings to begin with
          MaxLeases         \* bound: leases that lapse under a live holder

UserKey == 0             \* createMappingMutationLockId(userId)
Free == "free"
Run == "run"

(* A change names one calendar and the calendars of the other side.           *)
ChangesOf(by, own, other) == [by : {by}, of : own, kind : {"replace", "add", "remove"},
                              ids : SUBSET other]

ASSUME MappingAssumption ==
  /\ IsFiniteSet(MapSources) /\ IsFiniteSet(MapTargets)
  /\ MapTargets \subseteq Nat \ {UserKey}
  /\ Changes \subseteq ChangesOf("source", MapSources, MapTargets)
                  \cup ChangesOf("target", MapTargets, MapSources)
  /\ Mutations \cap {Free, Run} = {}
  /\ InitialMaps \subseteq MapSources \X MapTargets
  /\ MappingLimit \in Nat /\ Cardinality(InitialMaps) <= MappingLimit
  /\ MaxLeases \in Nat

VARIABLES maps,        \* source_destination_mappings
          mapLock,     \* mapLock[k]: who holds the lock of k
          mutation,    \* mutation[m]: a call
          push,        \* push[d]: the run over d
          pushed,      \* pushed[d]: the sources d was last synced from
          leases       \* bound: what is left of MaxLeases

mappingVars == <<maps, mapLock, mutation, push, pushed, leases>>

Keys == MapTargets \cup {UserKey}
NoChange == [by |-> "none", of |-> UserKey, kind |-> "none", ids |-> {}]
IdleMutation == [pc |-> "new", change |-> NoChange, todo |-> {}, held |-> {}]
IdlePush == [pc |-> "idle", sources |-> {}]

MappingTypeOK ==
  /\ maps \subseteq MapSources \X MapTargets
  /\ mapLock \in [Keys -> Mutations \cup {Free, Run}]
  /\ mapLock[UserKey] # Run
  /\ mutation \in [Mutations -> [pc : {"new", "user", "resolve", "lock", "commit", "release",
                                       "unlock", "done", "dead"},
                                 change : Changes \cup {NoChange},
                                 todo : SUBSET MapTargets, held : SUBSET MapTargets]]
  /\ \A m \in Mutations :
       /\ mutation[m].held \subseteq mutation[m].todo
       /\ mutation[m].todo # {} => mutation[m].pc \in {"lock", "commit"}
       /\ mutation[m].pc \in {"user", "resolve", "lock", "commit"} =>
            mutation[m].change \in Changes
  /\ push \in [MapTargets -> [pc : {"idle", "locked", "read", "gate", "write", "release"},
                              sources : SUBSET MapSources]]
  /\ pushed \in [MapTargets -> SUBSET MapSources]
  /\ leases \in 0..MaxLeases

MappedTo(d, rows) == {s \in MapSources : <<s, d>> \in rows}

MappingInit ==
  /\ maps = InitialMaps
  /\ mapLock = [k \in Keys |-> Free]
  /\ mutation = [m \in Mutations |-> IdleMutation]
  /\ push = [d \in MapTargets |-> IdlePush]
  /\ pushed = [d \in MapTargets |-> MappedTo(d, InitialMaps)]
  /\ leases = MaxLeases

AtM(m, pc) == mutation[m].pc = pc
MoveTo(m, pc) == mutation' = [mutation EXCEPT ![m] =
                   IF pc \in {"release", "unlock", "done", "dead"}
                   THEN [IdleMutation EXCEPT !.pc = pc] ELSE [@ EXCEPT !.pc = pc]]

----------------------------------------------------------------------------
(* runWithMappingMutationLocks and the two transactions it is called with.    *)

AskChange(m, c) ==
  /\ AtM(m, "new")
  /\ mutation' = [mutation EXCEPT ![m].pc = "user", ![m].change = c]
  /\ UNCHANGED <<maps, mapLock, push, pushed, leases>>

LockUser(m) ==
  /\ AtM(m, "user")
  /\ mapLock[UserKey] = Free
  /\ mapLock' = [mapLock EXCEPT ![UserKey] = m]
  /\ MoveTo(m, "resolve")
  /\ UNCHANGED <<maps, push, pushed, leases>>

\* Mutant: the destinations a source loses are not locked.
DestinationsNamed(c) == IF c.by = "source" THEN c.ids ELSE {c.of}

(* resolveDestinationCalendarIds: the destinations named and, when a source   *)
(* changes its destinations, the ones it has now.                             *)
DestinationsOf(c) ==
  IF c.by = "source" THEN {d \in MapTargets : <<c.of, d>> \in maps} \cup c.ids ELSE {c.of}

ResolveDestinations(m) ==
  /\ AtM(m, "resolve")
  /\ mutation' = [mutation EXCEPT ![m].pc = "lock",
                                  ![m].todo = DestinationsOf(mutation[m].change)]
  /\ UNCHANGED <<maps, mapLock, push, pushed, leases>>

ToLock(m) == mutation[m].todo \ mutation[m].held

\* Mutant: the ids are locked as they come.
NextToLockAny(m, d) == d \in ToLock(m)

(* The ids are sorted.                                                        *)
NextToLock(m, d) == d \in ToLock(m) /\ \A e \in ToLock(m) : d <= e

LockDestination(m, d) ==
  /\ AtM(m, "lock")
  /\ NextToLock(m, d)
  /\ mapLock[d] = Free
  /\ mapLock' = [mapLock EXCEPT ![d] = m]
  /\ mutation' = [mutation EXCEPT ![m].held = @ \cup {d}]
  /\ UNCHANGED <<maps, push, pushed, leases>>

(* A lock is not acquired: a newer waiter takes the place, or time is up.     *)
GiveUpLocks(m) ==
  /\ \/ AtM(m, "user") /\ mapLock[UserKey] # Free /\ MoveTo(m, "done")
     \/ AtM(m, "lock") /\ (\E d \in ToLock(m) : mapLock[d] # Free) /\ MoveTo(m, "release")
  /\ UNCHANGED <<maps, mapLock, push, pushed, leases>>

(* isHeld of every handle before the callback.                                *)
CheckLocksHeld(m) ==
  /\ AtM(m, "lock") /\ ToLock(m) = {}
  /\ MoveTo(m, IF \A k \in mutation[m].held \cup {UserKey} : mapLock[k] = m
               THEN "commit" ELSE "release")
  /\ UNCHANGED <<maps, mapLock, push, pushed, leases>>

(* resolveMappedIds over what the transaction reads.                          *)
NextIds(c, previous) ==
  CASE c.kind = "replace" -> c.ids
    [] c.kind = "add" -> previous \cup c.ids
    [] c.kind = "remove" -> previous \ c.ids

PairsOf(c, ids) == IF c.by = "source" THEN {c.of} \X ids ELSE ids \X {c.of}
PreviousIds(c) == IF c.by = "source" THEN {d \in MapTargets : <<c.of, d>> \in maps}
                  ELSE MappedTo(c.of, maps)

\* Mutant: the count is compared before the new mappings are added to it.
ExceedsAlready(previous, next) ==
  /\ Cardinality(next) > Cardinality(previous)
  /\ Cardinality(maps) > MappingLimit

(* exceedsMappingLimit: only a change that adds is held to the limit.         *)
ExceedsMappingLimit(previous, next) ==
  /\ Cardinality(next) > Cardinality(previous)
  /\ Cardinality(maps) - Cardinality(previous) + Cardinality(next) > MappingLimit

(* The transaction, alone under its advisory lock.                            *)
CommitChange(m) ==
  /\ AtM(m, "commit")
  /\ LET c == mutation[m].change
         previous == PreviousIds(c)
         next == NextIds(c, previous)
     IN maps' = IF ExceedsMappingLimit(previous, next) THEN maps
                ELSE (maps \ PairsOf(c, previous)) \cup PairsOf(c, next)
  /\ MoveTo(m, "release")
  /\ UNCHANGED <<mapLock, push, pushed, leases>>

(* releaseMappingMutationLocks: the destinations, then the user, each only    *)
(* where the key still holds this call's token.                               *)
ReleaseDestinations(m) ==
  /\ AtM(m, "release")
  /\ mapLock' = [k \in Keys |-> IF k # UserKey /\ mapLock[k] = m THEN Free ELSE mapLock[k]]
  /\ MoveTo(m, "unlock")
  /\ UNCHANGED <<maps, push, pushed, leases>>

ReleaseUser(m) ==
  /\ AtM(m, "unlock")
  /\ mapLock' = [k \in Keys |-> IF mapLock[k] = m THEN Free ELSE mapLock[k]]
  /\ MoveTo(m, "done")
  /\ UNCHANGED <<maps, push, pushed, leases>>

MutatorDies(m) ==
  /\ mutation[m].pc \notin {"new", "done", "dead"}
  /\ leases > 0 /\ leases' = leases - 1
  /\ MoveTo(m, "dead")
  /\ UNCHANGED <<maps, mapLock, push, pushed>>

MapLeaseLapses(k) ==
  /\ mapLock[k] # Free
  /\ IF mapLock[k] # Run /\ AtM(mapLock[k], "dead") THEN UNCHANGED leases
     ELSE leases > 0 /\ leases' = leases - 1
  /\ mapLock' = [mapLock EXCEPT ![k] = Free]
  /\ UNCHANGED <<maps, mutation, push, pushed>>

----------------------------------------------------------------------------
(* A run over d.                                                             *)

MutationWaitsFor(d) == \E m \in Mutations : AtM(m, "lock") /\ NextToLock(m, d)

StartPush(d) ==
  /\ push[d].pc = "idle"
  /\ mapLock[d] = Free /\ mapLock[UserKey] = Free
  /\ mapLock' = [mapLock EXCEPT ![d] = Run]
  /\ push' = [push EXCEPT ![d].pc = "locked"]
  /\ UNCHANGED <<maps, mutation, pushed, leases>>

ReadMappings(d) ==
  /\ push[d].pc = "locked"
  /\ push' = [push EXCEPT ![d] = [pc |-> "read", sources |-> MappedTo(d, maps)]]
  /\ UNCHANGED <<maps, mapLock, mutation, pushed, leases>>

(* haveSourceCalendarsChanged under the ingest locks ends the run.            *)
RereadMappings(d) ==
  /\ push[d].pc = "read"
  /\ push' = [push EXCEPT ![d].pc = IF push[d].sources = MappedTo(d, maps)
                                    THEN "gate" ELSE "release"]
  /\ UNCHANGED <<maps, mapLock, mutation, pushed, leases>>

PushGate(d) ==
  /\ push[d].pc = "gate"
  /\ push' = [push EXCEPT ![d].pc = IF mapLock[d] = Run /\ ~MutationWaitsFor(d)
                                    THEN "write" ELSE "release"]
  /\ UNCHANGED <<maps, mapLock, mutation, pushed, leases>>

WritePush(d) ==
  /\ push[d].pc = "write"
  /\ pushed' = [pushed EXCEPT ![d] = push[d].sources]
  /\ push' = [push EXCEPT ![d].pc = "release"]
  /\ UNCHANGED <<maps, mapLock, mutation, leases>>

ReleasePush(d) ==
  /\ push[d].pc = "release"
  /\ mapLock' = IF mapLock[d] = Run THEN [mapLock EXCEPT ![d] = Free] ELSE mapLock
  /\ push' = [push EXCEPT ![d] = IdlePush]
  /\ UNCHANGED <<maps, mutation, pushed, leases>>

----------------------------------------------------------------------------
MutationStep(m) ==
  \/ LockUser(m) \/ ResolveDestinations(m) \/ CheckLocksHeld(m) \/ CommitChange(m)
  \/ ReleaseDestinations(m) \/ ReleaseUser(m)
  \/ \E d \in MapTargets : LockDestination(m, d)

PushStep(d) == \/ ReadMappings(d) \/ RereadMappings(d) \/ PushGate(d)
               \/ WritePush(d) \/ ReleasePush(d)

MappingNext ==
  \/ \E m \in Mutations : \/ \E c \in Changes : AskChange(m, c)
                          \/ MutationStep(m) \/ GiveUpLocks(m) \/ MutatorDies(m)
  \/ \E k \in Keys : MapLeaseLapses(k)
  \/ \E d \in MapTargets : StartPush(d) \/ PushStep(d)

DeadLeaseLapses(k) ==
  mapLock[k] \in Mutations /\ AtM(mapLock[k], "dead") /\ MapLeaseLapses(k)

(* Calls and runs take their steps and the lease of a dead holder lapses.     *)
(* Nothing is assumed of giving up.  A waiting mutation gets a lock that is   *)
(* free again and again: it preempts, and SyncLock's PreemptorServed is about *)
(* just that.                                                                 *)
MappingFairness ==
  /\ \A m \in Mutations :
       /\ WF_mappingVars(MutationStep(m))
       /\ SF_mappingVars(\E d \in MapTargets : LockDestination(m, d))
  /\ \A d \in MapTargets : WF_mappingVars(PushStep(d))
  /\ WF_mappingVars(\E k \in Keys : DeadLeaseLapses(k))

MappingSpec == MappingInit /\ [][MappingNext]_mappingVars
MappingFairSpec == MappingSpec /\ MappingFairness

----------------------------------------------------------------------------
(* Changes that overlap, from either side of the mapping and with lapsed      *)
(* locks, never take the user past the limit of the plan: the count is taken  *)
(* where it is used, under the transaction's own lock.                        *)
LimitHeld == Cardinality(maps) <= MappingLimit

(* As long as no lease has lapsed, a run writes to a destination only what    *)
(* its mappings say at that moment: every change waits for the runs over all  *)
(* the destinations it takes something from or gives something to.            *)
PushesWhatIsMapped ==
  [][\A d \in MapTargets :
       /\ leases = MaxLeases
       /\ push[d].pc = "write" /\ push'[d].pc # "write"
       => pushed'[d] = MappedTo(d, maps)]_mappingVars

(* Every change comes to its end although no caller gives up: locks are taken *)
(* in one order, so calls that overlap after a lapsed mutation lock do not    *)
(* wait for each other, and runs stay away while a change is under way.       *)
ChangesSettle ==
  \A m \in Mutations : []<>(mutation[m].pc \in {"new", "done", "dead"})
=============================================================================
