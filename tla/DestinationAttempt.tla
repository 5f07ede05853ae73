------------------------- MODULE DestinationAttempt -------------------------
(* What an attempt to sync one destination leaves behind: the retry state of  *)
(* its calendar row, its write access, and which mappings have had their      *)
(* first sync.  packages/sync/src/{sync-user,destination-errors,first-sync}.ts*)
(* An attempt works under the calendar lock but its verdict is written after  *)
(* its last look at the lock, so attempts overlap when a lease lapses; a      *)
(* preempting waiter (a mapping mutation) takes currency away from a holder   *)
(* without taking the lock, and may go away again.                            *)
(* What a run writes to the destination is module DestinationSync; here a     *)
(* source is copied or it is not.                                             *)
EXTENDS Naturals, FiniteSets

CONSTANTS Attempts,        \* attempts that may be under way
          MappedSources,   \* source calendars
          MaxCount,        \* bound: failureCount counts no further
          MaxTrouble       \* bound: faults, preemptions and edits together

ASSUME AttemptAssumption ==
  /\ IsFiniteSet(Attempts) /\ IsFiniteSet(MappedSources)
  /\ MaxCount \in Nat \ {0} /\ MaxTrouble \in Nat

VARIABLES retry,       \* failureCount and nextAttemptAt of the calendar row
          due,         \* nextAttemptAt is null or has passed
          pushable,    \* the row has the push capability
          mapped,      \* sources mapped to the destination
          firstSynced, \* mappings whose firstSyncedAt is set
          copied,      \* sources whose events are all on the destination
          health,      \* what the provider does with a write
          lockHolder,  \* the attempt whose token is in the lock key
          preemptor,   \* a preempting waiter is in the lock's stack
          attempt,     \* attempt[a]: where the attempt stands
          trouble      \* bound: what is left of MaxTrouble

attemptVars == <<retry, due, pushable, mapped, firstSynced, copied, health,
                 lockHolder, preemptor, attempt, trouble>>
world == <<mapped, copied, health, preemptor>>

Nobody == "nobody"
RESET == [count |-> 0, next |-> 0]      \* RESET_CALENDAR_BACKOFF_STATE
NoResult == [done |-> 0, failed |-> 0, denied |-> FALSE]
IdleAttempt == [pc |-> "idle", seen |-> RESET, sources |-> {}, read |-> {}, todo |-> {},
                superseded |-> FALSE, result |-> NoResult, verdict |-> "none"]
Verdicts == {"failed", "inconclusive", "not_writable", "succeeded"}

RetryStates == [count : 0..MaxCount, next : 0..(Cardinality(Attempts) + 1)]

DestinationAttemptTypeOK ==
  /\ retry \in RetryStates
  /\ (retry.count = 0) <=> (retry.next = 0)
  /\ due \in BOOLEAN /\ (retry = RESET => due)
  /\ pushable \in BOOLEAN /\ preemptor \in BOOLEAN
  /\ mapped \subseteq MappedSources /\ copied \subseteq MappedSources
  /\ firstSynced \subseteq mapped
  /\ health \in {"up", "broken", "readonly"}
  /\ lockHolder \in Attempts \cup {Nobody}
  /\ \A a \in Attempts :
       /\ attempt[a].pc \in {"idle", "locked", "looked", "listed", "gate", "push",
                             "ended", "check", "reread", "write", "release"}
       /\ attempt[a].seen \in RetryStates
       /\ attempt[a].verdict \in Verdicts \cup {"none"}
       /\ attempt[a].read \subseteq attempt[a].sources
       /\ attempt[a].result.done + attempt[a].result.failed <= 2 * Cardinality(MappedSources)
  /\ trouble \in 0..MaxTrouble

DestinationAttemptInit ==
  /\ retry = RESET /\ due = TRUE /\ pushable = TRUE
  /\ mapped = MappedSources
  /\ copied \in {{}, MappedSources} /\ firstSynced = copied   \* new, or long in use
  /\ health = "up" /\ lockHolder = Nobody /\ preemptor = FALSE
  /\ attempt = [a \in Attempts |-> IdleAttempt]
  /\ trouble = MaxTrouble

Trouble == trouble > 0 /\ trouble' = trouble - 1

At(a, pc) == attempt[a].pc = pc
Go(a, rec) == attempt' = [attempt EXCEPT ![a] = rec]
GoTo(a, pc) == Go(a, IF pc = "release" THEN [IdleAttempt EXCEPT !.pc = pc]
                     ELSE [attempt[a] EXCEPT !.pc = pc])
(* What is left of an attempt once its verdict is known.                      *)
Judged(a, verdict) == [IdleAttempt EXCEPT !.pc = "check", !.seen = attempt[a].seen,
                                          !.verdict = verdict]

(* handle.isCurrent: the lock is still the attempt's and nobody preempts it.  *)
IsAttemptHeld(a) == lockHolder = a /\ ~preemptor

----------------------------------------------------------------------------
(* The attempt.                                                              *)

AcquireDestination(a) ==
  /\ At(a, "idle") /\ pushable
  /\ lockHolder = Nobody
  /\ lockHolder' = a
  /\ GoTo(a, "locked")
  /\ UNCHANGED <<retry, due, pushable, firstSynced, world, trouble>>

(* getDestinationAttempt and isDestinationAttemptEligible.                    *)
LookUpDestination(a) ==
  /\ At(a, "locked")
  /\ Go(a, IF pushable /\ due THEN [attempt[a] EXCEPT !.pc = "looked", !.seen = retry]
           ELSE [IdleAttempt EXCEPT !.pc = "release"])
  /\ UNCHANGED <<retry, due, pushable, firstSynced, lockHolder, world, trouble>>

(* The provider does not resolve: nothing is attempted, nothing recorded.     *)
ProviderUnresolved(a) ==
  /\ At(a, "looked")
  /\ Trouble
  /\ GoTo(a, "release")
  /\ UNCHANGED <<retry, due, pushable, firstSynced, lockHolder, world>>

ListMappedSources(a) ==
  /\ At(a, "looked")
  /\ Go(a, [attempt[a] EXCEPT !.pc = "listed", !.sources = mapped])
  /\ UNCHANGED <<retry, due, pushable, firstSynced, lockHolder, world, trouble>>

(* The mapped sources are read again under the ingest locks; a change makes   *)
(* the attempt a superseded one, with nothing read.                           *)
ReadLocalState(a) ==
  /\ At(a, "listed")
  /\ Go(a, IF mapped # attempt[a].sources
           THEN [attempt[a] EXCEPT !.pc = "ended", !.superseded = TRUE]
           ELSE [attempt[a] EXCEPT !.pc = "gate", !.read = mapped,
                   !.todo = (mapped \ copied) \cup (copied \ mapped)])
  /\ UNCHANGED <<retry, due, pushable, firstSynced, lockHolder, world, trouble>>

(* isAttemptCurrent before the first chunk and after every one.  Only the     *)
(* deadline, the abort signal and changed sources set superseded.             *)
Gate(a) ==
  /\ At(a, "gate")
  /\ GoTo(a, IF IsAttemptHeld(a) /\ attempt[a].todo # {} THEN "push" ELSE "ended")
  /\ UNCHANGED <<retry, due, pushable, firstSynced, lockHolder, world, trouble>>

DeadlineAtGate(a) ==
  /\ At(a, "gate")
  /\ Trouble
  /\ Go(a, [attempt[a] EXCEPT !.pc = "ended", !.superseded = TRUE])
  /\ UNCHANGED <<retry, due, pushable, firstSynced, lockHolder, world>>

(* A chunk: the copies of s are pushed, or removed when s is not mapped.      *)
PushChunk(a, s) ==
  /\ At(a, "push") /\ s \in attempt[a].todo
  /\ LET next == [attempt[a] EXCEPT !.pc = "gate", !.todo = @ \ {s}] IN
     IF health = "up"
     THEN /\ copied' = IF s \in attempt[a].read THEN copied \cup {s} ELSE copied \ {s}
          /\ Go(a, [next EXCEPT !.result.done = @ + 1])
     ELSE /\ Go(a, [next EXCEPT !.result.failed = @ + 1,
                                !.result.denied = health = "readonly"])
          /\ UNCHANGED copied
  /\ UNCHANGED <<retry, due, pushable, firstSynced, lockHolder, mapped, health, preemptor, trouble>>

(* resolveThrownDestinationVerdict: a refused credential, a refused write, or *)
(* anything else that throws, a query among them.                             *)
AttemptThrows(a) ==
  /\ attempt[a].pc \in {"looked", "listed", "gate", "push", "ended"}
  /\ \/ health # "up" /\ attempt[a].pc # "ended" /\ UNCHANGED trouble
        /\ Go(a, Judged(a, IF health = "readonly" THEN "not_writable" ELSE "failed"))
     \/ Trouble
        /\ Go(a, Judged(a, "inconclusive"))
  /\ UNCHANGED <<retry, due, pushable, firstSynced, lockHolder, world>>

(* resolveDestinationAttemptVerdict.                                          *)
ResolveVerdict(result, superseded) ==
  IF superseded /\ result.done + result.failed = 0 THEN "inconclusive"
  ELSE IF result.done > 0 \/ result.failed = 0 THEN "succeeded"
  ELSE IF result.denied THEN "not_writable" ELSE "failed"

\* Mutant: a mapping that was removed meanwhile is recorded too.
RecordedForAll(read) == firstSynced \cup read

(* recordFirstSync updates the mapping rows that are still there.             *)
Recorded(read) == firstSynced \cup (read \cap mapped)

(* The verdict, and recordCompletedFirstSyncs, which looks at superseded and  *)
(* not at the lock.                                                           *)
EndAttempt(a) ==
  /\ At(a, "ended")
  /\ LET verdict == ResolveVerdict(attempt[a].result, attempt[a].superseded) IN
     /\ firstSynced' = IF verdict = "succeeded" /\ ~attempt[a].superseded
                       THEN Recorded(attempt[a].read)
                       ELSE firstSynced
     /\ Go(a, Judged(a, verdict))
  /\ UNCHANGED <<retry, due, pushable, lockHolder, world, trouble>>

(* applyDestinationAttemptVerdict: whether the attempt is still its own.      *)
CheckOwnership(a) ==
  /\ At(a, "check")
  /\ GoTo(a, CASE ~IsAttemptHeld(a) -> "release"
               [] attempt[a].verdict = "failed" -> "reread"
               [] attempt[a].verdict = "not_writable" -> "write"
               [] attempt[a].verdict = "succeeded" /\ attempt[a].seen.count > 0 -> "write"
               [] OTHER -> "release")
  /\ UNCHANGED <<retry, due, pushable, firstSynced, lockHolder, world, trouble>>

(* escalateDestinationBackoff: hasSameRetryState of a row that is read again. *)
RereadDestination(a) ==
  /\ At(a, "reread")
  /\ GoTo(a, IF pushable /\ retry = attempt[a].seen THEN "write" ELSE "release")
  /\ UNCHANGED <<retry, due, pushable, firstSynced, lockHolder, world, trouble>>

FreshNext == CHOOSE n \in 1..(Cardinality(Attempts) + 1) :
               n \notin {retry.next} \cup {attempt[a].seen.next : a \in Attempts}

\* buildCalendarBackoffState.
Escalated(seen) == [count |-> IF seen.count < MaxCount THEN seen.count + 1 ELSE MaxCount,
                    next |-> FreshNext]

\* Mutant: the backoff is set whatever the retry state has become.
EscalateAnyway(seen) == Escalated(seen)

(* applyDestinationBackoff: compare and set on the observed retry state.      *)
Escalate(seen) == IF retry = seen THEN Escalated(seen) ELSE retry

WriteVerdict(a) ==
  /\ At(a, "write")
  /\ CASE attempt[a].verdict = "failed" ->
            /\ retry' = Escalate(attempt[a].seen)
            /\ due' = (due /\ retry' = retry)
            /\ UNCHANGED pushable
       [] attempt[a].verdict = "succeeded" ->
            retry' = RESET /\ due' = TRUE /\ UNCHANGED pushable
       [] OTHER -> pushable' = FALSE /\ UNCHANGED <<retry, due>>
  /\ GoTo(a, "release")
  /\ UNCHANGED <<firstSynced, lockHolder, world, trouble>>

ReleaseDestination(a) ==
  /\ At(a, "release")
  /\ lockHolder' = IF lockHolder = a THEN Nobody ELSE lockHolder
  /\ Go(a, IdleAttempt)
  /\ UNCHANGED <<retry, due, pushable, firstSynced, world, trouble>>

----------------------------------------------------------------------------
(* Everyone else.                                                            *)

(* A lease that is not renewed lapses; the attempt may still be running.      *)
DestinationLeaseLapses ==
  /\ lockHolder # Nobody
  /\ \/ Trouble
     \/ At(lockHolder, "idle") /\ UNCHANGED trouble
  /\ lockHolder' = Nobody
  /\ UNCHANGED <<retry, due, pushable, firstSynced, world, attempt>>

AttemptDies(a) ==
  /\ ~At(a, "idle")
  /\ Trouble
  /\ Go(a, IdleAttempt)
  /\ UNCHANGED <<retry, due, pushable, firstSynced, lockHolder, world>>

MutationWaits ==
  /\ ~preemptor
  /\ Trouble
  /\ preemptor' = TRUE
  /\ UNCHANGED <<retry, due, pushable, firstSynced, lockHolder, mapped, copied, health, attempt>>

(* It gives up, or it gets the lock once that is free, replaces the mappings  *)
(* and lets go.                                                               *)
MutationLeaves ==
  /\ preemptor
  /\ preemptor' = FALSE
  /\ \/ UNCHANGED <<mapped, firstSynced>>
     \/ lockHolder = Nobody /\ mapped' \in SUBSET MappedSources
        /\ firstSynced' = firstSynced \cap mapped'
  /\ UNCHANGED <<retry, due, pushable, lockHolder, copied, health, attempt, trouble>>

BackoffElapses ==
  /\ ~due
  /\ due' = TRUE
  /\ UNCHANGED <<retry, pushable, firstSynced, lockHolder, world, attempt, trouble>>

HealthTurns(h) ==
  /\ h # health
  /\ IF h = "up" THEN UNCHANGED trouble ELSE Trouble
  /\ health' = h
  /\ UNCHANGED <<retry, due, pushable, firstSynced, lockHolder, mapped, copied, preemptor, attempt>>

(* Rediscovery finds the calendar writable again and restores the capability. *)
WritableAgain ==
  /\ ~pushable /\ health # "readonly"
  /\ pushable' = TRUE
  /\ UNCHANGED <<retry, due, firstSynced, lockHolder, world, attempt, trouble>>

(* A source that was copied gets an event that is not.                        *)
SourceChanges(s) ==
  /\ s \in copied
  /\ Trouble
  /\ copied' = copied \ {s}
  /\ UNCHANGED <<retry, due, pushable, firstSynced, lockHolder, mapped, health, preemptor, attempt>>

----------------------------------------------------------------------------
AttemptStep(a) ==
  \/ AcquireDestination(a) \/ LookUpDestination(a) \/ ListMappedSources(a)
  \/ ReadLocalState(a) \/ Gate(a) \/ (\E s \in MappedSources : PushChunk(a, s))
  \/ EndAttempt(a) \/ CheckOwnership(a) \/ RereadDestination(a) \/ WriteVerdict(a)
  \/ ReleaseDestination(a)

DestinationAttemptNext ==
  \/ \E a \in Attempts :
       \/ AttemptStep(a) \/ ProviderUnresolved(a) \/ DeadlineAtGate(a)
       \/ AttemptThrows(a) \/ AttemptDies(a)
  \/ DestinationLeaseLapses \/ MutationWaits \/ MutationLeaves \/ BackoffElapses
  \/ \E h \in {"up", "broken", "readonly"} : HealthTurns(h)
  \/ WritableAgain
  \/ \E s \in MappedSources : SourceChanges(s)

(* Jobs for the destination keep coming and run to their end, waiters give up *)
(* after their deadline, a lease nobody renews lapses, time passes, and       *)
(* rediscovery comes round.                                                   *)
LeaseOfDeadLapses == lockHolder # Nobody /\ At(lockHolder, "idle") /\ DestinationLeaseLapses
DestinationAttemptFairness ==
  /\ \A a \in Attempts : WF_attemptVars(AttemptStep(a))
  /\ WF_attemptVars(MutationLeaves)
  /\ WF_attemptVars(LeaseOfDeadLapses)
  /\ WF_attemptVars(BackoffElapses)
  /\ WF_attemptVars(WritableAgain)

DestinationAttemptSpec == DestinationAttemptInit /\ [][DestinationAttemptNext]_attemptVars
DestinationAttemptFairSpec == DestinationAttemptSpec /\ DestinationAttemptFairness

----------------------------------------------------------------------------
(* The retry state climbs one step at a time: a backoff is written only over  *)
(* the state its attempt was made against, although the lease may lapse       *)
(* between the attempt's last look at the lock and its write, and another     *)
(* attempt's verdict may land in between.                                     *)
BackoffClimbs ==
  [][retry' # retry => \/ retry' = RESET
                       \/ retry' = Escalated(retry)]_attemptVars

(* A destination that works recovers: whatever failed before, once it accepts *)
(* writes its backoff is cleared, its capability is back and every mapped     *)
(* source is copied.                                                          *)
HealthyRecovers ==
  <>[](health = "up" => retry = RESET /\ pushable /\ copied = mapped)

(* "records the first sync of every source the run read once its copies       *)
(* landed" (packages/sync/tests/destination-backoff-engine.test.ts:686): the  *)
(* first sync of a mapping is recorded only when an attempt got something     *)
(* done or everything was there already.                                      *)
FirstSyncHasCopies ==
  [][\A s \in firstSynced' \ firstSynced :
       \/ s \in copied
       \/ \E a \in Attempts : At(a, "ended") /\ s \in attempt[a].read
                              /\ attempt[a].result.done > 0]_attemptVars
=============================================================================
