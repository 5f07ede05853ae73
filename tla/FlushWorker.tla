---------------------------- MODULE FlushWorker ----------------------------
(* The writer of an ingest lane: callers reserve weight before they fetch,   *)
(* then submit a flush or give the weight back.                              *)
(*   packages/calendar/src/core/utils/serial-flush-worker.ts                 *)
(*   services/cron/src/utils/ingest-lanes.ts (one per lane)                  *)
(* The program is single threaded: an action is what runs between two        *)
(* awaits.  The item-counted submit() that bypasses reserve() has no caller. *)
EXTENDS Integers, Sequences, FiniteSets

CONSTANTS Callers,         \* the sources of the lane
          Weight,          \* Weight[c], as estimateIngestWeight gives it
          Budget,          \* WEIGHT_BUDGET
          ExpressWeight,   \* Budget / EXPRESS_WEIGHT_DIVISOR
          Headroom,        \* Budget / EXPRESS_HEADROOM_DIVISOR
          MaxOvertakes,    \* EXPRESS_MAX_OVERTAKES
          WriterSlots      \* writerConcurrency

ASSUME FlushWorkerAssumption ==
  /\ IsFiniteSet(Callers)
  /\ Weight \in [Callers -> Nat \ {0}]
  /\ Budget \in Nat \ {0} /\ ExpressWeight \in 0..Budget /\ Headroom \in Nat
  /\ MaxOvertakes \in Nat \ {0} /\ WriterSlots \in Nat \ {0}

VARIABLES phase,           \* phase[c]: where c's reservation is
          parked,          \* weightWaiters, aborted ones included
          overtakes,       \* expressOvertakes
          outstanding,     \* outstandingWeight
          flushQueue,      \* queue
          slotsUsed,       \* writerSlotsInUse
          slotQueue,       \* writerSlotWaiters
          pump,            \* "off", "on", or "asleep" on a free slot
          told,            \* callers whose promise the deadline rejected
          hung,            \* items whose preparation or run never returns
          closing          \* "no", "waiting" or "done"

flushVars == <<phase, parked, overtakes, outstanding, flushQueue, slotsUsed,
               slotQueue, pump, told, hung, closing>>
reserveVars == <<parked, overtakes, outstanding>>
writerVars == <<flushQueue, slotsUsed, slotQueue, pump, hung>>

Clamped(c) == IF Weight[c] > Budget THEN Budget ELSE Weight[c]
InFlight(ph) == {c \in Callers : ph[c] \in {"preparing", "ready", "running"}}
Holders(ph) == {c \in Callers : ph[c] \in {"held", "queued"}} \cup InFlight(ph)

FlushTypeOK ==
  /\ phase \in [Callers -> {"idle", "parked", "aborted", "held", "queued",
                            "preparing", "ready", "running"}]
  /\ parked \in Seq(Callers) /\ flushQueue \in Seq(Callers) /\ slotQueue \in Seq(Callers)
  /\ overtakes \in 0..MaxOvertakes
  /\ outstanding \in Int /\ slotsUsed \in Int
  /\ pump \in {"off", "on", "asleep"}
  /\ told \subseteq Callers /\ hung \subseteq Callers
  /\ closing \in {"no", "waiting", "done"}

FlushInit ==
  /\ phase = [c \in Callers |-> "idle"]
  /\ parked = <<>> /\ overtakes = 0 /\ outstanding = 0
  /\ flushQueue = <<>> /\ slotsUsed = 0 /\ slotQueue = <<>>
  /\ pump = "off" /\ told = {} /\ hung = {} /\ closing = "no"

----------------------------------------------------------------------------
(* The queue: its first callers leave it, reaped or granted.                 *)

Books == [phase |-> phase, parked |-> parked, overtakes |-> overtakes,
          outstanding |-> outstanding]
Keep(b) == /\ parked' = b.parked /\ overtakes' = b.overtakes
           /\ outstanding' = b.outstanding

(* What a set of callers weighs, counted by the unit.                        *)
WeightOf(S) == Cardinality(UNION {{c} \X (1..Clamped(c)) : c \in S})

Heads(b, n) == {b.parked[i] : i \in 1..n}
Granting(b, n) == {c \in Heads(b, n) : b.phase[c] = "parked"}

TakeHeads(b, n) ==
  [phase |-> [c \in Callers |-> IF c \notin Heads(b, n) THEN b.phase[c]
                               ELSE IF b.phase[c] = "aborted" THEN "idle" ELSE "held"],
   parked |-> SubSeq(b.parked, n + 1, Len(b.parked)),
   overtakes |-> IF n = 0 THEN b.overtakes ELSE 0,
   outstanding |-> b.outstanding + WeightOf(Granting(b, n))]

(* How many heads one after the other are at positions of S.                 *)
HeadsIn(b, S) == CHOOSE n \in 0..Len(b.parked) : 1..n \subseteq S /\ n + 1 \notin S

Aborted(b) == {i \in DOMAIN b.parked : b.phase[b.parked[i]] = "aborted"}

(* grantWeight: heads are reaped or granted until one does not fit.          *)
GrantWeight(b) ==
  TakeHeads(b, HeadsIn(b, Aborted(b) \cup {i \in DOMAIN b.parked :
                            b.outstanding + WeightOf(Granting(b, i)) <= Budget}))

(* grantOvertakenHead: aborted heads are reaped, one is granted.             *)
GrantOvertakenHead(b) ==
  LET n == HeadsIn(b, Aborted(b)) IN
  TakeHeads(b, IF /\ n < Len(b.parked)
                  /\ b.outstanding + Clamped(b.parked[n + 1]) <= Budget + Headroom
               THEN n + 1 ELSE n)

\* Mutant: the weight is freed and nobody is granted.
FreedQuietly(c) == [Books EXCEPT !.phase[c] = "idle", !.outstanding = @ - Clamped(c)]

(* free, then grantWeight.                                                   *)
Freed(c) == GrantWeight([Books EXCEPT !.phase[c] = "idle", !.outstanding = @ - Clamped(c)])

----------------------------------------------------------------------------
(* reserve.                                                                  *)

Fits(c) == parked = <<>> /\ outstanding + Clamped(c) <= Budget
Express(c) == /\ Clamped(c) <= ExpressWeight
              /\ overtakes < MaxOvertakes
              /\ outstanding + Clamped(c) <= Budget + Headroom
Granted(c) == [Books EXCEPT !.phase[c] = "held", !.outstanding = @ + Clamped(c)]

ReserveGrants(c) ==
  /\ phase[c] = "idle" /\ closing = "no"
  /\ Fits(c)
  /\ phase' = Granted(c).phase /\ Keep(Granted(c))
  /\ told' = told \ {c}
  /\ UNCHANGED <<writerVars, closing>>

\* Mutant: overtaking is not counted.
ReserveUncounted(c) ==
  /\ phase[c] = "idle" /\ closing = "no"
  /\ ~Fits(c) /\ Express(c)
  /\ phase' = Granted(c).phase /\ Keep(Granted(c))
  /\ told' = told \ {c}
  /\ UNCHANGED <<writerVars, closing>>

ReserveOvertakes(c) ==
  /\ phase[c] = "idle" /\ closing = "no"
  /\ ~Fits(c) /\ Express(c)
  /\ LET granted == [Granted(c) EXCEPT !.overtakes = IF parked = <<>> THEN @ ELSE @ + 1]
         b == IF granted.overtakes >= MaxOvertakes THEN GrantOvertakenHead(granted)
              ELSE granted
     IN  phase' = b.phase /\ Keep(b)
  /\ told' = told \ {c}
  /\ UNCHANGED <<writerVars, closing>>

ReserveParks(c) ==
  /\ phase[c] = "idle" /\ closing = "no"
  /\ ~Fits(c) /\ ~Express(c)
  /\ phase' = [phase EXCEPT ![c] = "parked"]
  /\ parked' = Append(parked, c)
  /\ told' = told \ {c}
  /\ UNCHANGED <<overtakes, outstanding, writerVars, closing>>

(* The source's deadline passes while it is parked.                          *)
AbortParked(c) ==
  /\ phase[c] = "parked"
  /\ LET b == GrantWeight([Books EXCEPT !.phase[c] = "aborted"])
     IN  phase' = b.phase /\ Keep(b)
  /\ UNCHANGED <<writerVars, told, closing>>

----------------------------------------------------------------------------
(* The reservation: given back unused, or submitted.                         *)

Release(c) ==
  /\ phase[c] = "held"
  /\ phase' = Freed(c).phase /\ Keep(Freed(c))
  /\ UNCHANGED <<writerVars, told, closing>>

Submit(c) ==
  /\ phase[c] = "held"
  /\ closing = "no"
  /\ phase' = [phase EXCEPT ![c] = "queued"]
  /\ flushQueue' = Append(flushQueue, c)
  /\ pump' = IF pump = "off" THEN "on" ELSE pump
  /\ UNCHANGED <<reserveVars, slotsUsed, slotQueue, told, hung, closing>>

SubmitClosed(c) ==
  /\ phase[c] = "held"
  /\ closing # "no"
  /\ phase' = Freed(c).phase /\ Keep(Freed(c))
  /\ UNCHANGED <<writerVars, told, closing>>

----------------------------------------------------------------------------
(* pump and startItem.                                                       *)

(* notifyIfIdle.                                                             *)
Closing(ph, q, p) == IF closing = "waiting" /\ p = "off" /\ InFlight(ph) = {} /\ q = <<>>
                     THEN "done" ELSE closing

PumpStops ==
  /\ pump = "on"
  /\ flushQueue = <<>>
  /\ pump' = "off"
  /\ closing' = Closing(phase, flushQueue, "off")
  /\ UNCHANGED <<phase, reserveVars, flushQueue, slotsUsed, slotQueue, told, hung>>

PumpSleeps ==
  /\ pump = "on"
  /\ flushQueue # <<>> /\ slotsUsed >= WriterSlots
  /\ pump' = "asleep"
  /\ UNCHANGED <<phase, reserveVars, flushQueue, slotsUsed, slotQueue, told, hung, closing>>

(* An item without a preparation claims its slot before the pump goes on.    *)
StartItem(prepares) ==
  /\ pump = "on"
  /\ flushQueue # <<>> /\ slotsUsed < WriterSlots
  /\ flushQueue' = Tail(flushQueue)
  /\ phase' = [phase EXCEPT ![Head(flushQueue)] = IF prepares THEN "preparing" ELSE "running"]
  /\ slotsUsed' = IF prepares THEN slotsUsed ELSE slotsUsed + 1
  /\ UNCHANGED <<reserveVars, slotQueue, pump, told, hung, closing>>

Prepared(c) ==
  /\ phase[c] = "preparing" /\ c \notin hung
  /\ IF slotsUsed < WriterSlots
     THEN /\ slotsUsed' = slotsUsed + 1
          /\ phase' = [phase EXCEPT ![c] = "running"]
          /\ UNCHANGED slotQueue
     ELSE /\ phase' = [phase EXCEPT ![c] = "ready"]
          /\ slotQueue' = Append(slotQueue, c)
          /\ UNCHANGED slotsUsed
  /\ UNCHANGED <<reserveVars, flushQueue, pump, told, hung, closing>>

(* finish: settle frees the weight, then the idle are told.                  *)
Finish(books, q, p) ==
  /\ phase' = books.phase /\ Keep(books)
  /\ closing' = Closing(books.phase, q, p)

(* The preparation settles the item, or throws.                              *)
PrepareSettles(c) ==
  /\ phase[c] = "preparing" /\ c \notin hung
  /\ Finish(Freed(c), flushQueue, pump)
  /\ UNCHANGED <<writerVars, told>>

(* releaseWriterSlot hands the slot to the next owner, or wakes the pump.    *)
RunSettles(c) ==
  /\ phase[c] = "running" /\ c \notin hung
  /\ IF slotQueue # <<>>
     THEN /\ slotQueue' = Tail(slotQueue)
          /\ Finish([Freed(c) EXCEPT !.phase[Head(slotQueue)] = "running"], flushQueue, pump)
          /\ UNCHANGED <<slotsUsed, pump>>
     ELSE /\ slotsUsed' = slotsUsed - 1
          /\ pump' = IF pump = "asleep" THEN "on" ELSE pump
          /\ Finish(Freed(c), flushQueue, pump')
          /\ UNCHANGED slotQueue
  /\ UNCHANGED <<flushQueue, told, hung>>

(* A half-open connection: what the item awaits never returns.  It keeps its  *)
(* weight and, once it runs, its slot; nothing but its deadline notices.      *)
Hangs(c) ==
  /\ phase[c] \in {"preparing", "running"}
  /\ c \notin hung
  /\ hung' = hung \cup {c}
  /\ UNCHANGED <<phase, reserveVars, flushQueue, slotsUsed, slotQueue, pump, told, closing>>

(* The deadline rejects the caller and nothing else; its release() is then    *)
(* a no-op.                                                                  *)
DeadlineRejects(c) ==
  /\ c \in InFlight(phase)
  /\ c \notin told
  /\ told' = told \cup {c}
  /\ UNCHANGED <<phase, reserveVars, writerVars, closing>>

Close ==
  /\ closing = "no"
  /\ phase' = [c \in Callers |-> IF phase[c] \in {"parked", "aborted"} THEN "idle" ELSE phase[c]]
  /\ parked' = <<>>
  /\ closing' = IF pump = "off" /\ InFlight(phase) = {} /\ flushQueue = <<>>
                THEN "done" ELSE "waiting"
  /\ UNCHANGED <<overtakes, outstanding, writerVars, told>>

----------------------------------------------------------------------------
Pump == PumpStops \/ PumpSleeps \/ \E prepares \in BOOLEAN : StartItem(prepares)
Reserve(c) == ReserveGrants(c) \/ ReserveOvertakes(c) \/ ReserveParks(c)
LeaveHeld(c) == Release(c) \/ Submit(c) \/ SubmitClosed(c)
Settle(c) == Prepared(c) \/ PrepareSettles(c) \/ RunSettles(c)

FlushNext == \/ Pump \/ Close
             \/ \E c \in Callers : Reserve(c) \/ AbortParked(c) \/ LeaveHeld(c)
                                   \/ Settle(c) \/ Hangs(c) \/ DeadlineRejects(c)

(* A source gives its reservation back or submits within its deadline, and an *)
(* item that is started settles unless it hangs, which it may at any await.   *)
(* The timer of a started item fires.  Nothing says that a source reserves at *)
(* all, or that the worker is closed.                                        *)
FlushFairness ==
  /\ WF_flushVars(Pump)
  /\ \A c \in Callers : /\ WF_flushVars(LeaveHeld(c) \/ Settle(c))
                        /\ WF_flushVars(DeadlineRejects(c))

FlushSpec == FlushInit /\ [][FlushNext]_flushVars
FlushFairSpec == FlushSpec /\ FlushFairness

----------------------------------------------------------------------------
(* Every weight is given back exactly once, whoever settles, gives up or is    *)
(* rejected by its deadline first; and what is held never exceeds the budget   *)
(* by more than the headroom the express lane is allowed.                      *)
WeightIsConserved == /\ outstanding = WeightOf(Holders(phase))
                     /\ outstanding <= Budget + Headroom

(* No grant is missed: while the head of the queue is parked it does not fit,  *)
(* and an aborted head is left there only while nothing would fit anyway.      *)
NoGrantMissed ==
  parked # <<>> =>
    IF phase[Head(parked)] = "aborted" THEN outstanding > Budget
    ELSE outstanding + Clamped(Head(parked)) > Budget

(* The slots counted are those of the runs under way, and whoever waits - an   *)
(* item that has been prepared, the pump that sleeps - waits for a full house. *)
SlotsAreOwned ==
  /\ slotsUsed = Cardinality({c \in Callers : phase[c] = "running"})
  /\ slotsUsed <= WriterSlots
  /\ slotQueue # <<>> \/ pump = "asleep" => slotsUsed = WriterSlots

(* close() resolves only when no run is under way and none can start.          *)
ClosedIsIdle == closing = "done" => InFlight(phase) = {} /\ flushQueue = <<>>

(* What hung items hold stays held: every slot, or so much weight that a       *)
(* parked reservation does not fit beside it.                                  *)
Wedged == \/ Cardinality({c \in hung : phase[c] = "running"}) >= WriterSlots
          \/ \E i \in DOMAIN parked : WeightOf(hung) + Clamped(parked[i]) > Budget

(* Nobody starves: a parked reservation is granted or refused although express  *)
(* ones overtake it, and a submitted flush is settled - but for items that hang, *)
(* and for those whom hung ones leave no slot or no room.                       *)
NobodyStarves ==
  \A c \in Callers :
    []<>(phase[c] \in {"idle", "held", "aborted"} \/ c \in hung \/ Wedged)

(* The caller of an item that was started is answered, hung or not.             *)
CallersAreAnswered == \A c \in Callers : []<>(c \notin InFlight(phase) \/ c \in told)

(* close() resolves unless an item hangs: then it waits for it for ever.        *)
CloseResolves == []<>(closing # "waiting" \/ hung # {})

(* The books of the flush worker balance: weight, grants, slots, idleness.     *)
FlushBooksBalance == WeightIsConserved /\ NoGrantMissed /\ SlotsAreOwned /\ ClosedIsIdle

(* The flush worker serves everyone who stays while no hung run wedges it,     *)
(* answers every caller it has started, and lets close() return.              *)
FlushServes == NobodyStarves /\ CallersAreAnswered /\ CloseResolves
=============================================================================
