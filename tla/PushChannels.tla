---------------------------- MODULE PushChannels ----------------------------
(* The webhook channels of source calendars: the sweep that registers, renews *)
(* and removes them, the rows it keeps in calendar_push_channels, and the     *)
(* channels the providers hold.                                              *)
(*   packages/calendar/src/core/source/{manage-push-channels,push-channel}.ts *)
(*   packages/calendar/src/core/source/manage-push-channels-dependencies.ts   *)
(*   services/api/src/utils/push-notifications/{register,deregister}-account- *)
(*     channels.ts, handle-webhook.ts (the lifecycle notifications)           *)
(* A Google channel is renewed by making a new one and stopping the old; an   *)
(* Outlook subscription is extended, and can be listed.  Every registration   *)
(* generates a secret, and a client-made Google id or the id Graph assigns    *)
(* comes with it, so one number stands for both.  Dates are kept as what the  *)
(* code asks of them: expiry far or near, next attempt none, later or past.   *)
EXTENDS Naturals, FiniteSets

NoCal == "none"

CONSTANTS Calendars,      \* the source calendars that push is offered for
          Accounts,
          AccountOf,      \* AccountOf[c]
          GoogleCalendars,   \* the others are Outlook's
          Sweeps,         \* runManagePushChannels calls: the cron's, the API's
          Rows,           \* slots of calendar_push_channels
          MaxDeregister,  \* MAX_DEREGISTER_ATTEMPTS
          MaxMishaps      \* bound: faults and changes of eligibility together

ASSUME PushChannelsAssumption ==
  /\ AccountOf \in [Calendars -> Accounts]
  /\ GoogleCalendars \subseteq Calendars /\ NoCal \notin Calendars
  /\ Rows \subseteq Nat \ {0}
  /\ MaxDeregister \in Nat \ {0} /\ MaxMishaps \in Nat

VARIABLES existing,       \* calendars that have not been deleted
          eligible,       \* calendars selectEligibleCalendars finds
          rows,           \* rows[r]: calendar_push_channels
          subs,           \* the channels the providers hold
          sweep,          \* sweep[w]: a sweep under way
          tick,           \* the sweeps' lock: a set of at most one
          mishaps         \* bound: what is left of MaxMishaps

channelVars == <<existing, eligible, rows, subs, sweep, tick, mishaps>>

All == Accounts           \* the scope of the cron's sweep
NoId == 0
NoAction == [type |-> "none", row |-> 0, cal |-> NoCal, previous |-> NoId]
IdleSweep == [pc |-> "idle", scope |-> {}, listed |-> {}, todo |-> {}, act |-> NoAction,
              id |-> NoId, activated |-> {}, known |-> {}]
NoRow == [state |-> "none", cal |-> NoCal, pcid |-> NoId, secret |-> NoId,
          reached |-> FALSE, life |-> "none", next |-> "none",
          stale |-> FALSE, asked |-> FALSE, fails |-> 0]

LiveStates == {"registering", "active", "degraded"}
Live(r) == rows[r].state \in LiveStates
Google(c) == c \in GoogleCalendars
LiveRowsOf(c) == {r \in Rows : Live(r) /\ rows[r].cal = c}

Referenced == UNION {{sweep[w].act.row} \cup {a.row : a \in sweep[w].todo} : w \in Sweeps}
FreeRows == {r \in Rows : ~Live(r) /\ r \notin Referenced}
UsedIds == {rows[r].pcid : r \in Rows} \cup {rows[r].secret : r \in Rows}
           \cup {s.id : s \in subs}
           \cup UNION {{sweep[w].id, sweep[w].act.previous}
                       \cup sweep[w].activated \cup sweep[w].known
                       \cup {a.previous : a \in sweep[w].todo} : w \in Sweeps}
NewId == CHOOSE n \in 1..(Cardinality(UsedIds) + 1) : n \notin UsedIds

PushChannelsTypeOK ==
  /\ eligible \subseteq existing /\ existing \subseteq Calendars
  /\ \A r \in Rows :
       /\ rows[r].state \in LiveStates \cup {"none", "failed", "removed"}
       /\ rows[r].life \in {"none", "far", "near"}
       /\ rows[r].next \in {"none", "later", "past"}
       /\ rows[r].fails \in 0..MaxDeregister
       /\ rows[r].state # "none" => rows[r].cal \in Calendars
  /\ \A c \in Calendars : Cardinality(LiveRowsOf(c)) <= 1
  /\ \A s \in subs : s.cal \in Calendars
  /\ tick \subseteq Sweeps /\ Cardinality(tick) <= 1
  /\ mishaps \in 0..MaxMishaps

PushChannelsInit ==
  /\ existing = Calendars
  /\ eligible \in SUBSET Calendars
  /\ rows = [r \in Rows |-> NoRow]
  /\ subs = {}
  /\ sweep = [w \in Sweeps |-> IdleSweep]
  /\ tick = {}
  /\ mishaps = MaxMishaps

Mishap == mishaps > 0 /\ mishaps' = mishaps - 1

----------------------------------------------------------------------------
(* The plan.                                                                 *)

\* Mutant: a registration without a next attempt is never stale.
RetryDueByAttempt(r) == rows[r].next = "past"

RetryDue(r) == IF rows[r].next = "none" THEN rows[r].stale ELSE rows[r].next = "past"
Retryable(r) == rows[r].state = "registering" \/ rows[r].life = "none"
RenewalDue(r) == /\ rows[r].next # "later"
                 /\ rows[r].asked \/ rows[r].life \in {"none", "near"}

PlannedFor(r, listed) ==
  LET act(type) == [type |-> type, row |-> r, cal |-> rows[r].cal,
                    previous |-> rows[r].pcid] IN
  CASE rows[r].cal \notin listed -> {act("deregister")}
    [] rows[r].cal \in listed /\ Retryable(r) /\ RetryDue(r) -> {act("register")}
    [] rows[r].cal \in listed /\ ~Retryable(r) /\ RenewalDue(r) -> {act("renew")}
    [] OTHER -> {}

(* planPushChannelActions over the calendars a scope lists: the stored        *)
(* channels are those of every account.                                       *)
Listed(scope) == {c \in eligible : AccountOf[c] \in scope}
PlanActions(listed) ==
  (UNION {PlannedFor(r, listed) : r \in {q \in Rows : Live(q)}})
    \cup {[type |-> "register", row |-> 0, cal |-> c, previous |-> NoId] :
            c \in {k \in listed : LiveRowsOf(k) = {}}}

StartSweep(w, scope) ==
  /\ sweep[w].pc = "idle"
  /\ tick = {}
  /\ tick' = {w}
  /\ sweep' = [sweep EXCEPT ![w] = [IdleSweep EXCEPT
                 !.pc = "act", !.scope = scope, !.listed = Listed(scope),
                 !.todo = PlanActions(Listed(scope))]]
  /\ UNCHANGED <<existing, eligible, rows, subs, mishaps>>

----------------------------------------------------------------------------
(* One action: what runAction and the three run*Action do before the call.   *)

(* shouldRetainPushChannelAction, on the row as it is now.                    *)
Retained(a) ==
  a.row # 0 =>
    /\ rows[a.row].state # "none"
    /\ \/ a.type = "deregister" /\ Live(a.row)
       \/ a.type = "register" /\ Retryable(a.row) /\ RetryDue(a.row)
       \/ a.type = "renew" /\ rows[a.row].state \in {"active", "degraded"} /\ RenewalDue(a.row)

(* The unique index on live rows refuses a second one of a calendar, and a    *)
(* row refers to a calendar that exists; updating a deleted row does nothing. *)
IndexAllows(r, c) == LiveRowsOf(c) \subseteq {r} /\ c \in existing
Update(r, row) == rows' = [rows EXCEPT ![r] = IF @.state = "none" THEN @ ELSE row]

DropAction(w, a) == sweep' = [sweep EXCEPT ![w].todo = @ \ {a}, ![w].act = NoAction,
                                           ![w].id = NoId, ![w].pc = "act"]

CallFor(w, a, r, id) ==
  sweep' = [sweep EXCEPT ![w].todo = @ \ {a}, ![w].act = [a EXCEPT !.row = r],
                         ![w].id = id, ![w].pc = "call"]

Registering(row, c, id) ==
  [row EXCEPT !.state = "registering", !.cal = c, !.stale = FALSE,
              !.pcid = IF Google(c) THEN id ELSE NoId, !.secret = id]

BeginRegister(w, a) ==
  /\ a.type = "register"
  /\ \E r \in IF a.row = 0 THEN FreeRows ELSE {a.row} :
       /\ a.row = 0 => \A q \in FreeRows : r <= q
       /\ IF IndexAllows(r, a.cal)
          THEN /\ rows' = [rows EXCEPT ![r] = Registering(IF a.row = 0 THEN NoRow ELSE @,
                                                          a.cal, NewId)]
               /\ CallFor(w, a, r, NewId)
          ELSE DropAction(w, a) /\ UNCHANGED rows
  /\ UNCHANGED <<existing, eligible, subs, tick, mishaps>>

BeginRenew(w, a) ==
  /\ a.type = "renew"
  /\ CallFor(w, a, a.row, IF Google(a.cal) THEN NewId ELSE rows[a.row].pcid)
  /\ UNCHANGED <<existing, eligible, rows, subs, tick, mishaps>>

BeginDeregister(w, a) ==
  /\ a.type = "deregister"
  /\ IF rows[a.row].pcid = NoId
     THEN /\ rows' = [rows EXCEPT ![a.row].state = "failed"]
          /\ DropAction(w, a)
     ELSE /\ CallFor(w, a, a.row, rows[a.row].pcid)
          /\ UNCHANGED rows
  /\ UNCHANGED <<existing, eligible, subs, tick, mishaps>>

SkipAction(w, a) ==
  /\ ~Retained(a)
  /\ DropAction(w, a)
  /\ UNCHANGED <<existing, eligible, rows, subs, tick, mishaps>>

RunAction(w) ==
  /\ sweep[w].pc = "act"
  /\ \E a \in sweep[w].todo :
       \/ SkipAction(w, a)
       \/ Retained(a) /\ (BeginRegister(w, a) \/ BeginRenew(w, a) \/ BeginDeregister(w, a))

----------------------------------------------------------------------------
(* The provider's answer, and what is written after it.                      *)

Act(w) == sweep[w].act
Row(w) == rows[Act(w).row]
Sub(w) == [id |-> sweep[w].id, cal |-> Act(w).cal, secret |-> sweep[w].id]
Creates(w) == Act(w).type = "register" \/ (Act(w).type = "renew" /\ Google(Act(w).cal))
Extends(w) == Act(w).type = "renew" /\ ~Google(Act(w).cal)
Known(w) == \E s \in subs : s.id = sweep[w].id

Done(w) == [sweep[w] EXCEPT !.pc = "act", !.act = NoAction, !.id = NoId]

(* buildActivationUpdates: a renewal that extends keeps its secret.           *)
Activated(row, w) ==
  [row EXCEPT !.state = "active", !.pcid = sweep[w].id,
              !.secret = IF Extends(w) THEN @ ELSE sweep[w].id,
              !.reached = TRUE, !.life = "far", !.next = "none",
              !.stale = FALSE, !.asked = FALSE, !.fails = 0]

BackedOff(row, state) ==
  [row EXCEPT !.state = state, !.next = "later", !.stale = FALSE,
              !.fails = IF @ < MaxDeregister THEN @ + 1 ELSE @]

(* The call creates or extends, and the row is activated.  A row the index    *)
(* refuses stays as it was, and the action is rejected.                       *)
CallSucceeds(w) ==
  /\ sweep[w].pc = "call"
  /\ Creates(w) \/ (Extends(w) /\ Known(w))
  /\ subs' = IF Creates(w) THEN subs \cup {Sub(w)} ELSE subs
  /\ sweep' = [sweep EXCEPT ![w].pc = "write"]
  /\ UNCHANGED <<existing, eligible, rows, tick, mishaps>>

WriteActivation(w) ==
  /\ sweep[w].pc = "write"
  /\ IF Row(w).state = "none" \/ IndexAllows(Act(w).row, Act(w).cal)
     THEN /\ Update(Act(w).row, Activated(Row(w), w))
          /\ sweep' = [sweep EXCEPT ![w] =
               IF Act(w).type = "renew" /\ Creates(w) /\ Act(w).previous # NoId
               THEN [sweep[w] EXCEPT !.pc = "stop", !.activated = @ \cup {sweep[w].id}]
               ELSE [Done(w) EXCEPT !.activated = @ \cup {sweep[w].id}]]
     ELSE /\ sweep' = [sweep EXCEPT ![w] = Done(w)]
          /\ UNCHANGED rows
  /\ UNCHANGED <<existing, eligible, subs, tick, mishaps>>

(* The activation fails at the row, or after it at the negative cache.  A      *)
(* registration catches that and backs off; a renewal is rejected, and what it *)
(* superseded is not stopped.                                                  *)
ActivationFails(w, written) ==
  LET new == IF written THEN Activated(Row(w), w) ELSE Row(w)
      left == IF Act(w).type = "renew" THEN new
              ELSE BackedOff([new EXCEPT !.fails = Row(w).fails], "registering")
  IN  /\ sweep[w].pc = "write"
      /\ Mishap
      /\ Row(w).state = "none" \/ IndexAllows(Act(w).row, Act(w).cal)
      /\ Update(Act(w).row, left)
      /\ sweep' = [sweep EXCEPT ![w] = IF written
                    THEN [Done(w) EXCEPT !.activated = @ \cup {sweep[w].id}] ELSE Done(w)]
      /\ UNCHANGED <<existing, eligible, subs, tick>>

(* stopSupersededChannel: a failure is only recorded.                         *)
StopSuperseded(w, stopped) ==
  /\ sweep[w].pc = "stop"
  /\ IF stopped THEN UNCHANGED mishaps ELSE Mishap
  /\ subs' = {s \in subs : ~(stopped /\ s.id = Act(w).previous)}
  /\ sweep' = [sweep EXCEPT ![w] = Done(w)]
  /\ UNCHANGED <<existing, eligible, rows, tick>>

(* The call throws; it may have taken effect at the provider all the same.    *)
CallFails(w, effect) ==
  /\ sweep[w].pc = "call"
  /\ Creates(w) \/ Extends(w)
  /\ Mishap
  /\ subs' = IF effect /\ Creates(w) THEN subs \cup {Sub(w)} ELSE subs
  /\ IF IndexAllows(Act(w).row, Act(w).cal)
     THEN Update(Act(w).row, BackedOff(Row(w), IF Act(w).type = "register" THEN "registering"
                                                                          ELSE "degraded"))
     ELSE UNCHANGED rows
  /\ sweep' = [sweep EXCEPT ![w] = Done(w)]
  /\ UNCHANGED <<existing, eligible, tick>>

(* isPushChannelGoneError: the subscription is registered anew, in its row.   *)
RenewalGone(w) ==
  /\ sweep[w].pc = "call"
  /\ Extends(w)
  /\ ~Known(w)
  /\ Update(Act(w).row, Registering(Row(w), Act(w).cal, NewId))
  /\ sweep' = [sweep EXCEPT ![w].act.type = "register", ![w].id = NewId]
  /\ UNCHANGED <<existing, eligible, subs, tick, mishaps>>

(* A Google channel that was never answered has no resource id: not called.   *)
DeregisterSucceeds(w) ==
  /\ sweep[w].pc = "call"
  /\ Act(w).type = "deregister"
  /\ subs' = IF Google(Act(w).cal) /\ ~Row(w).reached THEN subs
             ELSE {s \in subs : s.id # sweep[w].id}
  /\ Update(Act(w).row, [Row(w) EXCEPT !.state = "removed"])
  /\ sweep' = [sweep EXCEPT ![w] = Done(w)]
  /\ UNCHANGED <<existing, eligible, tick, mishaps>>

DeregisterFails(w, effect) ==
  /\ sweep[w].pc = "call"
  /\ Act(w).type = "deregister"
  /\ Mishap
  /\ subs' = {s \in subs : ~(effect /\ s.id = sweep[w].id)}
  /\ Update(Act(w).row,
            IF Row(w).fails + 1 >= MaxDeregister THEN [Row(w) EXCEPT !.state = "failed"]
            ELSE BackedOff(Row(w), Row(w).state))
  /\ sweep' = [sweep EXCEPT ![w] = Done(w)]
  /\ UNCHANGED <<existing, eligible, tick>>

----------------------------------------------------------------------------
(* reconcileProviderDrift, and the end of the sweep.                         *)

\* Mutant: only what this sweep activated is known.
DriftReadActivated(w) ==
  /\ sweep[w].pc = "act"
  /\ sweep[w].todo = {}
  /\ sweep' = [sweep EXCEPT ![w].pc = "drift", ![w].known = sweep[w].activated]
  /\ UNCHANGED <<existing, eligible, rows, subs, tick, mishaps>>

DriftRead(w) ==
  /\ sweep[w].pc = "act"
  /\ sweep[w].todo = {}
  /\ sweep' = [sweep EXCEPT ![w].pc = "drift",
       ![w].known = sweep[w].activated \cup {rows[r].pcid : r \in {q \in Rows : Live(q)}}]
  /\ UNCHANGED <<existing, eligible, rows, subs, tick, mishaps>>

(* Every Outlook subscription of the accounts listed that no row knows.       *)
DriftAccounts(w) == {AccountOf[c] : c \in sweep[w].listed \ GoogleCalendars}

DriftSweep(w) ==
  /\ sweep[w].pc = "drift"
  /\ subs' = {s \in subs : \/ Google(s.cal)
                           \/ AccountOf[s.cal] \notin DriftAccounts(w)
                           \/ s.id \in sweep[w].known}
  /\ sweep' = [sweep EXCEPT ![w] = IdleSweep]
  /\ tick' = {}
  /\ UNCHANGED <<existing, eligible, rows, mishaps>>

(* Listing or stopping fails: what is left is left for the next sweep.        *)
DriftFails(w) ==
  /\ sweep[w].pc = "drift"
  /\ Mishap
  /\ sweep' = [sweep EXCEPT ![w] = IdleSweep]
  /\ tick' = {}
  /\ UNCHANGED <<existing, eligible, rows, subs>>

(* The process dies; its lock is left to lapse.                               *)
SweepDies(w) ==
  /\ sweep[w].pc # "idle"
  /\ Mishap
  /\ sweep' = [sweep EXCEPT ![w] = IdleSweep]
  /\ UNCHANGED <<existing, eligible, rows, subs, tick>>

(* Only a lock whose sweep is gone: 300 s is taken to outlast a sweep.        *)
TickLapses ==
  /\ \E w \in tick : sweep[w].pc = "idle"
  /\ tick' = {}
  /\ UNCHANGED <<existing, eligible, rows, subs, sweep, mishaps>>

----------------------------------------------------------------------------
(* Around the sweep.                                                         *)

(* A calendar is enabled or disabled, goes missing, needs reauthentication.   *)
EligibilityChanges(c) ==
  /\ c \in existing
  /\ Mishap
  /\ eligible' = IF c \in eligible THEN eligible \ {c} ELSE eligible \cup {c}
  /\ UNCHANGED <<existing, rows, subs, sweep, tick>>

(* An account is deleted: its live channels are stopped, one by one and with   *)
(* failures swallowed, and the rows go with the account.                      *)
DeleteAccount(account, stopped) ==
  LET mine == {r \in Rows : rows[r].state # "none" /\ AccountOf[rows[r].cal] = account} IN
  /\ \E c \in existing : AccountOf[c] = account
  /\ Mishap
  /\ stopped \subseteq {r \in mine : Live(r)}
  /\ existing' = {c \in existing : AccountOf[c] # account}
  /\ eligible' = {c \in eligible : AccountOf[c] # account}
  /\ subs' = {s \in subs : \A r \in stopped : s.id # rows[r].pcid}
  /\ rows' = [r \in Rows |-> IF r \in mine THEN NoRow ELSE rows[r]]
  /\ UNCHANGED <<sweep, tick>>

(* Graph ends a subscription and says so; the notification may be lost.       *)
SubscriptionRemoved(s, told) ==
  /\ s \in subs
  /\ ~Google(s.cal)
  /\ Mishap
  /\ subs' = subs \ {s}
  /\ rows' = [r \in Rows |-> IF told /\ rows[r].pcid = s.id /\ rows[r].secret = s.secret
                             THEN [rows[r] EXCEPT !.state = "removed"] ELSE rows[r]]
  /\ UNCHANGED <<existing, eligible, sweep, tick>>

ReauthorizationRequired(r) ==
  /\ Live(r)
  /\ rows[r].reached
  /\ ~rows[r].asked
  /\ Mishap
  /\ rows' = [rows EXCEPT ![r].asked = TRUE, ![r].stale = FALSE]
  /\ UNCHANGED <<existing, eligible, subs, sweep, tick>>

(* Time, for one row: the next attempt, the ten minutes, the renewal lead.     *)
TimePasses(r) ==
  /\ Live(r)
  /\ \/ rows[r].next = "later" /\ rows' = [rows EXCEPT ![r].next = "past"]
     \/ /\ rows[r].state = "registering" /\ ~rows[r].stale
        /\ rows' = [rows EXCEPT ![r].stale = TRUE]
     \/ rows[r].life = "far" /\ rows' = [rows EXCEPT ![r].life = "near"]
  /\ UNCHANGED <<existing, eligible, subs, sweep, tick, mishaps>>

(* A channel expires: one nobody renews any more, or one renewed too late.     *)
ChannelExpires(s) ==
  /\ s \in subs
  /\ \A w \in Sweeps : sweep[w].pc = "write" => sweep[w].id # s.id
  /\ \A r \in Rows : Live(r) /\ rows[r].pcid = s.id => rows[r].life # "far"
  /\ IF \E r \in Rows : Live(r) /\ rows[r].pcid = s.id THEN Mishap ELSE UNCHANGED mishaps
  /\ subs' = subs \ {s}
  /\ UNCHANGED <<existing, eligible, rows, sweep, tick>>

----------------------------------------------------------------------------
SweepStep(w) == \/ RunAction(w)
                \/ CallSucceeds(w) \/ WriteActivation(w) \/ RenewalGone(w)
                \/ StopSuperseded(w, TRUE) \/ DeregisterSucceeds(w)
                \/ DriftRead(w) \/ DriftSweep(w)
SweepFaults(w) == \/ \E effect \in BOOLEAN : CallFails(w, effect) \/ DeregisterFails(w, effect)
                  \/ StopSuperseded(w, FALSE)
                  \/ \E written \in BOOLEAN : ActivationFails(w, written)
                  \/ DriftFails(w) \/ SweepDies(w)

PushChannelsNext ==
  \/ \E w \in Sweeps : \/ StartSweep(w, All)
                       \/ SweepStep(w) \/ SweepFaults(w)
  \/ TickLapses
  \/ \E c \in Calendars : EligibilityChanges(c)
  \/ \E account \in Accounts, stopped \in SUBSET Rows : DeleteAccount(account, stopped)
  \/ \E s \in subs : \/ \E told \in BOOLEAN : SubscriptionRemoved(s, told)
                     \/ ChannelExpires(s)
  \/ \E r \in Rows : ReauthorizationRequired(r) \/ TimePasses(r)

(* With the API's sweep for an account that has just been connected.          *)
NarrowSweepNext ==
  \/ PushChannelsNext
  \/ \E w \in Sweeps, account \in Accounts : StartSweep(w, {account})

(* The sweep is run every five minutes and time passes.                       *)
PushChannelsSpec == PushChannelsInit /\ [][PushChannelsNext]_channelVars
PushChannelsFairSpec ==
  /\ PushChannelsSpec
  /\ \A w \in Sweeps : WF_channelVars(StartSweep(w, All) \/ SweepStep(w))
  /\ WF_channelVars(TickLapses)
  /\ \A r \in Rows : WF_channelVars(TimePasses(r))
NarrowSweepSpec == PushChannelsInit /\ [][NarrowSweepNext]_channelVars

----------------------------------------------------------------------------
(* A row that is active authenticates the channel it names: through every      *)
(* retry, renewal, re-registration and lost answer, the secret the provider    *)
(* was given is the one the row's hash is of.  Otherwise every notification    *)
(* would be refused while the row looks healthy.                               *)
ActiveRowAuthenticates ==
  \A r \in Rows, s \in subs :
    (rows[r].state = "active" /\ s.id = rows[r].pcid)
      => s.secret = rows[r].secret /\ s.cal = rows[r].cal

(* The drift reconciliation never ends a channel that a row has just been      *)
(* activated with: rows are read again after the actions, and what this sweep  *)
(* activated counts as known.                                                  *)
DriftSparesKnown ==
  [][\A w \in Sweeps : sweep[w].pc = "drift" /\ sweep'[w].pc = "idle" =>
       \A s \in subs \ subs' : \A r \in Rows :
         ~(rows[r].state = "active" /\ rows[r].pcid = s.id)]_channelVars

(* Once things are quiet the rows, the providers and the calendars agree: an   *)
(* eligible calendar has an active row whose channel exists, an ineligible one *)
(* has no live row, and an Outlook account holds no subscription that no row   *)
(* knows - whatever calls failed half way, however often a sweep died.         *)
ChannelsSettle ==
  <>[](/\ \A c \in eligible : \E r \in LiveRowsOf(c) :
            rows[r].state = "active" /\ \E s \in subs : s.id = rows[r].pcid
       /\ \A c \in Calendars \ eligible : LiveRowsOf(c) = {}
       /\ \A s \in subs : (s.cal \in eligible \ GoogleCalendars /\ tick = {}) =>
            \E r \in LiveRowsOf(s.cal) : rows[r].pcid = s.id)

(* A sweep narrowed to one account leaves the channels of the others alone.    *)
NarrowSweepSparesOthers ==
  [][\A w \in Sweeps, r \in Rows :
       (sweep[w].pc \in {"act", "call", "write"} /\ rows'[r] # rows[r]
          /\ sweep'[w] # sweep[w] /\ Live(r))
         => AccountOf[rows[r].cal] \in sweep[w].scope]_channelVars

(* The channels are safe: the active rows authenticate, and the sweeps end no  *)
(* channel that an active row names.                                           *)
ChannelsAreSafe == []ActiveRowAuthenticates /\ DriftSparesKnown
=============================================================================
