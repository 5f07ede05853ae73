----------------------------- MODULE MCIngestParts -----------------------------
(* The parts behind reading a source.  They share no state with one another:  *)
(* what each does is its own, so a behaviour of the whole is a behaviour of   *)
(* each, and it is enough to let one of them move.  `part` names it; the      *)
(* others rest in their initial state.  The flush worker serves three of its   *)
(* callers at a time: a heavy one with two light ones, or with a light one    *)
(* and one that fits only the whole headroom.  A credential is refreshed by    *)
(* two calls of a process and one of another, or by one call each of three.   *)
EXTENDS SourceIngest, PushChannels, FlushWorker, TokenRefresh, OutlookPermits,
        RateWindow

VARIABLE part

FlushParts == {"flush m", "flush x"}
TokenParts == {"token joined", "token apart"}
Parts == {"ingest", "channels", "permit", "window"} \cup FlushParts \cup TokenParts

partVars == <<ingestVars, channelVars, flushVars, refreshVars, permitVars, windowVars, part>>

MCContents == {[at |-> 1, body |-> "plain"], [at |-> 2, body |-> "plain"],
               [at |-> 1, body |-> "dense"]}
MCAccountOf == [c \in Calendars |-> IF c = "g" THEN "a" ELSE "b"]
MCWeight == [c \in Callers |-> CASE c = "h" -> 9 [] c = "m" -> 3 [] OTHER -> 1]
MCProcessOf == [c \in Clients |-> CASE c = "c3" -> "p2" [] c = "c4" -> "p3" [] OTHER -> "p1"]
MCHostOf == [r \in Requests |-> IF r = "r4" THEN "h2" ELSE "h1"]
MCNeed == [t \in Takers |-> IF t = "big" THEN 2 ELSE 1]
MCLimitOf == [t \in Takers |-> IF t = "user" THEN 3 ELSE 2]

PartsInit ==
  /\ part \in Parts
  /\ SourceIngestInit /\ PushChannelsInit /\ FlushInit /\ TokenRefreshInit /\ OutlookPermitsInit /\ RateWindowInit
  /\ part # "ingest" => kind = "ics" /\ \A r \in Ranges : range <= r
  /\ part # "channels" => eligible = {}

(* p moves and the others rest.                                               *)
Only(p) ==
  /\ part = p /\ UNCHANGED part
  /\ p # "ingest" => UNCHANGED ingestVars
  /\ p # "channels" => UNCHANGED channelVars
  /\ p \notin FlushParts => UNCHANGED flushVars
  /\ p \notin TokenParts => UNCHANGED refreshVars
  /\ p # "permit" => UNCHANGED permitVars
  /\ p # "window" => UNCHANGED windowVars

PartsNext ==
  \/ Only("ingest") /\ SourceIngestNext
  \/ Only("channels") /\ PushChannelsNext
  \/ Only("flush m") /\ FlushNext /\ phase'["x"] = "idle"
  \/ Only("flush x") /\ FlushNext /\ phase'["m"] = "idle"
  \/ Only("token joined") /\ TokenRefreshNext /\ client'["c4"] = IdleClient
  \/ Only("token apart") /\ TokenRefreshNext /\ client'["c2"] = IdleClient
  \/ Only("permit") /\ OutlookPermitsNext
  \/ Only("window") /\ RateWindowNext

(* Each part's fairness, for the behaviours in which it moves.  Only one part *)
(* moves in a behaviour, so a condition on one part and a condition on        *)
(* another are one condition on their disjunction: FairStep(i) joins the i-th *)
(* conditions of all parts, and Number counts the members of each set.        *)
Number(x) == CASE x \in {"i1", "h", "c1", "r1", "big"} -> 1
               [] x \in {"i2", "m", "c2", "r2", "s1"} -> 2
               [] x \in {"e", "c3", "r3", "s2"} -> 3
               [] x \in {"x", "c4", "r4", "user"} -> 4

Moves(p) == part = p /\ UNCHANGED part

movingVars ==
  CASE part = "ingest" -> ingestVars
    [] part = "channels" -> channelVars
    [] part \in FlushParts -> flushVars
    [] part \in TokenParts -> refreshVars
    [] part = "permit" -> permitVars
    [] part = "window" -> windowVars

FairStep(i) ==
  \/ Moves("ingest") /\ \E j \in Ingests : i = Number(j) /\ IngestStep(j)
  \/ /\ Moves("channels")
     /\ \/ i = 1 /\ \E w \in Sweeps : StartSweep(w, All) \/ SweepStep(w)
        \/ i = 2 /\ TickLapses
        \/ \E r \in Rows : i = 2 + r /\ TimePasses(r)
  \/ /\ part \in FlushParts /\ UNCHANGED part
     /\ \/ \E c \in Callers : i = Number(c) /\ (LeaveHeld(c) \/ Settle(c))
        \/ i = 5 /\ Pump
        \/ \E c \in Callers : i = 5 + Number(c) /\ DeadlineRejects(c)
  \/ part \in TokenParts /\ UNCHANGED part /\ \E c \in Clients : i = Number(c) /\ RefreshStep(c)
  \/ /\ Moves("permit")
     /\ \/ \E r \in Requests : i = Number(r) /\ RequestStep(r)
        \/ i = 5 /\ \E s \in SlotKeys : KeyLapses(s)
  \/ /\ Moves("window")
     /\ \/ \E t \in Takers : i = Number(t) /\ (QueuedCall(t) \/ GracePasses(t))
        \/ i = 5 /\ EntryExpires

PartsFairness ==
  /\ \A i \in 1..9 : WF_movingVars(FairStep(i))

PartsSpec == PartsInit /\ [][PartsNext]_partVars /\ PartsFairness

(* Whoever waits in one of the three lines is served: for the writer, at a    *)
(* gate to Outlook, or for the window of requests.                            *)
WaitersServed == FlushServes /\ GateFlows /\ WindowServes

(* The variables of every part keep their kinds.                              *)
IngestTypeOK ==
  /\ SourceIngestTypeOK /\ PushChannelsTypeOK /\ FlushTypeOK
  /\ TokenRefreshTypeOK /\ OutlookPermitsTypeOK /\ RateWindowTypeOK
=============================================================================
