--------------------------- MODULE MCSyncConverges ---------------------------
(* DestinationSync on a provider of each kind, in one run: one source with an *)
(* event and a series over two slots, mirrored in chunks of one.  CalDAV, as  *)
(* the configuration sets it, is always listed and updates its events in      *)
(* place; Google and Outlook are read by ids while they are small.  Google    *)
(* leaves out one of the contents, and Outlook has a single one, so that its  *)
(* copies differ in their slots and not in what they say.                     *)
EXTENDS DestinationSync

VARIABLE provider

MCSourceOf == [o \in {1} |-> 1]

Google == INSTANCE DestinationSync WITH
  Provider <- "google", Unpushable <- {2}, TargetedReadLimit <- 1

Outlook == INSTANCE DestinationSync WITH
  Provider <- "outlook", Bodies <- {1}, TargetedReadLimit <- 1

ConvergeVars == <<vars, provider>>

ConvergeInit == \/ provider = "google" /\ Google!Init
                \/ provider = "outlook" /\ Outlook!Init
                \/ provider = "caldav" /\ Init

On(p) == provider = p /\ UNCHANGED provider

ConvergeNext == \/ On("google") /\ Google!Next
                \/ On("outlook") /\ Outlook!Next
                \/ On("caldav") /\ Next

\* The fairness of DestinationSync on the provider of the behaviour.
ConvergeFairness ==
  /\ WF_ConvergeVars(\/ On("google") /\ Google!RunStep
                     \/ On("outlook") /\ Outlook!RunStep
                     \/ On("caldav") /\ RunStep)
  /\ WF_ConvergeVars(\/ On("google") /\ Google!RestoreCoverage(1)
                     \/ On("outlook") /\ Outlook!RestoreCoverage(1)
                     \/ On("caldav") /\ RestoreCoverage(1))

ConvergeSpec == ConvergeInit /\ [][ConvergeNext]_ConvergeVars /\ ConvergeFairness

\* Once nobody edits anything and nothing fails any more, the runs bring a
\* destination of every kind to the wanted state.
Converges ==
  <>[](/\ provider = "google" => Google!Mirrored
       /\ provider = "outlook" => Outlook!Mirrored
       /\ provider = "caldav" => Mirrored)

\* Then the runs stop writing to the destination: no copy is rewritten, deleted
\* and added again for ever.
Quiesces == <>[][remote' = remote]_ConvergeVars
=============================================================================
