--------------------------- MODULE MCSyncSettings ---------------------------
(* Two settings of DestinationSync in one run.  "shared", the constants of    *)
(* the configuration: two sources of one event each sharing an Outlook        *)
(* calendar that is read by ids while it is small.  "series": one source with *)
(* an event and a series over two slots, mirrored to CalDAV.  Both are run in *)
(* chunks of one.                                                             *)
(*                                                                            *)
(* EveryCopyRecorded, UpdatesNeverCollide and DeletesOnlyWhatItMay read only  *)
(* the variables and SourceOf, in which the settings agree: as they stand in  *)
(* DestinationSync they speak of both.                                        *)
EXTENDS DestinationSync

VARIABLE setting

MCSourceOf == [o \in {1, 2} |-> o]

Series == INSTANCE DestinationSync WITH
  Owners <- {1}, Sources <- {1}, SourceOf <- [o \in {1} |-> 1], LastSlot <- 2,
  Bodies <- {1}, Provider <- "caldav", Unpushable <- {}, TargetedReadLimit <- 0

SettingsVars == <<vars, setting>>

SettingsInit == \/ setting = "series" /\ Series!Init
                \/ setting = "shared" /\ Init

SettingsNext == /\ UNCHANGED setting
                /\ \/ setting = "series" /\ Series!Next
                   \/ setting = "shared" /\ Next

SettingsSpec == SettingsInit /\ [][SettingsNext]_SettingsVars

\* Every variable of a run keeps its kind, whatever the source and the provider.
SettingsTypeOK == /\ setting = "series" => Series!TypeOK
                  /\ setting = "shared" => TypeOK
=============================================================================
