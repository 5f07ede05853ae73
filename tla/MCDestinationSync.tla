------------------------- MODULE MCDestinationSync -------------------------
(* Small instances of DestinationSync for TLC. *)
EXTENDS DestinationSync

OneSource == [o \in Owners |-> 1]
=============================================================================
