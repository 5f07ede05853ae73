--------------------------- MODULE MCPushChannels ---------------------------
(* A Google and an Outlook account with one calendar each.                    *)
EXTENDS PushChannels

MCAccountOf == [c \in Calendars |-> IF c = "g" THEN "a" ELSE "b"]
=============================================================================
