-------------------------- MODULE MCGuestServices --------------------------
(***************************************************************************)
(* The instance TLC checks. Room "101" has the extension of its own number, *)
(* room "102" one with the prefix of the tenant.                           *)
(***************************************************************************)
EXTENDS GuestServices

MCRooms == {"101", "102"}
MCExtensions == {"101", "2102"}
MCExtension == [r \in MCRooms |-> IF r = "101" THEN "101" ELSE "2102"]
Plain(kinds, r) == [kind : kinds, room : {r}, at : {NoTime}]
Timed(kind, r, times) == [kind : {kind}, room : {r}, at : times]

\* The wake-up events of one room, its check-out, and a neighbour.
WakeUpInputs ==
    Timed("wake_set", "101", {0, 1}) \cup Timed("wake_clear", "101", {0})
    \cup Plain({"wake_clearall", "check_out"}, "101") \cup Plain({"wake_clearall"}, "102")

\* The other events of one room, wake-up events without a time, and a neighbour.
StayInputs ==
    Plain(PlainKinds, "101") \cup Timed("wake_set", "101", {NoTime, BadTime})
    \cup Timed("wake_clear", "101", {NoTime}) \cup Plain({"check_out"}, "102")

NeighbourInputs == Timed("wake_set", "102", {NoTime}) \cup Plain({"check_out"}, "102")
LampInputs == Plain({"mwi_on", "rename", "dnd_on"}, "101")
=============================================================================
