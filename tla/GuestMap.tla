------------------------------ MODULE GuestMap ------------------------------
(***************************************************************************)
(* What an EPT promises to the VM: guest pages are mapped one at a time,   *)
(* each to the page the memory slot has for it, stay mapped as long as the *)
(* VM lives, and all go with it.                                           *)
(***************************************************************************)
CONSTANTS Gpas, Slot, None

VARIABLE map

Empty == [g \in Gpas |-> None]

Init == map = Empty

Map(g) == map[g] = None /\ map' = [map EXCEPT ![g] = Slot[g]]

Drop == map' = Empty

Next == Drop \/ \E g \in DOMAIN Slot : Map(g)

Spec == Init /\ [][Next]_map
=============================================================================
