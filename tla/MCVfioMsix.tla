------------------------------ MODULE MCVfioMsix ------------------------------
(* A device with a 32-bit BAR 0 and 64-bit BARs 2 and 4.  BAR 4 holds the    *)
(* table; BAR 2 may be larger than 4 GB.                                     *)
EXTENDS VfioMsix

MCBars == {0, 2, 4}
MCBarSizes ==
  {[b \in MCBars |-> IF b = 0 THEN 2 ELSE IF b = 2 THEN n ELSE 4] : n \in {8, 2 * Half}}
MCIs64 == {2, 4}
MCMessages == [slow \in BOOLEAN |-> IF slow THEN {1} ELSE {1, 2}]
=============================================================================
