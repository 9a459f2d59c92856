---------------------------- MODULE MCMiniKvmEpt ----------------------------
(* An instance of MiniKvmEpt for TLC. *)
EXTENDS MiniKvmEpt, TLC
CONSTANTS p1, p2, p3, p4

\* Pages of the slot that part at the last, the third and the second index, and
\* at the root; and one outside the slot.
Near == <<0, 0, 0, 0>>
SameTable == <<0, 0, 0, 1>>
SameDir == <<0, 0, 1, 0>>
Far == <<0, 1, 0, 0>>
Outside == <<1, 0, 0, 0>>
MCGpas == {Near, SameTable, SameDir, Far, Outside}
MCSlot == [g \in MCGpas \ {Outside} |->
             CASE g = Near -> p1 [] g = SameTable -> p2
               [] g = SameDir -> p3 [] OTHER -> p4]

\* Any free frame will do for a table.
FrameSymmetry == Permutations(Frames)
=============================================================================
