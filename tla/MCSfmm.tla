------------------------------ MODULE MCSfmm ------------------------------
(* Instances of Sfmm for TLC. *)
EXTENDS Sfmm
SmallSizes == {1, 3, 16}
SmallAlignments == {2}
=============================================================================
