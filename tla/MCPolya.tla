------------------------------- MODULE MCPolya -------------------------------
(* Instances of Polya for TLC. *)
EXTENDS Polya
=============================================================================
