---------------------------- MODULE MCPbxTester ----------------------------
(* Instances of PbxTester for TLC: the testers are interchangeable. *)
EXTENDS PbxTester, TLC

Symmetry == Permutations(Ext)
============================================================================
