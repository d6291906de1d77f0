------------------------------- MODULE MCPBX -------------------------------
(* Instances of PBX for TLC: the clients are interchangeable. *)
EXTENDS PBX, TLC

Symmetry == Permutations(Ext)

\* With three phones the run is cut at states where more than two things are
\* pending at a time: calls to pbx.c under way, unread messages, clients gone.
FewPending ==
  LET calling == {f \in Ext : pc[f] \in {"waiting", "inside"}}
      unread  == {f \in Ext : wire[f] # <<>>}
      gone    == {f \in Ext : link[f] \in {"gone", "reset"}}
  IN Cardinality(calling) + Cardinality(unread) + Cardinality(gone) <= 2
=============================================================================
