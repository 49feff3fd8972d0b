------------------------------ MODULE MCAstFile ------------------------------
(***************************************************************************)
(* Instances of AstFile for TLC.                                           *)
(***************************************************************************)
EXTENDS AstFile

\* Every tree of up to three nodes of two kinds.
SmallTrees == UNION {[1 .. n -> Node] : n \in 0 .. 3}
=============================================================================
