----------------------------- MODULE MCTypeStore -----------------------------
(***************************************************************************)
(* Instances of TypeStore for TLC.                                         *)
(***************************************************************************)
EXTENDS TypeStore

\* No flag or as many as a member has words; no member or one.
SomeFlags   == {<<>>, <<6, 7, 5>>}
SomeMembers == {<<>>, <<2, 1, 3>>}
=============================================================================
