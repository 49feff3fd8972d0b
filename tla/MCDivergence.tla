---------------------------- MODULE MCDivergence ----------------------------
(***************************************************************************)
(* Sources for which the preprocessor does not do what the language's      *)
(* documents say, and the statements they violate.                         *)
(***************************************************************************)
EXTENDS MCPreprocessor

CorpusElif   == Single(IfElifElse({<<T>>}))
CorpusNested == Single(IfElse(IfOnly(Leaf) \cup Leaf))
=============================================================================
