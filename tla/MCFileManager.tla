---------------------------- MODULE MCFileManager ----------------------------
(***************************************************************************)
(* Instances of FileManager for TLC.                                       *)
(***************************************************************************)
EXTENDS FileManager

\* Three names, one a prefix of another and one of its suffixes.
Names == {<<"a">>, <<"a", "b">>, <<"b">>}
NoName   == <<"FF">>

\* Line ends in every position relative to one another.
SomeRaw == {<<>>, <<"LF", "CR", "CR", "LF", "x">>, <<"x", "CR", "LF", "CR">>}

SomeView == {<<>>, <<"CR", "a">>}
=============================================================================
