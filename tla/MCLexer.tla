------------------------------ MODULE MCLexer ------------------------------
(***************************************************************************)
(* Instances of Lexer for TLC: every short text over alphabets that each   *)
(* bring out one part of the lexer.                                        *)
(***************************************************************************)
EXTENDS LexReference

Words(A, n) == UNION {[1 .. k -> A] : k \in 0 .. n}

\* Comments of both kinds inside, next to and instead of one another.
Comments == Words({"/", "*", "nl", "z", "nul"}, 5)

\* Escaped and other quotes, open literals, null characters.
Literals == Words({"q1", "q2", "esc", "nul"}, 5)

\* Letters that are digits, exponents, suffixes or all of them.
Numbers == Words({"0", "1", "x", "e", "f", ".", "-", "z"}, 4) \cup
           {<<"1", ".", "0">> \o w : w \in Words({"e", "+", "1", "l", "."}, 3)} \cup
           {<<"0", "x">> \o w : w \in Words({"e", "-", "1", "u", "a"}, 3)}

\* A keyword inside longer words.
Names == Words({"i", "f", "0", "ws", "@"}, 4)

Punctuation == Words(Operators, 3)

AnyText == Comments \cup Literals \cup Numbers \cup Names \cup Punctuation

SomeReset == {<<>>, <<"i", "f">>}

\* One a prefix of the other, as const is of constexpr.
Keywords == {<<"i", "f">>, <<"i", "f", "i">>}
=============================================================================
