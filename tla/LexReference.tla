---------------------------- MODULE LexReference ----------------------------
(***************************************************************************)
(* What the lexer's tokens should be, stated on the source text alone: the *)
(* language of lexemes, and three properties that compare the buffered     *)
(* tokens with it.  Tokens are taken to be shorter than LengthMod.         *)
(***************************************************************************)
EXTENDS Lexer

-----------------------------------------------------------------------------
(* Between the tokens.                                                     *)

\* From a to b the source holds one blank, or one comment with all its text:
\* a comment ends before a newline, after its first */, or with the source
\* (a null character counts as its end).
IsSkipped(a, b) ==
    LET s         == Slice(source, a, b)
        n         == b - a
        without(U) == \A i \in 1 .. n : s[i] \notin U
        closed(i) == i > 3 /\ s[i - 1] = "*" /\ s[i] = "/"
    IN  \/ n = 1 /\ s[1] \in Blank
        \/ n > 1 /\ s[1] = "/" /\ s[2] = "/" /\ without({"nl", "nul"})
                 /\ At(source, b) \in {"nl", "nul"}
        \/ /\ n > 1 /\ s[1] = "/" /\ s[2] = "*" /\ without({"nul"})
           /\ \A i \in 1 .. n - 1 : ~closed(i)
           /\ closed(n) \/ At(source, b) = "nul"

\* Between two tokens, and before the first one, there is nothing but blanks
\* and comments: no character of the program is lost, and Eof comes last.
GapsAreBlank ==
    \A i \in DOMAIN thisExpr :
        LET a == IF i = 1 THEN 0 ELSE End(thisExpr[i - 1])
            b == thisExpr[i].globalOffset
        IN  \E cuts \in SUBSET (a .. b) :
                /\ {a, b} \subseteq cuts
                /\ \A c \in cuts \ {b} : IsSkipped(c, Min({d \in cuts : d > c}))

-----------------------------------------------------------------------------
(* Literals.                                                               *)

\* A literal runs from its quote to the first one of the kind that an even
\* number of backslashes precedes, or else to the end of the source.
LiteralsClose ==
    \A i \in DOMAIN thisExpr :
        thisExpr[i].type \in {<<"LString">>, <<"LChar">>} =>
            LET x        == getText(thisExpr[i])
                escapes(k) == {j \in 2 .. k - 1 : \A m \in j .. k - 1 : x[m] = "esc"}
                closing  == {k \in 2 .. Len(x) :
                                x[k] = x[1] /\ Cardinality(escapes(k)) % 2 = 0}
            IN  /\ x # <<>> /\ x[1] = IF thisExpr[i].type = <<"LChar">> THEN "q1" ELSE "q2"
                /\ \A k \in DOMAIN x : x[k] # "nul"
                /\ IF closing = {} THEN At(source, End(thisExpr[i])) = "nul"
                                   ELSE closing = {Len(x)}

-----------------------------------------------------------------------------
(* Words, numbers and operators.                                           *)

\* The operators TT_STRMAP spells.
Spelled == {<<c>> : c \in Operators} \cup
           {<<c, c>> : c \in {"+", "-", "=", "&", "|", ">", "<", ":", "/"}} \cup
           {<<c, "=">> : c \in {"+", "-", "*", "/", "%", "&", "|", "~", "^", "!", ">", "<"}} \cup
           {<<c, c, "=">> : c \in {">", "<"}} \cup
           {<<"-", ">">>, <<".", ".", ".">>}

\* The words, hexadecimal numbers, whole numbers and floats of the language.
AllIn(x, b, e, S) == \A k \in b .. e : x[k] \in S

IsWord(x) == x # <<>> /\ x[1] \in Letter /\ AllIn(x, 1, Len(x), WordChar)

IsHexNumber(x) ==
    /\ Len(x) > 1 /\ x[1] = "0" /\ x[2] = "x"
    /\ \E k \in 2 .. Len(x) : AllIn(x, 3, k, HexDigit) /\ AllIn(x, k + 1, Len(x), Suffix)

\* Digits up to i, a fraction up to j, an exponent up to k, suffixes.
DecimalSplit(x, i, j, k) ==
    /\ AllIn(x, 1, i, Digit)
    /\ j > i => j > i + 1 /\ x[i + 1] = "." /\ AllIn(x, i + 2, j, Digit)
    /\ k > j => /\ x[j + 1] = "e"
                /\ k > j + 1 => x[j + 2] \in Sign \cup Digit /\ AllIn(x, j + 3, k, Digit)
    /\ AllIn(x, k + 1, Len(x), Suffix)

IsWhole(x) == \E i \in 1 .. Len(x) : DecimalSplit(x, i, i, i)

IsFloatNumber(x) ==
    \E i \in 1 .. Len(x) : \E j \in i .. Len(x) : \E k \in j .. Len(x) :
        k > i /\ DecimalSplit(x, i, j, k)

HasType(x, type) ==
    \/ IsWord(x) /\ type = IF x \in Keyword THEN x ELSE <<"Ident">>
    \/ (IsWhole(x) \/ IsHexNumber(x)) /\ type = <<"LInt">>
    \/ IsFloatNumber(x) /\ type = <<"LFloat">>
    \/ x \in Spelled /\ type = x

IsLexeme(x) == IsWord(x) \/ IsHexNumber(x) \/ IsWhole(x) \/ IsFloatNumber(x) \/ x \in Spelled

\* Maximal munch: a token is the longest lexeme of the language that begins
\* where it begins, and has that lexeme's type; a character is Unknown only
\* if no lexeme begins with it.
LongestLexeme ==
    \A i \in DOMAIN thisExpr :
        LET t       == thisExpr[i]
            rest(n) == Slice(source, t.globalOffset, n)
        IN  CASE t.type \in {<<"LString">>, <<"LChar">>, <<"Eof">>} -> TRUE
              [] t.type = <<"Unknown">> ->
                    t.size = 1 /\ source[End(t)] \notin WordChar \cup Quote \cup Blank
                               /\ ~IsLexeme(getText(t))
              [] OTHER ->
                    /\ HasType(getText(t), t.type)
                    /\ \A n \in End(t) + 1 .. Len(source) : ~IsLexeme(rest(n))
=============================================================================
