------------------------------ MODULE MCParser ------------------------------
(***************************************************************************)
(* Instances of Parser for TLC: alphabets and skeletons that each bring    *)
(* out one part of the grammar.  Every text may also end early.  What an   *)
(* expression must group into is defined here over its tokens, without a   *)
(* parser.                                                                 *)
(***************************************************************************)
EXTENDS Parser

\* Each of the first n tokens is any of A, or the text ends there.
AnyOf(A, n) == [i \in 1 .. n |-> A \cup {"Eof"}]

OneName == {"x"}

-----------------------------------------------------------------------------
(* Expressions.                                                            *)

Unary == {"x", "Minus", "Star", "Equals", "Left", "Right"}

Operator   == UNION Range(Level) \cup {"TildeEquals", "LLeEquals", "GGrEquals"}
OnePerLevel == {"Equals", "BBar", "AAmp", "Bar", "Up", "Amp", "EEquals", "Lesser",
                "LLesser", "Plus", "Star"}

Expressions == {
    AnyOf(Unary, 6),
    AnyOf({"x", "PPlus", "Left", "Right", "Dot", "Comma"}, 6),
    AnyOf({"x", "SqLeft", "SqRight", "Arrow", "Excl"}, 6),
    <<{"x"}, Operator, {"LInt"}, Operator, {"x"}>>,
    <<{"x"}, OnePerLevel, {"x"}, OnePerLevel, {"x"}, OnePerLevel, {"x"}>>}

-----------------------------------------------------------------------------
(* Statements.                                                             *)

Statements == {
    AnyOf({"kIf", "kElse", "kWhile", "Left", "Right", "x", "BrLeft", "BrRight"}, 7),
    AnyOf({"x", "kAuto", "kType", "Equals", "Colon", "using", "BrLeft", "BrRight", "Semi"}, 5),
    <<Qualifier \cup {"kByte"}>> \o AnyOf({"x", "kAuto", "kConst", "kVoid", "LInt", "Semi"}, 4),
    <<{"x", "kAuto"}, {"x"}, {"Left"}>> \o
        AnyOf({"x", "kAuto", "Comma", "Equals", "Left", "Right", "BrLeft", "Semi"}, 5),
    <<{"x"}, {"x"}, {"Left"}, {"Right"}>> \o AnyOf({"BrLeft", "BrRight", "Semi", "x"}, 4),
    <<{"kFor"}, {"Left"}>> \o AnyOf({"x", "Semi", "Right", "Minus"}, 6),
    <<{"kEval", "kIf"}, {"Left"}, {"x"}, {"Right"}>> \o AnyOf({"x", "kElse", "Semi"}, 4),
    <<{"kStruct", "kNamespace", "kDelete", "kRequires", "kReturn", "Left"} \cup Jump>> \o
        AnyOf({"x", "kAuto", "kDelete", "Colon", "BrLeft", "BrRight", "Semi", "Right"}, 4)}

\* Six statements whose nodes are 1 to 6, and a loop.
LateLoop == {[i \in 1 .. 12 |-> IF i % 2 = 1 THEN {"LInt"} ELSE {"Semi"}] \o
             <<{"kWhile"}, {"Left"}, {"LInt"}, {"Right"}, {"LInt"}, {"Semi"}>>}

AnySource == Expressions \cup Statements

-----------------------------------------------------------------------------
(* How the tokens lo .. hi of the input group, as a sequence of token      *)
(* indices with brackets around each node: the last of the weakest binary  *)
(* operators is the root; then prefix operators, then the postfix ones.    *)

Opening == 0
Shut    == -1

Around(s) == <<Opening>> \o s \o <<Shut>>

IsOpen(p)  == input[p] \in DOMAIN Closing
IsClose(p) == input[p] \in Range(Closing)

\* How deep in brackets token p is within lo .. p; brackets count inside.
Depth(lo, p) ==
    Cardinality({q \in lo .. p : IsOpen(q)}) - Cardinality({q \in lo .. p - 1 : IsClose(q)})

EndsOperand(p) ==
    IsClose(p) \/ TypeOf(input[p]) \in Literal \cup {"Ident"} \/ input[p] = "PPlus"

BinaryIn(lo, hi) ==
    {p \in lo + 1 .. hi : /\ Precedence(input[p]) > 0
                          /\ Depth(lo, p) = 0
                          /\ EndsOperand(p - 1)}

Opener(lo, hi) == CHOOSE p \in lo .. hi :
    /\ IsOpen(p) /\ Depth(lo, p) = 1
    /\ \A q \in p + 1 .. hi : ~(IsOpen(q) /\ Depth(lo, q) = 1)

FirstComma(lo, hi) ==
    Min({hi + 1} \cup {p \in lo .. hi : input[p] = "Comma" /\ Depth(lo, p) = 0})

RECURSIVE Grouped(_, _)
Grouped(lo, hi) ==
    LET binary == BinaryIn(lo, hi)
        weak   == {p \in binary : \A q \in binary : Precedence(input[p]) <= Precedence(input[q])}
    IN  IF lo > hi THEN <<>>
        ELSE IF binary # {}
        THEN Around(Grouped(lo, Max(weak) - 1) \o <<Max(weak)>> \o Grouped(Max(weak) + 1, hi))
        ELSE IF input[lo] \in Prefix
        THEN Around(<<lo>> \o Grouped(lo + 1, hi))
        ELSE IF lo = hi THEN <<lo>>
        ELSE IF input[hi] = "PPlus"
        THEN Around(Grouped(lo, hi - 1) \o <<hi>>)
        ELSE IF input[hi - 1] \in {"Dot", "Arrow"}
        THEN Around(Grouped(lo, hi - 2) \o <<hi - 1, hi>>)
        ELSE LET p == Opener(lo, hi)
             IN  IF p = lo THEN Grouped(lo + 1, hi - 1)
                 ELSE Around(Grouped(lo, p - 1) \o Grouped(p + 1, FirstComma(p + 1, hi - 1) - 1))

\* The same for what the parser has built.
RECURSIVE Built(_)
Built(id) ==
    LET n  == tree[id + 1]
        at == <<n.off + 1>>
        of(i) == IF n.kids[i] = Null THEN <<>> ELSE Built(n.kids[i])
    IN  CASE n.kids = <<>>            -> at
          [] n.kind = "CallExpr" \/ n.op = "SqLeft" -> Around(of(1) \o of(2))
          [] n.kind = "UnaryExpr"     -> Around(IF n.len = 1 THEN at \o of(1) ELSE of(1) \o at)
          [] OTHER                    -> Around(of(1) \o at \o of(2))

\* Every expression statement is grouped by precedence, equal operators
\* from the left (parser.cpp:85-106 and 605-626).
ExpressionsGroup ==
    source \in Expressions /\ At("drop") /\ Len(agenda) = 3 =>
        LET last == IF input[pos] = "Semi" THEN pos - 1 ELSE pos
        IN  Built(Last(vals)) = Grouped(agenda[2][2] + 1, last)
=============================================================================
