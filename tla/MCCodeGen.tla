----------------------------- MODULE MCCodeGen -----------------------------
(***************************************************************************)
(* Instances of CodeGen for TLC: programs put together from statements.    *)
(***************************************************************************)
EXTENDS CodeGen

Names == {"int", "T", "x", "f"}

\* With the first the type's name is a variable as well, with the second
\* also f, and a function f is declared.
Prelude == {<<>>,
            <<"int", "int", "Semi">>,
            <<"int", "int", "Semi", "int", "f", "Semi", "int", "f", "Left", "Right", "Semi">>}

Fragment == {
    <<"int", "x", "Semi">>,
    <<"int", "x", "Equals", "LInt", "Semi">>,
    <<"int", "x", "Equals", "LString", "Semi">>,
    <<"kConstexpr", "int", "x", "Equals", "LInt", "Plus", "LInt", "Semi">>,
    <<"kConstexpr", "int", "x", "Equals", "x", "Semi">>,
    <<"int", "x", "Equals", "BrLeft", "BrRight", "Semi">>,
    <<"kConstexpr", "int", "int", "Semi">>,
    <<"kAuto", "x", "Equals", "LInt", "Semi">>,
    <<"x", "Equals", "LInt", "Semi">>,
    <<"x", "Plus", "LInt", "Semi">>,
    <<"Minus", "x", "Semi">>,
    <<"Minus", "LString", "Semi">>,
    <<"Excl", "LInt", "Semi">>,
    <<"x", "PPlus", "Semi">>,
    <<"kReturn", "LInt", "Semi">>,
    <<"kIf", "Left", "LInt", "Right", "kReturn", "Semi">>,
    <<"kIf", "Left", "x", "Right", "BrLeft", "BrRight">>,
    <<"kWhile", "Left", "LInt", "Right", "kBreak", "Semi">>,
    <<"kWhile", "Left", "x", "Right", "BrLeft", "BrRight">>,
    <<"BrLeft", "BrRight">>,
    <<"f", "Left", "Right", "Semi">>,
    <<"int", "f", "Left", "Right", "BrLeft", "BrRight">>,
    <<"kType", "T", "Equals", "int", "Semi">>,
    <<"T", "x", "Semi">>,
    <<"kStruct", "T", "Semi">>,
    <<"x", "Dot", "x", "Semi">>}

\* A program is a source with one choice of token everywhere.
Only(tokens) == [i \in DOMAIN tokens |-> {tokens[i]}]

Programs == {Only(p \o s \o t) : p \in Prelude, s \in Fragment, t \in Fragment}

\* A function with its body in braces, after declarations of all its names as
\* variables, which the walk over types and names needs.
BracedPrograms ==
    {Only(<<"int", "int", "Semi", "int", "f", "Semi", "int", "f", "Left", "Right", "BrLeft">>
            \o body \o <<"BrRight">>) : body \in {<<>>, <<"kReturn", "LInt", "Semi">>}}

\* A function with a body in braces, all of whose names are declared, compiles:
\* the example's "auto computeFactorial(int n) {" (ex_alpha_01.lgc:28) is an
\* ordinary program.
BracedFunctionsCompile == status \notin {"failed", "undefined", "overflow"}
=============================================================================
