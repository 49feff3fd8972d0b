--------------------------- MODULE MCPreprocessor ---------------------------
(***************************************************************************)
(* Instances of Preprocessor for TLC: the sources the runs start from, and *)
(* the properties that compare the output with what is promised.           *)
(***************************************************************************)
EXTENDS Preprocessor, PreprocReference

-----------------------------------------------------------------------------
(* Building sources from lines.                                            *)

Words == <<"t1", "t2", "t3", "t4", "t5", "t6", "t7", "t8", "t9", "t10", "t11", "t12",
           "t13", "t14", "t15", "t16", "t17", "t18", "t19", "t20", "t21", "t22", "t23",
           "t24">>

\* A text line; Number gives each one a word of its own.
T       == <<"t", "nl">>
If(c)   == <<"#if", "ws", c, "nl">>
Elif(c) == <<"#elif", "ws", c, "nl">>
Else    == <<"#else", "nl">>
Endif   == <<"#endif", "nl">>

Number(lines) == [i \in DOMAIN lines |-> IF lines[i] = T THEN <<Words[i], "nl">> ELSE lines[i]]

Source(lines) == FlattenSeq(Number(lines))

\* One file system per program: the root file and nothing else.
Single(programs) == {[main |-> Source(lines)] : lines \in programs}

\* Bodies of at most one line, and conditionals around given bodies.
Verdict    == {"0", "1"}
Leaf       == {<<>>, <<T>>}
IfElse(Bs) == {<<If(c)>> \o a \o <<Else>> \o b \o <<Endif>> : c \in Verdict, a, b \in Bs}
IfOnly(Bs) == {<<If(c)>> \o a \o <<Endif>> : c \in Verdict, a \in Bs}
IfElif(Bs) == {<<If(c)>> \o a \o <<Elif(e)>> \o b \o <<Endif>> :
                  c, e \in Verdict, a, b \in Bs}
IfElifElse(Bs) == {<<If(c)>> \o a \o <<Elif(e)>> \o b \o <<Else>> \o d \o <<Endif>> :
                  c, e \in Verdict, a, b, d \in Bs}

Then(As, Bs) == {a \o b : a \in As, b \in Bs}

\* Nesting of two, every conditional with an #else: the fragment for which
\* the output is what is promised.
ElseOnce    == Leaf \cup IfElse(Leaf)
TwoDeepElse == Then(IfElse(ElseOnce \cup Then(IfElse({<<T>>}), {<<T>>})), ElseOnce)

\* Any conditional without #elif, nested up to two; the same with #elif.
AnyOnce  == Leaf \cup IfElse(Leaf) \cup IfOnly(Leaf)
AnyTwo   == Then(IfElse(AnyOnce) \cup IfOnly(AnyOnce), AnyOnce)
ElifOnce == Leaf \cup IfElifElse({<<T>>}) \cup IfElif({<<T>>}) \cup IfOnly({<<T>>})
ElifTwo  == Then(IfElif(ElifOnce) \cup IfElse(ElifOnce), ElifOnce)

\* Quoted and commented directives, in branches taken and not.
Hidden   == {<<<<"q2", "#endif", "q2", "nl">>>>, <<<<"lcom", "#else", "nl">>>>}
TwoHidden == Then(IfElse(Leaf \cup Hidden \cup IfElse(Hidden)), {<<T>>})

CorpusTwoDeepElse == Single(TwoDeepElse \cup TwoHidden)
CorpusConditional == Single(AnyTwo \cup ElifTwo)

-----------------------------------------------------------------------------
(* Macros: every sequence of three of these pieces, with uses between.   *)

Define(names, value) == <<"#define", "ws">> \o names \o value \o <<"nl">>
Param(n, v) == <<"#param", "lpar", "int", "rpar", "ws", n, "ws", "assign", "ws", v, "nl">>
AliasAB     == <<"A", "amp", "B">>
Uses        == <<"A", "ws", "B", "nl">>
Guard       == <<"#ifndef", "ws", "A", "nl">>
Test(c)     == <<<<"#if", "ws">> \o c \o <<"ws", "nl">>, T, Else, T, Endif>>

MacroPieces ==
    {<<Define(<<"A">>, <<"ws", "1", "ws">>)>>, <<Define(AliasAB, <<"ws", "0">>)>>,
     <<Define(<<"A">>, <<>>)>>, <<Param("A", "1")>>, <<Param("B", "0")>>, <<Uses>>,
     <<Guard, Define(<<"A">>, <<"ws", "2">>), Endif>>,
     Test(<<"A">>), Test(<<"A", "ws", "eqeq", "ws", "B">>), Test(<<"B", "neq", "0">>)}

CorpusMacros ==
    Single({a \o b \o <<Uses>> \o c \o <<Uses>> : a, b, c \in MacroPieces})

-----------------------------------------------------------------------------
(* Inclusion: a root and two guarded headers that may include each other   *)
(* or themselves, a module that takes a parameter, and a file to import,   *)
(* whose parameter no importer configures.                                 *)

Include(f) == <<"#include", "ws", "q2", f, "q2", "nl">>
Enclose(f) == <<"#include", "ws", "lt", f, "gt", "nl">>
Import(f)  == <<"#import", "ws", "lt", f, "gt", "nl">>

\* A header under guard g with word w, perhaps without a final newline.
Header(g, w, body, last) ==
    FlattenSeq(<<<<"#ifndef", "ws", g, "nl">>, Define(<<g>>, <<"ws", "1">>), <<w, "nl">>>>
               \o body) \o last

\* What a header may hold, given how g is brought in.
HeaderBody(link) == {<<>>, <<Include("h")>>, <<link>>}

Configure == {<<>>, <<Define(AliasAB, <<"ws", "1">>)>>, <<Define(<<"A">>, <<"ws", "1">>)>>,
              <<Define(<<"B">>, <<"ws", "1">>)>>, <<Define(AliasAB, <<"ws", "0">>)>>}

Check == <<<<"#if", "ws", "B", "ws", "eqeq", "ws", "1", "nl">>, T, Else, T, Endif>>

RootPiece == {<<Include("h")>>, <<Enclose("g")>>, <<Include("m")>>, <<Import("p")>>}

CorpusInclude ==
    {[main |-> Source(conf \o <<T>> \o a \o b \o c \o Check \o <<Uses>>),
      h    |-> Header("H", "th", hBody, last),
      g    |-> Header("G", "tg", gBody, <<"#endif", "nl">>),
      m    |-> Param("A", "8"),
      p    |-> <<"tp", "nl">> \o Param("P", "8")] :
        conf \in Configure, a, b, c \in RootPiece, hBody, gBody \in HeaderBody(Enclose("g")),
        last \in {<<"#endif", "nl">>, <<"#endif">>}}

\* The headers alone, brought into a root in any order, twice, or in dead
\* code.
Cycles(link) ==
    {[main |-> Source(a \o b), h |-> Header("H", "th", hBody, <<"#endif">>),
      g |-> Header("G", "tg", gBody, <<"#endif", "nl">>)] :
        a, b \in {<<Include("h")>>, <<link>>, <<If("0"), Include("h"), Else, T, Endif>>},
        hBody, gBody \in HeaderBody(link)}

-----------------------------------------------------------------------------
(* Arbitrary text: a directive followed by any lexed sequence of units.    *)

\* The mark __/__ stands between blanks and never where a directive reads a
\* name, since its first two characters would be one.
Lexed(t) ==
    \A i \in 1 .. Len(t) - 1 :
        /\ t[i] \in Ident \cup Directive => t[i+1] \notin Ident
        /\ t[i] = "assign" => t[i+1] \notin {"assign", "eqeq"}
        /\ t[i] = "cont" => t[i+1] \in Blank
        /\ t[i+1] = "cont" =>
              t[i] \in Blank /\ ~(i > 1 /\ t[i-1] \in Directive /\ t[i] = "ws")

RawText(heads, units, n) ==
    {t \in {h \o u : h \in heads, u \in BoundedSeq(units, n)} : Lexed(t)}

RawDefine == RawText({<<"#define">>}, {"ws", "A", "amp", "cont", "nl"}, 6)
RawBlock  == RawText({<<"#define_m">>}, {"ws", "A", "amp", "nl", "#enddef"}, 5)
RawParam  == RawText({<<"#define", "ws", "A", "nl", "#param", "lpar">>,
                      <<"#param", "lpar">>, <<"#param">>},
                     {"ws", "A", "lpar", "rpar", "assign", "eqeq", "nl"}, 4)
RawOther  == RawText({<<"#include">>, <<"#skip">>, <<"q1">>, <<"q2">>},
                     {"ws", "q2", "esc", "lt", "gt", "h", "nl", "lcom", "bopen", "bclose"}, 3)
RawIf     == RawText({<<"#if", "ws">>, <<"#ifndef">>, <<"#if", "ws", "0", "nl">>},
                     {"ws", "1", "nl", "#ifndef", "#elif", "#else", "#endif", "#skip",
                      "q1", "#other"}, 4)

RawDisk(t) == [main |-> t, h |-> <<"t1", "nl">>]

CorpusRaw == Cycles(Import("g")) \cup
             {RawDisk(t) : t \in RawDefine \cup RawBlock \cup RawParam \cup RawOther \cup RawIf}

\* Everything whose output is compared with the promised one.
CorpusOutput == CorpusTwoDeepElse \cup CorpusMacros \cup CorpusInclude \cup Cycles(Enclose("g"))

\* Well-formed sources.
CorpusWellFormed == CorpusOutput \cup CorpusConditional

-----------------------------------------------------------------------------
(* Properties of the whole run.                                            *)

\* Every source in CorpusWellFormed is well formed: each conditional has its
\* #endif, each name its value.  No directive may fail on one, whatever the
\* flags left behind by the conditionals before it.
WellFormedNeverFails == pc # "error"

\* process() returns without an error and its output is the promised one:
\* the branches whose conditions hold, every macro replaced by its latest
\* text, every #param resolved, every included file in place of its line.
OutputIsPromised ==
    pc \in Stopped => pc = "done" /\ output = Read(disk, Root).out

\* The output is the promised one for the sources on which the documents and
\* the program agree: every conditional has an #else and no #elif, each
\* condition reached is settled, and an imported file uses no macro of the
\* importer.  Outside of these it is not; MCDivergence has two such sources.
OutputMatchesPromise ==
    pc \in Stopped /\ disk \in CorpusOutput =>
        LET promise == Read(disk, Root)
        IN  promise.settled => pc = "done" /\ output = promise.out

\* Every word that is promised comes out, in order, also of the sources that
\* OutputMatchesPromise leaves aside.  With #elif, or a conditional without
\* #else inside another, the output may hold lines of branches not taken; a
\* live line is lost in none of them.
NothingLost ==
    disk \in CorpusConditional /\ pc = "done" =>
        LET due == SelectSeq(Read(disk, Root).out, LAMBDA u : u \in Plain)
        IN  SelectSeq(output, LAMBDA u : u \in ToSet(due)) = due
=============================================================================
