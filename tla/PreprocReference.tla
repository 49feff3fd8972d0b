-------------------------- MODULE PreprocReference --------------------------
(***************************************************************************)
(* What the language's documents promise of a source file, line by line:   *)
(* conditionals as in C (Example.lgc:5), macros with aliases, #param,      *)
(* inclusion as a copy of the file (Example.lgc:19), importation of a file *)
(* that does not see the importer's macros (Example.lgc:27-29).  This is   *)
(* the specification the preprocessor's output is compared with; it models *)
(* no code.  Used by TLC only.                                             *)
(***************************************************************************)
EXTENDS PreprocText

\* The lines of a text, each with its newline.
Lines(t) ==
    LET Add(ls, u) == IF ls = <<>> \/ Last(Last(ls)) = "nl"
                      THEN Append(ls, <<u>>)
                      ELSE Append(Front(ls), Append(Last(ls), u))
    IN  FoldLeft(Add, <<>>, t)

Digit == {"0", "1", "2", "8"}

\* outer holds the macro tables of importers.  settled: each condition so far
\* is one whose value the documents and the program agree on.
Start == [open |-> <<>>, macros |-> <<>>, out |-> <<>>, outer |-> <<>>, settled |-> TRUE]

Live(open) == \A i \in DOMAIN open : open[i].live

\* A name stands for its text, one that is not defined for 0.
Value(macros, s) ==
    IF s[1] \in Digit THEN s
    ELSE IF s[1] \in DOMAIN macros THEN macros[s[1]] ELSE <<"0">>

Operator(e) == FindNext(e, 0, {"eqeq", "neq"})

\* The one or two terms of a condition.
Terms(e) ==
    LET op == Operator(e)
    IN  IF op = NoPos THEN {Trim(e)} ELSE {Trim(Slice(e, 0, op)), Trim(Slice(e, op + 1, Len(e)))}

\* The truth of a number, or a comparison of two.
Holds(macros, e) ==
    LET op     == Operator(e)
        values == {Value(macros, s) : s \in Terms(e)}
    IN  IF op = NoPos THEN values # {<<"0">>}
        ELSE (At(e, op) = "eqeq") = (Cardinality(values) = 1)

\* In C a name without a text is no condition, and the program decides three
\* cases in its own way: such a name is true, a number other than 0 and 1 is
\* false, and an undefined name in a comparison is its own spelling.
Settles(macros, e) ==
    LET numbers == {<<d>> : d \in IF Operator(e) = NoPos THEN {"0", "1"} ELSE Digit}
    IN  \A s \in Terms(e) :
            /\ Value(macros, s) \in numbers
            /\ Operator(e) # NoPos => s[1] \in Digit \cup DOMAIN macros

\* A branch is live if its condition holds, no earlier one was taken and
\* everything around it is live.
Opened(open, c) ==
    Append(open, [live |-> Live(open) /\ c, taken |-> ~Live(open) \/ c])

Switched(open, c) ==
    LET b == Last(open)
    IN  Append(Front(open), [live |-> c /\ ~b.taken, taken |-> b.taken \/ c])

Expand(macros, line) ==
    FlattenSeq([i \in DOMAIN line |->
        IF line[i] \in DOMAIN macros THEN macros[line[i]] ELSE <<line[i]>>])

\* #define names value; a name list has no blanks.
Defined(macros, arg) ==
    LET end   == RunEnd(arg, 0, Ident \cup {"amp"})
        names == Ident \cap ToSet(Slice(arg, 0, end))
        value == Trim(Slice(arg, end, Len(arg)))
    IN  [n \in names \cup DOMAIN macros |-> IF n \in names THEN value ELSE macros[n]]

\* #param (type) name = default: the macro of that name overrides the
\* default and disappears.
Parameter(st, arg) ==
    LET close == FindNext(arg, 0, {"rpar"})
        eq    == FindNext(arg, 0, {"assign"})
        name  == Trim(Slice(arg, close + 1, eq))
        known == name[1] \in DOMAIN st.macros
        value == IF ~known THEN Trim(Slice(arg, eq + 1, Len(arg)))
                 ELSE IF st.macros[name[1]] = <<>> THEN <<"1">> ELSE st.macros[name[1]]
    IN  [st EXCEPT !.out = st.out \o <<"constexpr">> \o Slice(arg, 1, close) \o name
                                  \o <<"assign">> \o value \o <<"nl">>,
                   !.macros = Restrict(st.macros, DOMAIN st.macros \ {name[1]})]

\* The condition of an #if or #elif that is reached.
Asked(st, arg) == [st EXCEPT !.settled = st.settled /\ Settles(st.macros, arg)]

OpenIf(st, arg) ==
    IF Live(st.open)
    THEN [Asked(st, arg) EXCEPT !.open = Opened(st.open, Holds(st.macros, arg))]
    ELSE [st EXCEPT !.open = Opened(st.open, FALSE)]

SwitchElif(st, arg) ==
    IF Last(st.open).taken
    THEN [st EXCEPT !.open = Switched(st.open, FALSE)]
    ELSE [Asked(st, arg) EXCEPT !.open = Switched(st.open, Holds(st.macros, arg))]

\* begin and end stand around the text of an imported file.
ReadLine(st, line) ==
    LET body == Trim(line)
        word == IF body = <<>> THEN "nl" ELSE body[1]
        arg  == IF body = <<>> THEN <<>> ELSE Trim(Tail(body))
        live == Live(st.open)
    IN  CASE word = "#if"     -> OpenIf(st, arg)
          [] word = "#ifndef" -> [st EXCEPT !.open = Opened(st.open, arg[1] \notin DOMAIN st.macros)]
          [] word = "#elif"   -> SwitchElif(st, arg)
          [] word = "#else"   -> [st EXCEPT !.open = Switched(st.open, TRUE)]
          [] word = "#endif"  -> [st EXCEPT !.open = Front(st.open)]
          [] word = "begin"   -> [st EXCEPT !.outer = Append(st.outer, st.macros), !.macros = <<>>]
          [] word = "end"     -> [st EXCEPT !.outer = Front(st.outer), !.macros = Last(st.outer)]
          [] ~live            -> st
          [] live /\ word = "#define" -> [st EXCEPT !.macros = Defined(st.macros, arg)]
          [] live /\ word = "#param"  -> Parameter(st, arg)
          [] OTHER            -> [st EXCEPT !.out = st.out \o Expand(st.macros, line)]

\* An #include is a copy of the file in place of the line, an #import the
\* file read on its own.  fuel bounds the depth of files that name each
\* other; a guard makes the rest dead.
RECURSIVE Inlined(_, _, _)
Inlined(d, f, fuel) ==
    LET named(line) == CHOOSE g \in DOMAIN d \cap ToSet(line) : TRUE
        Inline(line) ==
            IF line[1] \notin {"#include", "#import"} THEN line
            ELSE IF fuel = 0 THEN <<>>
            ELSE IF line[1] = "#include" THEN Inlined(d, named(line), fuel - 1)
            ELSE <<"begin", "nl">> \o Inlined(d, named(line), fuel - 1) \o <<"end", "nl">>
        lines == Lines(IF Last(d[f]) = "nl" THEN d[f] ELSE d[f] \o <<"nl">>)
    IN  FoldLeft(LAMBDA text, line : text \o Inline(line), <<>>, lines)

\* What is promised of the root file of a file system: its output, and
\* whether the documents and the program agree on every condition reached.
Read(d, root) == FoldLeft(ReadLine, Start, Lines(Inlined(d, root, 4)))
=============================================================================
