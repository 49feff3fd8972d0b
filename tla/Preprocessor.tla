---------------------------- MODULE Preprocessor ----------------------------
(***************************************************************************)
(* The preprocessor of the Logic compiler: one pass over a root file, a    *)
(* stack of suspended files, a macro table that outlives every file, and   *)
(* one stack of branch flags shared by all files.                          *)
(*                                                                         *)
(* Preprocessor::process runs in one thread.  Every iteration of its loop  *)
(* is one action; the loops of skip_if_branch, of the literal copier and   *)
(* of evalCondition's recursion take one action per iteration.             *)
(***************************************************************************)
EXTENDS PreprocText

CONSTANTS
    FileName,  \* names an #include can write
    Root,      \* the file the preprocessor is started on
    Corpus,    \* the file systems considered: file name -> text, partial
    NestMod    \* 2^16: nestCount is uint16_t

ASSUME CorpusAssumption ==
    \A d \in Corpus : /\ DOMAIN d \subseteq FileName
                      /\ d \in [DOMAIN d -> Text]
                      /\ \A f \in DOMAIN d : Len(d[f]) < Wrap
ASSUME RootAssumption == Root \in FileName
ASSUME NestAssumption == NestMod \in Nat \ {0, 1}

VARIABLES
    disk,          \* the files; chosen once, the program never writes them
    inputStack,    \* frames: the file and the cursor in it
    storedMacros,  \* the defined names and the snippet each expands to
    branchFlags,   \* one set of BranchState flags per open conditional
    currActive,    \* the directive being handled, None before the first
    output,        \* output_buffer
    pc,            \* which loop is running, or how process() returned
    ret,           \* the code of the directive that failed, else 0
    cond,          \* the snippet evalCondition is working on
    quote,         \* the quote that opened the literal being copied
    skip           \* skip_if_branch's nestCount, stringed1 and stringed2

vars == <<disk, inputStack, storedMacros, branchFlags, currActive, output,
          pc, ret, cond, quote, skip>>

Flags   == {"ACTIVE", "EVER_TAKEN"}
Taken   == {"ACTIVE", "EVER_TAKEN"}
Running == {"process", "literal", "eval", "skip"}
Stopped == {"done", "error", "crash"}

\* An absolute POffset is a file and an offset in that file's content.
Snippet == [file : FileName, offset : Nat, size : Nat]

NoSnippet == [file |-> Root, offset |-> 0, size |-> 0]
FreshSkip == [nest |-> 1, stringed1 |-> FALSE, stringed2 |-> FALSE]

-----------------------------------------------------------------------------
(* The frame on top, and the macro table.                                  *)

top    == Last(inputStack)
source == disk[top.file]
cursor == top.cursor

AtEnd == cursor >= Len(source)

\* The unit under the cursor is in U.
Sees(U) == /\ inputStack # <<>>
           /\ ~AtEnd
           /\ At(source, cursor) \in U

\* A fault: the outermost file's cursor is moved, not the innermost one's.
MoveOutermost(c) == inputStack' = [inputStack EXCEPT ![1].cursor = c]

MoveTo(c) == inputStack' = [inputStack EXCEPT ![Len(inputStack)].cursor = c]

\* An early return of a handler: process() logs the code and returns, and
\* the cursor stays where the handler left it.
Fail(code, c) == /\ MoveTo(c)
                 /\ pc' = "error"
                 /\ ret' = code

isDefined(n) == n \in DOMAIN storedMacros

\* A whole trimmed expression that is a defined name.
IsMacro(s) == Len(s) = 1 /\ isDefined(s[1])

Contents(sn) == Slice(disk[sn.file], sn.offset, sn.offset + sn.size)

InBounds(sn) == sn.offset + sn.size <= Len(disk[sn.file])

\* A fault: a name that is defined keeps its first snippet.
addNewMacros(names, sn) ==
    storedMacros' = [n \in names \cup DOMAIN storedMacros |->
                        IF isDefined(n) THEN storedMacros[n] ELSE sn]

addMacros(names, sn) ==
    storedMacros' = [n \in names \cup DOMAIN storedMacros |->
                        IF n \in names THEN sn ELSE storedMacros[n]]

\* A fault: all names of the snippet are forgotten.
forgetAliases(n) ==
    storedMacros' = Restrict(storedMacros,
                             {m \in DOMAIN storedMacros : storedMacros[m] # storedMacros[n]})

forgetMacro(n) == storedMacros' = Restrict(storedMacros, DOMAIN storedMacros \ {n})

TopFlags == IF branchFlags = <<>> THEN {} ELSE Last(branchFlags)

SetTopFlags(flags) ==
    branchFlags' = [branchFlags EXCEPT ![Len(branchFlags)] = flags]

-----------------------------------------------------------------------------
(* process(): everything but directives.                                   *)

\* A finished file gives way to the one that included it.
PopFrame ==
    /\ pc = "process"
    /\ inputStack # <<>>
    /\ AtEnd
    /\ inputStack' = Front(inputStack)
    /\ UNCHANGED <<disk, storedMacros, branchFlags, currActive, output, pc, ret,
                   cond, quote, skip>>

Finish ==
    /\ pc = "process"
    /\ inputStack = <<>>
    /\ pc' = "done"
    /\ UNCHANGED <<disk, inputStack, storedMacros, branchFlags, currActive,
                   output, ret, cond, quote, skip>>

\* Emit s and go on at cursor c.
Copy(s, c) ==
    /\ output' = output \o s
    /\ MoveTo(c)
    /\ UNCHANGED <<disk, storedMacros, branchFlags, currActive, ret, cond, skip>>

CommentEnd ==
    IF At(source, cursor) = "lcom" THEN PastOrEnd(source, cursor, "nl")
                                   ELSE PastOrEnd(source, cursor + 1, "bclose")

CopyComment ==
    /\ pc = "process"
    /\ Sees({"lcom", "bopen"})
    /\ Copy(Slice(source, cursor, CommentEnd), CommentEnd)
    /\ UNCHANGED <<pc, quote>>

OpenLiteral ==
    /\ pc = "process"
    /\ Sees(Quote)
    /\ quote' = At(source, cursor)
    /\ pc' = "literal"
    /\ Copy(<<At(source, cursor)>>, cursor + 1)

\* One character of a literal, or a backslash and the character it escapes.
CopyLiteral ==
    /\ pc = "literal"
    /\ Sees(Unit)
    /\ LET escapes == At(source, cursor) = "esc" /\ cursor + 1 < Len(source)
           next    == cursor + (IF escapes THEN 2 ELSE 1)
       IN  Copy(Slice(source, cursor, next), next)
    /\ pc' = IF At(source, cursor) = quote THEN "process" ELSE "literal"
    /\ UNCHANGED quote

\* A literal may be left open by the end of its file.
EndLiteral ==
    /\ pc = "literal"
    /\ AtEnd
    /\ pc' = "process"
    /\ UNCHANGED <<disk, inputStack, storedMacros, branchFlags, currActive,
                   output, ret, cond, quote, skip>>

\* A defined name is replaced by its text, which is not scanned again.
CopyIdent ==
    /\ pc = "process"
    /\ Sees(Ident)
    /\ LET end == RunEnd(source, cursor, Ident)
           s   == Slice(source, cursor, end)
       IN  Copy(IF IsMacro(s) THEN Contents(storedMacros[s[1]]) ELSE s, end)
    /\ UNCHANGED <<pc, quote>>

CopyOther ==
    /\ pc = "process"
    /\ Sees(Unit \ (Ident \cup Directive \cup Quote \cup {"lcom", "bopen"}))
    /\ Copy(<<At(source, cursor)>>, cursor + 1)
    /\ UNCHANGED <<pc, quote>>

-----------------------------------------------------------------------------
(* Directives.  rest is the cursor after the directive's word.             *)

rest == cursor + 1

Directive_(ds) ==
    /\ pc = "process"
    /\ Sees(ds)
    /\ currActive' = At(source, cursor)
    /\ UNCHANGED <<disk, quote>>

\* handle_unknown, and the default of process_directive for a stray #enddef.
HandleUnknown ==
    /\ Directive_({"#other", "#enddef"})
    /\ Fail(IF At(source, cursor) = "#other" THEN -404 ELSE -1, rest)
    /\ UNCHANGED <<storedMacros, branchFlags, output, cond, skip>>

HandleDefine ==
    /\ Directive_({"#define"})
    /\ LET names  == Ol(source, rest)
           namesE == DefineNamesEnd(source, names)
           val    == Ol(source, namesE)
           valE   == DefineValueEnd(source, val)
           lineE  == DefineLineEnd(source, val)
       IN  /\ addMacros(Ident \cap ToSet(Slice(source, names, namesE)),
                        [file |-> top.file, offset |-> val, size |-> valE - val])
           /\ MoveTo(IF lineE < Len(source) THEN lineE + 1 ELSE lineE)
    /\ UNCHANGED <<branchFlags, output, pc, ret, cond, skip>>

HandleDefineM ==
    /\ Directive_({"#define_m"})
    /\ LET names  == Ol(source, rest)
           namesE == DefineMNamesEnd(source, names)
           endDef == FindNext(source, namesE, {"#enddef"})
       IN  IF endDef = NoPos
           THEN Fail(-3, namesE) /\ UNCHANGED storedMacros
           ELSE /\ addMacros(Ident \cap ToSet(Slice(source, names, namesE)),
                             [file |-> top.file, offset |-> namesE,
                              size |-> endDef - namesE])
                /\ MoveTo(PastIfAny(source, endDef + 1, "nl"))
                /\ UNCHANGED <<pc, ret>>
    /\ UNCHANGED <<branchFlags, output, cond, skip>>

\* handle_include and handle_import.  The included file becomes the top
\* frame; an empty file is reported as one that cannot be loaded.
HandleInclude ==
    /\ Directive_({"#include", "#import"})
    /\ LET open  == Ol(source, rest)
           close == IF At(source, open) = "q2" THEN "q2" ELSE "gt"
           pathE == FindNext(source, open + 1, {close})
           path  == Slice(source, open + 1, pathE)
           after == PastIfAny(source, pathE + 1, "nl")
           found == Len(path) = 1 /\ path[1] \in DOMAIN disk
       IN  IF open = Len(source) \/ At(source, open) \notin {"q2", "lt"}
           THEN Fail(-1, open)
           ELSE IF pathE = NoPos
           THEN Fail(-1, open + 1)
           ELSE IF ~found \/ disk[path[1]] = <<>>
           THEN Fail(-2, after)
           ELSE /\ inputStack' =
                     Append([inputStack EXCEPT ![Len(inputStack)].cursor = after],
                            [file |-> path[1], cursor |-> 0])
                /\ UNCHANGED <<pc, ret>>
    /\ UNCHANGED <<storedMacros, branchFlags, output, cond, skip>>

\* Read the condition to the end of the line; its length is a uint32_t.
ReadCondition ==
    /\ LET begin == Ol(source, rest)
           lineE == FindNext(source, begin, {"nl"})
       IN  IF lineE = NoPos
           THEN Fail(-422, begin) /\ UNCHANGED cond
           ELSE /\ cond' = [file |-> top.file, offset |-> begin,
                            size |-> (OlBack(source, lineE) - begin) % Wrap]
                /\ MoveTo(lineE + 1)
                /\ pc' = "eval"
                /\ UNCHANGED ret
    /\ UNCHANGED <<storedMacros, branchFlags, output, skip>>

HandleIf == Directive_({"#if"}) /\ ReadCondition

\* Continue after a condition: with the branch, or by skipping it.
Enter(passed) ==
    /\ pc' = IF passed THEN "process" ELSE "skip"
    /\ skip' = FreshSkip

\* A fault: a false condition counts as a branch taken.
FlagsOfAnyTaken(passed) == IF passed THEN Taken ELSE {"EVER_TAKEN"}

FlagsOf(passed) == IF passed THEN Taken ELSE {}

HandleIfndef ==
    /\ Directive_({"#ifndef"})
    /\ LET name   == Ol(source, rest)
           nameE  == RunEnd(source, name, Ident)
           s      == Slice(source, name, nameE)
           passed == s # <<>> /\ ~IsMacro(s)
       IN  /\ MoveTo(PastIfAny(source, nameE, "nl"))
           /\ branchFlags' = Append(branchFlags, FlagsOf(passed))
           /\ Enter(passed)
    /\ UNCHANGED <<storedMacros, output, ret, cond>>

\* A fault: the branch before the #else is left active.
HandleElseActive ==
    /\ Directive_({"#else"})
    /\ IF branchFlags = <<>>
       THEN Fail(-400, rest) /\ UNCHANGED <<branchFlags, skip>>
       ELSE /\ MoveTo(PastIfAny(source, rest, "nl"))
            /\ IF "EVER_TAKEN" \in TopFlags
               THEN UNCHANGED branchFlags /\ Enter(FALSE)
               ELSE SetTopFlags(Taken) /\ Enter(TRUE)
            /\ UNCHANGED ret
    /\ UNCHANGED <<storedMacros, output, cond>>

HandleElse ==
    /\ Directive_({"#else"})
    /\ IF branchFlags = <<>>
       THEN Fail(-400, rest) /\ UNCHANGED <<branchFlags, skip>>
       ELSE /\ MoveTo(PastIfAny(source, rest, "nl"))
            /\ IF "EVER_TAKEN" \in TopFlags
               THEN SetTopFlags(TopFlags \ {"ACTIVE"}) /\ Enter(FALSE)
               ELSE SetTopFlags(Taken) /\ Enter(TRUE)
            /\ UNCHANGED ret
    /\ UNCHANGED <<storedMacros, output, cond>>

HandleElif ==
    /\ Directive_({"#elif"})
    /\ \/ /\ branchFlags = <<>>
          /\ Fail(-400, rest)
          /\ UNCHANGED <<storedMacros, branchFlags, output, cond, skip>>
       \/ /\ branchFlags # <<>>
          /\ "EVER_TAKEN" \in TopFlags
          /\ SetTopFlags(TopFlags \ {"ACTIVE"})
          /\ MoveTo(rest)
          /\ Enter(FALSE)
          /\ UNCHANGED <<storedMacros, output, ret, cond>>
       \/ /\ branchFlags # <<>>
          /\ "EVER_TAKEN" \notin TopFlags
          /\ ReadCondition

HandleEndif ==
    /\ Directive_({"#endif"})
    /\ IF branchFlags = <<>>
       THEN Fail(-400, rest) /\ UNCHANGED branchFlags
       ELSE /\ branchFlags' = Front(branchFlags)
            /\ MoveTo(PastIfAny(source, rest, "nl"))
            /\ UNCHANGED <<pc, ret>>
    /\ UNCHANGED <<storedMacros, output, cond, skip>>

\* The rest of this line and all of the next one.
TwoLines(t, c) == PastOrEnd(t, PastOrEnd(t, c, "nl"), "nl")

HandleSkip ==
    /\ Directive_({"#skip"})
    /\ MoveTo(TwoLines(source, rest))
    /\ UNCHANGED <<storedMacros, branchFlags, output, pc, ret, cond, skip>>

\* constexpr (type) name = static_cast<type>(value);
Declaration(type, name, value) ==
    <<"constexpr">> \o type \o name \o <<"assign">> \o value \o <<"nl">>

\* A macro of that name overrides the default and is forgotten.  Only one
\* character is compared with =, so the second of an == begins the default.
HandleParam ==
    /\ Directive_({"#param"})
    /\ LET open  == Ol(source, rest)
           typeE == TypeEnd(source, open + 1)
           type  == Trim(Slice(source, open + 1, typeE))
           lineE == FindNext(source, open + 1, {"nl"})
           name  == Ol(source, typeE + 1)
           nameE == RunEnd(source, name, Ident)
           s     == Slice(source, name, nameE)
           eq    == Ol(source, nameE)
           defE  == Min({Len(source), FindNext(source, eq + 1, {"nl"})} \ {NoPos})
           given == Slice(source, eq + 1, defE)
           value == IF ~IsMacro(s)
                    THEN Trim(IF At(source, eq) = "eqeq" THEN <<"assign">> \o given ELSE given)
                    ELSE IF storedMacros[s[1]].size = 0 THEN <<"1">>
                    ELSE Trim(Contents(storedMacros[s[1]]))
           Bad(c) == Fail(-400, c) /\ UNCHANGED <<storedMacros, output>>
       IN  IF open = Len(source) \/ At(source, open) # "lpar" THEN Bad(open)
           ELSE IF lineE # NoPos /\ (typeE = NoPos \/ lineE < typeE) THEN Bad(lineE)
           ELSE IF typeE = NoPos THEN Bad(Len(source))
           ELSE IF type = <<>> THEN Bad(typeE)
           ELSE IF s = <<>> THEN Bad(nameE)
           ELSE IF eq = Len(source) \/ At(source, eq) \notin {"assign", "eqeq"} THEN Bad(eq)
           ELSE /\ output' = output \o Declaration(type, s, value)
                /\ IF IsMacro(s) THEN forgetMacro(s[1]) ELSE UNCHANGED storedMacros
                /\ MoveTo(IF defE < Len(source) THEN defE + 1 ELSE defE)
                /\ UNCHANGED <<pc, ret>>
    /\ UNCHANGED <<branchFlags, cond, skip>>

-----------------------------------------------------------------------------
(* evalCondition, for #if and #elif; #ifndef evaluates in its handler.     *)

\* The value a side of a comparison stands for: one macro deep.
Side(s) == IF IsMacro(s) /\ storedMacros[s[1]].size > 0
           THEN Trim(Contents(storedMacros[s[1]])) ELSE s

Literal(s) == s \in {<<>>, <<"0">>, <<"false">>, <<"1">>, <<"true">>}

\* The first == of the expression or, when there is none, the first !=.
Comparison(s) ==
    LET Find(op) == FindNext(s, 0, {op})
    IN  IF Find("eqeq") # NoPos THEN Find("eqeq") ELSE Find("neq")

\* A single name with a value is evaluated again as that value.
Recurses(s) == /\ ~Literal(s)
               /\ Comparison(s) = NoPos
               /\ IsMacro(s)
               /\ storedMacros[s[1]].size > 0

Truth(s) ==
    LET op    == Comparison(s)
        equal == Side(Trim(Slice(s, 0, op))) = Side(Trim(Slice(s, op + 1, Len(s))))
    IN  IF Literal(s) THEN s \in {<<"1">>, <<"true">>}
        ELSE IF op # NoPos THEN (At(s, op) = "eqeq") = equal
        ELSE IsMacro(s)

\* What the caller does with the result: #if opens a conditional, #elif
\* belongs to the innermost one.
Decide(passed) ==
    /\ IF currActive = "#if"
       THEN branchFlags' = Append(branchFlags, FlagsOf(passed))
       ELSE SetTopFlags(FlagsOf(passed))
    /\ Enter(passed)
    /\ UNCHANGED <<disk, inputStack, storedMacros, currActive, output, ret,
                   cond, quote>>

EvalRecurse ==
    /\ pc = "eval"
    /\ InBounds(cond)
    /\ LET s == Trim(Contents(cond))
       IN  Recurses(s) /\ cond' = storedMacros[s[1]]
    /\ UNCHANGED <<disk, inputStack, storedMacros, branchFlags, currActive,
                   output, pc, ret, quote, skip>>

EvalDecide ==
    /\ pc = "eval"
    /\ InBounds(cond)
    /\ LET s == Trim(Contents(cond)) IN ~Recurses(s) /\ Decide(Truth(s))

\* A length that wrapped below zero: the view runs 4 GiB past the text, and
\* reading it may yield either verdict or touch unmapped memory.
EvalOutside ==
    /\ pc = "eval"
    /\ ~InBounds(cond)
    /\ \/ \E passed \in BOOLEAN : Decide(passed)
       \/ /\ pc' = "crash"
          /\ UNCHANGED <<disk, inputStack, storedMacros, branchFlags, currActive,
                         output, ret, cond, quote, skip>>

-----------------------------------------------------------------------------
(* skip_if_branch: read dead text up to the directive that ends it.        *)

quoted == skip.stringed1 \/ skip.stringed2

Skipping(U) == /\ pc = "skip"
               /\ skip.nest > 0
               /\ Sees(U)

\* Dead text changes nothing but the cursor and the scanner's own state.
Silent == UNCHANGED <<disk, storedMacros, branchFlags, currActive, output,
                      cond, quote>>

SkipQuote ==
    /\ Skipping(Quote)
    /\ skip' = IF At(source, cursor) = "q2"
               THEN [skip EXCEPT !.stringed2 = ~skip.stringed2]
               ELSE [skip EXCEPT !.stringed1 = ~skip.stringed1]
    /\ MoveTo(cursor + 1)
    /\ Silent /\ UNCHANGED <<pc, ret>>

\* Text without a meaning in dead code, and everything between quotes.
SkipText ==
    /\ \/ Skipping(Unit \ Quote) /\ quoted
       \/ Skipping(Unit \ (Quote \cup {"lcom", "bopen", "#if", "#ifndef", "#define",
                           "#define_m", "#skip", "#elif", "#else", "#endif"}))
    /\ MoveTo(cursor + 1)
    /\ Silent /\ UNCHANGED <<pc, ret, skip>>

\* Constructs passed over as a whole.
SkipOver ==
    /\ ~quoted
    /\ \/ Skipping({"lcom", "bopen"}) /\ MoveTo(CommentEnd)
       \/ Skipping({"#define"})       /\ MoveTo(PastOrEnd(source, rest, "nl"))
       \/ Skipping({"#define_m"})     /\ MoveTo(PastOrEnd(source, rest, "#enddef"))
       \/ Skipping({"#skip"})         /\ MoveTo(TwoLines(source, rest))
    /\ Silent /\ UNCHANGED <<pc, ret, skip>>

\* A fault: conditionals inside dead text are not counted.
SkipIfUncounted ==
    /\ ~quoted
    /\ Skipping({"#if", "#ifndef"})
    /\ MoveTo(rest)
    /\ Silent /\ UNCHANGED <<pc, ret, skip>>

SkipIf ==
    /\ ~quoted
    /\ Skipping({"#if", "#ifndef"})
    /\ skip' = [skip EXCEPT !.nest = (skip.nest + 1) % NestMod]
    /\ MoveTo(rest)
    /\ Silent /\ UNCHANGED <<pc, ret>>

\* #elif and #else matter at the conditional's own level only, and end the
\* skipping only when no branch was taken: #elif right after its word, and
\* #else after its line.
SkipAlternative ==
    /\ ~quoted
    /\ Skipping({"#elif", "#else"})
    /\ IF skip.nest > 1
       THEN MoveTo(rest) /\ UNCHANGED pc
       ELSE IF "EVER_TAKEN" \in TopFlags
       THEN MoveTo(PastOrEnd(source, rest, "nl")) /\ UNCHANGED pc
       ELSE /\ MoveTo(IF At(source, cursor) = "#elif" THEN rest
                      ELSE PastOrEnd(source, rest, "nl"))
            /\ pc' = "process"
    /\ Silent /\ UNCHANGED <<ret, skip>>

\* The #endif that ends the skipping leaves branchFlags alone.
SkipEndif ==
    /\ ~quoted
    /\ Skipping({"#endif"})
    /\ IF skip.nest > 1
       THEN /\ skip' = [skip EXCEPT !.nest = skip.nest - 1]
            /\ MoveTo(rest)
            /\ UNCHANGED pc
       ELSE /\ MoveTo(PastOrEnd(source, rest, "nl"))
            /\ pc' = "process"
            /\ UNCHANGED skip
    /\ Silent /\ UNCHANGED ret

\* A fault: the end of the file is not noticed inside dead text.
SkipExhaustedByCount ==
    /\ pc = "skip"
    /\ skip.nest = 0
    /\ pc' = "process"
    /\ Silent /\ UNCHANGED <<inputStack, ret, skip>>

\* The file ends inside dead text, or nestCount has wrapped to 0.
SkipExhausted ==
    /\ pc = "skip"
    /\ skip.nest = 0 \/ AtEnd
    /\ IF skip.nest = 0 THEN pc' = "process" /\ UNCHANGED <<inputStack, ret>>
                        ELSE Fail(-422, cursor)
    /\ Silent /\ UNCHANGED skip

-----------------------------------------------------------------------------

\* The constructor's loadFile pushes the root's frame.  For a missing root
\* it pushes a frame of size 0, which the first iteration pops: the same as
\* no frame.
Init ==
    /\ disk \in Corpus
    /\ inputStack = IF Root \in DOMAIN disk
                    THEN <<[file |-> Root, cursor |-> 0]>>
                    ELSE <<>>
    /\ storedMacros = <<>>
    /\ branchFlags = <<>>
    /\ currActive = "None"
    /\ output = <<>>
    /\ pc = "process"
    /\ ret = 0
    /\ cond = NoSnippet
    /\ quote = "q2"
    /\ skip = FreshSkip

\* process() has returned.
Terminated == pc \in Stopped /\ UNCHANGED vars

Process   == \/ PopFrame \/ Finish \/ CopyComment \/ OpenLiteral \/ CopyLiteral
             \/ EndLiteral \/ CopyIdent \/ CopyOther
Handle    == \/ HandleUnknown \/ HandleDefine \/ HandleDefineM \/ HandleInclude
             \/ HandleIf \/ HandleIfndef \/ HandleElse \/ HandleElif
             \/ HandleEndif \/ HandleSkip \/ HandleParam
Eval      == EvalRecurse \/ EvalDecide \/ EvalOutside
SkipIfBranch == \/ SkipQuote \/ SkipText \/ SkipOver \/ SkipIf \/ SkipAlternative
                \/ SkipEndif \/ SkipExhausted

Next == Process \/ Handle \/ Eval \/ SkipIfBranch \/ Terminated

Spec == Init /\ [][Next]_vars

\* One thread and no blocking call: a step that can be taken is taken.
FairSpec == Spec /\ WF_vars(Next)

-----------------------------------------------------------------------------
(* Properties.                                                             *)

OutputUnit == Unit \cup {"constexpr", "1"}

Frame == [file : FileName, cursor : Nat]

\* What every variable holds, between any two steps of process().
TypeOK ==
    /\ DOMAIN disk \subseteq FileName
    /\ disk \in [DOMAIN disk -> Text]
    /\ inputStack \in Seq(Frame)
    /\ DOMAIN storedMacros \subseteq Ident
    /\ storedMacros \in [DOMAIN storedMacros -> Snippet]
    /\ branchFlags \in Seq(SUBSET Flags)
    /\ currActive \in Directive \cup {"None"}
    /\ output \in Seq(OutputUnit)
    /\ pc \in Running \cup Stopped
    /\ ret \in Int
    /\ cond \in Snippet
    /\ quote \in Quote
    /\ skip \in [nest : 0 .. NestMod - 1, stringed1 : BOOLEAN, stringed2 : BOOLEAN]

\* What the preprocessor will read lies in a loaded file: no frame's cursor is
\* past its file's end, whichever handler moved it; no macro's snippet is,
\* although it is expanded long after the file it points into was popped; and
\* the view of a condition is inside unless there is none on the line.  Then
\* ol_back has passed the cursor the length is computed from, the length
\* wraps, and the view runs far beyond the file (preprocessor.cpp:642).
ReadsInBounds ==
    /\ \A i \in DOMAIN inputStack :
          /\ inputStack[i].file \in DOMAIN disk
          /\ inputStack[i].cursor <= Len(disk[inputStack[i].file])
    /\ \A n \in DOMAIN storedMacros :
          /\ storedMacros[n].file \in DOMAIN disk
          /\ InBounds(storedMacros[n])
    /\ pc = "eval" =>
          /\ cond.file \in DOMAIN disk
          /\ \/ InBounds(cond)
             \/ /\ cond.offset < Len(disk[cond.file])
                /\ At(disk[cond.file], cond.offset) = "nl"

\* Text is skipped only below a conditional that is open and whose current
\* branch is not the active one; a branch is active only if it was taken.
\* skip_if_branch reads the flags of the innermost conditional and never
\* writes them, so every caller has to leave them in this state.
DeadBranchInactive ==
    /\ pc = "skip" => branchFlags # <<>> /\ "ACTIVE" \notin Last(branchFlags)
    /\ \A i \in DOMAIN branchFlags :
          "ACTIVE" \in branchFlags[i] => "EVER_TAKEN" \in branchFlags[i]

\* No text is read twice: the cursor of a file on the stack never moves
\* back, and a suspended file resumes exactly where it was left.  ol_back
\* moves the cursor backwards inside handle_if and handle_elif.
NeverRereads ==
    [][/\ \A i \in DOMAIN inputStack \cap DOMAIN inputStack' :
             /\ inputStack'[i].file = inputStack[i].file
             /\ inputStack'[i].cursor >= inputStack[i].cursor
       /\ \A i \in 1 .. Len(inputStack) - 1 :
             i \in DOMAIN inputStack' /\ inputStack'[i] = inputStack[i]]_vars

\* A macro disappears only into a #param declaration of its name that is
\* emitted in the same step and carries its text: aliases stay.
AbsorbedMacroIsDeclared ==
    [][\A n \in DOMAIN storedMacros \ DOMAIN storedMacros' :
          LET text  == Trim(Contents(storedMacros[n]))
              value == IF storedMacros[n].size = 0 THEN <<"1">> ELSE text
          IN  /\ IsSuffix(<<n, "assign">> \o value \o <<"nl">>, output')
              /\ Len(output') > Len(output)
              /\ DOMAIN storedMacros \ DOMAIN storedMacros' = {n}]_vars

\* The preprocessor returns.
Terminates == <>(pc \in Stopped)
=============================================================================
