------------------------- MODULE PreprocessorProofs -------------------------
(***************************************************************************)
(* Theorems about the preprocessor: for every corpus, every root and every *)
(* width of its counters.                                                  *)
(*                                                                         *)
(* TypeOK is not inductive: emitting a macro's text keeps output typed     *)
(* only if the snippet lies in a loaded file, and moving the top frame's   *)
(* cursor means something only while there is a top frame.  IInv adds both *)
(* and what the #elif and the dead-branch loop rely on.  The facts about   *)
(* the text operators come first: where a search, a run or an extent can   *)
(* end.                                                                    *)
(***************************************************************************)
EXTENDS Preprocessor, OrderProofs


-----------------------------------------------------------------------------
(* Slices and trimming.                                                    *)

\* A slice between two cursors of a text is a text.
LEMMA SliceText ==
    ASSUME NEW t \in Text, NEW b \in Nat, NEW e \in Int, e <= Len(t)
    PROVE  Slice(t, b, e) \in Text
BY DEF Slice, Text

\* Trimming a text leaves a text.
LEMMA TrimText ==
    ASSUME NEW s \in Text
    PROVE  Trim(s) \in Text
<1> DEFINE kept == {i \in DOMAIN s : s[i] \notin Blank}
<1>1. CASE kept = {}
  BY <1>1 DEF Trim, Text
<1>2. CASE kept # {}
  <2>1. kept \subseteq 1 .. Len(s) /\ Len(s) \in Nat
    BY DEF Text
  <2>2. Min(kept) \in kept /\ Max(kept) \in kept
    <3>1. kept \subseteq Nat /\ kept \subseteq 0 .. Len(s)
      BY <2>1
    <3>. HIDE DEF kept
    <3>. QED  BY <1>2, <2>1, <3>1, MinNat, MaxNat
  <2>3. SubSeq(s, Min(kept), Max(kept)) \in Text
    <3>1. Min(kept) \in 1 .. Len(s) /\ Max(kept) \in 1 .. Len(s)
      BY <2>1, <2>2
    <3>. HIDE DEF kept
    <3>. QED  BY <3>1 DEF Text
  <2>. QED
    BY <1>2, <2>3 DEF Trim
<1>. QED
  BY <1>1, <1>2

-----------------------------------------------------------------------------
(* Where searches end.                                                     *)

\* findNext yields NoPos or a cursor of the text, not before the start.
LEMMA FindNextRange ==
    ASSUME NEW t \in Text, NEW c \in Nat, NEW U
    PROVE  FindNext(t, c, U) \in {NoPos} \cup (c .. Len(t) - 1)
<1> DEFINE hits == {p \in c .. Len(t) - 1 : At(t, p) \in U}
<1>1. hits \subseteq Nat /\ hits \subseteq c .. Len(t) - 1
  BY DEF Text
<1>2. hits # {} => Min(hits) \in hits
  <2>. HIDE DEF hits
  <2>. QED  BY <1>1, MinNat
<1>3. FindNext(t, c, U) = IF hits = {} THEN NoPos ELSE Min(hits)
  BY DEF FindNext
<1>. HIDE DEF hits
<1>. QED
  BY <1>1, <1>2, <1>3

\* A run ends at or after its start, inside the text or at its end.
LEMMA RunEndRange ==
    ASSUME NEW t \in Text, NEW c \in 0 .. Len(t), NEW U
    PROVE  RunEnd(t, c, U) \in c .. Len(t)
<1>1. Len(t) \in Nat
  BY DEF Text
<1>2. {p \in c .. Len(t) - 1 : At(t, p) \notin U} \subseteq c .. Len(t)
  BY <1>1
<1>. QED
  BY <1>1, <1>2, MinFromTo DEF RunEnd

\* Stepping over a unit never leaves the text and never goes back.
LEMMA PastRange ==
    ASSUME NEW t \in Text, NEW c \in 0 .. Len(t), NEW u
    PROVE  /\ PastIfAny(t, c, u) \in c .. Len(t)
           /\ PastOrEnd(t, c, u) \in c .. Len(t)
<1>1. Len(t) \in Nat
  BY DEF Text
<1>2. FindNext(t, c, {u}) \in {NoPos} \cup (c .. Len(t) - 1)
  BY <1>1, FindNextRange
<1>. QED
  BY <1>1, <1>2 DEF PastIfAny, PastOrEnd

\* ol goes forward, ol_back goes back, both inside the text.
LEMMA OlRange ==
    ASSUME NEW t \in Text, NEW c \in 0 .. Len(t)
    PROVE  Ol(t, c) \in c .. Len(t)
BY RunEndRange DEF Ol

\* ol_back stays between the start of the text and its argument, and so may
\* return less than where the condition began.
LEMMA OlBackRange ==
    ASSUME NEW t \in Text, NEW c \in Nat
    PROVE  OlBack(t, c) \in 0 .. c
<1> DEFINE S == {0} \cup {p \in 1 .. c : At(t, p - 1) # "ws"}
<1>1. S \subseteq 0 .. c /\ S # {}
  OBVIOUS
<1>2. Max(S) \in S
  <2>. HIDE DEF S
  <2>. QED  BY <1>1, MaxNat
<1>. QED
  BY <1>1, <1>2 DEF OlBack

\* A length below the width is kept as it is.
LEMMA ModSmall ==
    ASSUME NEW w \in Nat \ {0}, NEW a \in 0 .. w - 1
    PROVE  a % w = a
OBVIOUS

\* A search that succeeds stops at a unit it looked for.
LEMMA FindNextHit ==
    ASSUME NEW t \in Text, NEW c \in Nat, NEW U, FindNext(t, c, U) # NoPos
    PROVE  At(t, FindNext(t, c, U)) \in U
<1> DEFINE hits == {p \in c .. Len(t) - 1 : At(t, p) \in U}
<1>1. hits \subseteq Nat /\ FindNext(t, c, U) = IF hits = {} THEN NoPos ELSE Min(hits)
  BY DEF FindNext
<1>2. hits # {}
  <2>. HIDE DEF hits
  <2>. QED  BY <1>1
<1>3. Min(hits) \in hits
  <2>. HIDE DEF hits
  <2>. QED  BY <1>1, <1>2, MinNat
<1>. QED
  BY <1>1, <1>2, <1>3

\* ol stops at the end of the text or at a unit that is no blank.
LEMMA OlStops ==
    ASSUME NEW t \in Text, NEW c \in 0 .. Len(t), Ol(t, c) < Len(t)
    PROVE  At(t, Ol(t, c)) # "ws"
<1> DEFINE P == {p \in c .. Len(t) - 1 : At(t, p) \notin {"ws"}}
           S == {Len(t)} \cup P
<1>1. Len(t) \in Nat
  BY DEF Text
<1>2. S \subseteq Nat /\ S # {}
  BY <1>1
<1>3. Ol(t, c) = Min(S)
  BY DEF Ol, RunEnd
<1>4. Min(S) \in S
  <2>. HIDE DEF S
  <2>. QED  BY <1>2, MinNat
<1>. HIDE DEF S
<1>5. Ol(t, c) \in P
  BY <1>1, <1>3, <1>4 DEF S
<1>. QED
  BY <1>5

\* ol_back does not pass a unit that is no blank.
LEMMA OlBackStops ==
    ASSUME NEW t \in Text, NEW c \in Nat, NEW p \in 1 .. c, At(t, p - 1) # "ws"
    PROVE  OlBack(t, c) \in p .. c
<1> DEFINE S == {0} \cup {q \in 1 .. c : At(t, q - 1) # "ws"}
<1>1. S \subseteq 0 .. c /\ p \in S
  OBVIOUS
<1>2. OlBack(t, c) = Max(S)
  BY DEF OlBack
<1>. HIDE DEF S
<1>. QED
  BY <1>1, <1>2, MaxFromTo

-----------------------------------------------------------------------------
(* Extents.                                                                *)

\* The names and the value of a #define, and the names of a #define_m, end
\* inside the text and not before they begin.
LEMMA DefineRange ==
    ASSUME NEW t \in Text, NEW c \in 0 .. Len(t)
    PROVE  /\ DefineNamesEnd(t, c) \in c .. Len(t)
           /\ DefineMNamesEnd(t, c) \in c .. Len(t)
           /\ DefineLineEnd(t, c) \in c .. Len(t)
           /\ DefineValueEnd(t, c) \in c .. Len(t)
<1>0. Len(t) \in Nat
  BY DEF Text
<1>1. DefineNamesEnd(t, c) \in c .. Len(t)
  BY RunEndRange DEF DefineNamesEnd
<1>2. DefineMNamesEnd(t, c) \in c .. Len(t)
  <2> DEFINE P == {p \in c .. Len(t) - 1 :
            \/ At(t, p) \notin Ident \cup {"amp", "ws"}
            \/ /\ At(t, p) \in Ident
               /\ OlBack(t, p) \in c + 1 .. p - 1
               /\ At(t, OlBack(t, p) - 1) \in Ident}
  <2>1. P \subseteq c .. Len(t)
    BY <1>0
  <2>2. DefineMNamesEnd(t, c) = Min({Len(t)} \cup P)
    BY DEF DefineMNamesEnd
  <2>. HIDE DEF P
  <2>. QED  BY <1>0, <2>1, <2>2, MinFromTo
<1>3. DefineLineEnd(t, c) \in c .. Len(t)
  <2> DEFINE P == {p \in c .. Len(t) - 1 :
            /\ At(t, p) = "nl"
            /\ \A q \in c .. p - 1 :
                  At(t, q) = "cont" => \E r \in q .. p - 1 : At(t, r) = "nl"}
  <2>1. P \subseteq c .. Len(t)
    BY <1>0
  <2>2. DefineLineEnd(t, c) = Min({Len(t)} \cup P)
    BY DEF DefineLineEnd
  <2>. HIDE DEF P
  <2>. QED  BY <1>0, <2>1, <2>2, MinFromTo
<1>4. DefineValueEnd(t, c) \in c .. Len(t)
  <2> DEFINE e == DefineLineEnd(t, c)
             S == {c, OlBack(t, e)}
  <2>1. e \in Nat /\ e <= Len(t) /\ c <= Len(t)
    BY <1>0, <1>3
  <2>2. OlBack(t, e) \in 0 .. e
    <3>. HIDE DEF e
    <3>. QED  BY <2>1, OlBackRange
  <2>3. S \subseteq 0 .. Len(t) /\ c \in S
    <3>. HIDE DEF e
    <3>. QED  BY <1>0, <2>1, <2>2
  <2>4. Max(S) \in c .. Len(t)
    <3>. HIDE DEF S
    <3>. QED  BY <1>0, <2>3, MaxFromTo
  <2>5. DefineValueEnd(t, c) = c \/ DefineValueEnd(t, c) = Max(S)
    BY DEF DefineValueEnd
  <2>. HIDE DEF S
  <2>. QED  BY <1>0, <2>1, <2>4, <2>5
<1>. QED
  BY <1>1, <1>2, <1>3, <1>4

\* The parenthesis that closes a #param's type is a cursor of the text.
LEMMA TypeEndRange ==
    ASSUME NEW t \in Text, NEW c \in Nat
    PROVE  TypeEnd(t, c) \in {NoPos} \cup (c .. Len(t) - 1)
<1> DEFINE Count(u, p) == Cardinality({q \in c .. p : At(t, q) = u})
           closing     == {p \in c .. Len(t) - 1 : Count("rpar", p) > Count("lpar", p)}
<1>1. closing \subseteq Nat /\ closing \subseteq c .. Len(t) - 1
  BY DEF Text
<1>2. closing # {} => Min(closing) \in closing
  <2>. HIDE DEF closing
  <2>. QED  BY <1>1, MinNat
<1>3. TypeEnd(t, c) = IF closing = {} THEN NoPos ELSE Min(closing)
  BY DEF TypeEnd
<1>. HIDE DEF closing
<1>. QED
  BY <1>1, <1>2, <1>3

-----------------------------------------------------------------------------
(* The inductive invariant, in parts that the actions disturb separately.  *)

DiskOK == /\ DOMAIN disk \subseteq FileName
          /\ disk \in [DOMAIN disk -> Text]
          /\ \A f \in DOMAIN disk : Len(disk[f]) < Wrap

StackOK == /\ inputStack \in Seq(Frame)
           /\ \A i \in DOMAIN inputStack :
                 /\ inputStack[i].file \in DOMAIN disk
                 /\ inputStack[i].cursor <= Len(disk[inputStack[i].file])

MacrosOK == /\ DOMAIN storedMacros \subseteq Ident
            /\ storedMacros \in [DOMAIN storedMacros -> Snippet]
            /\ \A n \in DOMAIN storedMacros :
                  /\ storedMacros[n].file \in DOMAIN disk
                  /\ InBounds(storedMacros[n])

FlagsOK == /\ branchFlags \in Seq(SUBSET Flags)
           /\ \A i \in DOMAIN branchFlags :
                 "ACTIVE" \in branchFlags[i] => "EVER_TAKEN" \in branchFlags[i]

LocalsOK == /\ ret \in Int
            /\ cond \in Snippet
            /\ quote \in Quote
            /\ skip \in [nest : 0 .. NestMod - 1, stringed1 : BOOLEAN,
                         stringed2 : BOOLEAN]

\* The condition being evaluated lies in its file, or there is none on the line.
CondOK == pc = "eval" =>
             /\ cond.file \in DOMAIN disk
             /\ \/ InBounds(cond)
                \/ /\ cond.offset < Len(disk[cond.file])
                   /\ At(disk[cond.file], cond.offset) = "nl"

\* What the loops of process() find when they are entered.
LoopOK == /\ pc \in Running \cup Stopped
          /\ currActive \in Directive \cup {"None"}
          /\ pc \in {"literal", "eval", "skip"} => inputStack # <<>>
          /\ pc = "eval" /\ currActive # "#if" => branchFlags # <<>>
          /\ pc = "skip" => branchFlags # <<>> /\ "ACTIVE" \notin Last(branchFlags)
          /\ CondOK

OutputOK == output \in Seq(OutputUnit)

IInv == /\ DiskOK /\ StackOK /\ MacrosOK /\ FlagsOK /\ LocalsOK /\ LoopOK
        /\ OutputOK

\* What NeverRereads says of a step.
ReadsOn ==
    /\ \A i \in DOMAIN inputStack \cap DOMAIN inputStack' :
          /\ inputStack'[i].file = inputStack[i].file
          /\ inputStack'[i].cursor >= inputStack[i].cursor
    /\ \A i \in 1 .. Len(inputStack) - 1 :
          i \in DOMAIN inputStack' /\ inputStack'[i] = inputStack[i]

\* The parts hold exactly what the checked properties say, and more.
LEMMA IInvImplies ==
    IInv => TypeOK /\ ReadsInBounds /\ DeadBranchInactive
BY DEF IInv, DiskOK, StackOK, MacrosOK, FlagsOK, LocalsOK, LoopOK, CondOK,
       OutputOK, TypeOK, ReadsInBounds, DeadBranchInactive

\* The initial states satisfy the invariant.
LEMMA InitIInv == Init => IInv
<1>. SUFFICES ASSUME Init PROVE IInv
  OBVIOUS
<1>1. DiskOK
  BY CorpusAssumption DEF Init, DiskOK
<1>2. StackOK
  <2>1. CASE Root \in DOMAIN disk
    <3>1. disk[Root] \in Text /\ Root \in FileName
      BY <1>1, <2>1 DEF DiskOK
    <3>2. inputStack = <<[file |-> Root, cursor |-> 0]>>
      BY <2>1 DEF Init
    <3>. QED  BY <2>1, <3>1, <3>2 DEF StackOK, Frame, Text
  <2>2. CASE Root \notin DOMAIN disk
    BY <2>2 DEF Init, StackOK
  <2>. QED  BY <2>1, <2>2
<1>3. MacrosOK
  <2>1. storedMacros = <<>> /\ DOMAIN storedMacros = {}
    BY DEF Init
  <2>. QED  BY <2>1 DEF MacrosOK
<1>4. FlagsOK
  BY DEF Init, FlagsOK
<1>5. LocalsOK
  BY NestAssumption, RootAssumption
     DEF Init, LocalsOK, NoSnippet, Snippet, Quote, FreshSkip
<1>6. LoopOK
  BY DEF Init, LoopOK, CondOK, Running
<1>7. OutputOK
  BY DEF Init, OutputOK
<1>. QED
  BY <1>1, <1>2, <1>3, <1>4, <1>5, <1>6, <1>7 DEF IInv

-----------------------------------------------------------------------------
(* Facts every action uses.                                                *)

\* The top frame reads a loaded text at a cursor inside it or at its end.
LEMMA TopFrame ==
    ASSUME IInv, inputStack # <<>>
    PROVE  /\ top = inputStack[Len(inputStack)]
           /\ Len(inputStack) \in DOMAIN inputStack
           /\ top \in Frame
           /\ top.file \in DOMAIN disk
           /\ source \in Text
           /\ Len(source) \in Nat
           /\ cursor \in 0 .. Len(source)
<1>1. /\ top = inputStack[Len(inputStack)]
      /\ Len(inputStack) \in DOMAIN inputStack
  BY DEF IInv, StackOK, top, Last
<1>2. top \in Frame /\ top.file \in DOMAIN disk /\ top.cursor <= Len(disk[top.file])
  BY <1>1 DEF IInv, StackOK
<1>3. source \in Text
  BY <1>2 DEF IInv, DiskOK, source
<1>4. Len(source) \in Nat
  BY <1>3 DEF Text
<1>5. cursor \in 0 .. Len(source)
  BY <1>2, <1>4 DEF cursor, source, Frame
<1>. QED
  BY <1>1, <1>2, <1>3, <1>4, <1>5

\* The unit under the cursor, and the cursor after it.
LEMMA SeenUnit ==
    ASSUME IInv, NEW U, Sees(U)
    PROVE  /\ inputStack # <<>>
           /\ cursor < Len(source)
           /\ At(source, cursor) \in U
           /\ At(source, cursor) \in Unit
           /\ rest \in 0 .. Len(source)
           /\ rest = cursor + 1
<1>1. inputStack # <<>> /\ ~(cursor >= Len(source)) /\ At(source, cursor) \in U
  BY DEF Sees, AtEnd
<1>2. source \in Text /\ Len(source) \in Nat /\ cursor \in 0 .. Len(source)
  BY <1>1, TopFrame
<1>3. cursor < Len(source) /\ rest = cursor + 1 /\ rest \in 0 .. Len(source)
  BY <1>1, <1>2 DEF rest
<1>4. At(source, cursor) \in Unit
  BY <1>2, <1>3 DEF At, Text
<1>. QED
  BY <1>1, <1>3, <1>4

\* Positions below the last one.
LEMMA BelowLast ==
    ASSUME NEW n \in Nat
    PROVE  \A i \in 1 .. n - 1 : i \in 1 .. n /\ i # n
OBVIOUS

\* Every frame has a cursor that can be compared.
LEMMA FrameCursors ==
    ASSUME IInv
    PROVE  \A i \in DOMAIN inputStack : inputStack[i].cursor >= inputStack[i].cursor
<1>1. SUFFICES ASSUME NEW i \in DOMAIN inputStack
               PROVE  inputStack[i].cursor >= inputStack[i].cursor
  OBVIOUS
<1>2. inputStack[i] \in Frame
  BY DEF IInv, StackOK
<1>3. inputStack[i].cursor \in Nat
  BY <1>2 DEF Frame
<1>. QED
  BY <1>3

\* The stack with its top frame's cursor set to c.
Moved(c) == [inputStack EXCEPT ![Len(inputStack)].cursor = c]

\* Moving the top frame's cursor changes that frame's cursor only, and
\* inside its text it stays where it can be read.
LEMMA MovedFrames ==
    ASSUME IInv, inputStack # <<>>, NEW c \in cursor .. Len(source)
    PROVE  /\ Moved(c) \in Seq(Frame)
           /\ Len(Moved(c)) = Len(inputStack)
           /\ \A i \in DOMAIN inputStack :
                 /\ Moved(c)[i].file = inputStack[i].file
                 /\ Moved(c)[i].file \in DOMAIN disk
                 /\ Moved(c)[i].cursor <= Len(disk[Moved(c)[i].file])
                 /\ Moved(c)[i].cursor >= inputStack[i].cursor
                 /\ i # Len(inputStack) => Moved(c)[i] = inputStack[i]
<1> DEFINE n == Len(inputStack)
<1>1. /\ inputStack \in Seq(Frame) /\ n \in DOMAIN inputStack /\ n \in Nat
      /\ top = inputStack[n] /\ top \in Frame /\ top.file \in DOMAIN disk
      /\ Len(source) \in Nat /\ cursor \in 0 .. Len(source)
  BY TopFrame DEF IInv, StackOK
<1>2. c \in Nat /\ c <= Len(source) /\ cursor <= c
  BY <1>1
<1>3. Moved(c) = [inputStack EXCEPT ![n] = [inputStack[n] EXCEPT !.cursor = c]]
  BY DEF Moved
<1>4. [inputStack[n] EXCEPT !.cursor = c] = [file |-> top.file, cursor |-> c]
  BY <1>1 DEF Frame
<1>5. [file |-> top.file, cursor |-> c] \in Frame
  BY <1>1, <1>2 DEF Frame
<1>6. /\ Moved(c) \in Seq(Frame)
      /\ Len(Moved(c)) = n
      /\ Moved(c)[n] = [file |-> top.file, cursor |-> c]
      /\ \A i \in DOMAIN inputStack : i # n => Moved(c)[i] = inputStack[i]
  BY <1>1, <1>3, <1>4, <1>5
<1>7. \A i \in DOMAIN inputStack : /\ inputStack[i].file \in DOMAIN disk
                                   /\ inputStack[i].cursor <= Len(disk[inputStack[i].file])
                                   /\ inputStack[i].cursor >= inputStack[i].cursor
  BY FrameCursors DEF IInv, StackOK
<1>8. c <= Len(disk[top.file]) /\ c >= inputStack[n].cursor
  BY <1>1, <1>2 DEF source, cursor
<1>. QED
  BY <1>1, <1>6, <1>7, <1>8

\* Moving the top frame's cursor on inside its text keeps every frame where
\* it can be read, and reads nothing again.
LEMMA MoveOn ==
    ASSUME IInv, inputStack # <<>>, disk' = disk,
           NEW c \in cursor .. Len(source), MoveTo(c)
    PROVE  /\ StackOK'
           /\ inputStack' # <<>>
           /\ ReadsOn
<1>1. inputStack' = Moved(c)
  BY DEF MoveTo, Moved
<1>2. /\ inputStack \in Seq(Frame) /\ Len(inputStack) \in DOMAIN inputStack
      /\ DOMAIN inputStack = 1 .. Len(inputStack) /\ Len(inputStack) \in Nat
  BY TopFrame DEF IInv, StackOK
<1>3. inputStack' \in Seq(Frame) /\ DOMAIN inputStack' = DOMAIN inputStack
  BY <1>1, <1>2, MovedFrames
<1>4. StackOK'
  BY <1>1, <1>3, MovedFrames DEF StackOK
<1>5. ReadsOn
  <2>1. \A i \in DOMAIN inputStack : /\ inputStack'[i].file = inputStack[i].file
                                     /\ inputStack'[i].cursor >= inputStack[i].cursor
    BY <1>1, MovedFrames
  <2>2. \A i \in 1 .. Len(inputStack) - 1 : i \in DOMAIN inputStack /\ i # Len(inputStack)
    BY <1>2, BelowLast
  <2>3. \A i \in 1 .. Len(inputStack) - 1 : inputStack'[i] = inputStack[i]
    BY <1>1, <2>2, MovedFrames
  <2>. QED
    BY <1>3, <2>1, <2>2, <2>3 DEF ReadsOn
<1>. QED
  BY <1>2, <1>3, <1>4, <1>5

\* A stack that stays as it is reads on too.
LEMMA StaysPut ==
    ASSUME IInv, UNCHANGED <<disk, inputStack>>
    PROVE  StackOK' /\ ReadsOn
<1>1. \A i \in DOMAIN inputStack : inputStack[i].cursor >= inputStack[i].cursor
  BY FrameCursors
<1>2. ReadsOn
  BY <1>1 DEF ReadsOn, IInv, StackOK
<1>. QED
  BY <1>2 DEF IInv, StackOK

\* Parts of the invariant over variables that did not change.
LEMMA DiskStays ==
    ASSUME IInv, UNCHANGED disk PROVE DiskOK'
BY DEF IInv, DiskOK

\* A step that leaves the table and the disk alone leaves MacrosOK.
LEMMA MacrosStay ==
    ASSUME IInv, UNCHANGED <<disk, storedMacros>> PROVE MacrosOK'
BY DEF IInv, MacrosOK, InBounds

\* A step that leaves the branch flags alone leaves FlagsOK.
LEMMA FlagsStay ==
    ASSUME IInv, UNCHANGED branchFlags PROVE FlagsOK'
BY DEF IInv, FlagsOK

\* A step that leaves the locals alone leaves LocalsOK.
LEMMA LocalsStay ==
    ASSUME IInv, UNCHANGED <<ret, cond, quote, skip>> PROVE LocalsOK'
BY DEF IInv, LocalsOK

\* A step that emits nothing leaves OutputOK.
LEMMA OutputStays ==
    ASSUME IInv, UNCHANGED output PROVE OutputOK'
BY DEF IInv, OutputOK

\* The text of a stored macro can be read, however long ago its file ended.
LEMMA MacroText ==
    ASSUME IInv, NEW n \in DOMAIN storedMacros
    PROVE  Contents(storedMacros[n]) \in Text
<1> DEFINE sn == storedMacros[n]
<1>1. sn \in Snippet /\ sn.file \in DOMAIN disk /\ sn.offset + sn.size <= Len(disk[sn.file])
  BY DEF IInv, MacrosOK, InBounds
<1>2. disk[sn.file] \in Text
  BY <1>1 DEF IInv, DiskOK
<1>3. sn.offset \in Nat /\ sn.offset + sn.size \in Int
  BY <1>1 DEF Snippet
<1>. HIDE DEF sn
<1>4. Contents(sn) \in Text
  BY <1>1, <1>2, <1>3, SliceText DEF Contents
<1>. QED
  BY <1>4 DEF sn

-----------------------------------------------------------------------------
(* process(): everything but directives.                                   *)

Kept == IInv' /\ ReadsOn

\* Loops that rely on nothing but a frame.
LEMMA PlainLoop ==
    ASSUME IInv, currActive' \in Directive \cup {"None"},
           pc' \in {"process", "literal"} \cup Stopped,
           pc' = "literal" => inputStack' # <<>>
    PROVE  LoopOK'
BY DEF LoopOK, CondOK, Running, Stopped

\* A slice of the file being read can be emitted.
LEMMA SliceOutput ==
    ASSUME IInv, inputStack # <<>>, NEW b \in Nat, NEW e \in Int, e <= Len(source)
    PROVE  Slice(source, b, e) \in Seq(OutputUnit)
<1>1. Slice(source, b, e) \in Text
  BY TopFrame, SliceText
<1>. QED
  BY <1>1 DEF Text, OutputUnit

\* Emitting text and moving on.
LEMMA CopyStep ==
    ASSUME IInv, inputStack # <<>>, NEW s \in Seq(OutputUnit),
           NEW c \in cursor .. Len(source), Copy(s, c)
    PROVE  /\ DiskOK' /\ StackOK' /\ MacrosOK' /\ FlagsOK' /\ OutputOK'
           /\ inputStack' # <<>>
           /\ ReadsOn
           /\ UNCHANGED <<currActive, ret, cond, skip>>
<1>1. UNCHANGED <<disk, storedMacros, branchFlags, currActive, ret, cond, skip>>
  BY DEF Copy
<1>2. MoveTo(c) /\ output' = output \o s
  BY DEF Copy
<1>3. DiskOK' /\ MacrosOK' /\ FlagsOK'
  BY <1>1, DiskStays, MacrosStay, FlagsStay
<1>4. StackOK' /\ inputStack' # <<>> /\ ReadsOn
  BY <1>1, <1>2, MoveOn
<1>5. OutputOK'
  <2>1. output \in Seq(OutputUnit)
    BY DEF IInv, OutputOK
  <2>. QED  BY <1>2, <2>1 DEF OutputOK
<1>. QED
  BY <1>1, <1>3, <1>4, <1>5

\* A popped frame leaves the frames below it as they were.
LEMMA PopFrameKeeps == ASSUME IInv, PopFrame PROVE Kept
<1>1. /\ inputStack # <<>> /\ inputStack' = Front(inputStack) /\ pc = "process"
      /\ UNCHANGED <<disk, storedMacros, branchFlags, currActive, output, pc, ret,
                     cond, quote, skip>>
  BY DEF PopFrame
<1>2. /\ inputStack \in Seq(Frame) /\ Len(inputStack) \in Nat \ {0}
      /\ inputStack' \in Seq(Frame)
      /\ DOMAIN inputStack' = 1 .. Len(inputStack) - 1
      /\ \A i \in 1 .. Len(inputStack) - 1 : inputStack'[i] = inputStack[i]
      /\ DOMAIN inputStack = 1 .. Len(inputStack)
  <2>1. inputStack \in Seq(Frame)
    BY DEF IInv, StackOK
  <2>. QED  BY <1>1, <2>1 DEF Front
<1>3. StackOK'
  <2>1. \A i \in DOMAIN inputStack : /\ inputStack[i].file \in DOMAIN disk
                                     /\ inputStack[i].cursor <= Len(disk[inputStack[i].file])
    BY DEF IInv, StackOK
  <2>2. \A i \in DOMAIN inputStack' : i \in DOMAIN inputStack /\ inputStack'[i] = inputStack[i]
    BY <1>2
  <2>. QED  BY <1>1, <1>2, <2>1, <2>2 DEF StackOK
<1>4. ReadsOn
  <2>1. \A i \in DOMAIN inputStack' : i \in DOMAIN inputStack /\ inputStack'[i] = inputStack[i]
    BY <1>2
  <2>. QED  BY <1>2, <2>1, FrameCursors DEF ReadsOn
<1>5. LoopOK'
  <2>1. currActive \in Directive \cup {"None"}
    BY DEF IInv, LoopOK
  <2>. QED  BY <1>1, <2>1, PlainLoop
<1>. QED
  BY <1>1, <1>3, <1>4, <1>5, DiskStays, MacrosStay, FlagsStay, LocalsStay, OutputStays
     DEF Kept, IInv

\* Returning from process() moves nothing.
LEMMA FinishKeeps == ASSUME IInv, Finish PROVE Kept
<1>1. /\ pc' = "done"
      /\ UNCHANGED <<disk, inputStack, storedMacros, branchFlags, currActive, output,
                     ret, cond, quote, skip>>
  BY DEF Finish
<1>2. LoopOK'
  <2>1. currActive \in Directive \cup {"None"}
    BY DEF IInv, LoopOK
  <2>. QED  BY <1>1, <2>1, PlainLoop DEF Stopped
<1>. QED
  BY <1>1, <1>2, StaysPut, DiskStays, MacrosStay, FlagsStay, LocalsStay, OutputStays
     DEF Kept, IInv

\* A literal left open by the end of its file moves nothing.
LEMMA EndLiteralKeeps == ASSUME IInv, EndLiteral PROVE Kept
<1>1. /\ pc' = "process"
      /\ UNCHANGED <<disk, inputStack, storedMacros, branchFlags, currActive, output,
                     ret, cond, quote, skip>>
  BY DEF EndLiteral
<1>2. LoopOK'
  <2>1. currActive \in Directive \cup {"None"}
    BY DEF IInv, LoopOK
  <2>. QED  BY <1>1, <2>1, PlainLoop
<1>. QED
  BY <1>1, <1>2, StaysPut, DiskStays, MacrosStay, FlagsStay, LocalsStay, OutputStays
     DEF Kept, IInv

\* A step that copies and goes on in the main loop or in a literal.
LEMMA CopyKeeps ==
    ASSUME IInv, inputStack # <<>>, NEW s \in Seq(OutputUnit),
           NEW c \in cursor .. Len(source), Copy(s, c),
           quote' \in Quote, pc' \in {"process", "literal"}
    PROVE  Kept
<1>1. /\ DiskOK' /\ StackOK' /\ MacrosOK' /\ FlagsOK' /\ OutputOK'
      /\ inputStack' # <<>> /\ ReadsOn
      /\ UNCHANGED <<currActive, ret, cond, skip>>
  BY CopyStep
<1>2. LocalsOK'
  BY <1>1 DEF IInv, LocalsOK
<1>3. LoopOK'
  <2>1. currActive \in Directive \cup {"None"}
    BY DEF IInv, LoopOK
  <2>. QED  BY <1>1, <2>1, PlainLoop
<1>. QED
  BY <1>1, <1>2, <1>3 DEF Kept, IInv

\* A comment ends inside the file or with it.
LEMMA CommentEndRange ==
    ASSUME IInv, NEW U, Sees(U)
    PROVE  CommentEnd \in cursor .. Len(source)
<1>1. /\ source \in Text /\ Len(source) \in Nat /\ cursor \in 0 .. Len(source)
      /\ cursor + 1 \in 0 .. Len(source)
  BY SeenUnit, TopFrame
<1>2. PastOrEnd(source, cursor, "nl") \in cursor .. Len(source)
  BY <1>1, PastRange
<1>3. PastOrEnd(source, cursor + 1, "bclose") \in cursor + 1 .. Len(source)
  BY <1>1, PastRange
<1>. QED
  BY <1>1, <1>2, <1>3 DEF CommentEnd

\* A comment is copied up to a cursor within its file, past where it began.
LEMMA CopyCommentKeeps == ASSUME IInv, CopyComment PROVE Kept
<1>1. Sees({"lcom", "bopen"}) /\ Copy(Slice(source, cursor, CommentEnd), CommentEnd)
  BY DEF CopyComment
<1>2. pc' = "process" /\ quote' \in Quote
  BY DEF CopyComment, IInv, LocalsOK
<1>3. inputStack # <<>> /\ cursor \in 0 .. Len(source) /\ Len(source) \in Nat
  BY <1>1, SeenUnit, TopFrame
<1>4. CommentEnd \in cursor .. Len(source)
  BY <1>1, CommentEndRange
<1>5. Slice(source, cursor, CommentEnd) \in Seq(OutputUnit)
  BY <1>3, <1>4, SliceOutput
<1>. QED
  BY <1>1, <1>2, <1>3, <1>4, <1>5, CopyKeeps

\* Emitting the unit under the cursor.
LEMMA UnitOutput ==
    ASSUME IInv, NEW U, Sees(U)
    PROVE  /\ <<At(source, cursor)>> \in Seq(OutputUnit)
           /\ cursor + 1 \in cursor .. Len(source)
<1>1. At(source, cursor) \in OutputUnit
  BY SeenUnit DEF OutputUnit
<1>2. cursor \in Nat /\ Len(source) \in Nat /\ cursor < Len(source)
  BY SeenUnit, TopFrame
<1>. QED
  BY <1>1, <1>2

\* The opening quote is one unit of the file.
LEMMA OpenLiteralKeeps == ASSUME IInv, OpenLiteral PROVE Kept
<1>1. /\ Sees(Quote) /\ Copy(<<At(source, cursor)>>, cursor + 1)
      /\ quote' = At(source, cursor) /\ pc' = "literal"
  BY DEF OpenLiteral
<1>2. inputStack # <<>> /\ quote' \in Quote
  BY <1>1, SeenUnit
<1>. QED
  BY <1>1, <1>2, UnitOutput, CopyKeeps

\* A unit without meaning is copied, one at a time.
LEMMA CopyOtherKeeps == ASSUME IInv, CopyOther PROVE Kept
<1> DEFINE U == Unit \ (Ident \cup Directive \cup Quote \cup {"lcom", "bopen"})
<1>1. /\ Sees(U) /\ Copy(<<At(source, cursor)>>, cursor + 1)
      /\ pc = "process" /\ UNCHANGED <<pc, quote>>
  BY DEF CopyOther
<1>. HIDE DEF U
<1>2. inputStack # <<>> /\ quote' \in Quote /\ pc' = "process"
  BY <1>1, SeenUnit DEF IInv, LocalsOK
<1>. QED
  BY <1>1, <1>2, UnitOutput, CopyKeeps

\* An escaped pair is copied only when both units are in the file.
LEMMA CopyLiteralKeeps == ASSUME IInv, CopyLiteral PROVE Kept
<1> DEFINE escapes == At(source, cursor) = "esc" /\ cursor + 1 < Len(source)
           next    == cursor + (IF escapes THEN 2 ELSE 1)
<1>1. /\ Sees(Unit) /\ Copy(Slice(source, cursor, next), next)
      /\ UNCHANGED quote /\ pc' \in {"process", "literal"}
  BY DEF CopyLiteral
<1>2. /\ inputStack # <<>> /\ quote' \in Quote
      /\ cursor \in Nat /\ Len(source) \in Nat /\ cursor < Len(source)
  BY <1>1, SeenUnit, TopFrame DEF IInv, LocalsOK
<1>3. next \in cursor .. Len(source)
  BY <1>2
<1>. HIDE DEF next
<1>4. Slice(source, cursor, next) \in Seq(OutputUnit)
  BY <1>2, <1>3, SliceOutput
<1>. QED
  BY <1>1, <1>2, <1>3, <1>4, CopyKeeps

\* A name is copied, or the text of its snippet, which is in its file.
LEMMA CopyIdentKeeps == ASSUME IInv, CopyIdent PROVE Kept
<1> DEFINE end  == RunEnd(source, cursor, Ident)
           s    == Slice(source, cursor, end)
           text == IF IsMacro(s) THEN Contents(storedMacros[s[1]]) ELSE s
<1>1. /\ Sees(Ident) /\ Copy(text, end)
      /\ pc = "process" /\ UNCHANGED <<pc, quote>>
  BY DEF CopyIdent
<1>2. /\ inputStack # <<>> /\ quote' \in Quote /\ pc' = "process"
      /\ source \in Text /\ cursor \in 0 .. Len(source) /\ Len(source) \in Nat
  BY <1>1, SeenUnit, TopFrame DEF IInv, LocalsOK
<1>3. end \in cursor .. Len(source)
  BY <1>2, RunEndRange
<1>4. s \in Seq(OutputUnit)
  <2>. HIDE DEF end
  <2>. QED  BY <1>2, <1>3, SliceOutput
<1>5. text \in Seq(OutputUnit)
  <2>1. CASE IsMacro(s)
    <3>1. s[1] \in DOMAIN storedMacros
      BY <2>1 DEF IsMacro, isDefined
    <3>2. Contents(storedMacros[s[1]]) \in Text
      <4>. HIDE DEF s
      <4>. QED  BY <3>1, MacroText
    <3>. QED  BY <2>1, <3>2 DEF Text, OutputUnit
  <2>2. CASE ~IsMacro(s)
    BY <1>4, <2>2
  <2>. QED  BY <2>1, <2>2
<1>. HIDE DEF end, text
<1>. QED
  BY <1>1, <1>2, <1>3, <1>5, CopyKeeps

-----------------------------------------------------------------------------
(* Directives.                                                             *)

\* What every handler starts from.
LEMMA DirectiveFacts ==
    ASSUME IInv, NEW ds \in SUBSET Directive, Directive_(ds)
    PROVE  /\ pc = "process" /\ currActive' \in ds /\ UNCHANGED <<disk, quote>>
           /\ inputStack # <<>> /\ source \in Text /\ Len(source) \in Nat
           /\ cursor \in Nat /\ rest \in cursor .. Len(source)
           /\ rest \in 0 .. Len(source) /\ top.file \in DOMAIN disk
           /\ top.file \in FileName
<1>1. pc = "process" /\ Sees(ds) /\ currActive' = At(source, cursor) /\ UNCHANGED <<disk, quote>>
  BY DEF Directive_
<1>2. /\ At(source, cursor) \in ds /\ inputStack # <<>> /\ cursor < Len(source)
      /\ rest = cursor + 1
  BY <1>1, SeenUnit
<1>3. /\ source \in Text /\ Len(source) \in Nat /\ cursor \in 0 .. Len(source)
      /\ top.file \in DOMAIN disk
  BY <1>2, TopFrame
<1>4. top.file \in FileName
  BY <1>3 DEF IInv, DiskOK
<1>. QED
  BY <1>1, <1>2, <1>3, <1>4

\* A handler that moves the cursor on keeps the invariant when the parts it
\* writes are in order.
LEMMA HandlerKeeps ==
    ASSUME IInv, inputStack # <<>>, UNCHANGED <<disk, quote>>,
           NEW c \in cursor .. Len(source), MoveTo(c),
           MacrosOK', FlagsOK', OutputOK', LoopOK',
           ret' \in Int, cond' \in Snippet,
           skip' \in [nest : 0 .. NestMod - 1, stringed1 : BOOLEAN, stringed2 : BOOLEAN]
    PROVE  Kept
<1>1. StackOK' /\ ReadsOn
  BY MoveOn
<1>2. LocalsOK'
  BY DEF IInv, LocalsOK
<1>. QED
  BY <1>1, <1>2, DiskStays DEF Kept, IInv

\* A handler that returns to the main loop, or fails, and opens nothing.
LEMMA SimpleHandler ==
    ASSUME IInv, NEW ds \in SUBSET Directive, Directive_(ds),
           NEW c \in cursor .. Len(source), MoveTo(c),
           MacrosOK', FlagsOK', OutputOK',
           pc' \in {"process", "error"}, ret' \in Int, UNCHANGED <<cond, skip>>
    PROVE  Kept
<1>1. currActive' \in Directive /\ UNCHANGED <<disk, quote>> /\ inputStack # <<>>
  BY DirectiveFacts
<1>2. LoopOK'
  BY <1>1, PlainLoop DEF Stopped
<1>3. /\ cond' \in Snippet
      /\ skip' \in [nest : 0 .. NestMod - 1, stringed1 : BOOLEAN, stringed2 : BOOLEAN]
  BY DEF IInv, LocalsOK
<1>. QED
  BY <1>1, <1>2, <1>3, HandlerKeeps

\* The return code is an integer.
LEMMA RetInt == ASSUME IInv PROVE ret \in Int
BY DEF IInv, LocalsOK

\* An unknown directive stops the run after its word.
LEMMA HandleUnknownKeeps == ASSUME IInv, HandleUnknown PROVE Kept
<1> DEFINE ds   == {"#other", "#enddef"}
           code == IF At(source, cursor) = "#other" THEN -404 ELSE -1
<1>1. /\ Directive_(ds) /\ Fail(code, rest)
      /\ UNCHANGED <<storedMacros, branchFlags, output, cond, skip>>
  BY DEF HandleUnknown
<1>2. ds \in SUBSET Directive
  BY DEF Directive
<1>3. rest \in cursor .. Len(source) /\ disk' = disk
  BY <1>1, <1>2, DirectiveFacts
<1>4. MoveTo(rest) /\ pc' = "error" /\ ret' \in Int
  BY <1>1 DEF Fail
<1>. HIDE DEF ds
<1>. QED
  BY <1>1, <1>2, <1>3, <1>4, SimpleHandler, MacrosStay, FlagsStay, OutputStays

\* Defining names as a snippet of a loaded file.
LEMMA AddMacros ==
    ASSUME IInv, disk' = disk, NEW names \in SUBSET Ident, NEW sn \in Snippet,
           sn.file \in DOMAIN disk, InBounds(sn), addMacros(names, sn)
    PROVE  MacrosOK'
<1>1. /\ DOMAIN storedMacros \subseteq Ident
      /\ \A n \in DOMAIN storedMacros : /\ storedMacros[n] \in Snippet
                                        /\ storedMacros[n].file \in DOMAIN disk
                                        /\ InBounds(storedMacros[n])
  BY DEF IInv, MacrosOK
<1>2. storedMacros' = [n \in names \cup DOMAIN storedMacros |->
                          IF n \in names THEN sn ELSE storedMacros[n]]
  BY DEF addMacros
<1>3. \A n \in names \cup DOMAIN storedMacros : /\ storedMacros'[n] \in Snippet
                                                /\ storedMacros'[n].file \in DOMAIN disk
                                                /\ InBounds(storedMacros'[n])
  BY <1>1, <1>2
<1>4. /\ DOMAIN storedMacros' \subseteq Ident
      /\ storedMacros' \in [DOMAIN storedMacros' -> Snippet]
  BY <1>1, <1>2, <1>3
<1>5. DOMAIN storedMacros' = names \cup DOMAIN storedMacros
  BY <1>2
<1>. QED
  BY <1>3, <1>4, <1>5 DEF MacrosOK, InBounds

\* A slice of the top frame's text as a snippet.
LEMMA TopSnippet ==
    ASSUME IInv, inputStack # <<>>,
           NEW b \in 0 .. Len(source), NEW e \in b .. Len(source)
    PROVE  LET sn == [file |-> top.file, offset |-> b, size |-> e - b]
           IN  sn \in Snippet /\ sn.file \in DOMAIN disk /\ InBounds(sn)
<1>1. Len(source) \in Nat /\ top.file \in DOMAIN disk /\ top.file \in FileName
  BY TopFrame DEF IInv, DiskOK
<1>2. b \in Nat /\ e - b \in Nat /\ b + (e - b) <= Len(source)
  BY <1>1
<1>. QED
  BY <1>1, <1>2 DEF Snippet, InBounds, source

\* #define registers a snippet that lies in the file being read, and moves
\* to the next line.
LEMMA HandleDefineKeeps == ASSUME IInv, HandleDefine PROVE Kept
<1> DEFINE ds     == {"#define"}
           names  == Ol(source, rest)
           namesE == DefineNamesEnd(source, names)
           val    == Ol(source, namesE)
           valE   == DefineValueEnd(source, val)
           lineE  == DefineLineEnd(source, val)
           new    == Ident \cap ToSet(Slice(source, names, namesE))
           sn     == [file |-> top.file, offset |-> val, size |-> valE - val]
           c      == IF lineE < Len(source) THEN lineE + 1 ELSE lineE
<1>1. /\ Directive_(ds) /\ addMacros(new, sn) /\ MoveTo(c)
      /\ UNCHANGED <<branchFlags, output, pc, ret, cond, skip>>
  BY DEF HandleDefine
<1>2. ds \in SUBSET Directive
  BY DEF Directive
<1>3. /\ disk' = disk /\ pc = "process" /\ inputStack # <<>> /\ source \in Text
      /\ Len(source) \in Nat /\ cursor \in Nat /\ rest \in cursor .. Len(source)
      /\ rest \in 0 .. Len(source)
  <2>. HIDE DEF ds
  <2>. QED  BY <1>1, <1>2, DirectiveFacts
<1>4. names \in rest .. Len(source) /\ names \in 0 .. Len(source)
  BY <1>3, OlRange
<1>5. namesE \in names .. Len(source) /\ namesE \in 0 .. Len(source)
  <2>. HIDE DEF names
  <2>. QED  BY <1>3, <1>4, DefineRange
<1>6. val \in namesE .. Len(source) /\ val \in 0 .. Len(source)
  <2>. HIDE DEF namesE
  <2>. QED  BY <1>3, <1>5, OlRange
<1>7. valE \in val .. Len(source) /\ lineE \in val .. Len(source)
  <2>. HIDE DEF val
  <2>. QED  BY <1>3, <1>6, DefineRange
<1>. HIDE DEF ds, names, namesE, val, valE, lineE
<1>8. c \in cursor .. Len(source)
  BY <1>3, <1>4, <1>5, <1>6, <1>7
<1>9. MacrosOK'
  <2>1. sn \in Snippet /\ sn.file \in DOMAIN disk /\ InBounds(sn)
    BY <1>3, <1>6, <1>7, TopSnippet
  <2>2. new \in SUBSET Ident
    OBVIOUS
  <2>. HIDE DEF sn, new
  <2>. QED  BY <1>1, <1>3, <2>1, <2>2, AddMacros
<1>. HIDE DEF c
<1>. QED
  BY <1>1, <1>2, <1>3, <1>8, <1>9, RetInt, SimpleHandler, FlagsStay, OutputStays

\* #define_m registers the text before #enddef, and moves past it.
LEMMA HandleDefineMKeeps == ASSUME IInv, HandleDefineM PROVE Kept
<1> DEFINE ds     == {"#define_m"}
           names  == Ol(source, rest)
           namesE == DefineMNamesEnd(source, names)
           endDef == FindNext(source, namesE, {"#enddef"})
           new    == Ident \cap ToSet(Slice(source, names, namesE))
           sn     == [file |-> top.file, offset |-> namesE, size |-> endDef - namesE]
           c      == PastIfAny(source, endDef + 1, "nl")
<1>1. /\ Directive_(ds)
      /\ \/ Fail(-3, namesE) /\ UNCHANGED storedMacros
         \/ /\ endDef # NoPos /\ addMacros(new, sn) /\ MoveTo(c)
            /\ UNCHANGED <<pc, ret>>
      /\ UNCHANGED <<branchFlags, output, cond, skip>>
  BY DEF HandleDefineM
<1>2. ds \in SUBSET Directive
  BY DEF Directive
<1>. HIDE DEF ds
<1>3. /\ disk' = disk /\ pc = "process" /\ inputStack # <<>> /\ source \in Text
      /\ Len(source) \in Nat /\ cursor \in Nat /\ rest \in cursor .. Len(source)
      /\ rest \in 0 .. Len(source)
  BY <1>1, <1>2, DirectiveFacts
<1>4. names \in rest .. Len(source) /\ names \in 0 .. Len(source)
  BY <1>3, OlRange
<1>5. namesE \in names .. Len(source) /\ namesE \in 0 .. Len(source)
  <2>. HIDE DEF names
  <2>. QED  BY <1>3, <1>4, DefineRange
<1>6. endDef \in {NoPos} \cup (namesE .. Len(source) - 1)
  <2>. HIDE DEF namesE
  <2>. QED  BY <1>3, <1>5, FindNextRange
<1>. HIDE DEF names, namesE, endDef
<1>7. CASE Fail(-3, namesE) /\ UNCHANGED storedMacros
  <2>1. namesE \in cursor .. Len(source)
    BY <1>3, <1>4, <1>5
  <2>2. MoveTo(namesE) /\ pc' = "error" /\ ret' \in Int
    BY <1>7 DEF Fail
  <2>. QED
    BY <1>1, <1>2, <1>3, <1>7, <2>1, <2>2, SimpleHandler, MacrosStay, FlagsStay, OutputStays
<1>8. CASE endDef # NoPos /\ addMacros(new, sn) /\ MoveTo(c) /\ UNCHANGED <<pc, ret>>
  <2>1. endDef \in namesE .. Len(source) /\ endDef + 1 \in 0 .. Len(source)
    BY <1>3, <1>5, <1>6, <1>8
  <2>2. c \in endDef + 1 .. Len(source)
    BY <1>3, <2>1, PastRange
  <2>3. c \in cursor .. Len(source)
    <3>. HIDE DEF c
    <3>. QED  BY <1>3, <1>4, <1>5, <2>1, <2>2
  <2>4. MacrosOK'
    <3>1. sn \in Snippet /\ sn.file \in DOMAIN disk /\ InBounds(sn)
      BY <1>3, <1>5, <2>1, TopSnippet
    <3>2. new \in SUBSET Ident
      OBVIOUS
    <3>. HIDE DEF sn, new
    <3>. QED  BY <1>3, <1>8, <3>1, <3>2, AddMacros
  <2>. HIDE DEF c
  <2>. QED
    BY <1>1, <1>2, <1>3, <1>8, <2>3, <2>4, RetInt, SimpleHandler, FlagsStay, OutputStays
<1>. QED
  BY <1>1, <1>7, <1>8

\* The stack below an included file.
LEMMA PushOn ==
    ASSUME IInv, inputStack # <<>>, disk' = disk,
           NEW c \in cursor .. Len(source), NEW f \in DOMAIN disk,
           inputStack' = Append(Moved(c), [file |-> f, cursor |-> 0])
    PROVE  StackOK' /\ ReadsOn
<1> DEFINE n   == Len(inputStack)
           new == [file |-> f, cursor |-> 0]
<1>1. new \in Frame /\ disk[f] \in Text /\ 0 <= Len(disk[f])
  <2>1. f \in FileName /\ disk[f] \in Text
    BY DEF IInv, DiskOK
  <2>. QED  BY <2>1 DEF Frame, Text
<1>2. /\ inputStack \in Seq(Frame) /\ n \in Nat /\ DOMAIN inputStack = 1 .. n
      /\ Moved(c) \in Seq(Frame) /\ Len(Moved(c)) = n
  BY MovedFrames DEF IInv, StackOK
<1>. HIDE DEF new
<1>3. /\ inputStack' \in Seq(Frame) /\ DOMAIN inputStack' = 1 .. n + 1
      /\ inputStack'[n + 1] = new
      /\ \A i \in 1 .. n : inputStack'[i] = Moved(c)[i]
  BY <1>1, <1>2 DEF new
<1>4. StackOK'
  <2>1. \A i \in 1 .. n : /\ inputStack'[i].file \in DOMAIN disk
                          /\ inputStack'[i].cursor <= Len(disk[inputStack'[i].file])
    BY <1>2, <1>3, MovedFrames
  <2>2. new.file \in DOMAIN disk /\ new.cursor <= Len(disk[new.file])
    BY <1>1 DEF new
  <2>3. \A i \in DOMAIN inputStack' : i \in 1 .. n \/ i = n + 1
    BY <1>2, <1>3
  <2>4. \A i \in DOMAIN inputStack' : /\ inputStack'[i].file \in DOMAIN disk
                                      /\ inputStack'[i].cursor <= Len(disk[inputStack'[i].file])
    BY <1>3, <2>1, <2>2, <2>3
  <2>. QED  BY <1>3, <2>4 DEF StackOK
<1>5. ReadsOn
  <2>1. \A i \in 1 .. n : /\ i \in DOMAIN inputStack'
                          /\ inputStack'[i].file = inputStack[i].file
                          /\ inputStack'[i].cursor >= inputStack[i].cursor
                          /\ i # n => inputStack'[i] = inputStack[i]
    <3>1. \A i \in 1 .. n : /\ Moved(c)[i].file = inputStack[i].file
                            /\ Moved(c)[i].cursor >= inputStack[i].cursor
                            /\ i # n => Moved(c)[i] = inputStack[i]
      BY <1>2, MovedFrames
    <3>2. \A i \in 1 .. n : i \in DOMAIN inputStack'
      BY <1>2, <1>3
    <3>. HIDE DEF n
    <3>. QED  BY <1>3, <3>1, <3>2
  <2>2. \A i \in 1 .. n - 1 : i \in 1 .. n /\ i # n
    BY <1>2, BelowLast
  <2>. QED  BY <1>2, <2>1, <2>2 DEF ReadsOn
<1>. QED
  BY <1>4, <1>5

\* An inclusion suspends the frame within its file, and starts the new one
\* at 0 of a file that is on disk.
LEMMA HandleIncludeKeeps == ASSUME IInv, HandleInclude PROVE Kept
<1> DEFINE ds    == {"#include", "#import"}
           open  == Ol(source, rest)
           close == IF At(source, open) = "q2" THEN "q2" ELSE "gt"
           pathE == FindNext(source, open + 1, {close})
           path  == Slice(source, open + 1, pathE)
           after == PastIfAny(source, pathE + 1, "nl")
           found == Len(path) = 1 /\ path[1] \in DOMAIN disk
           Fails(c) == \E code \in Int : Fail(code, c)
<1>1. /\ Directive_(ds)
      /\ \/ Fails(open)
         \/ open # Len(source) /\ Fails(open + 1)
         \/ open # Len(source) /\ pathE # NoPos /\ Fails(after)
         \/ /\ open # Len(source) /\ pathE # NoPos /\ found
            /\ inputStack' = Append(Moved(after), [file |-> path[1], cursor |-> 0])
            /\ UNCHANGED <<pc, ret>>
      /\ UNCHANGED <<storedMacros, branchFlags, output, cond, skip>>
  <2>1. \A c : \A code \in Int : Fail(code, c) => Fails(c)
    OBVIOUS
  <2>. HIDE DEF Fails
  <2>2. -1 \in Int /\ -2 \in Int
    OBVIOUS
  <2>. QED  BY <2>1, <2>2 DEF HandleInclude, Moved
<1>2. ds \in SUBSET Directive
  BY DEF Directive
<1>. HIDE DEF ds
<1>3. /\ disk' = disk /\ pc = "process" /\ inputStack # <<>> /\ source \in Text
      /\ Len(source) \in Nat /\ cursor \in Nat /\ rest \in cursor .. Len(source)
      /\ rest \in 0 .. Len(source) /\ currActive' \in Directive /\ quote' = quote
  BY <1>1, <1>2, DirectiveFacts
<1>4. open \in rest .. Len(source)
  BY <1>3, OlRange
<1>5. /\ open \in cursor .. Len(source)
      /\ open # Len(source) => open + 1 \in cursor .. Len(source) /\ open + 1 \in Nat
  <2>. HIDE DEF open
  <2>. QED  BY <1>3, <1>4
<1>6. open # Len(source) => pathE \in {NoPos} \cup (open + 1 .. Len(source) - 1)
  <2>. HIDE DEF open, close
  <2>. QED  BY <1>3, <1>5, FindNextRange
<1>7. open # Len(source) /\ pathE # NoPos => after \in cursor .. Len(source)
  <2>. SUFFICES ASSUME open # Len(source), pathE # NoPos
                PROVE  after \in cursor .. Len(source)
    OBVIOUS
  <2>. HIDE DEF open, pathE
  <2>1. pathE + 1 \in 0 .. Len(source) /\ cursor <= pathE + 1
    BY <1>3, <1>5, <1>6
  <2>2. after \in pathE + 1 .. Len(source)
    BY <1>3, <2>1, PastRange
  <2>. HIDE DEF after
  <2>. QED  BY <1>3, <1>6, <2>1, <2>2
<1>8. ASSUME NEW c \in cursor .. Len(source), Fails(c) PROVE Kept
  <2>1. MoveTo(c) /\ pc' = "error" /\ ret' \in Int
    BY <1>8 DEF Fail
  <2>. QED
    BY <1>1, <1>2, <1>3, <1>8, <2>1, SimpleHandler, MacrosStay, FlagsStay, OutputStays
<1>9. CASE /\ open # Len(source) /\ pathE # NoPos /\ found
           /\ inputStack' = Append(Moved(after), [file |-> path[1], cursor |-> 0])
           /\ UNCHANGED <<pc, ret>>
  <2>. HIDE DEF open, pathE, path, after
  <2>1. StackOK' /\ ReadsOn
    BY <1>3, <1>7, <1>9, PushOn
  <2>2. LoopOK'
    BY <1>3, <1>9, PlainLoop
  <2>. QED
    BY <1>1, <1>3, <1>9, <2>1, <2>2, DiskStays, MacrosStay, FlagsStay, LocalsStay,
       OutputStays DEF Kept, IInv
<1>. HIDE DEF open, pathE, after, Fails, found
<1>. QED
  BY <1>1, <1>5, <1>7, <1>8, <1>9

\* Two line ends on, or the end of the text.
LEMMA TwoLinesRange ==
    ASSUME NEW t \in Text, NEW c \in 0 .. Len(t)
    PROVE  TwoLines(t, c) \in c .. Len(t)
<1> DEFINE d == PastOrEnd(t, c, "nl")
<1>1. Len(t) \in Nat
  BY DEF Text
<1>2. d \in c .. Len(t) /\ d \in 0 .. Len(t)
  BY <1>1, PastRange
<1>. HIDE DEF d
<1>3. PastOrEnd(t, d, "nl") \in d .. Len(t)
  BY <1>2, PastRange
<1>. QED
  BY <1>1, <1>2, <1>3 DEF TwoLines, d

\* #skip moves forward within its file.
LEMMA HandleSkipKeeps == ASSUME IInv, HandleSkip PROVE Kept
<1> DEFINE ds == {"#skip"}
           c  == TwoLines(source, rest)
<1>1. Directive_(ds) /\ MoveTo(c) /\ UNCHANGED <<storedMacros, branchFlags, output, pc, ret, cond, skip>>
  BY DEF HandleSkip
<1>2. ds \in SUBSET Directive
  BY DEF Directive
<1>. HIDE DEF ds
<1>3. /\ disk' = disk /\ pc = "process" /\ inputStack # <<>> /\ source \in Text
      /\ Len(source) \in Nat /\ cursor \in Nat /\ rest \in cursor .. Len(source)
      /\ rest \in 0 .. Len(source)
  BY <1>1, <1>2, DirectiveFacts
<1>4. c \in rest .. Len(source)
  BY <1>3, TwoLinesRange
<1>5. c \in cursor .. Len(source)
  <2>. HIDE DEF c
  <2>. QED  BY <1>3, <1>4
<1>. HIDE DEF c
<1>. QED
  BY <1>1, <1>2, <1>3, <1>5, RetInt, SimpleHandler, MacrosStay, FlagsStay, OutputStays

-----------------------------------------------------------------------------
(* Conditionals.                                                           *)

\* A flag set that may lie on branchFlags.
Sound(flags) == /\ flags \in SUBSET Flags
                /\ "ACTIVE" \in flags => "EVER_TAKEN" \in flags

\* Opening a conditional.
LEMMA PushFlags ==
    ASSUME IInv, NEW flags, Sound(flags), branchFlags' = Append(branchFlags, flags)
    PROVE  FlagsOK' /\ branchFlags' # <<>> /\ Last(branchFlags') = flags
<1> DEFINE n == Len(branchFlags)
<1>1. /\ branchFlags \in Seq(SUBSET Flags) /\ n \in Nat /\ DOMAIN branchFlags = 1 .. n
      /\ \A i \in 1 .. n : "ACTIVE" \in branchFlags[i] => "EVER_TAKEN" \in branchFlags[i]
  BY DEF IInv, FlagsOK
<1>2. /\ branchFlags' \in Seq(SUBSET Flags) /\ Len(branchFlags') = n + 1
      /\ branchFlags'[n + 1] = flags
      /\ \A i \in 1 .. n : branchFlags'[i] = branchFlags[i]
  BY <1>1 DEF Sound
<1>3. \A i \in DOMAIN branchFlags' : i \in 1 .. n \/ i = n + 1
  BY <1>1, <1>2
<1>4. FlagsOK'
  BY <1>1, <1>2, <1>3 DEF FlagsOK, Sound
<1>. QED
  BY <1>1, <1>2, <1>4 DEF Last

\* Writing the last element of a sequence.
LEMMA ReplaceLast ==
    ASSUME NEW S, NEW s \in Seq(S), s # <<>>, NEW e \in S
    PROVE  LET t == [s EXCEPT ![Len(s)] = e]
           IN  /\ t \in Seq(S) /\ Len(t) = Len(s) /\ t # <<>>
               /\ t[Len(s)] = e
               /\ \A i \in 1 .. Len(s) : i # Len(s) => t[i] = s[i]
<1>1. Len(s) \in Nat /\ Len(s) \in 1 .. Len(s)
  OBVIOUS
<1>. QED
  BY <1>1

\* Changing the innermost conditional's flags.
LEMMA ReplaceFlags ==
    ASSUME IInv, branchFlags # <<>>, NEW flags, Sound(flags), SetTopFlags(flags)
    PROVE  FlagsOK' /\ branchFlags' # <<>> /\ Last(branchFlags') = flags
<1> DEFINE n == Len(branchFlags)
<1>1. /\ branchFlags \in Seq(SUBSET Flags) /\ n \in Nat /\ n \in 1 .. n
      /\ DOMAIN branchFlags = 1 .. n
      /\ \A i \in 1 .. n : "ACTIVE" \in branchFlags[i] => "EVER_TAKEN" \in branchFlags[i]
  BY DEF IInv, FlagsOK
<1>2. branchFlags' = [branchFlags EXCEPT ![Len(branchFlags)] = flags]
  BY DEF SetTopFlags
<1>3. /\ branchFlags' \in Seq(SUBSET Flags) /\ Len(branchFlags') = n
      /\ branchFlags' # <<>> /\ branchFlags'[n] = flags
      /\ \A i \in 1 .. n : i # n => branchFlags'[i] = branchFlags[i]
  BY <1>1, <1>2, ReplaceLast DEF Sound
<1>4. FlagsOK'
  <2>1. DOMAIN branchFlags' = 1 .. n
    BY <1>3
  <2>2. \A i \in 1 .. n : "ACTIVE" \in branchFlags'[i] => "EVER_TAKEN" \in branchFlags'[i]
    BY <1>1, <1>3 DEF Sound
  <2>. QED  BY <1>3, <2>1, <2>2 DEF FlagsOK
<1>5. Last(branchFlags') = flags
  BY <1>3 DEF Last
<1>. QED
  BY <1>3, <1>4, <1>5

\* The innermost flags are a subset of Flags, ACTIVE only with EVER_TAKEN.
LEMMA TopFlagsSound ==
    ASSUME IInv
    PROVE  Sound(TopFlags \ {"ACTIVE"})
<1>1. branchFlags # <<>> => Last(branchFlags) \in SUBSET Flags
  BY DEF IInv, FlagsOK, Last
<1>. QED
  BY <1>1 DEF TopFlags, Sound

\* So are the flags a verdict gives a conditional.
LEMMA FlagsOfSound ==
    ASSUME NEW passed \in BOOLEAN
    PROVE  /\ Sound(FlagsOf(passed))
           /\ ~passed => "ACTIVE" \notin FlagsOf(passed)
BY DEF FlagsOf, Taken, Flags, Sound

\* Closing a conditional.
LEMMA PopFlags ==
    ASSUME IInv, branchFlags # <<>>, branchFlags' = Front(branchFlags)
    PROVE  FlagsOK'
<1> DEFINE n == Len(branchFlags)
<1>1. /\ branchFlags \in Seq(SUBSET Flags) /\ n \in Nat \ {0} /\ DOMAIN branchFlags = 1 .. n
      /\ \A i \in 1 .. n : "ACTIVE" \in branchFlags[i] => "EVER_TAKEN" \in branchFlags[i]
  BY DEF IInv, FlagsOK
<1>2. /\ branchFlags' \in Seq(SUBSET Flags) /\ DOMAIN branchFlags' = 1 .. n - 1
      /\ \A i \in 1 .. n - 1 : branchFlags'[i] = branchFlags[i]
  BY <1>1 DEF Front
<1>3. \A i \in 1 .. n - 1 : i \in 1 .. n
  BY <1>1, BelowLast
<1>. QED
  BY <1>1, <1>2, <1>3 DEF FlagsOK

\* Going on with a branch or past it.
LEMMA EnterLoop ==
    ASSUME currActive' \in Directive, inputStack' # <<>>,
           NEW passed \in BOOLEAN, Enter(passed),
           ~passed => branchFlags' # <<>> /\ "ACTIVE" \notin Last(branchFlags')
    PROVE  /\ LoopOK'
           /\ skip' \in [nest : 0 .. NestMod - 1, stringed1 : BOOLEAN, stringed2 : BOOLEAN]
<1>1. skip' = [nest |-> 1, stringed1 |-> FALSE, stringed2 |-> FALSE] /\ 1 \in 0 .. NestMod - 1
  BY NestAssumption DEF Enter, FreshSkip
<1>2. pc' = IF passed THEN "process" ELSE "skip"
  BY DEF Enter
<1>3. LoopOK'
  BY <1>2 DEF LoopOK, CondOK, Running, Stopped
<1>. QED
  BY <1>1, <1>3

\* Reading the condition of an #if, or of an #elif below an open conditional.
LEMMA ReadConditionKeeps ==
    ASSUME IInv, NEW ds \in SUBSET Directive, Directive_(ds), ReadCondition,
           currActive' # "#if" => branchFlags # <<>>
    PROVE  Kept
<1> DEFINE begin == Ol(source, rest)
           lineE == FindNext(source, begin, {"nl"})
           size  == (OlBack(source, lineE) - begin) % Wrap
<1>1. /\ \/ Fail(-422, begin) /\ UNCHANGED cond
         \/ /\ lineE # NoPos /\ MoveTo(lineE + 1) /\ pc' = "eval" /\ UNCHANGED ret
            /\ cond' = [file |-> top.file, offset |-> begin, size |-> size]
      /\ UNCHANGED <<storedMacros, branchFlags, output, skip>>
  BY DEF ReadCondition
<1>2. /\ disk' = disk /\ quote' = quote /\ inputStack # <<>> /\ source \in Text
      /\ Len(source) \in Nat /\ cursor \in Nat /\ rest \in cursor .. Len(source)
      /\ rest \in 0 .. Len(source) /\ currActive' \in Directive /\ top.file \in FileName
  BY DirectiveFacts
<1>3. begin \in rest .. Len(source)
  BY <1>2, OlRange
<1>4. begin \in Nat /\ begin \in cursor .. Len(source)
  <2>. HIDE DEF begin
  <2>. QED  BY <1>2, <1>3
<1>5. lineE \in {NoPos} \cup (begin .. Len(source) - 1)
  <2>. HIDE DEF begin
  <2>. QED  BY <1>2, <1>4, FindNextRange
<1>. HIDE DEF begin, lineE
<1>6. CASE Fail(-422, begin) /\ UNCHANGED cond
  <2>1. MoveTo(begin) /\ pc' = "error" /\ ret' \in Int
    BY <1>6 DEF Fail
  <2>. QED
    BY <1>1, <1>2, <1>4, <1>6, <2>1, SimpleHandler, MacrosStay, FlagsStay, OutputStays
<1>7. CASE /\ lineE # NoPos /\ MoveTo(lineE + 1) /\ pc' = "eval" /\ UNCHANGED ret
           /\ cond' = [file |-> top.file, offset |-> begin, size |-> size]
  <2>1. lineE \in Nat /\ lineE + 1 \in cursor .. Len(source)
    BY <1>2, <1>4, <1>5, <1>7
  <2>2. size \in Nat
    <3>1. OlBack(source, lineE) \in Int
      BY <1>2, <2>1, OlBackRange
    <3>. QED  BY <1>4, <3>1, WrapAssumption
  <2>3. cond' \in Snippet
    BY <1>2, <1>4, <1>7, <2>2 DEF Snippet
  <2>4. inputStack' # <<>>
    BY <1>2, <1>7, <2>1, MoveOn
  <2>5. /\ top.file \in DOMAIN disk /\ source = disk[top.file] /\ Len(source) < Wrap
    BY <1>2, TopFrame DEF source, IInv, DiskOK
  <2>6. InBounds(cond)' \/ /\ begin < Len(source)
                           /\ At(source, begin) = "nl"
    <3>1. CASE begin = lineE
      <4>1. At(source, lineE) \in {"nl"}
        BY <1>2, <1>4, <1>7, FindNextHit DEF lineE
      <4>. QED  BY <1>2, <1>4, <1>5, <1>7, <3>1, <4>1
    <3>2. CASE begin # lineE
      <4>1. lineE \in Nat /\ begin < lineE /\ lineE < Len(source)
        BY <1>2, <1>4, <1>5, <1>7, <3>2
      <4>2. At(source, begin) # "ws"
        BY <1>2, <1>4, <4>1, OlStops DEF begin
      <4>3. begin + 1 \in 1 .. lineE /\ (begin + 1) - 1 = begin
        BY <1>4, <4>1
      <4>4. OlBack(source, lineE) \in begin + 1 .. lineE
        BY <1>2, <4>1, <4>2, <4>3, OlBackStops
      <4>5. size = OlBack(source, lineE) - begin
        <5>1. OlBack(source, lineE) - begin \in 0 .. Wrap - 1
          BY <1>2, <1>4, <2>5, <4>1, <4>4, WrapAssumption
        <5>. QED  BY <5>1, ModSmall, WrapAssumption
      <4>6. begin + size <= Len(source)
        BY <1>2, <1>4, <4>1, <4>4, <4>5
      <4>. QED  BY <1>2, <1>7, <2>5, <4>6 DEF InBounds
    <3>. QED  BY <3>1, <3>2
  <2>7. CondOK'
    BY <1>2, <1>7, <2>5, <2>6 DEF CondOK
  <2>8. LoopOK'
    BY <1>1, <1>2, <1>7, <2>4, <2>7 DEF LoopOK, Running
  <2>9. skip' \in [nest : 0 .. NestMod - 1, stringed1 : BOOLEAN, stringed2 : BOOLEAN]
    BY <1>1 DEF IInv, LocalsOK
  <2>. QED
    BY <1>1, <1>2, <1>7, <2>1, <2>3, <2>8, <2>9, RetInt, HandlerKeeps, MacrosStay,
       FlagsStay, OutputStays
<1>. QED
  BY <1>1, <1>6, <1>7

\* #if saves its condition and moves to the next line.
LEMMA HandleIfKeeps == ASSUME IInv, HandleIf PROVE Kept
<1>1. Directive_({"#if"}) /\ ReadCondition /\ {"#if"} \in SUBSET Directive
  BY DEF HandleIf, Directive
<1>2. currActive' = "#if"
  BY <1>1 DEF Directive_, Sees
<1>. QED
  BY <1>1, <1>2, ReadConditionKeeps

\* A handler that ends in a branch or before a dead one.
LEMMA EnterKeeps ==
    ASSUME IInv, NEW ds \in SUBSET Directive, Directive_(ds),
           NEW c \in cursor .. Len(source), MoveTo(c),
           NEW passed \in BOOLEAN, Enter(passed), FlagsOK',
           ~passed => branchFlags' # <<>> /\ "ACTIVE" \notin Last(branchFlags'),
           UNCHANGED <<storedMacros, output, ret, cond>>
    PROVE  Kept
<1>1. currActive' \in Directive /\ UNCHANGED <<disk, quote>> /\ inputStack # <<>>
  BY DirectiveFacts
<1>2. inputStack' # <<>>
  BY <1>1, MoveOn
<1>3. /\ LoopOK'
      /\ skip' \in [nest : 0 .. NestMod - 1, stringed1 : BOOLEAN, stringed2 : BOOLEAN]
  BY <1>1, <1>2, EnterLoop
<1>4. ret' \in Int /\ cond' \in Snippet
  BY DEF IInv, LocalsOK
<1>. QED
  BY <1>1, <1>3, <1>4, HandlerKeeps, MacrosStay, OutputStays

\* #ifndef opens a conditional, which is inactive when its text is skipped.
LEMMA HandleIfndefKeeps == ASSUME IInv, HandleIfndef PROVE Kept
<1> DEFINE ds     == {"#ifndef"}
           name   == Ol(source, rest)
           nameE  == RunEnd(source, name, Ident)
           s      == Slice(source, name, nameE)
           c      == PastIfAny(source, nameE, "nl")
<1>1. /\ Directive_(ds) /\ MoveTo(c)
      /\ UNCHANGED <<storedMacros, output, ret, cond>>
      /\ \E passed \in BOOLEAN : /\ branchFlags' = Append(branchFlags, FlagsOf(passed))
                                 /\ Enter(passed)
  <2>1. (s # <<>> /\ ~IsMacro(s)) \in BOOLEAN
    OBVIOUS
  <2>. QED  BY <2>1 DEF HandleIfndef
<1>2. ds \in SUBSET Directive
  BY DEF Directive
<1>. HIDE DEF ds
<1>3. /\ source \in Text /\ Len(source) \in Nat /\ cursor \in Nat
      /\ rest \in cursor .. Len(source) /\ rest \in 0 .. Len(source)
  BY <1>1, <1>2, DirectiveFacts
<1>4. name \in rest .. Len(source) /\ name \in 0 .. Len(source)
  BY <1>3, OlRange
<1>5. nameE \in name .. Len(source) /\ nameE \in 0 .. Len(source)
  <2>. HIDE DEF name
  <2>. QED  BY <1>3, <1>4, RunEndRange
<1>6. c \in nameE .. Len(source)
  <2>. HIDE DEF nameE
  <2>. QED  BY <1>3, <1>5, PastRange
<1>7. c \in cursor .. Len(source)
  <2>. HIDE DEF name, nameE, c
  <2>. QED  BY <1>3, <1>4, <1>5, <1>6
<1>8. PICK passed \in BOOLEAN : /\ branchFlags' = Append(branchFlags, FlagsOf(passed))
                                /\ Enter(passed)
  BY <1>1
<1>9. /\ FlagsOK'
      /\ ~passed => branchFlags' # <<>> /\ "ACTIVE" \notin Last(branchFlags')
  BY <1>8, FlagsOfSound, PushFlags
<1>. HIDE DEF c
<1>. QED
  BY <1>1, <1>2, <1>7, <1>8, <1>9, EnterKeeps

\* An #else, #elif or #endif without an open conditional.
LEMMA StrayKeeps ==
    ASSUME IInv, NEW ds \in SUBSET Directive, Directive_(ds), Fail(-400, rest),
           UNCHANGED <<storedMacros, branchFlags, output, cond, skip>>
    PROVE  Kept
<1>1. rest \in cursor .. Len(source) /\ disk' = disk
  BY DirectiveFacts
<1>2. MoveTo(rest) /\ pc' = "error" /\ ret' \in Int
  BY DEF Fail
<1>. QED
  BY <1>1, <1>2, SimpleHandler, MacrosStay, FlagsStay, OutputStays

\* The cursor after the rest of the directive's line.
LEMMA NextLine ==
    ASSUME IInv, NEW ds \in SUBSET Directive, Directive_(ds)
    PROVE  PastIfAny(source, rest, "nl") \in cursor .. Len(source)
<1> DEFINE c == PastIfAny(source, rest, "nl")
<1>1. /\ source \in Text /\ Len(source) \in Nat /\ cursor \in Nat
      /\ rest \in cursor .. Len(source) /\ rest \in 0 .. Len(source)
  BY DirectiveFacts
<1>2. c \in rest .. Len(source)
  BY <1>1, PastRange
<1>. HIDE DEF c
<1>3. c \in cursor .. Len(source)
  BY <1>1, <1>2
<1>. QED
  BY <1>3 DEF c

\* #else is skipped only after it cleared ACTIVE.
LEMMA HandleElseKeeps == ASSUME IInv, HandleElse PROVE Kept
<1> DEFINE ds == {"#else"}
           c  == PastIfAny(source, rest, "nl")
<1>0. Directive_(ds) /\ ds \in SUBSET Directive
  BY DEF HandleElse, Directive
<1>1. \/ Fail(-400, rest) /\ UNCHANGED <<storedMacros, branchFlags, output, cond, skip>>
      \/ /\ branchFlags # <<>> /\ MoveTo(c)
         /\ UNCHANGED <<storedMacros, output, ret, cond>>
         /\ \/ SetTopFlags(TopFlags \ {"ACTIVE"}) /\ Enter(FALSE)
            \/ SetTopFlags(Taken) /\ Enter(TRUE)
  BY DEF HandleElse
<1>. HIDE DEF ds
<1>2. c \in cursor .. Len(source)
  BY <1>0, NextLine
<1>. HIDE DEF c
<1>3. CASE Fail(-400, rest) /\ UNCHANGED <<storedMacros, branchFlags, output, cond, skip>>
  BY <1>0, <1>3, StrayKeeps
<1>4. CASE /\ branchFlags # <<>> /\ MoveTo(c) /\ UNCHANGED <<storedMacros, output, ret, cond>>
           /\ SetTopFlags(TopFlags \ {"ACTIVE"}) /\ Enter(FALSE)
  <2>1. PICK flags : flags = TopFlags \ {"ACTIVE"}
    OBVIOUS
  <2>2. Sound(flags) /\ SetTopFlags(flags) /\ "ACTIVE" \notin flags
    BY <1>4, <2>1, TopFlagsSound
  <2>3. FlagsOK' /\ branchFlags' # <<>> /\ "ACTIVE" \notin Last(branchFlags')
    BY <1>4, <2>2, ReplaceFlags
  <2>. QED  BY <1>0, <1>2, <1>4, <2>3, EnterKeeps
<1>5. CASE /\ branchFlags # <<>> /\ MoveTo(c) /\ UNCHANGED <<storedMacros, output, ret, cond>>
           /\ SetTopFlags(Taken) /\ Enter(TRUE)
  <2>1. Sound(Taken)
    BY DEF Sound, Taken, Flags
  <2>2. FlagsOK'
    BY <1>5, <2>1, ReplaceFlags
  <2>. QED  BY <1>0, <1>2, <1>5, <2>2, EnterKeeps
<1>. QED
  BY <1>1, <1>3, <1>4, <1>5

\* #elif is skipped only after it cleared ACTIVE.
LEMMA HandleElifKeeps == ASSUME IInv, HandleElif PROVE Kept
<1> DEFINE ds == {"#elif"}
<1>0. Directive_(ds) /\ ds \in SUBSET Directive
  BY DEF HandleElif, Directive
<1>1. \/ Fail(-400, rest) /\ UNCHANGED <<storedMacros, branchFlags, output, cond, skip>>
      \/ /\ branchFlags # <<>> /\ MoveTo(rest) /\ Enter(FALSE)
         /\ SetTopFlags(TopFlags \ {"ACTIVE"})
         /\ UNCHANGED <<storedMacros, output, ret, cond>>
      \/ branchFlags # <<>> /\ ReadCondition
  BY DEF HandleElif
<1>. HIDE DEF ds
<1>2. rest \in cursor .. Len(source)
  BY <1>0, DirectiveFacts
<1>3. CASE Fail(-400, rest) /\ UNCHANGED <<storedMacros, branchFlags, output, cond, skip>>
  BY <1>0, <1>3, StrayKeeps
<1>4. CASE /\ branchFlags # <<>> /\ MoveTo(rest) /\ Enter(FALSE)
           /\ SetTopFlags(TopFlags \ {"ACTIVE"})
           /\ UNCHANGED <<storedMacros, output, ret, cond>>
  <2>1. PICK flags : flags = TopFlags \ {"ACTIVE"}
    OBVIOUS
  <2>2. Sound(flags) /\ SetTopFlags(flags) /\ "ACTIVE" \notin flags
    BY <1>4, <2>1, TopFlagsSound
  <2>3. FlagsOK' /\ branchFlags' # <<>> /\ "ACTIVE" \notin Last(branchFlags')
    BY <1>4, <2>2, ReplaceFlags
  <2>. QED  BY <1>0, <1>2, <1>4, <2>3, EnterKeeps
<1>5. CASE branchFlags # <<>> /\ ReadCondition
  BY <1>0, <1>5, ReadConditionKeeps
<1>. QED
  BY <1>1, <1>3, <1>4, <1>5

\* #endif closes the innermost conditional.
LEMMA HandleEndifKeeps == ASSUME IInv, HandleEndif PROVE Kept
<1> DEFINE ds == {"#endif"}
           c  == PastIfAny(source, rest, "nl")
<1>0. Directive_(ds) /\ ds \in SUBSET Directive
  BY DEF HandleEndif, Directive
<1>1. /\ \/ Fail(-400, rest) /\ UNCHANGED branchFlags
         \/ /\ branchFlags # <<>> /\ branchFlags' = Front(branchFlags) /\ MoveTo(c)
            /\ UNCHANGED <<pc, ret>>
      /\ UNCHANGED <<storedMacros, output, cond, skip>>
  BY DEF HandleEndif
<1>. HIDE DEF ds
<1>2. c \in cursor .. Len(source) /\ pc = "process" /\ disk' = disk
  BY <1>0, NextLine, DirectiveFacts
<1>. HIDE DEF c
<1>3. CASE Fail(-400, rest) /\ UNCHANGED branchFlags
  BY <1>0, <1>1, <1>3, StrayKeeps
<1>4. CASE /\ branchFlags # <<>> /\ branchFlags' = Front(branchFlags) /\ MoveTo(c)
           /\ UNCHANGED <<pc, ret>>
  BY <1>0, <1>1, <1>2, <1>4, RetInt, SimpleHandler, MacrosStay, PopFlags, OutputStays
<1>. QED
  BY <1>1, <1>3, <1>4

-----------------------------------------------------------------------------
(* #param.                                                                 *)

\* A trimmed text can be emitted.
LEMMA TrimOutput ==
    ASSUME NEW t \in Text
    PROVE  Trim(t) \in Seq(OutputUnit)
BY TrimText DEF Text, OutputUnit

\* The declaration is made of text and of words of its own.
LEMMA DeclarationOutput ==
    ASSUME NEW type \in Seq(OutputUnit), NEW name \in Seq(OutputUnit),
           NEW value \in Seq(OutputUnit)
    PROVE  Declaration(type, name, value) \in Seq(OutputUnit)
<1>1. /\ "constexpr" \in OutputUnit /\ "assign" \in OutputUnit /\ "nl" \in OutputUnit
  BY DEF OutputUnit, Unit, Symbol, Blank
<1>2. /\ <<"constexpr">> \in Seq(OutputUnit) /\ <<"assign">> \in Seq(OutputUnit)
      /\ <<"nl">> \in Seq(OutputUnit)
  BY <1>1
<1>3. <<"constexpr">> \o type \o name \in Seq(OutputUnit)
  BY <1>2
<1>4. <<"constexpr">> \o type \o name \o <<"assign">> \o value \in Seq(OutputUnit)
  BY <1>2, <1>3
<1>. QED
  BY <1>2, <1>4 DEF Declaration

\* Forgetting a name leaves the others as they were.
LEMMA ForgetMacro ==
    ASSUME IInv, disk' = disk, NEW n, forgetMacro(n)
    PROVE  MacrosOK'
<1>1. /\ DOMAIN storedMacros \subseteq Ident
      /\ \A m \in DOMAIN storedMacros : /\ storedMacros[m] \in Snippet
                                        /\ storedMacros[m].file \in DOMAIN disk
                                        /\ InBounds(storedMacros[m])
  BY DEF IInv, MacrosOK
<1>2. storedMacros' = [m \in DOMAIN storedMacros \ {n} |-> storedMacros[m]]
  BY DEF forgetMacro, Restrict
<1>3. DOMAIN storedMacros' = DOMAIN storedMacros \ {n}
  BY <1>2
<1>4. \A m \in DOMAIN storedMacros' : storedMacros'[m] = storedMacros[m]
  BY <1>2
<1>5. storedMacros' \in [DOMAIN storedMacros' -> Snippet]
  BY <1>1, <1>2
<1>. QED
  BY <1>1, <1>3, <1>4, <1>5 DEF MacrosOK, InBounds

\* A declaration is the last thing written after it was appended.
LEMMA DeclarationEnds ==
    ASSUME NEW S, "constexpr" \in S, "assign" \in S, "nl" \in S,
           NEW o \in Seq(S), NEW type \in Seq(S), NEW n \in S, NEW value \in Seq(S)
    PROVE  LET new == o \o Declaration(type, <<n>>, value)
           IN  /\ IsSuffix(<<n, "assign">> \o value \o <<"nl">>, new)
               /\ Len(new) > Len(o)
<1>2. /\ <<n>> \in Seq(S) /\ <<"assign">> \in Seq(S)
      /\ <<"nl">> \in Seq(S) /\ <<"constexpr">> \in Seq(S)
      /\ <<n, "assign">> \in Seq(S)
  OBVIOUS
<1>3. \A x, y \in Seq(S) : x \o y \in Seq(S)
  BY ConcatProperties
<1>4. <<n, "assign">> = <<n>> \o <<"assign">>
  OBVIOUS
<1>5. \A x, y, z \in Seq(S) : (x \o y) \o z = x \o (y \o z)
  OBVIOUS
<1>6. PICK a \in Seq(S) : a = <<"constexpr">> \o type
  BY <1>2, <1>3
<1>7. PICK b \in Seq(S) : b = <<n, "assign">> \o value \o <<"nl">>
  BY <1>2, <1>3
<1>8. Declaration(type, <<n>>, value) = a \o b
  <2>1. Declaration(type, <<n>>, value)
          = (((a \o <<n>>) \o <<"assign">>) \o value) \o <<"nl">>
    BY <1>6 DEF Declaration
  <2>2. b = ((<<n>> \o <<"assign">>) \o value) \o <<"nl">>
    BY <1>4, <1>7
  <2>3. (a \o <<n>>) \o <<"assign">> = a \o (<<n>> \o <<"assign">>)
    BY <1>2, <1>5
  <2>4. (a \o (<<n>> \o <<"assign">>)) \o value = a \o ((<<n>> \o <<"assign">>) \o value)
    BY <1>2, <1>3, <1>5
  <2>5. (a \o ((<<n>> \o <<"assign">>) \o value)) \o <<"nl">>
          = a \o (((<<n>> \o <<"assign">>) \o value) \o <<"nl">>)
    <3>1. PICK u \in Seq(S) : u = (<<n>> \o <<"assign">>) \o value
      BY <1>2, <1>3
    <3>2. PICK r \in Seq(S) : r = <<"nl">>
      BY <1>2
    <3>3. (a \o u) \o r = a \o (u \o r)
      BY ZenonT(40), <1>5
    <3>. QED  BY Zenon, <3>1, <3>2, <3>3
  <2>. QED  BY Zenon, <2>1, <2>2, <2>3, <2>4, <2>5
<1>9. o \o Declaration(type, <<n>>, value) = (o \o a) \o b
  <2>1. o \o (a \o b) = (o \o a) \o b
    BY ZenonT(40), <1>5
  <2>. QED  BY <1>8, <2>1
<1>10. IsSuffix(b, (o \o a) \o b)
  BY <1>3, SuffixOfConcat
<1>11. Len((o \o a) \o b) > Len(o)
  <2>1. Len(b) > 0
    <3>1. PICK u \in Seq(S) : u = <<n, "assign">> \o value
      BY <1>2, <1>3
    <3>2. Len(b) = Len(u) + 1
      BY <1>2, <1>7, <3>1
    <3>. QED  BY <3>2
  <2>2. Len((o \o a) \o b) = Len(o) + Len(a) + Len(b)
    BY <1>3, ConcatProperties
  <2>3. Len(o) \in Nat /\ Len(a) \in Nat /\ Len(b) \in Nat
    OBVIOUS
  <2>. QED  BY <2>1, <2>2, <2>3
<1>. QED
  BY <1>7, <1>9, <1>10, <1>11

\* What AbsorbedMacroIsDeclared says of a step.
Absorbs ==
    \A n \in DOMAIN storedMacros \ DOMAIN storedMacros' :
       LET text  == Trim(Contents(storedMacros[n]))
           value == IF storedMacros[n].size = 0 THEN <<"1">> ELSE text
       IN  /\ IsSuffix(<<n, "assign">> \o value \o <<"nl">>, output')
           /\ Len(output') > Len(output)
           /\ DOMAIN storedMacros \ DOMAIN storedMacros' = {n}

\* Defining names loses none.
LEMMA DefiningAbsorbs ==
    ASSUME NEW names, NEW sn, addMacros(names, sn)
    PROVE  Absorbs
BY DEF addMacros, Absorbs

\* #param emits units, forgets at most one name and moves forward; the name
\* it forgets is the one it declares, with the text it stood for.
LEMMA HandleParamKeeps == ASSUME IInv, HandleParam PROVE Kept /\ Absorbs
<1> DEFINE ds    == {"#param"}
           open  == Ol(source, rest)
           typeE == TypeEnd(source, open + 1)
           type  == Trim(Slice(source, open + 1, typeE))
           lineE == FindNext(source, open + 1, {"nl"})
           name  == Ol(source, typeE + 1)
           nameE == RunEnd(source, name, Ident)
           s     == Slice(source, name, nameE)
           eq    == Ol(source, nameE)
           defE  == Min({Len(source), FindNext(source, eq + 1, {"nl"})} \ {NoPos})
           given == Slice(source, eq + 1, defE)
           value == IF ~IsMacro(s)
                    THEN Trim(IF At(source, eq) = "eqeq" THEN <<"assign">> \o given ELSE given)
                    ELSE IF storedMacros[s[1]].size = 0 THEN <<"1">>
                    ELSE Trim(Contents(storedMacros[s[1]]))
           end   == IF defE < Len(source) THEN defE + 1 ELSE defE
           Fails(c) == Fail(-400, c) /\ UNCHANGED <<storedMacros, output>>
           Opened   == open # Len(source)
           Typed    == Opened /\ typeE # NoPos
           Valued   == Typed /\ eq # Len(source)
<1>1. /\ Directive_(ds) /\ UNCHANGED <<branchFlags, cond, skip>>
      /\ \/ Fails(open)
         \/ Opened /\ lineE # NoPos /\ Fails(lineE)
         \/ Fails(Len(source))
         \/ Typed /\ Fails(typeE)
         \/ Typed /\ Fails(nameE)
         \/ Typed /\ Fails(eq)
         \/ /\ Valued
            /\ output' = output \o Declaration(type, s, value)
            /\ IF IsMacro(s) THEN forgetMacro(s[1]) ELSE UNCHANGED storedMacros
            /\ MoveTo(end) /\ UNCHANGED <<pc, ret>>
  BY ZenonT(90) DEF HandleParam
<1>2. ds \in SUBSET Directive
  BY DEF Directive
<1>. HIDE DEF ds
<1>3. /\ disk' = disk /\ pc = "process" /\ inputStack # <<>> /\ source \in Text
      /\ Len(source) \in Nat /\ cursor \in Nat /\ rest \in cursor .. Len(source)
      /\ rest \in 0 .. Len(source)
  BY <1>1, <1>2, DirectiveFacts
<1>4. open \in rest .. Len(source)
  BY <1>3, OlRange
<1>5. /\ open \in cursor .. Len(source)
      /\ Opened => open + 1 \in cursor .. Len(source) /\ open + 1 \in Nat
  <2>. HIDE DEF open
  <2>. QED  BY <1>3, <1>4
<1>6. Opened => lineE \in {NoPos} \cup (open + 1 .. Len(source) - 1)
  <2>. HIDE DEF open
  <2>. QED  BY <1>3, <1>5, FindNextRange
<1>7. Opened => typeE \in {NoPos} \cup (open + 1 .. Len(source) - 1)
  <2>. HIDE DEF open
  <2>. QED  BY <1>3, <1>5, TypeEndRange
<1>8. Typed => typeE + 1 \in 0 .. Len(source) /\ typeE \in cursor .. Len(source)
  <2>. HIDE DEF open, typeE
  <2>. QED  BY <1>3, <1>5, <1>7
<1>9. Typed => name \in typeE + 1 .. Len(source) /\ name \in 0 .. Len(source)
  <2>1. Typed => name \in typeE + 1 .. Len(source)
    <3>. HIDE DEF open, typeE
    <3>. QED  BY <1>3, <1>8, OlRange
  <2>. HIDE DEF open, typeE, name
  <2>. QED  BY <1>3, <1>8, <2>1
<1>10. Typed => nameE \in name .. Len(source) /\ nameE \in 0 .. Len(source)
  <2>. HIDE DEF open, typeE, name
  <2>. QED  BY <1>3, <1>9, RunEndRange
<1>11. Typed => eq \in nameE .. Len(source)
  <2>. HIDE DEF open, typeE, name, nameE
  <2>. QED  BY <1>3, <1>10, OlRange
<1>12. Typed => nameE \in cursor .. Len(source) /\ eq \in cursor .. Len(source)
  <2>. HIDE DEF open, typeE, name, nameE, eq
  <2>. QED  BY <1>3, <1>8, <1>9, <1>10, <1>11
<1>13. ASSUME NEW c \in cursor .. Len(source), Fails(c) PROVE Kept /\ Absorbs
  <2>1. MoveTo(c) /\ pc' = "error" /\ ret' \in Int
    BY <1>13 DEF Fail
  <2>2. Absorbs
    BY <1>13 DEF Absorbs
  <2>. QED
    BY <1>1, <1>2, <1>3, <1>13, <2>1, <2>2, SimpleHandler, MacrosStay, FlagsStay, OutputStays
<1>14. CASE /\ Valued
            /\ output' = output \o Declaration(type, s, value)
            /\ IF IsMacro(s) THEN forgetMacro(s[1]) ELSE UNCHANGED storedMacros
            /\ MoveTo(end) /\ UNCHANGED <<pc, ret>>
  <2>1. eq + 1 \in 0 .. Len(source) /\ eq \in Nat
    <3>. HIDE DEF open, typeE, eq
    <3>. QED  BY <1>3, <1>12, <1>14
  <2>2. defE \in eq + 1 .. Len(source)
    <3> DEFINE p == FindNext(source, eq + 1, {"nl"})
               P == {p} \ {NoPos}
    <3>1. p \in {NoPos} \cup (eq + 1 .. Len(source) - 1)
      <4>. HIDE DEF open, typeE, eq
      <4>. QED  BY <1>3, <2>1, FindNextRange
    <3>2. P \subseteq eq + 1 .. Len(source)
      <4>. HIDE DEF eq, p
      <4>. QED  BY <1>3, <2>1, <3>1
    <3>3. defE = Min({Len(source)} \cup P)
      <4>1. Len(source) # NoPos
        BY <1>3 DEF NoPos
      <4>2. {Len(source), p} \ {NoPos} = {Len(source)} \cup P
        <5>. HIDE DEF p
        <5>. QED  BY <4>1
      <4>. QED  BY <4>2
    <3>. HIDE DEF eq, defE, P
    <3>. QED  BY <1>3, <2>1, <3>2, <3>3, MinFromTo
  <2>3. given \in Text /\ <<"assign">> \o given \in Text
    <3>1. eq + 1 \in Nat /\ defE \in Int /\ defE <= Len(source)
      <4>. HIDE DEF eq, defE
      <4>. QED  BY <1>3, <2>1, <2>2
    <3>2. given \in Text
      <4>. HIDE DEF eq, defE
      <4>. QED  BY <1>3, <3>1, SliceText
    <3>3. <<"assign">> \in Text
      <4>1. "assign" \in Unit
        BY DEF Unit, Symbol
      <4>. QED  BY <4>1 DEF Text
    <3>. HIDE DEF given
    <3>. QED  BY <3>2, <3>3 DEF Text
  <2>4. end \in cursor .. Len(source)
    <3>. HIDE DEF open, typeE, eq, defE
    <3>. QED  BY <1>3, <1>12, <1>14, <2>1, <2>2
  <2>5. type \in Seq(OutputUnit)
    <3>1. Slice(source, open + 1, typeE) \in Text
      <4>1. open + 1 \in Nat /\ typeE \in Int /\ typeE <= Len(source)
        <5>. HIDE DEF open, typeE
        <5>. QED  BY <1>3, <1>5, <1>7, <1>14
      <4>. HIDE DEF open, typeE
      <4>. QED  BY <1>3, <4>1, SliceText
    <3>. HIDE DEF open, typeE
    <3>. QED  BY <3>1, TrimOutput
  <2>6. s \in Seq(OutputUnit)
    <3>1. name \in Nat /\ nameE \in Int /\ nameE <= Len(source)
      <4>. HIDE DEF open, typeE, name, nameE
      <4>. QED  BY <1>3, <1>9, <1>10, <1>14
    <3>. HIDE DEF name, nameE
    <3>. QED  BY <1>3, <3>1, SliceOutput
  <2>7. value \in Seq(OutputUnit)
    <3>1. CASE ~IsMacro(s)
      <4> DEFINE kept == IF At(source, eq) = "eqeq" THEN <<"assign">> \o given ELSE given
      <4>1. kept \in Text
        <5>. HIDE DEF given, eq
        <5>. QED  BY <2>3
      <4>2. Trim(kept) \in Seq(OutputUnit)
        <5>. HIDE DEF kept
        <5>. QED  BY <4>1, TrimOutput
      <4>3. value = Trim(kept)
        <5>. HIDE DEF kept, s
        <5>. QED  BY <3>1 DEF kept
      <4>. QED  BY <4>2, <4>3
    <3>2. CASE IsMacro(s)
      <4>. HIDE DEF s, given, defE, eq
      <4>1. s[1] \in DOMAIN storedMacros
        BY <3>2 DEF IsMacro, isDefined
      <4>2. Trim(Contents(storedMacros[s[1]])) \in Seq(OutputUnit)
        BY <4>1, MacroText, TrimOutput
      <4>3. <<"1">> \in Seq(OutputUnit)
        BY DEF OutputUnit
      <4>. QED  BY <3>2, <4>2, <4>3
    <3>. QED  BY <3>1, <3>2
  <2>8. OutputOK'
    <3>. HIDE DEF type, s, value
    <3>1. output \in Seq(OutputUnit) /\ Declaration(type, s, value) \in Seq(OutputUnit)
      BY <2>5, <2>6, <2>7, DeclarationOutput DEF IInv, OutputOK
    <3>. QED  BY <1>14, <3>1 DEF OutputOK
  <2>9. MacrosOK'
    <3>. HIDE DEF s
    <3>. QED  BY <1>3, <1>14, ForgetMacro, MacrosStay
  <2>10. Absorbs
    <3>1. CASE ~IsMacro(s)
      <4>. HIDE DEF s
      <4>. QED  BY <1>14, <3>1 DEF Absorbs
    <3>2. CASE IsMacro(s)
      <4>1. value = IF storedMacros[s[1]].size = 0 THEN <<"1">>
                    ELSE Trim(Contents(storedMacros[s[1]]))
        <5>. HIDE DEF s, given, defE, eq
        <5>. QED  BY <3>2
      <4>. HIDE DEF type, s, value
      <4>2. PICK n \in OutputUnit : n = s[1] /\ s = <<n>> /\ n \in DOMAIN storedMacros
        <5>1. PICK w \in Seq(OutputUnit) : w = s
          BY <2>6
        <5>2. Len(w) = 1 /\ w[1] \in DOMAIN storedMacros
          BY <3>2, <5>1 DEF IsMacro, isDefined
        <5>3. w[1] \in OutputUnit
          BY <5>1, <5>2
        <5>4. w = <<w[1]>>
          BY <5>2, <5>3
        <5>. QED  BY <5>1, <5>2, <5>3, <5>4
      <4>3. DOMAIN storedMacros \ DOMAIN storedMacros' = {n}
        <5>1. DOMAIN storedMacros' = DOMAIN storedMacros \ {n}
          BY <1>14, <3>2, <4>2 DEF forgetMacro, Restrict
        <5>. QED  BY <4>2, <5>1
      <4>4. output' = output \o Declaration(type, <<n>>, value)
        BY <1>14, <4>2
      <4>5. output \in Seq(OutputUnit)
        BY DEF IInv, OutputOK
      <4>6. /\ IsSuffix(<<n, "assign">> \o value \o <<"nl">>, output')
            /\ Len(output') > Len(output)
        <5>1. /\ "constexpr" \in OutputUnit /\ "assign" \in OutputUnit
              /\ "nl" \in OutputUnit
          BY DEF OutputUnit, Unit, Symbol, Blank
        <5>. QED  BY ONLY <2>5, <2>7, <4>4, <4>5, <5>1, DeclarationEnds
      <4>7. value = IF storedMacros[n].size = 0 THEN <<"1">>
                    ELSE Trim(Contents(storedMacros[n]))
        BY <4>1, <4>2
      <4>. QED  BY <4>3, <4>6, <4>7 DEF Absorbs
    <3>. QED  BY <3>1, <3>2
  <2>. HIDE DEF end, type, s, value
  <2>. QED
    BY <1>1, <1>2, <1>3, <1>14, <2>4, <2>8, <2>9, <2>10, RetInt, SimpleHandler, FlagsStay
<1>15. Len(source) \in cursor .. Len(source)
  BY <1>3
<1>16. Opened /\ lineE # NoPos => lineE \in cursor .. Len(source)
  <2>. HIDE DEF open, lineE
  <2>. QED  BY <1>3, <1>5, <1>6
<1>. HIDE DEF open, typeE, type, lineE, name, nameE, s, eq, defE, given, value, end, Fails
<1>. QED
  BY <1>1, <1>5, <1>8, <1>12, <1>13, <1>14, <1>15, <1>16

-----------------------------------------------------------------------------
(* evalCondition.                                                          *)

\* A verdict leaves a conditional open, inactive when its text is skipped.
LEMMA DecideKeeps ==
    ASSUME IInv, pc = "eval", NEW passed \in BOOLEAN, Decide(passed)
    PROVE  Kept
<1>1. /\ Enter(passed)
      /\ UNCHANGED <<disk, inputStack, storedMacros, currActive, output, ret, cond, quote>>
      /\ IF currActive = "#if" THEN branchFlags' = Append(branchFlags, FlagsOf(passed))
                               ELSE SetTopFlags(FlagsOf(passed))
  BY DEF Decide
<1>2. /\ inputStack # <<>> /\ currActive \in Directive \cup {"None"}
      /\ currActive # "#if" => branchFlags # <<>>
  BY DEF IInv, LoopOK
<1>3. PICK flags : flags = FlagsOf(passed)
  OBVIOUS
<1>4. Sound(flags) /\ (~passed => "ACTIVE" \notin flags)
  BY <1>3, FlagsOfSound
<1>5. FlagsOK' /\ branchFlags' # <<>> /\ Last(branchFlags') = flags
  BY <1>1, <1>2, <1>3, <1>4, PushFlags, ReplaceFlags
<1>6. /\ skip' = [nest |-> 1, stringed1 |-> FALSE, stringed2 |-> FALSE]
      /\ 1 \in 0 .. NestMod - 1
      /\ pc' = IF passed THEN "process" ELSE "skip"
  BY <1>1, NestAssumption DEF Enter, FreshSkip
<1>7. LocalsOK'
  BY <1>1, <1>6 DEF IInv, LocalsOK
<1>8. LoopOK'
  BY <1>1, <1>2, <1>4, <1>5, <1>6 DEF LoopOK, CondOK, Running, Stopped
<1>. QED
  BY <1>1, <1>5, <1>7, <1>8, StaysPut, DiskStays, MacrosStay, OutputStays DEF Kept, IInv

\* evalCondition keeps the invariant, whatever a wrapped length made it read.
LEMMA EvalKeeps == ASSUME IInv, Eval PROVE Kept
<1>1. CASE EvalRecurse
  <2>1. /\ pc = "eval"
        /\ UNCHANGED <<disk, inputStack, storedMacros, branchFlags, currActive,
                       output, pc, ret, quote, skip>>
    BY <1>1 DEF EvalRecurse
  <2>2. PICK s : Recurses(s) /\ cond' = storedMacros[s[1]]
    BY <1>1 DEF EvalRecurse
  <2>3. cond' \in Snippet
    BY <2>2 DEF Recurses, IsMacro, isDefined, IInv, MacrosOK
  <2>4. LocalsOK'
    BY <2>1, <2>3 DEF IInv, LocalsOK
  <2>5. CondOK'
    <3>1. /\ storedMacros[s[1]].file \in DOMAIN disk
          /\ InBounds(storedMacros[s[1]])
      BY <2>2 DEF Recurses, IsMacro, isDefined, IInv, MacrosOK
    <3>. QED  BY <2>1, <2>2, <3>1 DEF CondOK, InBounds
  <2>6. LoopOK'
    BY <2>1, <2>5 DEF IInv, LoopOK
  <2>. QED
    BY <2>1, <2>4, <2>6, StaysPut, DiskStays, MacrosStay, FlagsStay, OutputStays
       DEF Kept, IInv
<1>2. CASE EvalDecide
  <2> DEFINE s == Trim(Contents(cond))
  <2>1. Truth(s) \in BOOLEAN
    <3> DEFINE op    == Comparison(s)
               equal == Side(Trim(Slice(s, 0, op))) = Side(Trim(Slice(s, op + 1, Len(s))))
               isOne == s \in {<<"1">>, <<"true">>}
               holds == (At(s, op) = "eqeq") = equal
    <3>1. isOne \in BOOLEAN /\ holds \in BOOLEAN /\ IsMacro(s) \in BOOLEAN
      <4>1. isOne \in BOOLEAN
        <5>. HIDE DEF s
        <5>. QED  BY SMT
      <4>2. holds \in BOOLEAN
        <5>. HIDE DEF equal
        <5>. QED  BY Zenon
      <4>3. IsMacro(s) \in BOOLEAN
        BY Zenon DEF IsMacro
      <4>. QED  BY <4>1, <4>2, <4>3, Zenon
    <3>2. Truth(s) = IF Literal(s) THEN isOne ELSE IF op # NoPos THEN holds ELSE IsMacro(s)
      BY Zenon DEF Truth
    <3>. HIDE DEF isOne, holds, op
    <3>. QED  BY <3>1, <3>2, Zenon
  <2>2. PICK passed \in BOOLEAN : passed = Truth(s)
    BY <2>1
  <2>3. pc = "eval" /\ Decide(passed)
    BY <1>2, <2>2 DEF EvalDecide
  <2>. QED  BY <2>3, DecideKeeps
<1>3. CASE EvalOutside
  <2>1. CASE \E passed \in BOOLEAN : Decide(passed)
    BY <1>3, <2>1, DecideKeeps DEF EvalOutside
  <2>2. CASE /\ pc' = "crash"
             /\ UNCHANGED <<disk, inputStack, storedMacros, branchFlags, currActive,
                            output, ret, cond, quote, skip>>
    <3>1. LoopOK'
      <4>1. currActive \in Directive \cup {"None"}
        BY DEF IInv, LoopOK
      <4>. QED  BY <2>2, <4>1, PlainLoop DEF Stopped
    <3>. QED
      BY <2>2, <3>1, StaysPut, DiskStays, MacrosStay, FlagsStay, LocalsStay, OutputStays
         DEF Kept, IInv
  <2>. QED  BY <1>3, <2>1, <2>2 DEF EvalOutside
<1>. QED
  BY <1>1, <1>2, <1>3 DEF Eval

-----------------------------------------------------------------------------
(* skip_if_branch.                                                         *)

\* A step through dead text: the cursor goes on, and either the dead branch
\* goes on too or its loop has ended.
LEMMA SilentKeeps ==
    ASSUME IInv, pc = "skip", Silent,
           NEW c \in cursor .. Len(source), MoveTo(c),
           pc' \in {"skip", "process", "error"}, ret' \in Int,
           skip' \in [nest : 0 .. NestMod - 1, stringed1 : BOOLEAN, stringed2 : BOOLEAN]
    PROVE  Kept
<1>1. /\ inputStack # <<>> /\ currActive \in Directive \cup {"None"}
      /\ branchFlags # <<>> /\ "ACTIVE" \notin Last(branchFlags)
  BY DEF IInv, LoopOK
<1>2. UNCHANGED <<disk, storedMacros, branchFlags, currActive, output, cond, quote>>
  BY DEF Silent
<1>3. StackOK' /\ inputStack' # <<>> /\ ReadsOn
  BY <1>1, <1>2, MoveOn
<1>4. LocalsOK'
  BY <1>2 DEF IInv, LocalsOK
<1>5. LoopOK'
  BY <1>1, <1>2, <1>3 DEF LoopOK, CondOK, Running, Stopped
<1>. QED
  BY <1>2, <1>3, <1>4, <1>5, DiskStays, MacrosStay, FlagsStay, OutputStays DEF Kept, IInv

\* What a step through dead text starts from, and where it may go.
LEMMA SkipFacts ==
    ASSUME IInv, NEW U, Skipping(U)
    PROVE  /\ pc = "skip"
           /\ cursor + 1 \in cursor .. Len(source)
           /\ rest \in cursor .. Len(source)
           /\ CommentEnd \in cursor .. Len(source)
           /\ \A u : PastOrEnd(source, rest, u) \in cursor .. Len(source)
           /\ TwoLines(source, rest) \in cursor .. Len(source)
<1>1. pc = "skip" /\ Sees(U)
  BY DEF Skipping
<1>2. /\ source \in Text /\ Len(source) \in Nat /\ cursor \in Nat
      /\ rest \in 0 .. Len(source) /\ rest = cursor + 1
  BY <1>1, SeenUnit, TopFrame
<1>3. rest \in cursor .. Len(source)
  BY <1>2
<1>4. CommentEnd \in cursor .. Len(source)
  BY <1>1, CommentEndRange
<1>5. ASSUME NEW c \in rest .. Len(source) PROVE c \in cursor .. Len(source)
  BY <1>2
<1>6. \A u : PastOrEnd(source, rest, u) \in rest .. Len(source)
  BY <1>2, PastRange
<1>7. TwoLines(source, rest) \in rest .. Len(source)
  BY <1>2, TwoLinesRange
<1>. QED
  BY <1>1, <1>2, <1>3, <1>4, <1>5, <1>6, <1>7

SkipState == [nest : 0 .. NestMod - 1, stringed1 : BOOLEAN, stringed2 : BOOLEAN]

\* The scanner's state has its type: the counter is below NestMod.
LEMMA SkipTyped == ASSUME IInv PROVE skip \in SkipState
BY DEF IInv, LocalsOK, SkipState

\* A quote in dead text flips one flag of the scanner.
LEMMA SkipQuoteKeeps == ASSUME IInv, SkipQuote PROVE Kept
<1>1. Skipping(Quote) /\ MoveTo(cursor + 1) /\ Silent /\ UNCHANGED <<pc, ret>>
  BY DEF SkipQuote
<1>2. skip' \in SkipState
  BY SkipTyped DEF SkipQuote, SkipState
<1>. QED
  BY <1>1, <1>2, SkipFacts, RetInt, SilentKeeps DEF SkipState

\* Dead text is passed over, one unit at a time.
LEMMA SkipTextKeeps == ASSUME IInv, SkipText PROVE Kept
<1>1. PICK U : Skipping(U)
  BY DEF SkipText
<1>2. MoveTo(cursor + 1) /\ Silent /\ UNCHANGED <<pc, ret, skip>>
  BY DEF SkipText
<1>. QED
  BY <1>1, <1>2, SkipFacts, SkipTyped, RetInt, SilentKeeps DEF SkipState

\* Dead comments, definitions and #skip are passed over within the file.
LEMMA SkipOverKeeps == ASSUME IInv, SkipOver PROVE Kept
<1>1. Silent /\ UNCHANGED <<pc, ret, skip>>
  BY DEF SkipOver
<1>2. PICK U : Skipping(U)
  BY DEF SkipOver
<1>3. PICK c \in cursor .. Len(source) : MoveTo(c)
  BY <1>2, SkipFacts DEF SkipOver
<1>. QED
  BY <1>1, <1>2, <1>3, SkipFacts, SkipTyped, RetInt, SilentKeeps DEF SkipState

\* A nested conditional counts one level, wrapping at NestMod.
LEMMA SkipIfKeeps == ASSUME IInv, SkipIf PROVE Kept
<1>1. /\ Skipping({"#if", "#ifndef"}) /\ MoveTo(rest) /\ Silent /\ UNCHANGED <<pc, ret>>
      /\ skip' = [skip EXCEPT !.nest = (skip.nest + 1) % NestMod]
  BY DEF SkipIf
<1>2. (skip.nest + 1) % NestMod \in 0 .. NestMod - 1
  <2>1. skip.nest + 1 \in Nat
    BY SkipTyped DEF SkipState
  <2>. QED  BY <2>1, NestAssumption
<1>3. skip' \in SkipState
  BY <1>1, <1>2, SkipTyped DEF SkipState
<1>. QED
  BY <1>1, <1>3, SkipFacts, RetInt, SilentKeeps DEF SkipState

\* A dead #else or #elif moves forward; the flags stay as its caller left them.
LEMMA SkipAlternativeKeeps == ASSUME IInv, SkipAlternative PROVE Kept
<1>1. /\ Skipping({"#elif", "#else"}) /\ Silent /\ UNCHANGED <<ret, skip>>
  BY DEF SkipAlternative
<1>2. PICK c \in cursor .. Len(source) : MoveTo(c)
  BY <1>1, SkipFacts DEF SkipAlternative
<1>3. pc' \in {"skip", "process"}
  BY <1>1, SkipFacts DEF SkipAlternative
<1>. QED
  BY <1>1, <1>2, <1>3, SkipFacts, SkipTyped, RetInt, SilentKeeps DEF SkipState

\* A dead #endif counts one level down or ends the skipping.
LEMMA SkipEndifKeeps == ASSUME IInv, SkipEndif PROVE Kept
<1>1. Skipping({"#endif"}) /\ Silent /\ UNCHANGED ret
  BY DEF SkipEndif
<1>2. PICK c \in cursor .. Len(source) : MoveTo(c)
  BY <1>1, SkipFacts DEF SkipEndif
<1>3. pc' \in {"skip", "process"}
  BY <1>1, SkipFacts DEF SkipEndif
<1>4. skip' \in SkipState
  <2>1. CASE skip.nest > 1
    <3>1. skip.nest - 1 \in 0 .. NestMod - 1
      BY <2>1, SkipTyped, NestAssumption DEF SkipState
    <3>. QED  BY <2>1, <3>1, SkipTyped DEF SkipEndif, SkipState
  <2>2. CASE ~(skip.nest > 1)
    BY <2>2, SkipTyped DEF SkipEndif
  <2>. QED  BY <2>1, <2>2
<1>. QED
  BY <1>1, <1>2, <1>3, <1>4, SkipFacts, RetInt, SilentKeeps DEF SkipState

\* Running out of text, or of levels, moves no cursor.
LEMMA SkipExhaustedKeeps == ASSUME IInv, SkipExhausted PROVE Kept
<1>1. pc = "skip" /\ Silent /\ UNCHANGED skip
  BY DEF SkipExhausted
<1>2. inputStack # <<>>
  BY <1>1 DEF IInv, LoopOK
<1>3. cursor \in cursor .. Len(source)
  BY <1>2, TopFrame
<1>4. CASE pc' = "process" /\ UNCHANGED <<inputStack, ret>>
  <2>1. MoveTo(cursor)
    <3>1. /\ inputStack \in Seq(Frame) /\ Len(inputStack) \in DOMAIN inputStack
          /\ top = inputStack[Len(inputStack)] /\ top \in Frame
      BY <1>2, TopFrame DEF IInv, StackOK
    <3>2. [inputStack[Len(inputStack)] EXCEPT !.cursor = cursor] = inputStack[Len(inputStack)]
      BY <3>1 DEF Frame, cursor
    <3>3. inputStack = [inputStack EXCEPT ![Len(inputStack)] = inputStack[Len(inputStack)]]
      BY <3>1
    <3>. QED  BY <1>4, <3>2, <3>3 DEF MoveTo
  <2>. QED
    BY <1>1, <1>3, <1>4, <2>1, SkipTyped, RetInt, SilentKeeps DEF SkipState
<1>5. CASE Fail(-422, cursor)
  <2>1. MoveTo(cursor) /\ pc' = "error" /\ ret' \in Int
    BY <1>5 DEF Fail
  <2>. QED
    BY <1>1, <1>3, <2>1, SkipTyped, SilentKeeps DEF SkipState
<1>. QED
  BY <1>4, <1>5 DEF SkipExhausted

-----------------------------------------------------------------------------
(* The theorems.                                                           *)

\* A step that changes nothing keeps the invariant.
LEMMA StutterKeeps == ASSUME IInv, UNCHANGED vars PROVE Kept
<1>1. LoopOK'
  BY DEF vars, IInv, LoopOK, CondOK, InBounds
<1>. QED
  BY <1>1, StaysPut, DiskStays, MacrosStay, FlagsStay, LocalsStay, OutputStays
     DEF vars, Kept, IInv

\* Every step keeps the invariant and reads on.
LEMMA NextKeeps == ASSUME IInv, [Next]_vars PROVE Kept
<1>1. CASE Process
  BY <1>1, PopFrameKeeps, FinishKeeps, CopyCommentKeeps, OpenLiteralKeeps,
     CopyLiteralKeeps, EndLiteralKeeps, CopyIdentKeeps, CopyOtherKeeps DEF Process
<1>2. CASE Handle
  BY <1>2, HandleUnknownKeeps, HandleDefineKeeps, HandleDefineMKeeps,
     HandleIncludeKeeps, HandleIfKeeps, HandleIfndefKeeps, HandleElseKeeps,
     HandleElifKeeps, HandleEndifKeeps, HandleSkipKeeps, HandleParamKeeps DEF Handle
<1>3. CASE SkipIfBranch
  BY <1>3, SkipQuoteKeeps, SkipTextKeeps, SkipOverKeeps, SkipIfKeeps,
     SkipAlternativeKeeps, SkipEndifKeeps, SkipExhaustedKeeps DEF SkipIfBranch
<1>4. CASE Terminated \/ UNCHANGED vars
  BY <1>4, StutterKeeps DEF Terminated
<1>. QED
  BY <1>1, <1>2, <1>3, <1>4, EvalKeeps DEF Next

\* The inductive invariant holds in every reachable state of Preprocessor,
\* for every corpus of files: after each iteration of each of its loops.
THEOREM Invariance == Spec => []IInv
<1>1. IInv /\ [Next]_vars => IInv'
  BY NextKeeps DEF Kept
<1>. QED
  BY InitIInv, <1>1, PTL DEF Spec

\* Every variable holds a value of its type between any two steps of
\* process(), whatever the files contain.
THEOREM TypeCorrect == Spec => []TypeOK
BY Invariance, IInvImplies, PTL

\* No frame's cursor and no macro's snippet ever lies outside a loaded file:
\* whatever a handler does with the cursor, and however long a macro
\* outlives the file it was defined in.
THEOREM NothingReadOutside == Spec => []ReadsInBounds
BY Invariance, IInvImplies, PTL

\* skip_if_branch runs only below an open conditional whose current branch
\* is not active, and a branch is active only if it was taken.
THEOREM DeadBranchesInactive == Spec => []DeadBranchInactive
BY Invariance, IInvImplies, PTL

\* No handler moves a cursor back, no suspended frame moves, and a frame on
\* the stack keeps its file.
THEOREM NothingReadTwice == Spec => NeverRereads
<1>1. IInv /\ [Next]_vars => [ReadsOn]_vars
  BY NextKeeps DEF Kept
<1>. QED
  BY Invariance, <1>1, PTL DEF Spec, NeverRereads, ReadsOn

\* A step forgets a macro only in #param, where it is declared.
LEMMA NextAbsorbs == ASSUME IInv, [Next]_vars PROVE Absorbs
<1>1. CASE UNCHANGED storedMacros
  BY <1>1 DEF Absorbs
<1>2. CASE HandleDefine
  <2>1. PICK names, sn : addMacros(names, sn)
    BY <1>2 DEF HandleDefine
  <2>. QED  BY <2>1, DefiningAbsorbs
<1>3. CASE HandleDefineM
  <2>1. (\E names, sn : addMacros(names, sn)) \/ UNCHANGED storedMacros
    BY <1>3 DEF HandleDefineM
  <2>. QED  BY <1>1, <2>1, DefiningAbsorbs
<1>4. CASE HandleParam
  BY <1>4, HandleParamKeeps
<1>5. CASE Process
  BY <1>1, <1>5 DEF Process, PopFrame, Finish, CopyComment, OpenLiteral, CopyLiteral,
     EndLiteral, CopyIdent, CopyOther, Copy
<1>6. CASE HandleIf \/ HandleElif
  BY <1>1, <1>6 DEF HandleIf, HandleElif, ReadCondition
<1>7. CASE Eval
  BY <1>1, <1>7 DEF Eval, EvalRecurse, EvalDecide, EvalOutside, Decide
<1>8. CASE SkipIfBranch
  BY <1>1, <1>8 DEF SkipIfBranch, Silent, SkipQuote, SkipText, SkipOver, SkipIf,
     SkipAlternative, SkipEndif, SkipExhausted
<1>9. CASE HandleUnknown \/ HandleInclude \/ HandleIfndef \/ HandleElse
           \/ HandleEndif \/ HandleSkip
  BY <1>1, <1>9 DEF HandleUnknown, HandleInclude, HandleIfndef, HandleElse,
     HandleEndif, HandleSkip
<1>10. CASE Terminated \/ UNCHANGED vars
  BY <1>1, <1>10 DEF Terminated, vars
<1>. QED
  BY <1>2, <1>3, <1>4, <1>5, <1>6, <1>7, <1>8, <1>9, <1>10 DEF Next, Handle

\* A macro leaves the table only into the declaration #param emits for it in
\* the same step, with the text it stood for, and alone: handle_param erases
\* the name it declares and no alias of it, and #define erases nothing.
THEOREM MacrosAbsorbed == Spec => AbsorbedMacroIsDeclared
<1>1. IInv /\ [Next]_vars => [Absorbs]_vars
  BY NextAbsorbs
<1>. QED
  BY Invariance, <1>1, PTL DEF Spec, AbsorbedMacroIsDeclared, Absorbs
=============================================================================
