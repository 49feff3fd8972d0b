---------------------------- MODULE PreprocText ----------------------------
(***************************************************************************)
(* The text the preprocessor reads, and its cursor arithmetic.             *)
(*                                                                         *)
(* A text is a sequence of units.  A unit is one lexical item of a source  *)
(* file as the preprocessor tells them apart: a newline, a run of blanks,  *)
(* a quote, a comment bracket, a directive word, an identifier, or some    *)
(* other word that only passes through.  Cursors count units from 0, as    *)
(* PCursor counts characters from 0.                                       *)
(*                                                                         *)
(* The texts are lexed: two adjacent units never join into another unit    *)
(* (no identifier directly follows an identifier or a directive word, no   *)
(* comment bracket directly follows a stray closing bracket), and no unit  *)
(* stands where the code would take a part of it for another (the mark     *)
(* __/__ where a directive reads a name: the code reads the name __).      *)
(***************************************************************************)
EXTENDS Integers, SequencesExt

CONSTANTS
    Ident,   \* identifiers and numbers: the runs IDENT_CHAR_BITMASK accepts
    Plain,   \* words without a role here: punctuation, file names, types
    Wrap     \* 2^32: POffset, PCursor and PLength are uint32_t

ASSUME WrapAssumption == Wrap \in Nat \ {0}

\* The words macro_hash_match knows; "#other" is every other #word.
Directive == {"#define", "#define_m", "#enddef", "#include", "#import",
              "#if", "#ifndef", "#elif", "#else", "#endif",
              "#skip", "#param", "#other"}

Quote == {"q1", "q2"}          \* ' and "
Blank == {"ws", "nl"}          \* what find_first_not_of(" \t\r\n") skips

\* esc is the backslash, lcom // , bopen and bclose the block comment
\* brackets, cont the continuation mark __/__ .
Symbol == Quote \cup Blank \cup
          {"esc", "lcom", "bopen", "bclose", "cont", "amp", "lpar", "rpar",
           "assign", "eqeq", "neq", "lt", "gt"}

Unit == Directive \cup Symbol \cup Ident \cup Plain

Text == Seq(Unit)

-----------------------------------------------------------------------------
(* Searching from a cursor.                                                *)

\* PCursorMax, the result of a search that finds nothing.
NoPos == -1

\* The unit under cursor c (currChar, FileManager::getChar).
At(t, c) == t[c + 1]

\* The characters between two cursors.
Slice(t, b, e) == SubSeq(t, b + 1, e)

\* findNext: the first cursor from c on whose unit is in U.
FindNext(t, c, U) ==
    LET hits == {p \in c .. Len(t) - 1 : At(t, p) \in U}
    IN  IF hits = {} THEN NoPos ELSE Min(hits)

\* findNextInv, with the end of the text in place of PCursorMax: where the
\* run of units in U that starts at c ends.
RunEnd(t, c, U) ==
    Min({Len(t)} \cup {p \in c .. Len(t) - 1 : At(t, p) \notin U})

\* Faults of the next two: the failed search is not checked, and the end of
\* the text is taken to be a unit.
PastUnchecked(t, c, u) == FindNext(t, c, {u}) + 1

PastBeyondEnd(t, c, u) ==
    LET p == FindNext(t, c, {u}) IN IF p = NoPos THEN Len(t) + 1 ELSE p + 1

\* The two ways the code steps over a unit it has searched: handlers stay
\* where they are when there is none, comments and dead code run to the end.
PastIfAny(t, c, u) ==
    LET p == FindNext(t, c, {u}) IN IF p = NoPos THEN c ELSE p + 1

PastOrEnd(t, c, u) ==
    LET p == FindNext(t, c, {u}) IN IF p = NoPos THEN Len(t) ELSE p + 1

\* ol: forward over blanks, not over newlines.
Ol(t, c) == RunEnd(t, c, {"ws"})

\* ol_back: backward over blanks, whatever they follow.
OlBack(t, c) == Max({0} \cup {p \in 1 .. c : At(t, p - 1) # "ws"})

\* The trim lambdas, and the first lines of evalCondition.
Trim(s) ==
    LET kept == {i \in DOMAIN s : s[i] \notin Blank}
    IN  IF kept = {} THEN <<>> ELSE SubSeq(s, Min(kept), Max(kept))

-----------------------------------------------------------------------------
(* Extents of the multi-unit constructs.                                   *)

\* #define: names chained with & and without blanks.
DefineNamesEnd(t, c) == RunEnd(t, c, Ident \cup {"amp"})

\* #define_m: blanks may surround &; two identifiers with only blanks
\* between them end the list before the second.
DefineMNamesEnd(t, c) ==
    Min({Len(t)} \cup
        {p \in c .. Len(t) - 1 :
            \/ At(t, p) \notin Ident \cup {"amp", "ws"}
            \/ /\ At(t, p) \in Ident
               /\ OlBack(t, p) \in c + 1 .. p - 1
               /\ At(t, OlBack(t, p) - 1) \in Ident})

\* #define: the end of the first line from v on that carries no
\* continuation mark, or the end of the text.
DefineLineEnd(t, v) ==
    Min({Len(t)} \cup
        {p \in v .. Len(t) - 1 :
            /\ At(t, p) = "nl"
            /\ \A q \in v .. p - 1 :
                  At(t, q) = "cont" => \E r \in q .. p - 1 : At(t, r) = "nl"})

\* A fault: trimming an empty value backs over the blanks before it.
DefineValueEndUnclamped(t, v) == OlBack(t, DefineLineEnd(t, v))

\* The value's end, blanks trimmed.  When the last continued line ends the
\* text the loop never assigns contentEnd, and the value is empty.
DefineValueEnd(t, v) ==
    LET e == DefineLineEnd(t, v)
    IN  IF e = Len(t) /\ e > v /\ At(t, e - 1) = "nl"
        THEN v
        ELSE Max({v, OlBack(t, e)})

\* #param: the parenthesis that closes the one just before c.
TypeEnd(t, c) ==
    LET Count(u, p) == Cardinality({q \in c .. p : At(t, q) = u})
        closing     == {p \in c .. Len(t) - 1 : Count("rpar", p) > Count("lpar", p)}
    IN  IF closing = {} THEN NoPos ELSE Min(closing)
=============================================================================
