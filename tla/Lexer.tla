------------------------------- MODULE Lexer -------------------------------
(***************************************************************************)
(* The lexer: a cursor over a source text, from which each call of         *)
(* nextToken takes one token.  The parser is its only caller.              *)
(*                                                                         *)
(* A source is a sequence of characters, cursors count from 0.  Characters *)
(* that no test of the lexer tells apart are one: "1" is any digit but 0,  *)
(* "a" any of a to d, "e" is e and E, and so on.                           *)
(***************************************************************************)
EXTENDS Integers, SequencesExt

CONSTANTS
    Source,      \* the texts a lexer may be built on
    Reset,       \* the texts setSource may be given
    Keyword,     \* the keywords string_map knows
    LengthMod,   \* 2^16: a token's length is a uint16_t
    MaxTokens    \* bounds the calls of nextToken between two of setSource

Digit     == {"0", "1"}
HexDigit  == Digit \cup {"a", "e", "f"}
Letter    == {"a", "e", "f", "i", "l", "u", "x", "z"}     \* isIdentStart
WordChar  == Letter \cup Digit                            \* isIdentBody
Suffix    == {"f", "u", "l"}
Sign      == {"+", "-"}
Quote     == {"q1", "q2"}                                 \* ' and "
Blank     == {"ws", "nl"}
Operators == {"+", "-", "*", "/", "%", "&", "|", "^", "~", "!", "=", "<", ">",
              ":", ".", "?", "(", ")", "[", "]", "{", "}", ";", ","}

\* esc is the backslash, nul the character 0, "@" one the language lacks.
Char == WordChar \cup Quote \cup Blank \cup Operators \cup {"esc", "nul", "@"}

Text == Seq(Char)

ASSUME SourceAssumption == Source \subseteq Text /\ Reset \subseteq Text
ASSUME LengthAssumption == LengthMod \in Nat \ {0} /\ MaxTokens \in Nat

VARIABLES
    source,      \* the text being read
    cursor,      \* the next character's position
    thisExpr,    \* the tokens taken from this source so far
    pc,          \* which loop of nextToken runs; "idle" between two calls
    start        \* where the literal being read begins

vars == <<source, cursor, thisExpr, pc, start>>

-----------------------------------------------------------------------------
(* Reading characters.                                                     *)

\* peek, at a position: past the end there are only null characters.
At(s, p) == IF p < Len(s) THEN s[p + 1] ELSE "nul"

peek(n) == At(source, cursor + n)

\* n calls of advance: the cursor stops at the end.
Advance(n) == cursor' = IF cursor + n <= Len(source) THEN cursor + n ELSE Len(source)

\* Where the characters in S that begin at p end.
RunEnd(s, p, S) ==
    Min({Len(s)} \cup {q \in p .. Len(s) - 1 : s[q + 1] \notin S})

Slice(s, b, e) == SubSeq(s, b + 1, e)

-----------------------------------------------------------------------------
(* Tokens.  A keyword's or an operator's type is its entry of TT_STRMAP,   *)
(* its spelling; the other types are named.                                *)

Named == {<<n>> : n \in {"Ident", "LInt", "LFloat", "LString", "LChar", "Eof", "Unknown"}}

\* The lexemes of two and three characters the operator switch accepts.
Pair == {<<"+", "+">>, <<"+", "=">>, <<"-", "-">>, <<"-", "=">>, <<"-", ">">>,
         <<"*", "=">>, <<"/", "=">>, <<"/", "/">>, <<"%", "=">>,
         <<"&", "&">>, <<"&", "=">>, <<"|", "|">>, <<"|", "=">>, <<"^", "=">>,
         <<"~", "=">>, <<"!", "=">>, <<"=", "=">>, <<"<", "<">>, <<"<", "=">>,
         <<">", ">">>, <<">", "=">>, <<":", ":">>}

Triple == {<<"<", "<", "=">>, <<">", ">", "=">>, <<".", ".", ".">>}

\* A fault: << is accepted without looking for the = behind it.
LexemePairFirst(c, d, e) ==
    IF <<c, d>> \in Pair THEN <<c, d>>
    ELSE IF <<c, d, e>> \in Triple THEN <<c, d, e>> ELSE <<c>>

\* The operator switch on three characters of look-ahead.
Lexeme(c, d, e) ==
    IF <<c, d, e>> \in Triple THEN <<c, d, e>>
    ELSE IF <<c, d>> \in Pair THEN <<c, d>> ELSE <<c>>

OperatorType(c, lexeme) == IF c \in Operators THEN lexeme ELSE <<"Unknown">>

\* string_map, and the identifier's type where it finds none.
WordType(text) == IF text \in Keyword THEN text ELSE <<"Ident">>

\* A number: 0x and hexadecimal digits, or digits, a fraction that has a
\* digit, and an exponent that need not have any; then suffixes.
IsHex(s, p) == At(s, p) = "0" /\ At(s, p + 1) = "x"

FractionEnd(s, p) ==
    LET d == RunEnd(s, p, Digit)
    IN  IF At(s, d) = "." /\ At(s, d + 1) \in Digit THEN RunEnd(s, d + 1, Digit) ELSE d

ExponentEnd(s, p) ==
    LET f == FractionEnd(s, p)
        d == IF At(s, f + 1) \in Sign THEN f + 2 ELSE f + 1
    IN  IF At(s, f) = "e" THEN RunEnd(s, d, Digit) ELSE f

NumberEnd(s, p) ==
    RunEnd(s, IF IsHex(s, p) THEN RunEnd(s, p + 2, HexDigit) ELSE ExponentEnd(s, p), Suffix)

IsFloat(s, p) == ~IsHex(s, p) /\ ExponentEnd(s, p) > RunEnd(s, p, Digit)

\* The return of a handler: the token from b to e, buffered.
Emit(b, e, type) ==
    /\ thisExpr' = Append(thisExpr, [globalOffset |-> b, size |-> (e - b) % LengthMod, type |-> type])
    /\ cursor' = e
    /\ pc' = "idle"
    /\ start' = 0
    /\ UNCHANGED source

-----------------------------------------------------------------------------
(* skipWhitespaceAndComments, one action per iteration of its loops.       *)

NextToken ==
    /\ pc = "idle"
    /\ Len(thisExpr) < MaxTokens
    /\ pc' = "skip"
    /\ UNCHANGED <<source, cursor, thisExpr, start>>

SkipBlank ==
    /\ pc = "skip"
    /\ peek(0) \in Blank
    /\ Advance(1)
    /\ UNCHANGED <<source, thisExpr, pc, start>>

Comment == peek(0) = "/" /\ peek(1) \in {"/", "*"}

\* A fault: the star that opens a comment may close it.
OpenCommentShort ==
    /\ pc = "skip"
    /\ Comment
    /\ Advance(1)
    /\ pc' = IF peek(1) = "/" THEN "line" ELSE "block"
    /\ UNCHANGED <<source, thisExpr, start>>

OpenComment ==
    /\ pc = "skip"
    /\ Comment
    /\ Advance(2)
    /\ pc' = IF peek(1) = "/" THEN "line" ELSE "block"
    /\ UNCHANGED <<source, thisExpr, start>>

\* A fault: only a newline ends the comment.
LineCommentToNewline ==
    /\ pc = "line"
    /\ IF peek(0) = "nl" THEN pc' = "skip" /\ UNCHANGED cursor ELSE Advance(1) /\ UNCHANGED pc
    /\ UNCHANGED <<source, thisExpr, start>>

\* The newline is left for SkipBlank; a null character ends a comment too.
LineComment ==
    /\ pc = "line"
    /\ IF peek(0) \in {"nul", "nl"}
       THEN pc' = "skip" /\ UNCHANGED cursor
       ELSE Advance(1) /\ UNCHANGED pc
    /\ UNCHANGED <<source, thisExpr, start>>

BlockComment ==
    /\ pc = "block"
    /\ LET closing == peek(0) = "*" /\ peek(1) = "/"
       IN  \/ closing /\ Advance(2) /\ pc' = "skip"
           \/ peek(0) = "nul" /\ pc' = "skip" /\ UNCHANGED cursor
           \/ peek(0) # "nul" /\ ~closing /\ Advance(1) /\ UNCHANGED pc
    /\ UNCHANGED <<source, thisExpr, start>>

-----------------------------------------------------------------------------
(* The rest of nextToken.                                                  *)

EndOfSource ==
    /\ pc = "skip"
    /\ cursor = Len(source)
    /\ Emit(cursor, cursor, <<"Eof">>)

\* The loop above has returned at a character of the source.
AtToken == pc = "skip" /\ cursor < Len(source) /\ peek(0) \notin Blank /\ ~Comment

LexIdentifierOrKeyword ==
    /\ AtToken
    /\ peek(0) \in Letter
    /\ LET end    == RunEnd(source, cursor, WordChar)
           length == (end - cursor) % LengthMod
       IN  Emit(cursor, end, WordType(Slice(source, cursor, cursor + length)))

LexNumber ==
    /\ AtToken
    /\ peek(0) \in Digit
    /\ Emit(cursor, NumberEnd(source, cursor),
            IF IsFloat(source, cursor) THEN <<"LFloat">> ELSE <<"LInt">>)

OpenLiteral ==
    /\ AtToken
    /\ peek(0) \in Quote
    /\ start' = cursor
    /\ Advance(1)
    /\ pc' = "literal"
    /\ UNCHANGED <<source, thisExpr>>

\* A fault: a backslash protects a quote and nothing else.
CopyLiteralQuotesOnly ==
    /\ pc = "literal"
    /\ peek(0) \notin {"nul", source[start + 1]}
    /\ Advance(IF peek(0) = "esc" /\ peek(1) \in Quote THEN 2 ELSE 1)
    /\ UNCHANGED <<source, thisExpr, pc, start>>

\* One iteration of lexString's or lexChar's loop: a backslash takes the
\* character behind it along, unless there is none.
CopyLiteral ==
    /\ pc = "literal"
    /\ peek(0) \notin {"nul", source[start + 1]}
    /\ Advance(IF peek(0) = "esc" /\ peek(1) # "nul" THEN 2 ELSE 1)
    /\ UNCHANGED <<source, thisExpr, pc, start>>

\* A fault: the null character is stepped over like a quote.
CloseLiteralPastEnd ==
    /\ pc = "literal"
    /\ peek(0) \in {"nul", source[start + 1]}
    /\ Emit(start, cursor + 1, IF source[start + 1] = "q1" THEN <<"LChar">> ELSE <<"LString">>)

\* The closing quote, or the null character that ends an open literal.
CloseLiteral ==
    /\ pc = "literal"
    /\ peek(0) \in {"nul", source[start + 1]}
    /\ Emit(start, IF peek(0) = "nul" THEN cursor ELSE cursor + 1,
            IF source[start + 1] = "q1" THEN <<"LChar">> ELSE <<"LString">>)

LexOperator ==
    /\ AtToken
    /\ peek(0) \notin WordChar \cup Quote
    /\ LET lexeme == Lexeme(peek(0), peek(1), peek(2))
       IN  Emit(cursor, cursor + Len(lexeme), OperatorType(peek(0), lexeme))

\* A fault: the buffered tokens of the old source stay.
SetSourceUncleared ==
    /\ pc = "idle"
    /\ source' \in Reset
    /\ cursor' = 0
    /\ UNCHANGED <<thisExpr, pc, start>>

SetSource ==
    /\ pc = "idle"
    /\ source' \in Reset
    /\ cursor' = 0
    /\ thisExpr' = <<>>
    /\ UNCHANGED <<pc, start>>

-----------------------------------------------------------------------------

Init ==
    /\ source \in Source
    /\ cursor = 0
    /\ thisExpr = <<>>
    /\ pc = "idle"
    /\ start = 0

SkipWhitespaceAndComments == SkipBlank \/ OpenComment \/ LineComment \/ BlockComment

Lex ==
    \/ SkipWhitespaceAndComments
    \/ EndOfSource
    \/ LexIdentifierOrKeyword
    \/ LexNumber
    \/ OpenLiteral \/ CopyLiteral \/ CloseLiteral
    \/ LexOperator

Next == NextToken \/ Lex \/ SetSource

Spec == Init /\ [][Next]_vars

\* A call that was made runs on; nobody has to call.
FairSpec == Spec /\ WF_vars(Lex)

-----------------------------------------------------------------------------
(* Properties.                                                             *)

TokenType == Named \cup Keyword \cup {<<c>> : c \in Operators} \cup Pair \cup Triple

Token == [globalOffset : Nat, size : 0 .. LengthMod - 1, type : TokenType]

End(t) == t.globalOffset + t.size

\* What every variable holds; in particular the cursor never passes the
\* source's end, although the loops look up to two characters ahead.
TypeOK ==
    /\ source \in Text
    /\ cursor \in 0 .. Len(source)
    /\ thisExpr \in Seq(Token)
    /\ pc \in {"idle", "skip", "line", "block", "literal"}
    /\ start \in 0 .. Len(source)
    /\ IF pc = "literal" THEN start < cursor ELSE start = 0

\* The buffered tokens follow one another without overlap and all lie before
\* the text still to be read: getText refuses none of them, also after
\* setSource.
TokensOrdered ==
    LET begin == IF pc = "literal" THEN start ELSE cursor
    IN  /\ \A i \in DOMAIN thisExpr : End(thisExpr[i]) <= begin
        /\ \A i, j \in DOMAIN thisExpr :
              i < j => End(thisExpr[i]) <= thisExpr[j].globalOffset

getText(t) == Slice(source, t.globalOffset, End(t))

\* A call returns, whatever the text: an open comment or literal ends with
\* the source, where advance no longer moves the cursor.
NextTokenReturns == pc # "idle" ~> pc = "idle"
=============================================================================
