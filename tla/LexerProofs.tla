---------------------------- MODULE LexerProofs ----------------------------
(***************************************************************************)
(* Theorems about Lexer, for all sources, keywords and token length        *)
(* limits: the cursor stays in the source, and the buffered tokens are     *)
(* ordered, disjoint and inside it.  For texts no token's length is cut    *)
(* in: nothing but blanks and comments between the tokens, whole literals, *)
(* and the longest lexeme at every place.                                  *)
(***************************************************************************)
EXTENDS LexReference, OrderProofs

\* A literal's text is not yet a token while the literal is open.
Begin == IF pc = "literal" THEN start ELSE cursor

IInv == TypeOK /\ TokensOrdered

-----------------------------------------------------------------------------
(* Positions.                                                              *)

\* A character other than the null one stands inside the source.
LEMMA AtInside ==
    ASSUME NEW s \in Text, NEW p \in Nat, At(s, p) # "nul"
    PROVE  p < Len(s)
BY DEF At

\* A run ends at or after its first position, inside the source or at its
\* end.
LEMMA RunEndRange ==
    ASSUME NEW s \in Text, NEW p \in 0 .. Len(s), NEW S
    PROVE  RunEnd(s, p, S) \in p .. Len(s)
<1>1. Len(s) \in Nat
  BY DEF Text
<1>2. {q \in p .. Len(s) - 1 : s[q + 1] \notin S} \subseteq p .. Len(s)
  BY <1>1
<1>. QED
  BY <1>1, <1>2, MinFromTo DEF RunEnd

\* A run holds characters of its set and ends at another one.
LEMMA RunEndIs ==
    ASSUME NEW s \in Text, NEW p \in 0 .. Len(s), NEW S, NEW r, r = RunEnd(s, p, S)
    PROVE  /\ r \in p .. Len(s)
           /\ \A q \in p + 1 .. r : s[q] \in S
           /\ r < Len(s) => s[r + 1] \notin S
<1> DEFINE T == {Len(s)} \cup {q \in p .. Len(s) - 1 : s[q + 1] \notin S}
<1>0. Len(s) \in Nat
  BY DEF Text
<1>1. r = Min(T)
  BY DEF RunEnd
<1>2. T \subseteq Nat /\ T # {}
  BY <1>0
<1>3. r \in T /\ \A y \in T : r <= y
  <2>. HIDE DEF T
  <2>. QED  BY <1>1, <1>2, MinNat
<1>4. r \in p .. Len(s)
  BY RunEndRange
<1>5. r < Len(s) => s[r + 1] \notin S
  BY <1>3
<1>6. ASSUME NEW q \in p + 1 .. r, s[q] \notin S PROVE FALSE
  <2>1. q - 1 \in p .. Len(s) - 1 /\ (q - 1) + 1 = q /\ q - 1 < r
    BY <1>0, <1>4
  <2>2. q - 1 \in T
    BY <1>6, <2>1
  <2>. QED  BY <1>0, <1>3, <1>4, <2>1, <2>2
<1>. QED
  BY <1>4, <1>5, <1>6

\* A slice holds the characters from its beginning on.
LEMMA SliceIs ==
    ASSUME NEW s \in Text, NEW p \in Nat, NEW n \in Nat, p <= n, n <= Len(s)
    PROVE  /\ Slice(s, p, n) \in Text
           /\ Len(Slice(s, p, n)) = n - p
           /\ \A k \in 1 .. n - p : Slice(s, p, n)[k] = s[p + k]
<1> DEFINE y == Slice(s, p, n)
<1>0. Len(s) \in Nat
  BY DEF Text
<1>1. \A k \in p + 1 .. n : k \in 1 .. Len(s)
  BY <1>0
<1>2. y = SubSeq(s, p + 1, n)
  BY DEF Slice
<1>3. Len(y) = n - p /\ y \in Seq(Char)
  BY <1>0, <1>2 DEF Text
<1>4. \A k \in 1 .. n - p : y[k] = s[(p + 1) + k - 1]
  BY <1>0, <1>2 DEF Text
<1>5. \A k \in 1 .. n - p : (p + 1) + k - 1 = p + k
  OBVIOUS
<1>. HIDE DEF y
<1>. QED
  BY <1>3, <1>4, <1>5 DEF Text, y

\* A fraction and an exponent end inside the source, whatever follows the
\* digits: each look-ahead is at a character that is there.
LEMMA ExponentEndRange ==
    ASSUME NEW s \in Text, NEW p \in 0 .. Len(s)
    PROVE  ExponentEnd(s, p) \in p .. Len(s)
<1>0. Len(s) \in Nat
  BY DEF Text
<1> DEFINE d == RunEnd(s, p, Digit)
           f == FractionEnd(s, p)
<1>1. d \in p .. Len(s)
  BY RunEndRange
<1>2. f \in p .. Len(s)
  <2>1. CASE At(s, d) = "." /\ At(s, d + 1) \in Digit
    <3>1. d < Len(s)
      <4>. HIDE DEF d
      <4>. QED  BY <1>0, <1>1, <2>1, AtInside
    <3>2. RunEnd(s, d + 1, Digit) \in d + 1 .. Len(s)
      <4>. HIDE DEF d
      <4>. QED  BY <1>0, <1>1, <3>1, RunEndRange
    <3>3. f = RunEnd(s, d + 1, Digit)
      BY <2>1 DEF FractionEnd
    <3>. HIDE DEF d, f
    <3>. QED  BY <1>0, <1>1, <3>2, <3>3
  <2>2. CASE ~(At(s, d) = "." /\ At(s, d + 1) \in Digit)
    BY <1>1, <2>2 DEF FractionEnd
  <2>. QED  BY <2>1, <2>2
<1>3. CASE At(s, f) = "e"
  <2> DEFINE g == IF At(s, f + 1) \in Sign THEN f + 2 ELSE f + 1
  <2>1. f < Len(s)
    <3>. HIDE DEF f
    <3>. QED  BY <1>0, <1>2, <1>3, AtInside
  <2>2. At(s, f + 1) \in Sign => f + 1 < Len(s)
    <3>. HIDE DEF f
    <3>1. f + 1 \in Nat
      BY <1>0, <1>2
    <3>. QED  BY <1>0, <3>1, AtInside DEF Sign
  <2>3. g \in p .. Len(s) /\ g \in 0 .. Len(s)
    <3>. HIDE DEF f
    <3>. QED  BY <1>0, <1>2, <2>1, <2>2
  <2>4. RunEnd(s, g, Digit) \in g .. Len(s)
    <3>. HIDE DEF g
    <3>. QED  BY <2>3, RunEndRange
  <2>5. ExponentEnd(s, p) = RunEnd(s, g, Digit)
    BY <1>3 DEF ExponentEnd
  <2>. HIDE DEF g
  <2>. QED  BY <1>0, <2>3, <2>4, <2>5
<1>4. CASE At(s, f) # "e"
  BY <1>2, <1>4 DEF ExponentEnd
<1>. QED
  BY <1>3, <1>4

\* So does a number.
LEMMA NumberEndRange ==
    ASSUME NEW s \in Text, NEW p \in 0 .. Len(s)
    PROVE  NumberEnd(s, p) \in p .. Len(s)
<1>0. Len(s) \in Nat
  BY DEF Text
<1> DEFINE e == IF IsHex(s, p) THEN RunEnd(s, p + 2, HexDigit) ELSE ExponentEnd(s, p)
<1>1. e \in p .. Len(s)
  <2>1. CASE IsHex(s, p)
    <3>1. p + 1 < Len(s)
      BY <1>0, <2>1, AtInside DEF IsHex
    <3>2. RunEnd(s, p + 2, HexDigit) \in p + 2 .. Len(s)
      BY <1>0, <3>1, RunEndRange
    <3>. QED  BY <1>0, <2>1, <3>2
  <2>2. CASE ~IsHex(s, p)
    BY <2>2, ExponentEndRange
  <2>. QED  BY <2>1, <2>2
<1>2. RunEnd(s, e, Suffix) \in e .. Len(s)
  <2>. HIDE DEF e
  <2>. QED  BY <1>0, <1>1, RunEndRange
<1>3. NumberEnd(s, p) = RunEnd(s, e, Suffix)
  BY DEF NumberEnd
<1>. HIDE DEF e
<1>. QED
  BY <1>0, <1>1, <1>2, <1>3

\* An operator's lexeme lies inside the source, and has a type.
LEMMA LexemeRange ==
    ASSUME NEW s \in Text, NEW p \in 0 .. Len(s) - 1
    PROVE  LET lexeme == Lexeme(At(s, p), At(s, p + 1), At(s, p + 2))
           IN  /\ p + Len(lexeme) \in p .. Len(s)
               /\ OperatorType(At(s, p), lexeme) \in TokenType
<1> DEFINE c == At(s, p)
           d == At(s, p + 1)
           e == At(s, p + 2)
           lexeme == Lexeme(c, d, e)
<1>0. Len(s) \in Nat
  BY DEF Text
<1>1. CASE <<c, d, e>> \in Triple
  <2>1. e # "nul"
    <3>. HIDE DEF c, d, e
    <3>. QED  BY <1>1 DEF Triple
  <2>2. p + 2 < Len(s)
    BY <1>0, <2>1, AtInside
  <2>3. lexeme = <<c, d, e>>
    BY <1>1 DEF Lexeme
  <2>4. OperatorType(c, lexeme) \in TokenType
    <3>. HIDE DEF c, d, e
    <3>. QED  BY <1>1, <2>3 DEF OperatorType, TokenType, Named
  <2>5. Len(lexeme) = 3
    <3>. HIDE DEF c, d, e, lexeme
    <3>. QED  BY <2>3
  <2>. HIDE DEF c, d, e, lexeme
  <2>6. p + Len(lexeme) \in p .. Len(s)
    BY <1>0, <2>2, <2>5
  <2>. QED  BY <2>4, <2>6 DEF c, d, e, lexeme
<1>2. CASE <<c, d, e>> \notin Triple /\ <<c, d>> \in Pair
  <2>1. d # "nul"
    <3>. HIDE DEF c, d, e
    <3>. QED  BY <1>2 DEF Pair
  <2>2. p + 1 < Len(s)
    BY <1>0, <2>1, AtInside
  <2>3. lexeme = <<c, d>>
    BY <1>2 DEF Lexeme
  <2>4. OperatorType(c, lexeme) \in TokenType
    <3>. HIDE DEF c, d, e
    <3>. QED  BY <1>2, <2>3 DEF OperatorType, TokenType, Named
  <2>5. Len(lexeme) = 2
    <3>. HIDE DEF c, d, e, lexeme
    <3>. QED  BY <2>3
  <2>. HIDE DEF c, d, e, lexeme
  <2>6. p + Len(lexeme) \in p .. Len(s)
    BY <1>0, <2>2, <2>5
  <2>. QED  BY <2>4, <2>6 DEF c, d, e, lexeme
<1>3. CASE <<c, d, e>> \notin Triple /\ <<c, d>> \notin Pair
  <2>1. lexeme = <<c>>
    BY <1>3 DEF Lexeme
  <2>2. OperatorType(c, lexeme) \in TokenType
    <3>. HIDE DEF c, d, e
    <3>. QED  BY <2>1 DEF OperatorType, TokenType, Named
  <2>3. Len(lexeme) = 1
    <3>. HIDE DEF c, d, e, lexeme
    <3>. QED  BY <2>1
  <2>. HIDE DEF c, d, e, lexeme
  <2>4. p + Len(lexeme) \in p .. Len(s)
    BY <1>0, <2>3
  <2>. QED  BY <2>2, <2>4 DEF c, d, e, lexeme
<1>. QED
  BY <1>1, <1>2, <1>3

-----------------------------------------------------------------------------
(* Steps.                                                                  *)

\* A buffered token ends at a number, before the unread text.
LEMMA TokenEnd ==
    ASSUME IInv, NEW i \in DOMAIN thisExpr
    PROVE  /\ thisExpr[i] \in Token
           /\ End(thisExpr[i]) \in Nat
           /\ End(thisExpr[i]) <= Begin
<1>1. thisExpr[i] \in Token
  BY DEF IInv, TypeOK
<1>2. End(thisExpr[i]) \in Nat
  <2>1. LengthMod \in Nat
    BY LengthAssumption
  <2>. QED  BY <1>1, <2>1 DEF Token, End
<1>3. End(thisExpr[i]) <= Begin
  BY DEF IInv, TokensOrdered, Begin
<1>. QED
  BY <1>1, <1>2, <1>3

\* Moving the cursor on, inside a loop or from one loop to another but not
\* into or out of a literal.
LEMMA AdvanceStep ==
    ASSUME IInv, NEW n \in Nat, Advance(n) \/ UNCHANGED cursor,
           pc' \in {"idle", "skip", "line", "block", "literal"},
           pc' = "literal" <=> pc = "literal",
           UNCHANGED <<source, thisExpr, start>>
    PROVE  IInv'
<1>1. Len(source) \in Nat /\ cursor' \in cursor .. Len(source)
  BY DEF IInv, TypeOK, Text, Advance
<1>2. TypeOK'
  BY <1>1 DEF IInv, TypeOK
<1>3. TokensOrdered'
  <2>1. Begin \in Nat /\ Begin' \in Nat /\ Begin <= Begin'
    BY <1>1 DEF IInv, TypeOK, Begin
  <2>2. \A i \in DOMAIN thisExpr : End(thisExpr[i]) <= Begin'
    BY <2>1, TokenEnd
  <2>. QED
    BY <2>2 DEF IInv, TokensOrdered, Begin, End
<1>. QED
  BY <1>2, <1>3 DEF IInv

\* Buffering a token that begins where the unread text does.
LEMMA EmitStep ==
    ASSUME IInv, NEW e \in Int, Begin <= e, e <= Len(source),
           NEW type \in TokenType, Emit(Begin, e, type)
    PROVE  IInv'
<1> DEFINE t == [globalOffset |-> Begin, size |-> (e - Begin) % LengthMod, type |-> type]
<1>1. /\ Len(source) \in Nat /\ Begin \in Nat /\ e \in Nat
      /\ source' = source /\ cursor' = e /\ pc' = "idle" /\ start' = 0
      /\ thisExpr' = Append(thisExpr, t)
  BY DEF IInv, TypeOK, Text, Begin, Emit
<1>2. /\ (e - Begin) % LengthMod \in 0 .. LengthMod - 1
      /\ (e - Begin) % LengthMod <= e - Begin
  <2>1. e - Begin \in Nat /\ LengthMod \in Nat \ {0}
    BY <1>1, LengthAssumption
  <2>2. \A m \in Nat, k \in Nat \ {0} : m % k \in 0 .. k - 1 /\ m % k <= m
    OBVIOUS
  <2>. QED  BY <2>1, <2>2
<1>3. t \in Token /\ End(t) \in Nat /\ End(t) <= e
  BY <1>1, <1>2, LengthAssumption DEF Token, End
<1>4. TypeOK'
  BY <1>1, <1>3 DEF IInv, TypeOK
<1>5. \A i \in DOMAIN thisExpr : End(thisExpr[i]) \in Int /\ End(thisExpr[i]) <= Begin
  BY TokenEnd
<1>6. /\ DOMAIN thisExpr' = DOMAIN thisExpr \cup {Len(thisExpr) + 1}
      /\ DOMAIN thisExpr = 1 .. Len(thisExpr) /\ Len(thisExpr) \in Nat
      /\ thisExpr'[Len(thisExpr) + 1] = t
      /\ \A i \in DOMAIN thisExpr : thisExpr'[i] = thisExpr[i]
  <2>1. thisExpr \in Seq(Token)
    BY DEF IInv, TypeOK
  <2>. HIDE DEF t
  <2>. QED  BY <1>1, <1>3, <2>1
<1>7. TokensOrdered'
  <2>1. Begin' = e
    BY <1>1 DEF Begin
  <2>2. ASSUME NEW i \in DOMAIN thisExpr' PROVE End(thisExpr'[i]) <= e
    <3>1. CASE i = Len(thisExpr) + 1
      <4>. HIDE DEF t
      <4>. QED  BY <1>3, <1>6, <3>1
    <3>2. CASE i \in DOMAIN thisExpr
      BY <1>1, <1>5, <1>6, <3>2
    <3>. QED  BY <1>6, <3>1, <3>2
  <2>3. ASSUME NEW i \in DOMAIN thisExpr', NEW j \in DOMAIN thisExpr', i < j
        PROVE  End(thisExpr'[i]) <= thisExpr'[j].globalOffset
    <3>1. i \in DOMAIN thisExpr
      BY <1>6, <2>3
    <3>2. CASE j = Len(thisExpr) + 1
      <4>1. thisExpr'[j].globalOffset = Begin
        BY <1>6, <3>2
      <4>. QED  BY <1>5, <1>6, <3>1, <4>1
    <3>3. CASE j \in DOMAIN thisExpr
      BY <1>6, <2>3, <3>1, <3>3 DEF IInv, TokensOrdered
    <3>. QED  BY <1>6, <3>2, <3>3
  <2>. QED
    BY <1>1, <2>1, <2>2, <2>3 DEF TokensOrdered, Begin, End
<1>. QED
  BY <1>4, <1>7 DEF IInv

-----------------------------------------------------------------------------

\* A lexer is built at the beginning of its source, with no token.
LEMMA InitIInv == Init => IInv
<1>. SUFFICES ASSUME Init PROVE IInv
  OBVIOUS
<1>1. source \in Text /\ Len(source) \in Nat
  BY SourceAssumption DEF Init, Text
<1>. QED
  BY <1>1 DEF Init, IInv, TypeOK, TokensOrdered

\* Every step keeps the cursor in the source and the tokens in order.
LEMMA NextIInv == IInv /\ [Next]_vars => IInv'
<1>. SUFFICES ASSUME IInv, [Next]_vars PROVE IInv'
  OBVIOUS
<1>0. /\ source \in Text /\ Len(source) \in Nat /\ cursor \in 0 .. Len(source)
      /\ pc # "literal" => Begin = cursor
  BY DEF IInv, TypeOK, Text, Begin
<1>1. CASE NextToken
  BY <1>1, AdvanceStep DEF NextToken
<1>2. CASE SkipBlank
  BY <1>2, AdvanceStep DEF SkipBlank
<1>3. CASE OpenComment
  BY <1>3, AdvanceStep DEF OpenComment
<1>4. CASE LineComment
  BY <1>4, AdvanceStep DEF LineComment
<1>5. CASE BlockComment
  <2>1. UNCHANGED cursor \/ Advance(1) \/ Advance(2)
    BY <1>5 DEF BlockComment
  <2>2. pc = "block" /\ (pc' = "skip" \/ pc' = pc) /\ UNCHANGED <<source, thisExpr, start>>
    BY <1>5 DEF BlockComment
  <2>. QED  BY <2>1, <2>2, AdvanceStep
<1>6. CASE EndOfSource
  <2>1. <<"Eof">> \in TokenType
    BY DEF TokenType, Named
  <2>. QED  BY <1>0, <1>6, <2>1, EmitStep DEF EndOfSource
<1>7. CASE LexIdentifierOrKeyword
  <2> DEFINE end    == RunEnd(source, cursor, WordChar)
             text   == Slice(source, cursor, cursor + ((end - cursor) % LengthMod))
  <2>1. pc # "literal" /\ Emit(cursor, end, WordType(text))
    BY <1>7 DEF LexIdentifierOrKeyword, AtToken
  <2>2. WordType(text) \in TokenType
    BY DEF WordType, TokenType, Named
  <2>3. end \in cursor .. Len(source)
    BY <1>0, RunEndRange
  <2>. HIDE DEF end, text
  <2>. QED  BY <1>0, <2>1, <2>2, <2>3, EmitStep
<1>8. CASE LexNumber
  <2> DEFINE type == IF IsFloat(source, cursor) THEN <<"LFloat">> ELSE <<"LInt">>
  <2>1. pc # "literal" /\ Emit(cursor, NumberEnd(source, cursor), type)
    BY <1>8 DEF LexNumber, AtToken
  <2>2. type \in TokenType
    BY DEF TokenType, Named
  <2>3. NumberEnd(source, cursor) \in cursor .. Len(source)
    BY <1>0, NumberEndRange
  <2>. HIDE DEF type
  <2>. QED  BY <1>0, <2>1, <2>2, <2>3, EmitStep
<1>9. CASE OpenLiteral
  <2>1. /\ pc = "skip" /\ pc' = "literal" /\ start' = cursor /\ cursor' = cursor + 1
        /\ cursor < Len(source) /\ UNCHANGED <<source, thisExpr>>
    BY <1>0, <1>9 DEF OpenLiteral, AtToken, Advance
  <2>2. TypeOK'
    BY <1>0, <2>1 DEF IInv, TypeOK
  <2>3. TokensOrdered'
    BY <2>1 DEF IInv, TokensOrdered, End
  <2>. QED  BY <2>2, <2>3 DEF IInv
<1>10. CASE CopyLiteral
  <2>1. Advance(1) \/ Advance(2)
    BY <1>10 DEF CopyLiteral
  <2>2. UNCHANGED <<source, thisExpr, pc, start>> /\ pc = "literal"
    BY <1>10 DEF CopyLiteral
  <2>. QED  BY <2>1, <2>2, AdvanceStep
<1>11. CASE CloseLiteral
  <2> DEFINE e    == IF peek(0) = "nul" THEN cursor ELSE cursor + 1
             type == IF source[start + 1] = "q1" THEN <<"LChar">> ELSE <<"LString">>
  <2>1. Begin = start /\ start < cursor /\ start \in Nat /\ Emit(start, e, type)
    BY <1>0, <1>11 DEF CloseLiteral, Begin, IInv, TypeOK
  <2>2. e \in Int /\ cursor <= e /\ e <= Len(source)
    BY <1>0, AtInside DEF peek
  <2>3. type \in TokenType
    BY DEF TokenType, Named
  <2>. HIDE DEF e, type
  <2>. QED  BY <1>0, <2>1, <2>2, <2>3, EmitStep
<1>12. CASE LexOperator
  <2> DEFINE lexeme == Lexeme(At(source, cursor), At(source, cursor + 1), At(source, cursor + 2))
             type   == OperatorType(At(source, cursor), lexeme)
  <2>1. pc # "literal" /\ cursor < Len(source) /\ Emit(cursor, cursor + Len(lexeme), type)
    BY <1>0, <1>12 DEF LexOperator, AtToken, peek
  <2>2. cursor + Len(lexeme) \in cursor .. Len(source) /\ type \in TokenType
    BY <1>0, <2>1, LexemeRange
  <2>. HIDE DEF lexeme, type
  <2>. QED  BY <1>0, <2>1, <2>2, EmitStep
<1>13. CASE SetSource
  <2>1. source' \in Text /\ Len(source') \in Nat
    BY <1>13, SourceAssumption DEF SetSource, Text
  <2>2. TypeOK'
    BY <1>13, <2>1 DEF SetSource, IInv, TypeOK
  <2>3. DOMAIN thisExpr' = {}
    BY <1>13 DEF SetSource
  <2>4. TokensOrdered'
    BY <2>3 DEF TokensOrdered
  <2>. QED  BY <2>2, <2>4 DEF IInv
<1>14. CASE UNCHANGED vars
  BY <1>14 DEF vars, IInv, TypeOK, TokensOrdered, End
<1>. QED
  BY <1>1, <1>2, <1>3, <1>4, <1>5, <1>6, <1>7, <1>8, <1>9, <1>10, <1>11, <1>12,
     <1>13, <1>14 DEF Next, Lex, SkipWhitespaceAndComments

\* The cursor stays in the source, although the loops look ahead of it.
THEOREM TypeCorrect == Spec => []TypeOK
<1>1. IInv => TypeOK
  BY DEF IInv
<1>. QED
  BY <1>1, InitIInv, NextIInv, PTL DEF Spec

\* The tokens buffered for a source are ordered, disjoint and before the
\* text still to be read, also where the length of one was cut to 16 bits.
THEOREM TokensInOrder == Spec => []TokensOrdered
<1>1. IInv => TokensOrdered
  BY DEF IInv
<1>. QED
  BY <1>1, InitIInv, NextIInv, PTL DEF Spec

-----------------------------------------------------------------------------
(* Between the tokens.  The texts are shorter than LengthMod here, so that *)
(* no token's length is cut.                                               *)

\* IsSkipped and GapsAreBlank on a text s, by its positions.
ClosedAt(s, a, p) == p > a + 3 /\ s[p - 1] = "*" /\ s[p] = "/"

SkippedIn(s, a, b) ==
    \/ b = a + 1 /\ s[a + 1] \in Blank
    \/ /\ a + 1 < b /\ s[a + 1] = "/" /\ s[a + 2] = "/"
       /\ \A p \in a + 1 .. b : s[p] \notin {"nl", "nul"}
       /\ At(s, b) \in {"nl", "nul"}
    \/ /\ a + 1 < b /\ s[a + 1] = "/" /\ s[a + 2] = "*"
       /\ \A p \in a + 1 .. b : s[p] # "nul"
       /\ \A p \in a + 1 .. b - 1 : ~ClosedAt(s, a, p)
       /\ ClosedAt(s, a, b) \/ At(s, b) = "nul"

CutsIn(s, a, b, cuts) ==
    /\ cuts \in SUBSET (a .. b)
    /\ {a, b} \subseteq cuts
    /\ \A c \in cuts \ {b} : SkippedIn(s, c, Min({d \in cuts : d > c}))

BlankIn(s, a, b) == \E cuts \in SUBSET (a .. b) : CutsIn(s, a, b, cuts)

\* What the positions say of a piece of text is what IsSkipped says of it.
LEMMA SkippedHere ==
    ASSUME source \in Text, NEW a \in Nat, NEW b \in Nat, a <= b, b <= Len(source),
           SkippedIn(source, a, b)
    PROVE  IsSkipped(a, b)
<1> DEFINE s == Slice(source, a, b)
           n == b - a
           closed(i) == i > 3 /\ s[i - 1] = "*" /\ s[i] = "/"
<1>0. Len(source) \in Nat /\ n \in Nat
  BY DEF Text
<1>1. \A i \in 1 .. n : s[i] = source[a + i]
  BY DEF Text, Slice
<1>. HIDE DEF s
<1>2. \A i \in 1 .. n : a + i \in a + 1 .. b
  OBVIOUS
<1>3. CASE b = a + 1 /\ source[a + 1] \in Blank
  <2>1. n = 1 /\ s[1] \in Blank
    BY <1>1, <1>3
  <2>. QED  BY <2>1 DEF IsSkipped, s
<1>4. CASE /\ a + 1 < b /\ source[a + 1] = "/" /\ source[a + 2] = "/"
           /\ \A p \in a + 1 .. b : source[p] \notin {"nl", "nul"}
           /\ At(source, b) \in {"nl", "nul"}
  <2>1. n > 1 /\ s[1] = "/" /\ s[2] = "/"
    BY <1>1, <1>4
  <2>2. \A i \in 1 .. n : s[i] \notin {"nl", "nul"}
    BY <1>1, <1>2, <1>4
  <2>. QED  BY <1>4, <2>1, <2>2 DEF IsSkipped, s
<1>5. CASE /\ a + 1 < b /\ source[a + 1] = "/" /\ source[a + 2] = "*"
           /\ \A p \in a + 1 .. b : source[p] # "nul"
           /\ \A p \in a + 1 .. b - 1 : ~ClosedAt(source, a, p)
           /\ ClosedAt(source, a, b) \/ At(source, b) = "nul"
  <2>1. n > 1 /\ s[1] = "/" /\ s[2] = "*"
    BY <1>1, <1>5
  <2>2. \A i \in 1 .. n : s[i] \notin {"nul"}
    BY <1>1, <1>2, <1>5
  <2>3. \A i \in 1 .. n : closed(i) <=> ClosedAt(source, a, a + i)
    <3>. TAKE i \in 1 .. n
    <3>1. i > 3 <=> a + i > a + 3
      OBVIOUS
    <3>2. i > 3 => i - 1 \in 1 .. n /\ a + (i - 1) = (a + i) - 1
      OBVIOUS
    <3>3. i > 3 => s[i - 1] = source[(a + i) - 1]
      BY <1>1, <3>2
    <3>. QED  BY <1>1, <3>1, <3>3 DEF ClosedAt
  <2>4. \A i \in 1 .. n - 1 : a + i \in a + 1 .. b - 1 /\ i \in 1 .. n
    OBVIOUS
  <2>5. \A i \in 1 .. n - 1 : ~closed(i)
    <3>. HIDE DEF closed
    <3>. QED  BY <1>5, <2>3, <2>4
  <2>6. closed(n) \/ At(source, b) = "nul"
    <3>1. n \in 1 .. n /\ a + n = b
      BY <2>1
    <3>. HIDE DEF closed
    <3>. QED  BY <1>5, <2>3, <3>1
  <2>. QED  BY <2>1, <2>2, <2>5, <2>6 DEF IsSkipped, s
<1>. QED
  BY <1>3, <1>4, <1>5 DEF SkippedIn

\* Nothing is between two tokens that touch.
LEMMA BlankNone ==
    ASSUME NEW s, NEW a \in Nat
    PROVE  BlankIn(s, a, a)
<1>1. CutsIn(s, a, a, {a})
  BY DEF CutsIn
<1>. QED
  BY <1>1 DEF BlankIn, CutsIn

\* One blank or comment more.
LEMMA BlankMore ==
    ASSUME NEW s, NEW a \in Nat, NEW b \in Nat, NEW c \in Nat, a <= b, b < c,
           BlankIn(s, a, b), SkippedIn(s, b, c)
    PROVE  BlankIn(s, a, c)
<1>1. PICK cuts \in SUBSET (a .. b) : CutsIn(s, a, b, cuts)
  BY DEF BlankIn
<1> DEFINE more == cuts \cup {c}
<1>2. \A x \in cuts : x \in Nat /\ a <= x /\ x <= b /\ x < c
  OBVIOUS
<1>3. a \in cuts /\ b \in cuts
  BY <1>1 DEF CutsIn
<1>4. more \in SUBSET (a .. c) /\ {a, c} \subseteq more
  BY <1>2, <1>3
<1>5. ASSUME NEW x \in more \ {c}
      PROVE  SkippedIn(s, x, Min({d \in more : d > x}))
  <2>1. x \in cuts
    BY <1>5
  <2>2. CASE x = b
    <3>1. {d \in more : d > x} = {c}
      <4>1. \A d \in cuts : ~(d > x)
        BY <1>2, <2>2
      <4>2. c > x
        BY <2>2
      <4>. QED  BY <4>1, <4>2
    <3>2. Min({c}) = c
      BY MinNat
    <3>. QED  BY <2>2, <3>1, <3>2
  <2>3. CASE x # b
    <3> DEFINE D == {d \in cuts : d > x}
               E == {d \in more : d > x}
    <3>1. D \subseteq Nat /\ D # {} /\ E \subseteq Nat /\ E # {} /\ E = D \cup {c}
      <4>1. c > x /\ b > x
        BY <1>2, <2>1, <2>3
      <4>2. E = D \cup {c}
        BY <4>1
      <4>3. D \subseteq Nat
        BY <1>2
      <4>4. b \in D
        BY <1>3, <4>1
      <4>. HIDE DEF D, E
      <4>. QED  BY <4>2, <4>3, <4>4
    <3>2. /\ Min(D) \in D /\ \A y \in D : Min(D) <= y
          /\ Min(E) \in E /\ \A y \in E : Min(E) <= y
      <4>. HIDE DEF D, E
      <4>. QED  BY <3>1, MinNat
    <3>3. Min(D) < c /\ Min(D) \in Nat /\ Min(E) \in Nat
      <4>1. Min(D) \in cuts
        BY <3>2
      <4>2. Min(E) \in E
        BY <3>2
      <4>. HIDE DEF D, E
      <4>. QED  BY <1>2, <3>1, <4>1, <4>2
    <3>4. Min(E) = Min(D)
      <4>1. Min(E) \in D \/ Min(E) = c
        <5>. HIDE DEF D, E
        <5>. QED  BY <3>1, <3>2
      <4>2. Min(E) <= Min(D)
        <5>. HIDE DEF D, E
        <5>. QED  BY <3>1, <3>2
      <4>3. Min(E) \in D => Min(D) <= Min(E)
        <5>. HIDE DEF D, E
        <5>. QED  BY <3>2
      <4>. HIDE DEF D, E
      <4>. QED  BY <3>3, <4>1, <4>2, <4>3
    <3>5. SkippedIn(s, x, Min(D))
      BY <1>1, <2>1, <2>3 DEF CutsIn
    <3>. QED  BY <3>4, <3>5
  <2>. QED  BY <2>2, <2>3
<1>6. CutsIn(s, a, c, more)
  <2>. HIDE DEF more
  <2>. QED  BY <1>4, <1>5 DEF CutsIn
<1>. QED
  BY <1>4, <1>6 DEF BlankIn

-----------------------------------------------------------------------------
(* Where a call stands: what the text between the last token and the       *)
(* cursor is, in each loop.                                                *)

\* Where the token before the i-th one of ts ends.
EndBefore(ts, i) == IF i = 1 THEN 0 ELSE End(ts[i - 1])

\* A line comment begins at b and has not ended before c.
LineFrom(s, b, c) ==
    /\ b + 1 < c /\ s[b + 1] = "/" /\ s[b + 2] = "/"
    /\ \A p \in b + 1 .. c : s[p] \notin {"nl", "nul"}

\* A block comment begins at b, has not ended before c, and no star that is
\* part of it stands before c with a slash behind.
BlockFrom(s, b, c) ==
    /\ b + 1 < c /\ s[b + 1] = "/" /\ s[b + 2] = "*"
    /\ \A p \in b + 1 .. c : s[p] # "nul" /\ ~ClosedAt(s, b, p)
    /\ c > b + 2 => ~(s[c] = "*" /\ At(s, c) = "/")

\* A loop at c, with the last token ending at a and a literal begun at b.
Standing(s, a, c, loop, b) ==
    /\ loop = "idle" => c = a
    /\ loop = "skip" => BlankIn(s, a, c)
    /\ loop = "line" => \E o \in Nat : a <= o /\ BlankIn(s, a, o) /\ LineFrom(s, o, c)
    /\ loop = "block" => \E o \in Nat : a <= o /\ BlankIn(s, a, o) /\ BlockFrom(s, o, c)
    /\ loop = "literal" => BlankIn(s, a, b)

Gapped(s, ts) ==
    \A i \in DOMAIN ts : BlankIn(s, EndBefore(ts, i), ts[i].globalOffset)

GInv ==
    /\ IInv
    /\ Len(source) < LengthMod
    /\ Gapped(source, thisExpr)
    /\ Standing(source, EndBefore(thisExpr, Len(thisExpr) + 1), cursor, pc, start)

ShortTexts == \A s \in Source \cup Reset : Len(s) < LengthMod

-----------------------------------------------------------------------------

\* A line comment ends before a newline, a null character or with the text.
LEMMA LineEnds ==
    ASSUME NEW s, NEW b \in Nat, NEW c \in Nat, LineFrom(s, b, c),
           At(s, c) \in {"nl", "nul"}
    PROVE  SkippedIn(s, b, c) /\ b < c
BY DEF LineFrom, SkippedIn

\* Any other character is part of it.
LEMMA LineGoesOn ==
    ASSUME NEW s \in Text, NEW b \in Nat, NEW c \in Nat, LineFrom(s, b, c),
           At(s, c) \notin {"nl", "nul"}
    PROVE  LineFrom(s, b, c + 1)
<1>1. s[c + 1] \notin {"nl", "nul"}
  BY DEF At
<1>2. \A p \in b + 1 .. c + 1 : p \in b + 1 .. c \/ p = c + 1
  OBVIOUS
<1>. QED
  BY <1>1, <1>2 DEF LineFrom

\* A block comment ends with the text.
LEMMA BlockCut ==
    ASSUME NEW s, NEW b \in Nat, NEW c \in Nat, BlockFrom(s, b, c),
           At(s, c) = "nul"
    PROVE  SkippedIn(s, b, c) /\ b < c
<1>1. \A p \in b + 1 .. c - 1 : p \in b + 1 .. c
  OBVIOUS
<1>. QED
  BY <1>1 DEF BlockFrom, SkippedIn

\* It ends behind a star and a slash.
LEMMA BlockCloses ==
    ASSUME NEW s \in Text, NEW b \in Nat, NEW c \in Nat, BlockFrom(s, b, c),
           At(s, c) = "*", At(s, c + 1) = "/"
    PROVE  SkippedIn(s, b, c + 2) /\ b < c + 2
<1>1. s[c + 1] = "*" /\ s[c + 2] = "/"
  <2>1. (c + 1) + 1 = c + 2
    OBVIOUS
  <2>. QED  BY <2>1 DEF At
<1>2. \A p \in b + 1 .. c + 2 : p \in b + 1 .. c \/ p = c + 1 \/ p = c + 2
  OBVIOUS
<1>3. \A p \in b + 1 .. c + 2 : s[p] # "nul"
  BY <1>1, <1>2 DEF BlockFrom
<1>4. ~ClosedAt(s, b, c + 1)
  BY <1>1 DEF ClosedAt
<1>5. \A p \in b + 1 .. (c + 2) - 1 : ~ClosedAt(s, b, p)
  <2>1. \A p \in b + 1 .. (c + 2) - 1 : p \in b + 1 .. c \/ p = c + 1
    OBVIOUS
  <2>. QED  BY <1>4, <2>1 DEF BlockFrom
<1>6. b + 1 < c /\ s[b + 1] = "/" /\ s[b + 2] = "*"
  BY DEF BlockFrom
<1>7. ClosedAt(s, b, c + 2)
  <2>1. (c + 2) - 1 = c + 1 /\ c + 2 > b + 3
    BY <1>6
  <2>. QED  BY <1>1, <2>1 DEF ClosedAt
<1>8. b + 1 < c + 2
  BY <1>6
<1>. QED
  BY <1>3, <1>5, <1>6, <1>7, <1>8 DEF SkippedIn

\* Any other character is part of it.
LEMMA BlockGoesOn ==
    ASSUME NEW s \in Text, NEW b \in Nat, NEW c \in Nat, BlockFrom(s, b, c),
           At(s, c) # "nul", ~(At(s, c) = "*" /\ At(s, c + 1) = "/")
    PROVE  BlockFrom(s, b, c + 1)
<1>1. At(s, c) = s[c + 1]
  BY DEF At
<1>2. ~ClosedAt(s, b, c + 1)
  <2>1. (c + 1) - 1 = c /\ (c + 1 > b + 3 => c > b + 2)
    OBVIOUS
  <2>. QED  BY <1>1, <2>1 DEF ClosedAt, BlockFrom
<1>3. \A p \in b + 1 .. c + 1 : p \in b + 1 .. c \/ p = c + 1
  OBVIOUS
<1>4. b + 1 < c + 1
  BY DEF BlockFrom
<1>. QED
  BY <1>1, <1>2, <1>3, <1>4 DEF BlockFrom

\* The two characters that open a comment are its first two.
LEMMA CommentOpens ==
    ASSUME NEW s \in Text, NEW c \in Nat, At(s, c) = "/"
    PROVE  /\ At(s, c + 1) = "/" => LineFrom(s, c, c + 2)
           /\ At(s, c + 1) = "*" => BlockFrom(s, c, c + 2)
<1>1. s[c + 1] = "/"
  BY DEF At
<1>2. At(s, c + 1) # "nul" => At(s, c + 1) = s[c + 2]
  <2>1. (c + 1) + 1 = c + 2
    OBVIOUS
  <2>. QED  BY <2>1 DEF At
<1>3. \A p \in c + 1 .. c + 2 : p = c + 1 \/ p = c + 2
  OBVIOUS
<1>4. ~ClosedAt(s, c, c + 1) /\ ~ClosedAt(s, c, c + 2)
  BY DEF ClosedAt
<1>5. c + 1 < c + 2 /\ ~(c + 2 > c + 2)
  OBVIOUS
<1>6. ASSUME At(s, c + 1) = "/" PROVE LineFrom(s, c, c + 2)
  BY <1>1, <1>2, <1>3, <1>5, <1>6 DEF LineFrom
<1>7. ASSUME At(s, c + 1) = "*" PROVE BlockFrom(s, c, c + 2)
  BY <1>1, <1>2, <1>3, <1>4, <1>5, <1>7 DEF BlockFrom
<1>. QED
  BY <1>6, <1>7

\* Where the last token ends is before the unread text; a character beyond
\* the text's end is a null one.
LEMMA LastEnd ==
    ASSUME IInv
    PROVE  LET a == EndBefore(thisExpr, Len(thisExpr) + 1)
           IN  a \in Nat /\ a <= Begin /\ Begin \in Nat
<1>1. thisExpr \in Seq(Token) /\ Begin \in Nat
  BY DEF IInv, TypeOK, Begin
<1>2. CASE Len(thisExpr) = 0
  BY <1>1, <1>2 DEF EndBefore
<1>3. CASE Len(thisExpr) # 0
  <2>1. Len(thisExpr) \in DOMAIN thisExpr /\ Len(thisExpr) + 1 # 1
        /\ (Len(thisExpr) + 1) - 1 = Len(thisExpr)
    BY <1>1, <1>3
  <2>. QED  BY <1>1, <2>1, TokenEnd DEF EndBefore
<1>. QED
  BY <1>2, <1>3

\* A loop goes on, and stands where it should.
LEMMA LoopStep ==
    ASSUME GInv, IInv', UNCHANGED <<source, thisExpr>>,
           Standing(source, EndBefore(thisExpr, Len(thisExpr) + 1), cursor', pc', start')
    PROVE  GInv'
<1>1. Gapped(source', thisExpr') /\ Len(source') < LengthMod
  BY DEF GInv
<1>2. Standing(source', EndBefore(thisExpr', Len(thisExpr') + 1), cursor', pc', start')
  OBVIOUS
<1>. QED
  BY <1>1, <1>2 DEF GInv

\* The token a handler buffers: it comes behind the others, which stay, and
\* its length is not cut.
LEMMA EmitUncut ==
    ASSUME GInv, NEW e \in Int, Begin <= e, e <= Len(source), NEW type,
           Emit(Begin, e, type), NEW n, n = Len(thisExpr)
    PROVE  /\ n \in Nat /\ Len(thisExpr') = n + 1
           /\ DOMAIN thisExpr = 1 .. n /\ DOMAIN thisExpr' = DOMAIN thisExpr \cup {n + 1}
           /\ \A i \in DOMAIN thisExpr : thisExpr'[i] = thisExpr[i]
           /\ thisExpr'[n + 1].globalOffset = Begin /\ thisExpr'[n + 1].type = type
           /\ End(thisExpr'[n + 1]) = e
           /\ source' = source /\ cursor' = e /\ pc' = "idle" /\ start' = 0
<1> DEFINE t == [globalOffset |-> Begin, size |-> (e - Begin) % LengthMod, type |-> type]
<1>1. /\ Len(source) \in Nat /\ Begin \in Nat /\ e \in Nat
      /\ source' = source /\ cursor' = e /\ pc' = "idle" /\ start' = 0
      /\ thisExpr' = Append(thisExpr, t)
      /\ thisExpr \in Seq(Token)
  BY DEF GInv, IInv, TypeOK, Text, Begin, Emit
<1>2. End(t) = e
  <2>1. e - Begin \in Nat /\ e - Begin < LengthMod
    BY <1>1, LengthAssumption DEF GInv
  <2>2. \A m, k \in Nat : m < k => m % k = m
    OBVIOUS
  <2>3. (e - Begin) % LengthMod = e - Begin
    BY <2>1, <2>2, LengthAssumption
  <2>. QED  BY <1>1, <2>3 DEF End
<1>3. t.globalOffset = Begin /\ t.type = type
  OBVIOUS
<1>4. /\ n \in Nat /\ Len(thisExpr') = n + 1
      /\ DOMAIN thisExpr' = DOMAIN thisExpr \cup {n + 1}
      /\ DOMAIN thisExpr = 1 .. n
      /\ thisExpr'[n + 1] = t
      /\ \A i \in DOMAIN thisExpr : thisExpr'[i] = thisExpr[i]
  <2>. HIDE DEF t
  <2>. QED  BY <1>1
<1>. HIDE DEF t
<1>. QED
  BY <1>1, <1>2, <1>3, <1>4

\* A token is buffered behind blanks and comments only.
LEMMA TokenStep ==
    ASSUME GInv, IInv', NEW e \in Int, Begin <= e, e <= Len(source), NEW type,
           Emit(Begin, e, type),
           BlankIn(source, EndBefore(thisExpr, Len(thisExpr) + 1), Begin)
    PROVE  GInv'
<1> DEFINE n == Len(thisExpr)
<1>1. /\ n \in Nat /\ n' = n + 1
      /\ DOMAIN thisExpr = 1 .. n /\ DOMAIN thisExpr' = DOMAIN thisExpr \cup {n + 1}
      /\ \A i \in DOMAIN thisExpr : thisExpr'[i] = thisExpr[i]
      /\ thisExpr'[n + 1].globalOffset = Begin
      /\ End(thisExpr'[n + 1]) = e
      /\ source' = source /\ cursor' = e /\ pc' = "idle"
  BY EmitUncut
<1>. HIDE DEF n
<1>2. \A i \in 1 .. n + 1 : EndBefore(thisExpr', i) = EndBefore(thisExpr, i)
  <2>. TAKE i \in 1 .. n + 1
  <2>1. i # 1 => i - 1 \in DOMAIN thisExpr
    BY <1>1
  <2>. QED  BY <1>1, <2>1 DEF EndBefore
<1>3. EndBefore(thisExpr', n' + 1) = e
  <2>1. n' + 1 # 1 /\ (n' + 1) - 1 = n + 1
    BY <1>1
  <2>. QED  BY <1>1, <2>1 DEF EndBefore
<1>4. Gapped(source', thisExpr')
  <2>1. ASSUME NEW i \in DOMAIN thisExpr'
        PROVE  BlankIn(source, EndBefore(thisExpr', i), thisExpr'[i].globalOffset)
    <3>1. EndBefore(thisExpr', i) = EndBefore(thisExpr, i)
      BY <1>1, <1>2
    <3>2. CASE i = n + 1
      BY <1>1, <3>1, <3>2 DEF n
    <3>3. CASE i \in DOMAIN thisExpr
      <4>1. BlankIn(source, EndBefore(thisExpr, i), thisExpr[i].globalOffset)
        BY <3>3 DEF GInv, Gapped
      <4>. QED  BY <1>1, <3>1, <3>3, <4>1
    <3>. QED  BY <1>1, <3>2, <3>3
  <2>. QED  BY <1>1, <2>1 DEF Gapped
<1>5. Standing(source', EndBefore(thisExpr', n' + 1), cursor', pc', start')
  BY <1>1, <1>3 DEF Standing
<1>6. Len(source') < LengthMod
  BY <1>1 DEF GInv
<1>. QED
  BY <1>4, <1>5, <1>6 DEF GInv, n

\* A lexer is built with nothing read.
LEMMA InitGInv == ShortTexts /\ Init => GInv
<1>. SUFFICES ASSUME ShortTexts, Init PROVE GInv
  OBVIOUS
<1>1. Gapped(source, thisExpr) /\ EndBefore(thisExpr, Len(thisExpr) + 1) = 0
  BY DEF Init, Gapped, EndBefore
<1>2. Len(source) < LengthMod
  BY DEF Init, ShortTexts
<1>. QED
  BY <1>1, <1>2, InitIInv DEF Init, GInv, Standing

\* Every step leaves blanks and comments between the tokens, and knows what
\* it has read since the last one.
LEMMA NextGInv == ShortTexts /\ GInv /\ [Next]_vars => GInv'
<1>. SUFFICES ASSUME ShortTexts, GInv, [Next]_vars PROVE GInv'
  OBVIOUS
<1> DEFINE a == EndBefore(thisExpr, Len(thisExpr) + 1)
<1>0. /\ IInv /\ IInv' /\ source \in Text /\ Len(source) \in Nat
      /\ cursor \in 0 .. Len(source) /\ cursor \in Nat
      /\ pc # "literal" => Begin = cursor
      /\ pc = "literal" => Begin = start
      /\ a \in Nat /\ a <= Begin
      /\ Standing(source, a, cursor, pc, start)
  BY NextIInv, LastEnd DEF GInv, IInv, TypeOK, Text, Begin
<1>. HIDE DEF a
<1>a. ASSUME UNCHANGED <<source, thisExpr>>, Standing(source, a, cursor', pc', start')
      PROVE  GInv'
  BY <1>0, <1>a, LoopStep DEF a
<1>b. \A e \in Int : \A type :
         /\ Begin <= e /\ e <= Len(source) /\ BlankIn(source, a, Begin)
         /\ Emit(Begin, e, type)
         => GInv'
  BY <1>0, TokenStep DEF a
<1>c. pc = "skip" => BlankIn(source, a, cursor) /\ a <= cursor
  BY <1>0 DEF Standing
<1>1. CASE NextToken
  <2>1. cursor = a /\ cursor' = a /\ pc' = "skip" /\ UNCHANGED <<source, thisExpr>>
    BY <1>0, <1>1 DEF NextToken, Standing
  <2>2. BlankIn(source, a, a)
    BY <1>0, BlankNone
  <2>. QED  BY <1>a, <2>1, <2>2 DEF Standing
<1>2. CASE SkipBlank
  <2>1. pc = "skip" /\ pc' = "skip" /\ At(source, cursor) \in Blank
        /\ UNCHANGED <<source, thisExpr>>
    BY <1>0, <1>2 DEF SkipBlank, peek
  <2>2. cursor < Len(source)
    BY <1>0, <2>1, AtInside DEF Blank
  <2>3. cursor' = cursor + 1 /\ source[cursor + 1] \in Blank
    BY <1>0, <1>2, <2>1, <2>2 DEF SkipBlank, Advance, At
  <2>4. SkippedIn(source, cursor, cursor + 1)
    BY <2>3 DEF SkippedIn
  <2>5. BlankIn(source, a, cursor + 1)
    BY <1>0, <1>c, <2>1, <2>4, BlankMore
  <2>. QED  BY <1>a, <2>1, <2>3, <2>5 DEF Standing
<1>3. CASE OpenComment
  <2>1. /\ pc = "skip" /\ UNCHANGED <<source, thisExpr>>
        /\ At(source, cursor) = "/" /\ At(source, cursor + 1) \in {"/", "*"}
        /\ pc' = IF At(source, cursor + 1) = "/" THEN "line" ELSE "block"
    BY <1>0, <1>3 DEF OpenComment, Comment, peek
  <2>2. cursor + 1 < Len(source)
    BY <1>0, <2>1, AtInside
  <2>3. cursor' = cursor + 2
    BY <1>0, <1>3, <2>2 DEF OpenComment, Advance
  <2>4. /\ At(source, cursor + 1) = "/" => LineFrom(source, cursor, cursor + 2)
        /\ At(source, cursor + 1) = "*" => BlockFrom(source, cursor, cursor + 2)
    BY <1>0, <2>1, CommentOpens
  <2>5. CASE At(source, cursor + 1) = "/"
    BY <1>0, <1>a, <1>c, <2>1, <2>3, <2>4, <2>5 DEF Standing
  <2>6. CASE At(source, cursor + 1) = "*"
    BY <1>0, <1>a, <1>c, <2>1, <2>3, <2>4, <2>6 DEF Standing
  <2>. QED  BY <2>1, <2>5, <2>6
<1>4. CASE LineComment
  <2>1. pc = "line" /\ UNCHANGED <<source, thisExpr>>
    BY <1>4 DEF LineComment
  <2>2. PICK o \in Nat : a <= o /\ BlankIn(source, a, o) /\ LineFrom(source, o, cursor)
    BY <1>0, <2>1 DEF Standing
  <2>3. CASE At(source, cursor) \in {"nl", "nul"}
    <3>1. pc' = "skip" /\ cursor' = cursor
      BY <1>0, <1>4, <2>3 DEF LineComment, peek
    <3>2. SkippedIn(source, o, cursor) /\ o < cursor
      BY <1>0, <2>2, <2>3, LineEnds
    <3>3. BlankIn(source, a, cursor)
      BY <1>0, <2>2, <3>2, BlankMore
    <3>. QED  BY <1>a, <2>1, <3>1, <3>3 DEF Standing
  <2>4. CASE At(source, cursor) \notin {"nl", "nul"}
    <3>1. pc' = "line" /\ cursor' = cursor + 1
      <4>1. cursor < Len(source)
        BY <1>0, <2>4, AtInside
      <4>. QED  BY <1>0, <1>4, <2>4, <4>1 DEF LineComment, peek, Advance
    <3>2. LineFrom(source, o, cursor + 1)
      BY <1>0, <2>2, <2>4, LineGoesOn
    <3>. QED  BY <1>a, <2>1, <2>2, <3>1, <3>2 DEF Standing
  <2>. QED  BY <2>3, <2>4
<1>5. CASE BlockComment
  <2>1. pc = "block" /\ UNCHANGED <<source, thisExpr>>
    BY <1>5 DEF BlockComment
  <2>2. PICK o \in Nat : a <= o /\ BlankIn(source, a, o) /\ BlockFrom(source, o, cursor)
    BY <1>0, <2>1 DEF Standing
  <2>3. CASE At(source, cursor) = "*" /\ At(source, cursor + 1) = "/"
    <3>1. cursor + 1 < Len(source)
      BY <1>0, <2>3, AtInside
    <3>2. pc' = "skip" /\ cursor' = cursor + 2
      BY <1>0, <1>5, <2>3, <3>1 DEF BlockComment, peek, Advance
    <3>3. SkippedIn(source, o, cursor + 2) /\ o < cursor + 2
      BY <1>0, <2>2, <2>3, BlockCloses
    <3>4. BlankIn(source, a, cursor + 2)
      BY <1>0, <2>2, <3>3, BlankMore
    <3>. QED  BY <1>a, <2>1, <3>2, <3>4 DEF Standing
  <2>4. CASE At(source, cursor) = "nul"
    <3>1. pc' = "skip" /\ cursor' = cursor
      BY <1>0, <1>5, <2>4 DEF BlockComment, peek
    <3>2. SkippedIn(source, o, cursor) /\ o < cursor
      BY <1>0, <2>2, <2>4, BlockCut
    <3>3. BlankIn(source, a, cursor)
      BY <1>0, <2>2, <3>2, BlankMore
    <3>. QED  BY <1>a, <2>1, <3>1, <3>3 DEF Standing
  <2>5. CASE At(source, cursor) # "nul" /\ ~(At(source, cursor) = "*" /\ At(source, cursor + 1) = "/")
    <3>1. pc' = "block" /\ cursor' = cursor + 1
      <4>1. cursor < Len(source)
        BY <1>0, <2>5, AtInside
      <4>. QED  BY <1>0, <1>5, <2>5, <4>1 DEF BlockComment, peek, Advance
    <3>2. BlockFrom(source, o, cursor + 1)
      BY <1>0, <2>2, <2>5, BlockGoesOn
    <3>. QED  BY <1>a, <2>1, <2>2, <3>1, <3>2 DEF Standing
  <2>. QED  BY <2>3, <2>4, <2>5
<1>6. CASE EndOfSource
  <2>1. pc = "skip" /\ Emit(cursor, cursor, <<"Eof">>)
    BY <1>6 DEF EndOfSource
  <2>. QED  BY <1>0, <1>b, <1>c, <2>1
<1>7. CASE LexIdentifierOrKeyword
  <2> DEFINE end  == RunEnd(source, cursor, WordChar)
             type == WordType(Slice(source, cursor, cursor + ((end - cursor) % LengthMod)))
  <2>1. pc = "skip" /\ Emit(cursor, end, type)
    BY <1>7 DEF LexIdentifierOrKeyword, AtToken
  <2>2. end \in cursor .. Len(source)
    BY <1>0, RunEndRange
  <2>. HIDE DEF end, type
  <2>. QED  BY <1>0, <1>b, <1>c, <2>1, <2>2
<1>8. CASE LexNumber
  <2> DEFINE end  == NumberEnd(source, cursor)
             type == IF IsFloat(source, cursor) THEN <<"LFloat">> ELSE <<"LInt">>
  <2>1. pc = "skip" /\ Emit(cursor, end, type)
    BY <1>8 DEF LexNumber, AtToken
  <2>2. end \in cursor .. Len(source)
    BY <1>0, NumberEndRange
  <2>. HIDE DEF end, type
  <2>. QED  BY <1>0, <1>b, <1>c, <2>1, <2>2
<1>9. CASE OpenLiteral
  <2>1. pc = "skip" /\ pc' = "literal" /\ start' = cursor /\ UNCHANGED <<source, thisExpr>>
    BY <1>9 DEF OpenLiteral, AtToken
  <2>. QED  BY <1>a, <1>c, <2>1 DEF Standing
<1>10. CASE CopyLiteral
  <2>1. pc = "literal" /\ pc' = "literal" /\ start' = start /\ UNCHANGED <<source, thisExpr>>
    BY <1>10 DEF CopyLiteral
  <2>. QED  BY <1>0, <1>a, <2>1 DEF Standing
<1>11. CASE CloseLiteral
  <2> DEFINE e    == IF peek(0) = "nul" THEN cursor ELSE cursor + 1
             type == IF source[start + 1] = "q1" THEN <<"LChar">> ELSE <<"LString">>
  <2>1. pc = "literal" /\ start < cursor /\ start \in Nat /\ Emit(start, e, type)
    BY <1>0, <1>11 DEF CloseLiteral, IInv, TypeOK
  <2>2. e \in Int /\ cursor <= e /\ e <= Len(source)
    BY <1>0, AtInside DEF peek
  <2>3. BlankIn(source, a, start)
    BY <1>0, <2>1 DEF Standing
  <2>. HIDE DEF e, type
  <2>. QED  BY <1>0, <1>b, <2>1, <2>2, <2>3
<1>12. CASE LexOperator
  <2> DEFINE lexeme == Lexeme(At(source, cursor), At(source, cursor + 1), At(source, cursor + 2))
             type   == OperatorType(At(source, cursor), lexeme)
  <2>1. pc = "skip" /\ cursor < Len(source) /\ Emit(cursor, cursor + Len(lexeme), type)
    BY <1>0, <1>12 DEF LexOperator, AtToken, peek
  <2>2. cursor + Len(lexeme) \in cursor .. Len(source)
    BY <1>0, <2>1, LexemeRange
  <2>. HIDE DEF lexeme, type
  <2>. QED  BY <1>0, <1>b, <1>c, <2>1, <2>2
<1>13. CASE SetSource
  <2>1. /\ source' \in Reset /\ cursor' = 0 /\ thisExpr' = <<>>
        /\ pc' = "idle"
    BY <1>13 DEF SetSource
  <2>2. Gapped(source', thisExpr') /\ EndBefore(thisExpr', Len(thisExpr') + 1) = 0
    BY <2>1 DEF Gapped, EndBefore
  <2>3. Len(source') < LengthMod
    BY <2>1 DEF ShortTexts
  <2>. QED  BY <1>0, <2>1, <2>2, <2>3 DEF GInv, Standing
<1>14. CASE UNCHANGED vars
  <2>1. UNCHANGED <<source, thisExpr, cursor, pc, start>>
    BY <1>14 DEF vars
  <2>. QED  BY <1>0, <1>a, <2>1
<1>. QED
  BY <1>1, <1>2, <1>3, <1>4, <1>5, <1>6, <1>7, <1>8, <1>9, <1>10, <1>11, <1>12,
     <1>13, <1>14 DEF Next, Lex, SkipWhitespaceAndComments

\* Between the tokens of the invariant, IsSkipped holds.
LEMMA GapsHere == GInv => GapsAreBlank
<1>. SUFFICES ASSUME GInv, NEW i \in DOMAIN thisExpr
     PROVE  LET a == IF i = 1 THEN 0 ELSE End(thisExpr[i - 1])
                b == thisExpr[i].globalOffset
            IN  \E cuts \in SUBSET (a .. b) :
                   /\ {a, b} \subseteq cuts
                   /\ \A c \in cuts \ {b} : IsSkipped(c, Min({d \in cuts : d > c}))
  BY DEF GapsAreBlank
<1> DEFINE a == EndBefore(thisExpr, i)
           b == thisExpr[i].globalOffset
<1>1. a = IF i = 1 THEN 0 ELSE End(thisExpr[i - 1])
  BY DEF EndBefore
<1>2. IInv /\ source \in Text /\ Len(source) \in Nat /\ thisExpr \in Seq(Token)
  BY DEF GInv, IInv, TypeOK, Text
<1>3. b \in Nat /\ b <= Len(source)
  <2>1. b \in Nat /\ End(thisExpr[i]) \in Nat /\ End(thisExpr[i]) <= Begin
        /\ b <= End(thisExpr[i])
    <3>1. thisExpr[i] \in Token /\ LengthMod \in Nat
      BY <1>2, LengthAssumption
    <3>2. b \in Nat /\ thisExpr[i].size \in Nat
      BY <3>1 DEF Token
    <3>. QED  BY <1>2, <3>2, TokenEnd DEF End
  <2>2. Begin \in Nat /\ Begin <= Len(source)
    BY <1>2 DEF IInv, TypeOK, Begin
  <2>. HIDE DEF b
  <2>. QED  BY <1>2, <2>1, <2>2
<1>4. a \in Nat
  <2>1. i # 1 => i - 1 \in DOMAIN thisExpr
    BY <1>2
  <2>. QED  BY <1>1, <1>2, <2>1, TokenEnd
<1>5. PICK cuts \in SUBSET (a .. b) : CutsIn(source, a, b, cuts)
  BY DEF GInv, Gapped, BlankIn
<1>. HIDE DEF a, b
<1>6. ASSUME NEW c \in cuts \ {b}
      PROVE  IsSkipped(c, Min({d \in cuts : d > c}))
  <2> DEFINE D == {d \in cuts : d > c}
  <2>1. SkippedIn(source, c, Min(D))
    BY <1>5 DEF CutsIn
  <2>2. \A d \in cuts : d \in Nat /\ d <= b
    BY <1>3, <1>4, <1>5
  <2>3. b \in cuts /\ c \in cuts /\ c < b
    BY <1>3, <1>5, <2>2 DEF CutsIn
  <2>4. Min(D) \in D
    <3>1. D \subseteq Nat /\ D # {}
      BY <2>2, <2>3
    <3>. HIDE DEF D
    <3>. QED  BY <3>1, MinNat
  <2>5. Min(D) \in cuts /\ c < Min(D)
    BY <2>4
  <2>. HIDE DEF D
  <2>6. c \in Nat /\ Min(D) \in Nat /\ c <= Min(D) /\ Min(D) <= Len(source)
    <3>1. c \in Nat
      BY <2>2, <2>3
    <3>2. Min(D) \in Nat /\ Min(D) <= b
      BY <2>2, <2>5
    <3>. QED  BY <1>2, <1>3, <2>5, <3>1, <3>2
  <2>7. IsSkipped(c, Min(D))
    BY <1>2, <2>1, <2>6, SkippedHere
  <2>. QED  BY <2>7 DEF D
<1>7. {a, b} \subseteq cuts
  BY <1>5 DEF CutsIn
<1>8. \E k \in SUBSET (a .. b) :
         /\ {a, b} \subseteq k
         /\ \A c \in k \ {b} : IsSkipped(c, Min({d \in k : d > c}))
  BY <1>5, <1>6, <1>7
<1>. QED
  BY <1>1, <1>8 DEF b

\* Where no token's length is cut, the tokens of any text have nothing but
\* blanks and whole comments before and between them: no character of the
\* program is lost.
THEOREM NothingBetweenTokens == ASSUME ShortTexts PROVE Spec => []GapsAreBlank
<1>. QED
  BY InitGInv, NextGInv, GapsHere, PTL DEF Spec

-----------------------------------------------------------------------------
(* Literals, of texts shorter than LengthMod again.                        *)

\* The backslashes directly before the k-th character of what begins at b.
EscIn(s, b, k) == {j \in 2 .. k - 1 : \A m \in j .. k - 1 : s[b + m] = "esc"}

\* The quotes among the first n characters that end a literal begun at b.
ClosingIn(s, b, n) ==
    {k \in 2 .. n : s[b + k] = s[b + 1] /\ Cardinality(EscIn(s, b, k)) % 2 = 0}

\* LiteralsClose for a literal from b to e, by the positions of the text.
LiteralIn(s, b, e, type) ==
    /\ s[b + 1] = IF type = <<"LChar">> THEN "q1" ELSE "q2"
    /\ b < e /\ e <= Len(s)
    /\ \A p \in b + 1 .. e : s[p] # "nul"
    /\ IF ClosingIn(s, b, e - b) = {} THEN At(s, e) = "nul"
                                      ELSE ClosingIn(s, b, e - b) = {e - b}

\* The loop of a literal begun at b is at c: nothing ended it, and the
\* character at c is not protected by a backslash unless the text is over.
OpenAt(s, b, c) ==
    /\ s[b + 1] \in Quote
    /\ b < c /\ c <= Len(s)
    /\ \A p \in b + 1 .. c : s[p] # "nul"
    /\ ClosingIn(s, b, c - b) = {}
    /\ Cardinality(EscIn(s, b, (c - b) + 1)) % 2 = 0 \/ At(s, c) = "nul"

LiteralTypes == {<<"LString">>, <<"LChar">>}

Closed(s, ts) ==
    \A i \in DOMAIN ts : ts[i].type \in LiteralTypes =>
        LiteralIn(s, ts[i].globalOffset, End(ts[i]), ts[i].type)

LInv ==
    /\ GInv
    /\ Closed(source, thisExpr)
    /\ pc = "literal" => OpenAt(source, start, cursor)

-----------------------------------------------------------------------------

\* A backslash more, or none.
LEMMA EscMore ==
    ASSUME NEW s, NEW b \in Nat, NEW k \in Nat, k >= 2
    PROVE  /\ s[b + k] = "esc" => EscIn(s, b, k + 1) = EscIn(s, b, k) \cup {k}
           /\ s[b + k] # "esc" => EscIn(s, b, k + 1) = {}
<1>1. (k + 1) - 1 = k
  OBVIOUS
<1>2. ASSUME s[b + k] # "esc" PROVE EscIn(s, b, k + 1) = {}
  <2>1. \A j \in 2 .. k : k \in j .. k
    OBVIOUS
  <2>. QED  BY <1>1, <1>2, <2>1 DEF EscIn
<1>3. ASSUME s[b + k] = "esc" PROVE EscIn(s, b, k + 1) = EscIn(s, b, k) \cup {k}
  <2>1. \A j \in 2 .. k : j \in 2 .. k - 1 \/ j = k
    OBVIOUS
  <2>2. \A j \in 2 .. k - 1 : j \in 2 .. k /\ j .. k = (j .. k - 1) \cup {k}
    OBVIOUS
  <2>3. k \in 2 .. k /\ k .. k = {k}
    OBVIOUS
  <2>. QED  BY <1>1, <1>3, <2>1, <2>2, <2>3 DEF EscIn
<1>. QED
  BY <1>2, <1>3

\* So their number is one more, or zero.
LEMMA EscCount ==
    ASSUME NEW s, NEW b \in Nat, NEW k \in Nat, k >= 2
    PROVE  /\ Cardinality(EscIn(s, b, k)) \in Nat
           /\ s[b + k] = "esc" =>
                Cardinality(EscIn(s, b, k + 1)) = Cardinality(EscIn(s, b, k)) + 1
           /\ s[b + k] # "esc" => Cardinality(EscIn(s, b, k + 1)) = 0
<1>1. EscIn(s, b, k) \subseteq 2 .. k - 1
  BY DEF EscIn
<1>2. IsFiniteSet(EscIn(s, b, k))
  <2>1. IsFiniteSet(2 .. k - 1)
    BY FS_Interval
  <2>. QED  BY <1>1, <2>1, FS_Subset
<1>3. Cardinality(EscIn(s, b, k)) \in Nat
  BY <1>2, FS_CardinalityType
<1>4. k \notin EscIn(s, b, k)
  BY <1>1
<1>5. Cardinality(EscIn(s, b, k) \cup {k}) = Cardinality(EscIn(s, b, k)) + 1
  BY <1>2, <1>4, FS_AddElement
<1>6. Cardinality({}) = 0
  BY FS_EmptySet
<1>7. /\ s[b + k] = "esc" => EscIn(s, b, k + 1) = EscIn(s, b, k) \cup {k}
      /\ s[b + k] # "esc" => EscIn(s, b, k + 1) = {}
  BY EscMore
<1>. QED
  BY <1>3, <1>5, <1>6, <1>7, Zenon

\* The next character closes the literal, or does not.
LEMMA ClosingMore ==
    ASSUME NEW s, NEW b \in Nat, NEW n \in Nat, n >= 1, ClosingIn(s, b, n) = {}
    PROVE  /\ s[b + (n + 1)] = s[b + 1] /\ Cardinality(EscIn(s, b, n + 1)) % 2 = 0
              => ClosingIn(s, b, n + 1) = {n + 1}
           /\ ~(s[b + (n + 1)] = s[b + 1] /\ Cardinality(EscIn(s, b, n + 1)) % 2 = 0)
              => ClosingIn(s, b, n + 1) = {}
<1> DEFINE P(k) == s[b + k] = s[b + 1] /\ Cardinality(EscIn(s, b, k)) % 2 = 0
<1>1. \A k \in 2 .. n : ~P(k)
  BY DEF ClosingIn
<1>2. ClosingIn(s, b, n + 1) = {k \in 2 .. n + 1 : P(k)}
  BY DEF ClosingIn
<1>3. \A k \in 2 .. n + 1 : k \in 2 .. n \/ k = n + 1
  OBVIOUS
<1>4. n + 1 \in 2 .. n + 1
  OBVIOUS
<1>5. P(n + 1) <=> s[b + (n + 1)] = s[b + 1] /\ Cardinality(EscIn(s, b, n + 1)) % 2 = 0
  OBVIOUS
<1>. HIDE DEF P
<1>. QED
  BY <1>1, <1>2, <1>3, <1>4, <1>5

\* A literal is open behind its quote.
LEMMA LiteralOpens ==
    ASSUME NEW s \in Text, NEW b \in Nat, At(s, b) \in Quote
    PROVE  OpenAt(s, b, b + 1)
<1>1. b < Len(s) /\ Len(s) \in Nat /\ s[b + 1] \in Quote
  BY DEF At, Quote, Text
<1>2. (b + 1) - b = 1 /\ ((b + 1) - b) + 1 = 2
  OBVIOUS
<1>3. ClosingIn(s, b, 1) = {}
  BY DEF ClosingIn
<1>4. EscIn(s, b, 2) = {}
  BY DEF EscIn
<1>5. Cardinality(EscIn(s, b, 2)) % 2 = 0
  BY <1>4, FS_EmptySet
<1>6. \A p \in b + 1 .. b + 1 : s[p] # "nul"
  BY <1>1 DEF Quote
<1>. QED
  BY <1>1, <1>2, <1>3, <1>5, <1>6 DEF OpenAt

\* It stays open behind a character that is neither a quote nor null, and
\* behind a backslash and the character it protects.
LEMMA LiteralGoesOn ==
    ASSUME NEW s \in Text, NEW b \in Nat, NEW c \in Nat, OpenAt(s, b, c),
           At(s, c) \notin {"nul", s[b + 1]},
           NEW d, d = IF At(s, c) = "esc" /\ At(s, c + 1) # "nul" THEN c + 2 ELSE c + 1
    PROVE  OpenAt(s, b, d)
<1> DEFINE n == c - b
<1>0. Len(s) \in Nat /\ c < Len(s) /\ At(s, c) = s[c + 1]
  BY AtInside DEF Text, At
<1>1. /\ n \in Nat /\ n >= 1 /\ b + (n + 1) = c + 1 /\ b + (n + 2) = c + 2
      /\ s[b + 1] \in Quote /\ b < c
      /\ \A p \in b + 1 .. c : s[p] # "nul"
      /\ ClosingIn(s, b, n) = {}
      /\ Cardinality(EscIn(s, b, n + 1)) % 2 = 0
      /\ (c + 1) - b = n + 1 /\ (c + 2) - b = n + 2
  BY DEF OpenAt
<1>. HIDE DEF n
<1>2. /\ Cardinality(EscIn(s, b, n + 1)) \in Nat
      /\ s[c + 1] = "esc" => Cardinality(EscIn(s, b, n + 2)) = Cardinality(EscIn(s, b, n + 1)) + 1
      /\ s[c + 1] # "esc" => Cardinality(EscIn(s, b, n + 2)) = 0
  <2>1. n + 1 \in Nat /\ n + 1 >= 2 /\ (n + 1) + 1 = n + 2
    BY <1>1
  <2>2. /\ Cardinality(EscIn(s, b, n + 1)) \in Nat
        /\ s[b + (n + 1)] = "esc" =>
             Cardinality(EscIn(s, b, (n + 1) + 1)) = Cardinality(EscIn(s, b, n + 1)) + 1
        /\ s[b + (n + 1)] # "esc" => Cardinality(EscIn(s, b, (n + 1) + 1)) = 0
    BY <2>1, EscCount
  <2>. QED  BY <1>1, <2>1, <2>2, Zenon
<1>3. ClosingIn(s, b, n + 1) = {}
  <2>1. s[b + (n + 1)] # s[b + 1]
    BY <1>0, <1>1
  <2>. QED  BY <1>1, <2>1, ClosingMore
<1>4. \A p \in b + 1 .. c + 1 : s[p] # "nul"
  <2>1. \A p \in b + 1 .. c + 1 : p \in b + 1 .. c \/ p = c + 1
    OBVIOUS
  <2>. QED  BY <1>0, <1>1, <2>1
<1>5. CASE At(s, c) = "esc" /\ At(s, c + 1) # "nul"
  <2>1. c + 1 < Len(s) /\ At(s, c + 1) = s[c + 2]
    <3>1. (c + 1) + 1 = c + 2
      OBVIOUS
    <3>. QED  BY <1>0, <1>5, <3>1, AtInside DEF At
  <2>2. Cardinality(EscIn(s, b, n + 2)) \in Nat /\ Cardinality(EscIn(s, b, n + 2)) % 2 = 1
    <3>1. \A m \in Nat : m % 2 = 0 => m + 1 \in Nat /\ (m + 1) % 2 = 1
      OBVIOUS
    <3>. QED  BY <1>0, <1>1, <1>2, <1>5, <3>1
  <2>3. Cardinality(EscIn(s, b, n + 3)) % 2 = 0
    <3>1. n + 2 \in Nat /\ n + 2 >= 2 /\ (n + 2) + 1 = n + 3
      BY <1>1
    <3>2. /\ s[c + 2] = "esc" => Cardinality(EscIn(s, b, n + 3)) = Cardinality(EscIn(s, b, n + 2)) + 1
          /\ s[c + 2] # "esc" => Cardinality(EscIn(s, b, n + 3)) = 0
      <4>1. /\ s[b + (n + 2)] = "esc" =>
                 Cardinality(EscIn(s, b, (n + 2) + 1)) = Cardinality(EscIn(s, b, n + 2)) + 1
            /\ s[b + (n + 2)] # "esc" => Cardinality(EscIn(s, b, (n + 2) + 1)) = 0
        BY <3>1, EscCount
      <4>. QED  BY <1>1, <3>1, <4>1, Zenon
    <3>3. \A m \in Nat : m % 2 = 1 => (m + 1) % 2 = 0
      OBVIOUS
    <3>4. 0 % 2 = 0
      OBVIOUS
    <3>. QED  BY <2>2, <3>2, <3>3, <3>4
  <2>4. ClosingIn(s, b, n + 2) = {}
    <3>1. n + 1 \in Nat /\ n + 1 >= 1 /\ (n + 1) + 1 = n + 2
      BY <1>1
    <3>2. ~(Cardinality(EscIn(s, b, n + 2)) % 2 = 0)
      BY <2>2
    <3>. QED  BY <1>3, <3>1, <3>2, ClosingMore
  <2>5. \A p \in b + 1 .. c + 2 : s[p] # "nul"
    <3>1. \A p \in b + 1 .. c + 2 : p \in b + 1 .. c + 1 \/ p = c + 2
      OBVIOUS
    <3>. QED  BY <1>4, <1>5, <2>1, <3>1
  <2>6. d = c + 2 /\ b < c + 2 /\ c + 2 <= Len(s) /\ (n + 2) + 1 = n + 3
    BY <1>0, <1>1, <1>5, <2>1
  <2>. QED  BY <1>1, <2>3, <2>4, <2>5, <2>6 DEF OpenAt
<1>6. CASE ~(At(s, c) = "esc" /\ At(s, c + 1) # "nul")
  <2>1. d = c + 1 /\ b < c + 1 /\ c + 1 <= Len(s) /\ (n + 1) + 1 = n + 2
    BY <1>0, <1>1, <1>6
  <2>2. Cardinality(EscIn(s, b, n + 2)) % 2 = 0 \/ At(s, c + 1) = "nul"
    <3>1. 0 % 2 = 0
      OBVIOUS
    <3>. QED  BY <1>0, <1>2, <1>6, <3>1
  <2>. QED  BY <1>1, <1>3, <1>4, <2>1, <2>2 DEF OpenAt
<1>. QED
  BY <1>5, <1>6

\* It ends at its quote, or with the text.
LEMMA LiteralEnds ==
    ASSUME NEW s \in Text, NEW b \in Nat, NEW c \in Nat, OpenAt(s, b, c),
           At(s, c) \in {"nul", s[b + 1]},
           NEW e, e = IF At(s, c) = "nul" THEN c ELSE c + 1,
           NEW type, type = IF s[b + 1] = "q1" THEN <<"LChar">> ELSE <<"LString">>
    PROVE  LiteralIn(s, b, e, type)
<1> DEFINE n == c - b
<1>0. /\ n \in Nat /\ n >= 1 /\ b + (n + 1) = c + 1 /\ (c + 1) - b = n + 1
      /\ s[b + 1] \in Quote /\ b < c /\ c <= Len(s) /\ Len(s) \in Nat
      /\ \A p \in b + 1 .. c : s[p] # "nul"
      /\ ClosingIn(s, b, n) = {}
  BY DEF OpenAt, Text
<1>1. s[b + 1] = IF type = <<"LChar">> THEN "q1" ELSE "q2"
  BY <1>0 DEF Quote
<1>2. CASE At(s, c) = "nul"
  <2>1. e = c
    BY <1>2
  <2>. QED  BY <1>0, <1>1, <1>2, <2>1 DEF LiteralIn
<1>3. CASE At(s, c) # "nul"
  <2>1. e = c + 1 /\ c < Len(s) /\ s[c + 1] = s[b + 1] /\ s[c + 1] # "nul"
    BY <1>0, <1>3, AtInside DEF At
  <2>2. Cardinality(EscIn(s, b, n + 1)) % 2 = 0
    BY <1>3 DEF OpenAt
  <2>. HIDE DEF n
  <2>3. ClosingIn(s, b, n + 1) = {n + 1}
    <3>1. s[b + (n + 1)] = s[b + 1]
      BY <1>0, <2>1
    <3>. QED  BY <1>0, <2>2, <3>1, ClosingMore
  <2>4. \A p \in b + 1 .. c + 1 : s[p] # "nul"
    <3>1. \A p \in b + 1 .. c + 1 : p \in b + 1 .. c \/ p = c + 1
      OBVIOUS
    <3>. QED  BY <1>0, <2>1, <3>1
  <2>5. b < c + 1 /\ c + 1 <= Len(s)
    BY <1>0, <2>1
  <2>. QED  BY <1>0, <1>1, <2>1, <2>3, <2>4, <2>5 DEF LiteralIn
<1>. QED
  BY <1>2, <1>3

\* The name of a token's type is no character: a word is never taken for a
\* literal.
LEMMA WordIsNoLiteral ==
    ASSUME NEW text \in Text
    PROVE  WordType(text) \notin LiteralTypes
<1>1. "LString" \notin Char /\ "LChar" \notin Char
  BY DEF Char, WordChar, Letter, Digit, Quote, Blank, Operators
<1>2. ASSUME NEW name, text = <<name>> PROVE name \in Char
  <2>1. Len(text) = 1 /\ text[1] = name
    BY <1>2
  <2>2. \A t \in Seq(Char) : Len(t) = 1 => t[1] \in Char
    OBVIOUS
  <2>. QED  BY <2>1, <2>2 DEF Text
<1>3. text # <<"LString">> /\ text # <<"LChar">>
  BY <1>1, <1>2
<1>4. <<"Ident">> # <<"LString">> /\ <<"Ident">> # <<"LChar">>
  OBVIOUS
<1>. QED
  BY <1>3, <1>4 DEF WordType, LiteralTypes

\* Nor is an operator.
LEMMA OperatorIsNoLiteral ==
    ASSUME NEW c, NEW d, NEW e
    PROVE  OperatorType(c, Lexeme(c, d, e)) \notin LiteralTypes
<1>1. "LString" \notin Operators /\ "LChar" \notin Operators
  BY DEF Operators
<1>2. <<c, d, e>> \notin LiteralTypes
  BY DEF LiteralTypes
<1>3. <<c, d>> \notin LiteralTypes
  BY DEF LiteralTypes
<1>4. c \in Operators => <<c>> \notin LiteralTypes
  BY <1>1 DEF LiteralTypes
<1>5. <<"Unknown">> \notin LiteralTypes
  BY DEF LiteralTypes
<1>6. Lexeme(c, d, e) \in {<<c, d, e>>, <<c, d>>, <<c>>}
  BY DEF Lexeme
<1>. HIDE DEF LiteralTypes
<1>. QED
  BY <1>2, <1>3, <1>4, <1>5, <1>6 DEF OperatorType

\* A token is buffered that is no literal, or a whole one.
LEMMA EmitLiterals ==
    ASSUME GInv, NEW e \in Int, Begin <= e, e <= Len(source), NEW type,
           Emit(Begin, e, type), Closed(source, thisExpr),
           type \in LiteralTypes => LiteralIn(source, Begin, e, type)
    PROVE  Closed(source', thisExpr') /\ pc' # "literal"
<1> DEFINE n == Len(thisExpr)
<1>1. /\ DOMAIN thisExpr' = DOMAIN thisExpr \cup {n + 1}
      /\ \A i \in DOMAIN thisExpr : thisExpr'[i] = thisExpr[i]
      /\ thisExpr'[n + 1].globalOffset = Begin /\ thisExpr'[n + 1].type = type
      /\ End(thisExpr'[n + 1]) = e
      /\ source' = source /\ pc' = "idle"
  BY EmitUncut
<1>. HIDE DEF n
<1>2. ASSUME NEW i \in DOMAIN thisExpr', thisExpr'[i].type \in LiteralTypes
      PROVE  LiteralIn(source', thisExpr'[i].globalOffset, End(thisExpr'[i]), thisExpr'[i].type)
  <2>1. CASE i = n + 1
    BY <1>1, <1>2, <2>1
  <2>2. CASE i \in DOMAIN thisExpr
    <3>1. thisExpr'[i] = thisExpr[i]
      BY <1>1, <2>2
    <3>2. LiteralIn(source, thisExpr[i].globalOffset, End(thisExpr[i]), thisExpr[i].type)
      BY <1>2, <2>2, <3>1 DEF Closed
    <3>. QED  BY <1>1, <3>1, <3>2
  <2>. QED  BY <1>1, <2>1, <2>2
<1>. QED
  BY <1>1, <1>2 DEF Closed

\* Every step leaves only whole literals among the tokens.
LEMMA NextLInv == ShortTexts /\ LInv /\ [Next]_vars => LInv'
<1>. SUFFICES ASSUME ShortTexts, LInv, [Next]_vars PROVE LInv'
  OBVIOUS
<1>0. /\ GInv /\ GInv' /\ source \in Text /\ Len(source) \in Nat
      /\ cursor \in 0 .. Len(source) /\ cursor \in Nat /\ start \in Nat
      /\ pc # "literal" => Begin = cursor
      /\ pc = "literal" => Begin = start /\ start < cursor
      /\ Closed(source, thisExpr)
  BY NextGInv DEF LInv, GInv, IInv, TypeOK, Text, Begin
<1>a. ASSUME UNCHANGED <<source, thisExpr>>,
             pc' = "literal" => OpenAt(source, start', cursor')
      PROVE  LInv'
  <2>1. Closed(source', thisExpr')
    BY <1>0, <1>a
  <2>2. pc' = "literal" => OpenAt(source', start', cursor')
    BY <1>a
  <2>. QED  BY <1>0, <2>1, <2>2 DEF LInv
<1>b. \A e \in Int : \A type :
         /\ Begin <= e /\ e <= Len(source)
         /\ type \in LiteralTypes => LiteralIn(source, Begin, e, type)
         /\ Emit(Begin, e, type)
         => LInv'
  <2>. TAKE e \in Int
  <2>. TAKE type
  <2>. HAVE /\ Begin <= e /\ e <= Len(source)
            /\ type \in LiteralTypes => LiteralIn(source, Begin, e, type)
            /\ Emit(Begin, e, type)
  <2>1. Closed(source', thisExpr') /\ pc' # "literal"
    BY <1>0, EmitLiterals
  <2>. QED  BY <1>0, <2>1 DEF LInv
<1>1. CASE NextToken
  <2>1. pc' = "skip" /\ UNCHANGED <<source, thisExpr>>
    BY <1>1 DEF NextToken
  <2>. QED  BY <1>a, <2>1
<1>2. CASE SkipWhitespaceAndComments
  <2>1. pc' # "literal" /\ UNCHANGED <<source, thisExpr>>
    BY <1>2 DEF SkipWhitespaceAndComments, SkipBlank, OpenComment, LineComment, BlockComment
  <2>. QED  BY <1>a, <2>1
<1>3. CASE EndOfSource
  <2>1. pc = "skip" /\ Emit(cursor, cursor, <<"Eof">>)
    BY <1>3 DEF EndOfSource
  <2>2. <<"Eof">> \notin LiteralTypes
    BY DEF LiteralTypes
  <2>. QED  BY <1>0, <1>b, <2>1, <2>2
<1>4. CASE LexIdentifierOrKeyword
  <2> DEFINE end    == RunEnd(source, cursor, WordChar)
             length == (end - cursor) % LengthMod
             text   == Slice(source, cursor, cursor + length)
  <2>1. pc = "skip" /\ Emit(cursor, end, WordType(text))
    BY <1>4 DEF LexIdentifierOrKeyword, AtToken
  <2>2. end \in cursor .. Len(source)
    BY <1>0, RunEndRange
  <2>3. text \in Text
    <3>1. length \in Nat /\ length <= end - cursor
      <4>1. \A m \in Nat, k \in Nat \ {0} : m % k \in Nat /\ m % k <= m
        OBVIOUS
      <4>2. end - cursor \in Nat
        <5>. HIDE DEF end
        <5>. QED  BY <1>0, <2>2
      <4>. HIDE DEF end
      <4>. QED  BY <4>1, <4>2, LengthAssumption
    <3>. HIDE DEF length, end
    <3>2. \A k \in cursor + 1 .. cursor + length : k \in 1 .. Len(source)
      BY <1>0, <2>2, <3>1
    <3>3. cursor + 1 \in Nat /\ cursor + length \in Nat
      BY <1>0, <3>1
    <3>. QED  BY <1>0, <3>2, <3>3, SubSeqProperties DEF Slice, Text
  <2>. HIDE DEF text
  <2>4. WordType(text) \notin LiteralTypes
    BY <2>3, WordIsNoLiteral
  <2>. HIDE DEF end
  <2>. QED  BY <1>0, <1>b, <2>1, <2>2, <2>4
<1>5. CASE LexNumber
  <2> DEFINE end  == NumberEnd(source, cursor)
             type == IF IsFloat(source, cursor) THEN <<"LFloat">> ELSE <<"LInt">>
  <2>1. pc = "skip" /\ Emit(cursor, end, type)
    BY <1>5 DEF LexNumber, AtToken
  <2>2. end \in cursor .. Len(source)
    BY <1>0, NumberEndRange
  <2>3. type \notin LiteralTypes
    BY DEF LiteralTypes
  <2>. HIDE DEF end, type
  <2>. QED  BY <1>0, <1>b, <2>1, <2>2, <2>3
<1>6. CASE OpenLiteral
  <2>1. /\ pc' = "literal" /\ start' = cursor /\ UNCHANGED <<source, thisExpr>>
        /\ At(source, cursor) \in Quote /\ cursor < Len(source)
    BY <1>0, <1>6 DEF OpenLiteral, AtToken, peek
  <2>2. cursor' = cursor + 1
    BY <1>0, <1>6, <2>1 DEF OpenLiteral, Advance
  <2>3. OpenAt(source, cursor, cursor + 1)
    BY <1>0, <2>1, LiteralOpens
  <2>. QED  BY <1>a, <2>1, <2>2, <2>3
<1>7. CASE CopyLiteral
  <2> DEFINE d == IF At(source, cursor) = "esc" /\ At(source, cursor + 1) # "nul"
                  THEN cursor + 2 ELSE cursor + 1
  <2>1. /\ pc = "literal" /\ pc' = "literal" /\ start' = start /\ UNCHANGED <<source, thisExpr>>
        /\ At(source, cursor) \notin {"nul", source[start + 1]}
    BY <1>0, <1>7 DEF CopyLiteral, peek
  <2>2. OpenAt(source, start, d)
    <3>1. OpenAt(source, start, cursor)
      BY <2>1 DEF LInv
    <3>. HIDE DEF d
    <3>. QED  BY <1>0, <2>1, <3>1, LiteralGoesOn DEF d
  <2>3. cursor' = d
    <3>1. cursor < Len(source)
      BY <1>0, <2>1, AtInside
    <3>2. At(source, cursor + 1) # "nul" => cursor + 1 < Len(source)
      BY <1>0, AtInside
    <3>. QED  BY <1>0, <1>7, <3>1, <3>2 DEF CopyLiteral, Advance, peek
  <2>. QED  BY <1>a, <2>1, <2>2, <2>3
<1>8. CASE CloseLiteral
  <2> DEFINE e    == IF At(source, cursor) = "nul" THEN cursor ELSE cursor + 1
             type == IF source[start + 1] = "q1" THEN <<"LChar">> ELSE <<"LString">>
  <2>1. /\ pc = "literal" /\ Emit(start, e, type)
        /\ At(source, cursor) \in {"nul", source[start + 1]}
    BY <1>0, <1>8 DEF CloseLiteral, peek
  <2>2. e \in Int /\ cursor <= e /\ e <= Len(source)
    BY <1>0, AtInside
  <2>3. LiteralIn(source, start, e, type)
    <3>1. OpenAt(source, start, cursor)
      BY <2>1 DEF LInv
    <3>. HIDE DEF e, type
    <3>. QED  BY <1>0, <2>1, <3>1, LiteralEnds DEF e, type
  <2>. HIDE DEF e, type
  <2>. QED  BY <1>0, <1>b, <2>1, <2>2, <2>3
<1>9. CASE LexOperator
  <2> DEFINE lexeme == Lexeme(At(source, cursor), At(source, cursor + 1), At(source, cursor + 2))
             type   == OperatorType(At(source, cursor), lexeme)
  <2>1. pc = "skip" /\ cursor < Len(source) /\ Emit(cursor, cursor + Len(lexeme), type)
    BY <1>0, <1>9 DEF LexOperator, AtToken, peek
  <2>2. cursor + Len(lexeme) \in cursor .. Len(source)
    BY <1>0, <2>1, LexemeRange
  <2>3. type \notin LiteralTypes
    BY OperatorIsNoLiteral
  <2>. HIDE DEF lexeme, type
  <2>. QED  BY <1>0, <1>b, <2>1, <2>2, <2>3
<1>10. CASE SetSource
  <2>1. thisExpr' = <<>> /\ pc' = "idle"
    BY <1>10 DEF SetSource
  <2>2. Closed(source', thisExpr')
    BY <2>1 DEF Closed
  <2>. QED  BY <1>0, <2>1, <2>2 DEF LInv
<1>11. CASE UNCHANGED vars
  <2>1. UNCHANGED <<source, thisExpr, cursor, pc, start>>
    BY <1>11 DEF vars
  <2>2. pc = "literal" => OpenAt(source, start, cursor)
    BY DEF LInv
  <2>. QED  BY <1>a, <2>1, <2>2
<1>. QED
  BY <1>1, <1>2, <1>3, <1>4, <1>5, <1>6, <1>7, <1>8, <1>9, <1>10, <1>11 DEF Next, Lex

\* A literal's positions are its characters.
LEMMA LiteralsHere == LInv => LiteralsClose
<1>. SUFFICES ASSUME LInv, NEW i \in DOMAIN thisExpr,
                     thisExpr[i].type \in {<<"LString">>, <<"LChar">>}
     PROVE  LET x        == getText(thisExpr[i])
                escapes(k) == {j \in 2 .. k - 1 : \A m \in j .. k - 1 : x[m] = "esc"}
                closing  == {k \in 2 .. Len(x) :
                                x[k] = x[1] /\ Cardinality(escapes(k)) % 2 = 0}
            IN  /\ x # <<>> /\ x[1] = IF thisExpr[i].type = <<"LChar">> THEN "q1" ELSE "q2"
                /\ \A k \in DOMAIN x : x[k] # "nul"
                /\ IF closing = {} THEN At(source, End(thisExpr[i])) = "nul"
                                   ELSE closing = {Len(x)}
  BY DEF LiteralsClose
<1> DEFINE b    == thisExpr[i].globalOffset
           e    == End(thisExpr[i])
           type == thisExpr[i].type
           x    == getText(thisExpr[i])
           n    == e - b
           escapes(k) == {j \in 2 .. k - 1 : \A m \in j .. k - 1 : x[m] = "esc"}
           closing  == {k \in 2 .. Len(x) : x[k] = x[1] /\ Cardinality(escapes(k)) % 2 = 0}
<1>1. LiteralIn(source, b, e, type)
  BY DEF LInv, Closed, LiteralTypes
<1>2. b \in Nat /\ e \in Nat /\ source \in Text /\ Len(source) \in Nat
  <2>1. IInv
    BY DEF LInv, GInv
  <2>2. thisExpr[i] \in Token /\ e \in Nat
    BY <2>1, TokenEnd
  <2>. QED  BY <2>1, <2>2 DEF Token, IInv, TypeOK, Text
<1>3. /\ b < e /\ e <= Len(source)
      /\ source[b + 1] = IF type = <<"LChar">> THEN "q1" ELSE "q2"
      /\ \A p \in b + 1 .. e : source[p] # "nul"
      /\ IF ClosingIn(source, b, n) = {} THEN At(source, e) = "nul"
                                         ELSE ClosingIn(source, b, n) = {n}
  BY <1>1 DEF LiteralIn
<1>4. x = Slice(source, b, e)
  BY DEF getText
<1>. HIDE DEF b, e, type, x
<1>5. n \in Nat /\ n >= 1
  BY <1>2, <1>3
<1>6. Len(x) = n /\ x \in Seq(Char) /\ \A k \in 1 .. n : x[k] = source[b + k]
  <2>1. b <= e
    BY <1>2, <1>3
  <2>2. /\ Slice(source, b, e) \in Text
        /\ Len(Slice(source, b, e)) = e - b
        /\ \A k \in 1 .. e - b : Slice(source, b, e)[k] = source[b + k]
    BY <1>2, <1>3, <2>1, SliceIs
  <2>. QED  BY <1>4, <2>2 DEF Text
<1>7. \A k \in 2 .. n : escapes(k) = EscIn(source, b, k)
  <2>. TAKE k \in 2 .. n
  <2>1. \A j \in 2 .. k - 1 : \A m \in j .. k - 1 : m \in 1 .. n
    BY <1>5
  <2>2. \A j \in 2 .. k - 1 : \A m \in j .. k - 1 : x[m] = source[b + m]
    BY <1>6, <2>1
  <2>. QED  BY <2>2 DEF EscIn
<1>8. closing = ClosingIn(source, b, n)
  <2>1. \A k \in 2 .. n : k \in 1 .. n
    OBVIOUS
  <2>2. x[1] = source[b + 1]
    BY <1>5, <1>6
  <2>. HIDE DEF escapes
  <2>. QED  BY <1>6, <1>7, <2>1, <2>2 DEF ClosingIn
<1>. HIDE DEF closing
<1>9. x # <<>> /\ x[1] = IF type = <<"LChar">> THEN "q1" ELSE "q2"
  BY <1>3, <1>5, <1>6
<1>10. \A k \in DOMAIN x : x[k] # "nul"
  <2>1. DOMAIN x = 1 .. n
    BY <1>6
  <2>2. \A k \in 1 .. n : b + k \in b + 1 .. e
    BY <1>2
  <2>. QED  BY <1>3, <1>6, <2>1, <2>2
<1>11. IF closing = {} THEN At(source, e) = "nul" ELSE closing = {Len(x)}
  <2>. HIDE DEF n
  <2>. QED  BY <1>3, <1>6, <1>8
<1>. QED
  BY <1>9, <1>10, <1>11 DEF closing, x, e, type

\* Where no token's length is cut, a literal of any text runs from its quote
\* to the first one of the kind that no backslash protects, or to the end.
THEOREM LiteralsAreWhole == ASSUME ShortTexts PROVE Spec => []LiteralsClose
<1>1. Init => LInv
  <2>1. Init => Closed(source, thisExpr) /\ pc # "literal"
    BY DEF Init, Closed
  <2>. QED  BY <2>1, InitGInv DEF LInv
<1>. QED
  BY <1>1, NextLInv, LiteralsHere, PTL DEF Spec


-----------------------------------------------------------------------------
(* Lexemes, by their positions in the text.                                *)

\* Characters of a slice that all belong to a set.
LEMMA AllInSlice ==
    ASSUME NEW s \in Text, NEW p \in Nat, NEW n \in Nat, p <= n, n <= Len(s),
           NEW b \in Nat \ {0}, NEW e \in Nat, e <= n - p, NEW S
    PROVE  AllIn(Slice(s, p, n), b, e, S) <=> \A q \in p + b .. p + e : s[q] \in S
<1> DEFINE y == Slice(s, p, n)
<1>1. /\ y \in Text /\ Len(y) = n - p
      /\ \A k \in 1 .. n - p : y[k] = s[p + k]
  BY SliceIs
<1>2. \A k \in b .. e : k \in 1 .. n - p /\ p + k \in p + b .. p + e
  OBVIOUS
<1>3. \A q \in p + b .. p + e : q - p \in b .. e /\ p + (q - p) = q
  OBVIOUS
<1>. HIDE DEF y
<1>. QED
  BY <1>1, <1>2, <1>3 DEF AllIn, y

\* What a lexeme of each kind begins with.
LEMMA FirstOfLexeme ==
    ASSUME NEW y \in Text
    PROVE  /\ IsWord(y) => Len(y) >= 1 /\ y[1] \in Letter
           /\ IsHexNumber(y) => Len(y) >= 2 /\ y[1] = "0" /\ y[2] = "x"
           /\ IsWhole(y) => Len(y) >= 1 /\ y[1] \in Digit
           /\ IsFloatNumber(y) => Len(y) >= 1 /\ y[1] \in Digit
           /\ y \in Spelled => Len(y) \in {1, 2, 3} /\ y[1] \in Operators
<1>0. Len(y) \in Nat
  BY DEF Text
<1>1. IsWord(y) => Len(y) >= 1 /\ y[1] \in Letter
  BY <1>0 DEF IsWord, Text
<1>2. IsHexNumber(y) => Len(y) >= 2 /\ y[1] = "0" /\ y[2] = "x"
  BY <1>0 DEF IsHexNumber
<1>3. ASSUME NEW i \in 1 .. Len(y), NEW j, NEW k, DecimalSplit(y, i, j, k)
      PROVE  Len(y) >= 1 /\ y[1] \in Digit
  <2>1. 1 \in 1 .. i /\ Len(y) >= 1
    BY <1>0
  <2>. QED  BY <1>3, <2>1 DEF DecimalSplit, AllIn
<1>4. IsWhole(y) => Len(y) >= 1 /\ y[1] \in Digit
  BY <1>3 DEF IsWhole
<1>5. IsFloatNumber(y) => Len(y) >= 1 /\ y[1] \in Digit
  BY <1>3 DEF IsFloatNumber
<1>6. ASSUME y \in Spelled PROVE Len(y) \in {1, 2, 3} /\ y[1] \in Operators
  <2>1. CASE \E c \in Operators : y = <<c>>
    BY <2>1
  <2>2. CASE \E c \in Operators : \E d : y = <<c, d>>
    BY <2>2
  <2>3. CASE \E c \in Operators : \E d, e : y = <<c, d, e>>
    BY <2>3
  <2>4. CASE y \in {<<c>> : c \in Operators}
    BY <2>1, <2>4
  <2>5. CASE y \in {<<c, c>> : c \in {"+", "-", "=", "&", "|", ">", "<", ":", "/"}}
    BY <2>2, <2>5 DEF Operators
  <2>6. CASE y \in {<<c, "=">> : c \in {"+", "-", "*", "/", "%", "&", "|", "~", "^", "!", ">", "<"}}
    BY <2>2, <2>6 DEF Operators
  <2>7. CASE y \in {<<c, c, "=">> : c \in {">", "<"}} \cup {<<"-", ">">>, <<".", ".", ".">>}
    BY <2>2, <2>3, <2>7 DEF Operators
  <2>. QED  BY <1>6, <2>4, <2>5, <2>6, <2>7 DEF Spelled
<1>. QED
  BY <1>1, <1>2, <1>4, <1>5, <1>6

\* No character begins lexemes of two kinds.
LEMMA KindsApart ==
    /\ Letter \cap Digit = {} /\ Letter \cap Operators = {} /\ Digit \cap Operators = {}
    /\ Digit \cap Suffix = {} /\ "e" \notin Suffix \cup Digit /\ "." \notin Suffix \cup Digit
    /\ Sign \cap Suffix = {} /\ "x" \notin Digit \cup Suffix /\ "0" \in Digit /\ "x" \notin {".", "e"}
BY DEF Letter, Digit, Operators, Suffix, Sign

-----------------------------------------------------------------------------

\* A word is the longest lexeme at its place.
LEMMA WordIsLongest ==
    ASSUME NEW s \in Text, NEW p \in Nat, p < Len(s), s[p + 1] \in Letter,
           NEW e, e = RunEnd(s, p, WordChar)
    PROVE  /\ IsWord(Slice(s, p, e))
           /\ \A n \in e + 1 .. Len(s) : ~IsLexeme(Slice(s, p, n))
<1>0. Len(s) \in Nat /\ p \in 0 .. Len(s) /\ p + 1 \in Nat
  BY DEF Text
<1>1. /\ e \in p .. Len(s)
      /\ \A q \in p + 1 .. e : s[q] \in WordChar
      /\ e < Len(s) => s[e + 1] \notin WordChar
  BY <1>0, RunEndIs
<1>2. p < e
  <2>1. Letter \subseteq WordChar
    BY DEF WordChar
  <2>. QED  BY <1>0, <1>1, <2>1
<1>3. IsWord(Slice(s, p, e))
  <2> DEFINE y == Slice(s, p, e)
  <2>1. y \in Text /\ Len(y) = e - p /\ \A k \in 1 .. e - p : y[k] = s[p + k]
    <3>1. e \in Nat /\ p <= e /\ e <= Len(s)
      BY <1>0, <1>1
    <3>. QED  BY <3>1, SliceIs
  <2>2. e - p \in Nat /\ e - p >= 1 /\ e - p <= e - p /\ p + (e - p) = e /\ e \in Nat
    BY <1>0, <1>1, <1>2
  <2>3. AllIn(y, 1, e - p, WordChar) <=> \A q \in p + 1 .. p + (e - p) : s[q] \in WordChar
    BY <1>0, <1>1, <2>2, AllInSlice
  <2>4. y[1] = s[p + 1]
    BY <2>1, <2>2
  <2>5. y # <<>>
    BY <2>1, <2>2
  <2>. QED  BY <1>1, <2>1, <2>2, <2>3, <2>4, <2>5 DEF IsWord
<1>4. ASSUME NEW n \in e + 1 .. Len(s), IsLexeme(Slice(s, p, n)) PROVE FALSE
  <2> DEFINE y == Slice(s, p, n)
  <2>1. n \in Nat /\ p <= n /\ n <= Len(s) /\ n - p \in Nat /\ n - p >= 1 /\ p + (n - p) = n
        /\ e + 1 \in p + 1 .. n /\ e < Len(s)
    BY <1>0, <1>1
  <2>2. y \in Text /\ Len(y) = n - p /\ \A k \in 1 .. n - p : y[k] = s[p + k]
    BY <1>0, <2>1, SliceIs
  <2>3. y[1] = s[p + 1]
    BY <2>1, <2>2
  <2>. HIDE DEF y
  <2>4. IsWord(y)
    <3>1. IsLexeme(y)
      BY <1>4 DEF y
    <3>. QED  BY <2>2, <2>3, <3>1, FirstOfLexeme, KindsApart DEF IsLexeme
  <2>5. AllIn(y, 1, n - p, WordChar)
    BY <2>2, <2>4 DEF IsWord
  <2>6. \A q \in p + 1 .. p + (n - p) : s[q] \in WordChar
    BY <2>1, <2>5, AllInSlice DEF y
  <2>. QED  BY <1>1, <2>1, <2>6
<1>. QED
  BY <1>3, <1>4

\* So is a hexadecimal number: digits up to h, suffixes up to e.
LEMMA HexLongest ==
    ASSUME NEW s \in Text, NEW p \in Nat, NEW h \in Nat, NEW e \in Nat,
           p + 2 <= h, h <= e, e <= Len(s),
           s[p + 1] = "0", s[p + 2] = "x",
           \A q \in p + 3 .. h : s[q] \in HexDigit,
           h < Len(s) => s[h + 1] \notin HexDigit,
           \A q \in h + 1 .. e : s[q] \in Suffix,
           e < Len(s) => s[e + 1] \notin Suffix
    PROVE  /\ IsHexNumber(Slice(s, p, e))
           /\ \A n \in e + 1 .. Len(s) : ~IsLexeme(Slice(s, p, n))
<1>0. Len(s) \in Nat
  BY DEF Text
<1>5. IsHexNumber(Slice(s, p, e))
  <2> DEFINE y == Slice(s, p, e)
  <2>1. y \in Text /\ Len(y) = e - p /\ \A k \in 1 .. e - p : y[k] = s[p + k]
    <3>1. p <= e
      OBVIOUS
    <3>. QED  BY <3>1, SliceIs
  <2>2. y[1] = "0" /\ y[2] = "x"
    <3>1. 1 \in 1 .. e - p /\ 2 \in 1 .. e - p
      OBVIOUS
    <3>. QED  BY <2>1, <3>1
  <2>a. \A b, k \in Nat : \A S : b # 0 /\ k <= e - p =>
            (AllIn(y, b, k, S) <=> \A q \in p + b .. p + k : s[q] \in S)
    <3>1. p <= e
      OBVIOUS
    <3>. QED  BY <3>1, AllInSlice
  <2>b. /\ h - p \in Nat /\ e - p \in Nat /\ h - p <= e - p /\ h - p \in 2 .. e - p
        /\ p + (h - p) = h /\ p + (e - p) = e /\ (h - p) + 1 \in Nat /\ (h - p) + 1 # 0
        /\ p + ((h - p) + 1) = h + 1 /\ e - p > 1
    OBVIOUS
  <2>3. AllIn(y, 3, h - p, HexDigit)
    <3>1. AllIn(y, 3, h - p, HexDigit) <=> \A q \in p + 3 .. p + (h - p) : s[q] \in HexDigit
      BY <2>a, <2>b
    <3>. QED  BY <2>b, <3>1
  <2>4. AllIn(y, (h - p) + 1, e - p, Suffix)
    <3>1. AllIn(y, (h - p) + 1, e - p, Suffix)
            <=> \A q \in p + ((h - p) + 1) .. p + (e - p) : s[q] \in Suffix
      BY <2>a, <2>b
    <3>. QED  BY <2>b, <3>1
  <2>. HIDE DEF y
  <2>5. IsHexNumber(y)
    BY <2>b, <2>1, <2>2, <2>3, <2>4 DEF IsHexNumber
  <2>. QED  BY <2>5 DEF y
<1>6. ASSUME NEW n \in e + 1 .. Len(s), IsLexeme(Slice(s, p, n)) PROVE FALSE
  <2> DEFINE y == Slice(s, p, n)
  <2>1. /\ n \in Nat /\ p <= n /\ n <= Len(s) /\ n - p \in Nat /\ n - p >= 2
        /\ p + (n - p) = n /\ e + 1 <= n /\ e < Len(s)
    BY <1>0
  <2>2. y \in Text /\ Len(y) = n - p /\ \A k \in 1 .. n - p : y[k] = s[p + k]
    BY <2>1, SliceIs
  <2>3. y[1] = "0" /\ y[2] = "x"
    BY <2>1, <2>2
  <2>a. \A b, k \in Nat : \A S : b # 0 /\ k <= n - p /\ AllIn(y, b, k, S)
            => \A q \in p + b .. p + k : s[q] \in S
    BY <2>1, AllInSlice
  <2>. HIDE DEF y
  <2>4. ASSUME NEW i \in 1 .. Len(y), NEW j, NEW k, DecimalSplit(y, i, j, k), j = i \/ j > i,
               k = j \/ k > j
        PROVE  FALSE
    <3>1. i = 1
      <4>1. \A m \in 1 .. i : y[m] \in Digit
        BY <2>4 DEF DecimalSplit, AllIn
      <4>2. i >= 2 => 2 \in 1 .. i
        BY <2>1, <2>2
      <4>. QED  BY <2>1, <2>2, <2>3, <4>1, <4>2, KindsApart
    <3>2. j = 1
      BY <2>3, <2>4, <3>1, KindsApart DEF DecimalSplit
    <3>3. k = 1
      BY <2>3, <2>4, <3>2, KindsApart DEF DecimalSplit
    <3>4. AllIn(y, 2, Len(y), Suffix)
      BY <2>4, <3>3 DEF DecimalSplit
    <3>. QED  BY <2>1, <2>2, <2>3, <3>4, KindsApart DEF AllIn
  <2>5. ~IsWhole(y)
    BY <2>4 DEF IsWhole
  <2>6. ~IsFloatNumber(y)
    <3>1. ASSUME NEW i \in 1 .. Len(y), NEW j \in i .. Len(y), NEW k \in j .. Len(y),
                 DecimalSplit(y, i, j, k)
          PROVE  FALSE
      <4>1. (j = i \/ j > i) /\ (k = j \/ k > j)
        BY <2>1, <2>2
      <4>. QED  BY <2>4, <3>1, <4>1
    <3>. QED  BY <3>1 DEF IsFloatNumber
  <2>7. IsHexNumber(y)
    <3>1. IsLexeme(y)
      BY <1>6 DEF y
    <3>2. ~IsWord(y) /\ y \notin Spelled
      BY <2>2, <2>3, FirstOfLexeme, KindsApart
    <3>. QED  BY <2>5, <2>6, <3>1, <3>2 DEF IsLexeme
  <2>8. PICK k \in 2 .. n - p : AllIn(y, 3, k, HexDigit) /\ AllIn(y, k + 1, n - p, Suffix)
    BY <2>2, <2>7 DEF IsHexNumber
  <2>9. \A q \in p + 3 .. p + k : s[q] \in HexDigit
    BY <2>8, <2>1, <2>a
  <2>10. \A q \in p + (k + 1) .. p + (n - p) : s[q] \in Suffix
    <3>1. k + 1 \in Nat /\ k + 1 # 0 /\ n - p <= n - p
      BY <2>1
    <3>. QED  BY <2>8, <2>1, <3>1, <2>a
  <2>11. CASE e + 1 <= p + k
    <3>1. h + 1 \in p + 3 .. p + k /\ h < Len(s)
      BY <1>0, <2>1, <2>11
    <3>. QED  BY <2>9, <3>1
  <2>12. CASE e + 1 > p + k
    <3>1. e + 1 \in p + (k + 1) .. p + (n - p)
      BY <1>0, <2>1, <2>12
    <3>. QED  BY <2>1, <2>10, <3>1
  <2>. QED  BY <2>11, <2>12
<1>. QED
  BY <1>5, <1>6

-----------------------------------------------------------------------------
(* Decimal numbers.                                                        *)

\* DecimalSplit for the slice from p to n, by the positions of the text.
SplitIn(s, p, n, i, j, k) ==
    /\ \A q \in p + 1 .. i : s[q] \in Digit
    /\ j > i => j > i + 1 /\ s[i + 1] = "." /\ \A q \in i + 2 .. j : s[q] \in Digit
    /\ k > j => /\ s[j + 1] = "e"
                /\ k > j + 1 => s[j + 2] \in Sign \cup Digit /\ \A q \in j + 3 .. k : s[q] \in Digit
    /\ \A q \in k + 1 .. n : s[q] \in Suffix

\* Nothing more belongs to the digits up to i, the fraction up to j, the
\* exponent up to k and the suffixes up to n.
SplitEnds(s, n, i, j, k) ==
    /\ i < Len(s) => s[i + 1] \notin Digit
    /\ j = i => ~(At(s, i) = "." /\ At(s, i + 1) \in Digit)
    /\ j < Len(s) => s[j + 1] \notin Digit
    /\ k = j => At(s, j) # "e"
    /\ k = j + 1 => At(s, j + 1) \notin Sign
    /\ k < Len(s) => s[k + 1] \notin Digit
    /\ n < Len(s) => s[n + 1] \notin Suffix

\* The two say the same of a slice.
LEMMA SplitSlice ==
    ASSUME NEW s \in Text, NEW p \in Nat, NEW n \in Nat, p <= n, n <= Len(s),
           NEW i \in Nat, NEW j \in Nat, NEW k \in Nat, i <= j, j <= k, p + k <= n
    PROVE  DecimalSplit(Slice(s, p, n), i, j, k) <=> SplitIn(s, p, n, p + i, p + j, p + k)
<1> DEFINE y == Slice(s, p, n)
<1>1. y \in Text /\ Len(y) = n - p /\ \A m \in 1 .. n - p : y[m] = s[p + m]
  BY SliceIs
<1>2. \A b, m \in Nat : \A S : b # 0 /\ m <= n - p =>
          (AllIn(y, b, m, S) <=> \A q \in p + b .. p + m : s[q] \in S)
  BY AllInSlice
<1>. HIDE DEF y
<1>3. AllIn(y, 1, i, Digit) <=> \A q \in p + 1 .. p + i : s[q] \in Digit
  <2>1. i <= n - p
    OBVIOUS
  <2>. QED  BY <1>2, <2>1
<1>4. AllIn(y, i + 2, j, Digit) <=> \A q \in (p + i) + 2 .. p + j : s[q] \in Digit
  <2>1. j <= n - p /\ i + 2 \in Nat /\ i + 2 # 0 /\ p + (i + 2) = (p + i) + 2
    OBVIOUS
  <2>2. AllIn(y, i + 2, j, Digit) <=> \A q \in p + (i + 2) .. p + j : s[q] \in Digit
    BY <1>2, <2>1
  <2>. QED  BY <2>1, <2>2
<1>5. AllIn(y, j + 3, k, Digit) <=> \A q \in (p + j) + 3 .. p + k : s[q] \in Digit
  <2>1. k <= n - p /\ j + 3 \in Nat /\ j + 3 # 0 /\ p + (j + 3) = (p + j) + 3
    OBVIOUS
  <2>2. AllIn(y, j + 3, k, Digit) <=> \A q \in p + (j + 3) .. p + k : s[q] \in Digit
    BY <1>2, <2>1
  <2>. QED  BY <2>1, <2>2
<1>6. AllIn(y, k + 1, n - p, Suffix) <=> \A q \in (p + k) + 1 .. n : s[q] \in Suffix
  <2>1. n - p \in Nat /\ n - p <= n - p /\ k + 1 \in Nat /\ k + 1 # 0
        /\ p + (k + 1) = (p + k) + 1 /\ p + (n - p) = n
    OBVIOUS
  <2>2. AllIn(y, k + 1, n - p, Suffix) <=> \A q \in p + (k + 1) .. p + (n - p) : s[q] \in Suffix
    BY <1>2, <2>1
  <2>. QED  BY <2>1, <2>2
<1>7. j > i => y[i + 1] = s[(p + i) + 1]
  <2>1. j > i => i + 1 \in 1 .. n - p /\ p + (i + 1) = (p + i) + 1
    OBVIOUS
  <2>. QED  BY <1>1, <2>1
<1>8. k > j => y[j + 1] = s[(p + j) + 1]
  <2>1. k > j => j + 1 \in 1 .. n - p /\ p + (j + 1) = (p + j) + 1
    OBVIOUS
  <2>. QED  BY <1>1, <2>1
<1>9. k > j + 1 => y[j + 2] = s[(p + j) + 2]
  <2>1. k > j + 1 => j + 2 \in 1 .. n - p /\ p + (j + 2) = (p + j) + 2
    OBVIOUS
  <2>. QED  BY <1>1, <2>1
<1>10. /\ j > i <=> p + j > p + i
       /\ j > i + 1 <=> p + j > (p + i) + 1
       /\ k > j <=> p + k > p + j
       /\ k > j + 1 <=> p + k > (p + j) + 1
  OBVIOUS
<1>11. DecimalSplit(y, i, j, k) <=>
          /\ AllIn(y, 1, i, Digit)
          /\ j > i => j > i + 1 /\ y[i + 1] = "." /\ AllIn(y, i + 2, j, Digit)
          /\ k > j => /\ y[j + 1] = "e"
                      /\ k > j + 1 => y[j + 2] \in Sign \cup Digit /\ AllIn(y, j + 3, k, Digit)
          /\ AllIn(y, k + 1, n - p, Suffix)
  BY <1>1 DEF DecimalSplit
<1>. QED
  BY <1>3, <1>4, <1>5, <1>6, <1>7, <1>8, <1>9, <1>10, <1>11, Zenon DEF SplitIn, y

\* No longer slice has a split.
LEMMA SplitLongest ==
    ASSUME NEW s \in Text, NEW p \in Nat, NEW d \in Nat, NEW f \in Nat, NEW g \in Nat, NEW e \in Nat,
           p < d, d <= f, f <= g, g <= e, e <= Len(s),
           SplitIn(s, p, e, d, f, g), SplitEnds(s, e, d, f, g),
           NEW n \in Nat, e < n, n <= Len(s),
           NEW i \in Nat, NEW j \in Nat, NEW k \in Nat, p < i, i <= j, j <= k, k <= n,
           SplitIn(s, p, n, i, j, k)
    PROVE  FALSE
<1>0. Len(s) \in Nat
  BY DEF Text
<1>1. /\ \A q \in p + 1 .. d : s[q] \in Digit
      /\ f > d => f > d + 1 /\ s[d + 1] = "." /\ \A q \in d + 2 .. f : s[q] \in Digit
      /\ g > f => s[f + 1] = "e"
      /\ g > f + 1 => s[f + 2] \in Sign \cup Digit /\ \A q \in f + 3 .. g : s[q] \in Digit
  BY DEF SplitIn
<1>2. /\ \A q \in p + 1 .. i : s[q] \in Digit
      /\ j > i => j > i + 1 /\ s[i + 1] = "." /\ \A q \in i + 2 .. j : s[q] \in Digit
      /\ k > j => s[j + 1] = "e"
      /\ k > j + 1 => s[j + 2] \in Sign \cup Digit /\ \A q \in j + 3 .. k : s[q] \in Digit
      /\ \A q \in k + 1 .. n : s[q] \in Suffix
  BY DEF SplitIn
<1>3. /\ s[d + 1] \notin Digit
      /\ f = d => ~(s[d + 1] = "." /\ At(s, d + 1) \in Digit)
      /\ s[f + 1] \notin Digit
      /\ g = f => s[f + 1] # "e"
      /\ g = f + 1 => s[f + 2] \notin Sign
      /\ s[g + 1] \notin Digit
      /\ s[e + 1] \notin Suffix
  <2>1. d < Len(s) /\ f < Len(s) /\ g < Len(s) /\ e < Len(s)
    BY <1>0
  <2>2. At(s, d) = s[d + 1] /\ At(s, f) = s[f + 1]
    BY <2>1 DEF At
  <2>3. g = f + 1 => At(s, f + 1) = s[f + 2]
    <3>1. g = f + 1 => f + 1 < Len(s) /\ (f + 1) + 1 = f + 2
      BY <2>1
    <3>. QED  BY <3>1 DEF At
  <2>. QED  BY <2>1, <2>2, <2>3 DEF SplitEnds
<1>a. ASSUME NEW q \in Nat, k < q, q <= n PROVE s[q] \in Suffix
  <2>1. q \in k + 1 .. n
    BY <1>a
  <2>. QED  BY <1>2, <2>1
<1>4. i = d
  <2>1. CASE i < d
    <3>1. s[i + 1] \in Digit
      <4>1. i + 1 \in p + 1 .. d
        BY <2>1
      <4>. QED  BY <1>1, <4>1
    <3>2. j = i /\ k = j
      BY <1>2, <3>1, KindsApart
    <3>3. s[i + 1] \in Suffix
      <4>1. i + 1 \in Nat /\ k < i + 1 /\ i + 1 <= n
        BY <2>1, <3>2
      <4>. QED  BY <1>a, <4>1
    <3>. QED  BY <3>1, <3>3, KindsApart
  <2>2. CASE i > d
    <3>1. d + 1 \in p + 1 .. i
      BY <2>2
    <3>. QED  BY <1>2, <1>3, <3>1
  <2>. QED  BY <2>1, <2>2
<1>5. j = f
  <2>1. CASE j > d
    <3>1. s[d + 1] = "." /\ j > d + 1
      BY <1>2, <1>4, <2>1
    <3>2. s[d + 2] \in Digit /\ d + 1 < Len(s)
      <4>1. d + 2 \in d + 2 .. j /\ d + 1 < Len(s)
        BY <1>0, <3>1
      <4>. QED  BY <1>2, <1>4, <2>1, <4>1
    <3>3. f # d
      <4>1. At(s, d + 1) = s[d + 2]
        <5>1. (d + 1) + 1 = d + 2
          OBVIOUS
        <5>. QED  BY <3>2, <5>1 DEF At
      <4>. QED  BY <1>3, <3>1, <3>2, <4>1
    <3>4. CASE j < f
      <4>1. j + 1 \in d + 2 .. f
        BY <3>1, <3>4
      <4>2. s[j + 1] \in Digit
        BY <1>1, <3>3, <4>1
      <4>3. k = j
        BY <1>2, <4>2, KindsApart
      <4>4. j + 1 \in Nat /\ k < j + 1 /\ j + 1 <= n
        BY <3>4, <4>3
      <4>. QED  BY <1>a, <4>2, <4>4, KindsApart
    <3>5. CASE j > f
      <4>1. f + 1 \in d + 2 .. j
        BY <3>3, <3>5
      <4>. QED  BY <1>2, <1>3, <1>4, <2>1, <4>1
    <3>. QED  BY <3>4, <3>5
  <2>2. CASE j = d /\ f > d
    <3>1. s[d + 1] = "."
      BY <1>1, <2>2
    <3>2. k = j
      BY <1>2, <2>2, <3>1
    <3>3. d + 1 \in Nat /\ k < d + 1 /\ d + 1 <= n
      BY <2>2, <3>2
    <3>. QED  BY <1>a, <3>1, <3>3, KindsApart
  <2>. QED  BY <1>4, <2>1, <2>2
<1>6. k = g
  <2>1. CASE k = f /\ g > f
    <3>1. f + 1 \in Nat /\ k < f + 1 /\ f + 1 <= n
      BY <2>1
    <3>. QED  BY <1>1, <1>a, <2>1, <3>1, KindsApart
  <2>2. CASE k > f
    <3>1. g > f
      BY <1>2, <1>3, <1>5, <2>2
    <3>2. CASE k = f + 1 /\ g > f + 1
      <4>1. f + 2 \in Nat /\ k < f + 2 /\ f + 2 <= n
        BY <3>2
      <4>2. s[f + 2] \in Suffix
        BY <1>a, <4>1
      <4>. QED  BY <1>1, <3>2, <4>2, KindsApart
    <3>3. CASE k > f + 1
      <4>1. s[f + 2] \in Sign \cup Digit /\ \A q \in f + 3 .. k : s[q] \in Digit
        BY <1>2, <1>5, <3>3
      <4>2. g > f + 1
        <5>1. CASE g = f + 1
          <6>1. g + 1 = f + 2
            BY <5>1
          <6>. QED  BY <1>3, <4>1, <5>1, <6>1
        <5>. QED  BY <3>1, <5>1
      <4>3. CASE k < g
        <5>1. k + 1 \in f + 3 .. g /\ k + 1 \in Nat /\ k < k + 1 /\ k + 1 <= n
          BY <3>3, <4>3
        <5>2. s[k + 1] \in Digit /\ s[k + 1] \in Suffix
          BY <1>1, <1>a, <4>2, <5>1
        <5>. QED  BY <5>2, KindsApart
      <4>4. CASE k > g
        <5>1. g + 1 \in f + 3 .. k
          BY <4>2, <4>4
        <5>. QED  BY <1>3, <4>1, <5>1
      <4>. QED  BY <4>3, <4>4
    <3>. QED  BY <2>2, <3>1, <3>2, <3>3
  <2>. QED  BY <1>5, <2>1, <2>2
<1>7. s[e + 1] \in Suffix
  <2>1. e + 1 \in Nat /\ k < e + 1 /\ e + 1 <= n
    BY <1>6
  <2>. QED  BY <1>a, <2>1
<1>. QED
  BY <1>3, <1>7

\* The fraction behind digits that end at d.
LEMMA FractionIs ==
    ASSUME NEW s \in Text, NEW d \in Nat, d <= Len(s), d < Len(s) => s[d + 1] \notin Digit,
           NEW f, f = IF At(s, d) = "." /\ At(s, d + 1) \in Digit
                      THEN RunEnd(s, d + 1, Digit) ELSE d
    PROVE  /\ f \in Nat /\ d <= f /\ f <= Len(s)
           /\ f > d => f > d + 1 /\ s[d + 1] = "." /\ \A q \in d + 2 .. f : s[q] \in Digit
           /\ f = d => ~(At(s, d) = "." /\ At(s, d + 1) \in Digit)
           /\ f < Len(s) => s[f + 1] \notin Digit
<1>0. Len(s) \in Nat
  BY DEF Text
<1>1. CASE At(s, d) = "." /\ At(s, d + 1) \in Digit
  <2>1. d + 1 < Len(s) /\ s[d + 1] = "." /\ s[d + 2] \in Digit
    <3>1. (d + 1) + 1 = d + 2 /\ d + 1 \in Nat
      OBVIOUS
    <3>2. At(s, d + 1) # "nul"
      BY <1>1 DEF Digit
    <3>. QED  BY <1>0, <1>1, <3>1, <3>2, AtInside DEF At
  <2>2. /\ f \in d + 1 .. Len(s)
        /\ \A q \in (d + 1) + 1 .. f : s[q] \in Digit
        /\ f < Len(s) => s[f + 1] \notin Digit
    <3>1. d + 1 \in 0 .. Len(s) /\ f = RunEnd(s, d + 1, Digit)
      BY <1>0, <1>1, <2>1
    <3>. QED  BY <3>1, RunEndIs
  <2>3. f \in Nat /\ d < f /\ f <= Len(s)
    BY <1>0, <2>2
  <2>4. \A q \in d + 2 .. f : s[q] \in Digit
    <3>1. (d + 1) + 1 = d + 2
      OBVIOUS
    <3>. QED  BY <2>2, <3>1
  <2>5. f # d + 1
    <3>1. f = d + 1 => s[f + 1] = s[d + 2]
      OBVIOUS
    <3>. QED  BY <2>1, <2>2, <3>1
  <2>. QED  BY <2>1, <2>2, <2>3, <2>4, <2>5
<1>2. CASE ~(At(s, d) = "." /\ At(s, d + 1) \in Digit)
  BY <1>2
<1>. QED
  BY <1>1, <1>2

\* The exponent behind a fraction that ends at f.
LEMMA ExponentIs ==
    ASSUME NEW s \in Text, NEW f \in Nat, f <= Len(s), f < Len(s) => s[f + 1] \notin Digit,
           NEW g, g = IF At(s, f) = "e"
                      THEN RunEnd(s, IF At(s, f + 1) \in Sign THEN f + 2 ELSE f + 1, Digit)
                      ELSE f
    PROVE  /\ g \in Nat /\ f <= g /\ g <= Len(s)
           /\ g > f => /\ s[f + 1] = "e"
                       /\ g > f + 1 => /\ s[f + 2] \in Sign \cup Digit
                                       /\ \A q \in f + 3 .. g : s[q] \in Digit
           /\ g = f => At(s, f) # "e"
           /\ g = f + 1 => At(s, f + 1) \notin Sign
           /\ g < Len(s) => s[g + 1] \notin Digit
<1>0. Len(s) \in Nat
  BY DEF Text
<1>1. CASE At(s, f) = "e"
  <2> DEFINE x == IF At(s, f + 1) \in Sign THEN f + 2 ELSE f + 1
  <2>1. f < Len(s) /\ s[f + 1] = "e"
    BY <1>1, AtInside DEF At
  <2>2. At(s, f + 1) \in Sign => f + 1 < Len(s) /\ s[f + 2] \in Sign
    <3>1. (f + 1) + 1 = f + 2 /\ f + 1 \in Nat
      OBVIOUS
    <3>2. At(s, f + 1) \in Sign => At(s, f + 1) # "nul"
      BY DEF Sign
    <3>. QED  BY <3>1, <3>2, AtInside DEF At
  <2>3. x \in Nat /\ x <= Len(s) /\ (x = f + 1 \/ x = f + 2)
    BY <1>0, <2>1, <2>2
  <2>. HIDE DEF x
  <2>4. /\ g \in x .. Len(s)
        /\ \A q \in x + 1 .. g : s[q] \in Digit
        /\ g < Len(s) => s[g + 1] \notin Digit
    <3>1. x \in 0 .. Len(s) /\ g = RunEnd(s, x, Digit)
      BY <1>0, <1>1, <2>3 DEF x
    <3>. QED  BY <3>1, RunEndIs
  <2>5. g \in Nat /\ f < g /\ g <= Len(s) /\ x <= g
    BY <1>0, <2>3, <2>4
  <2>6. ASSUME g > f + 1
        PROVE  s[f + 2] \in Sign \cup Digit /\ \A q \in f + 3 .. g : s[q] \in Digit
    <3>1. CASE x = f + 2
      <4>1. At(s, f + 1) \in Sign
        BY <3>1 DEF x
      <4>2. x + 1 = f + 3
        BY <3>1
      <4>. QED  BY <2>2, <2>4, <4>1, <4>2
    <3>2. CASE x = f + 1
      <4>1. f + 2 \in x + 1 .. g /\ \A q \in f + 3 .. g : q \in x + 1 .. g
        BY <2>5, <2>6, <3>2
      <4>. QED  BY <2>4, <4>1
    <3>. QED  BY <2>3, <3>1, <3>2
  <2>7. g = f + 1 => At(s, f + 1) \notin Sign
    <3>1. g = f + 1 => x # f + 2
      BY <2>5
    <3>. QED  BY <3>1 DEF x
  <2>. QED  BY <2>1, <2>4, <2>5, <2>6, <2>7
<1>2. CASE At(s, f) # "e"
  BY <1>2
<1>. QED
  BY <1>1, <1>2

\* lexNumber stops where the split of its digits, fraction, exponent and
\* suffixes does.
LEMMA DecimalParts ==
    ASSUME NEW s \in Text, NEW p \in Nat, p < Len(s), s[p + 1] \in Digit,
           NEW d, d = RunEnd(s, p, Digit), NEW f, f = FractionEnd(s, p),
           NEW g, g = ExponentEnd(s, p), NEW e, e = RunEnd(s, g, Suffix)
    PROVE  /\ d \in Nat /\ f \in Nat /\ g \in Nat /\ e \in Nat
           /\ p < d /\ d <= f /\ f <= g /\ g <= e /\ e <= Len(s)
           /\ SplitIn(s, p, e, d, f, g) /\ SplitEnds(s, e, d, f, g)
<1>0. Len(s) \in Nat /\ p \in 0 .. Len(s)
  BY DEF Text
<1>1. /\ d \in p .. Len(s)
      /\ \A q \in p + 1 .. d : s[q] \in Digit
      /\ d < Len(s) => s[d + 1] \notin Digit
  BY <1>0, RunEndIs
<1>2. d \in Nat /\ p < d /\ d <= Len(s)
  BY <1>0, <1>1
<1>3. /\ f \in Nat /\ d <= f /\ f <= Len(s)
      /\ f > d => f > d + 1 /\ s[d + 1] = "." /\ \A q \in d + 2 .. f : s[q] \in Digit
      /\ f = d => ~(At(s, d) = "." /\ At(s, d + 1) \in Digit)
      /\ f < Len(s) => s[f + 1] \notin Digit
  <2>1. f = IF At(s, d) = "." /\ At(s, d + 1) \in Digit THEN RunEnd(s, d + 1, Digit) ELSE d
    BY DEF FractionEnd
  <2>. QED  BY <1>1, <1>2, <2>1, FractionIs
<1>4. /\ g \in Nat /\ f <= g /\ g <= Len(s)
      /\ g > f => /\ s[f + 1] = "e"
                  /\ g > f + 1 => /\ s[f + 2] \in Sign \cup Digit
                                  /\ \A q \in f + 3 .. g : s[q] \in Digit
      /\ g = f => At(s, f) # "e"
      /\ g = f + 1 => At(s, f + 1) \notin Sign
      /\ g < Len(s) => s[g + 1] \notin Digit
  <2>1. g = IF At(s, f) = "e"
            THEN RunEnd(s, IF At(s, f + 1) \in Sign THEN f + 2 ELSE f + 1, Digit)
            ELSE f
    BY DEF ExponentEnd
  <2>. QED  BY <1>3, <2>1, ExponentIs
<1>5. /\ e \in g .. Len(s)
      /\ \A q \in g + 1 .. e : s[q] \in Suffix
      /\ e < Len(s) => s[e + 1] \notin Suffix
  <2>1. g \in 0 .. Len(s)
    BY <1>0, <1>4
  <2>. QED  BY <2>1, RunEndIs
<1>6. e \in Nat /\ g <= e /\ e <= Len(s)
  BY <1>0, <1>4, <1>5
<1>7. SplitIn(s, p, e, d, f, g)
  BY <1>1, <1>3, <1>4, <1>5 DEF SplitIn
<1>8. SplitEnds(s, e, d, f, g)
  BY <1>1, <1>3, <1>4, <1>5 DEF SplitEnds
<1>. QED
  BY <1>2, <1>3, <1>4, <1>6, <1>7, <1>8

\* A number is the longest lexeme at its place and has the type lexNumber
\* gives it.
LEMMA NumberIsLongest ==
    ASSUME NEW s \in Text, NEW p \in Nat, p < Len(s), s[p + 1] \in Digit,
           NEW e, e = NumberEnd(s, p),
           NEW type, type = IF IsFloat(s, p) THEN <<"LFloat">> ELSE <<"LInt">>
    PROVE  /\ HasType(Slice(s, p, e), type)
           /\ \A n \in e + 1 .. Len(s) : ~IsLexeme(Slice(s, p, n))
<1>0. Len(s) \in Nat /\ p \in 0 .. Len(s)
  BY DEF Text
<1>1. CASE IsHex(s, p)
  <2> DEFINE h == RunEnd(s, p + 2, HexDigit)
  <2>1. e = RunEnd(s, h, Suffix) /\ type = <<"LInt">>
    BY <1>1 DEF NumberEnd, IsFloat
  <2>2. p + 2 \in 0 .. Len(s) /\ p + 2 \in Nat /\ s[p + 1] = "0" /\ s[p + 2] = "x"
    <3>1. (p + 1) + 1 = p + 2 /\ p + 1 \in Nat
      OBVIOUS
    <3>2. At(s, p) = "0" /\ At(s, p + 1) = "x"
      BY <1>1 DEF IsHex
    <3>3. p + 1 < Len(s)
      BY <3>1, <3>2, AtInside
    <3>. QED  BY <1>0, <3>1, <3>2, <3>3 DEF At
  <2>3. /\ h \in p + 2 .. Len(s)
        /\ \A q \in (p + 2) + 1 .. h : s[q] \in HexDigit
        /\ h < Len(s) => s[h + 1] \notin HexDigit
    BY <2>2, RunEndIs
  <2>. HIDE DEF h
  <2>4. h \in Nat /\ p + 2 <= h /\ h \in 0 .. Len(s) /\ (p + 2) + 1 = p + 3
    BY <1>0, <2>3
  <2>5. /\ e \in h .. Len(s)
        /\ \A q \in h + 1 .. e : s[q] \in Suffix
        /\ e < Len(s) => s[e + 1] \notin Suffix
    BY <2>1, <2>4, RunEndIs
  <2>6. e \in Nat /\ h <= e /\ e <= Len(s)
    BY <1>0, <2>4, <2>5
  <2>7. \A q \in p + 3 .. h : s[q] \in HexDigit
    BY <2>3, <2>4
  <2>8. /\ IsHexNumber(Slice(s, p, e))
        /\ \A n \in e + 1 .. Len(s) : ~IsLexeme(Slice(s, p, n))
    BY <2>2, <2>3, <2>4, <2>5, <2>6, <2>7, HexLongest
  <2>. QED  BY <2>1, <2>8 DEF HasType
<1>2. CASE ~IsHex(s, p)
  <2> DEFINE d == RunEnd(s, p, Digit)
             f == FractionEnd(s, p)
             g == ExponentEnd(s, p)
  <2>1. e = RunEnd(s, g, Suffix) /\ type = IF g > d THEN <<"LFloat">> ELSE <<"LInt">>
    BY <1>2 DEF NumberEnd, IsFloat
  <2>2. /\ d \in Nat /\ f \in Nat /\ g \in Nat /\ e \in Nat
        /\ p < d /\ d <= f /\ f <= g /\ g <= e /\ e <= Len(s)
        /\ SplitIn(s, p, e, d, f, g) /\ SplitEnds(s, e, d, f, g)
    BY <2>1, DecimalParts
  <2>. HIDE DEF d, f, g
  <2>3. DecimalSplit(Slice(s, p, e), d - p, f - p, g - p)
    <3>1. /\ d - p \in Nat /\ f - p \in Nat /\ g - p \in Nat
          /\ d - p <= f - p /\ f - p <= g - p /\ p + (g - p) <= e /\ p <= e
          /\ p + (d - p) = d /\ p + (f - p) = f /\ p + (g - p) = g
      BY <2>2
    <3>2. DecimalSplit(Slice(s, p, e), d - p, f - p, g - p)
            <=> SplitIn(s, p, e, p + (d - p), p + (f - p), p + (g - p))
      BY <2>2, <3>1, SplitSlice
    <3>. QED  BY <2>2, <3>1, <3>2
  <2>4. Len(Slice(s, p, e)) = e - p /\ Slice(s, p, e) \in Text
    <3>1. p <= e
      BY <2>2
    <3>. QED  BY <2>2, <3>1, SliceIs
  <2>5. HasType(Slice(s, p, e), type)
    <3>1. CASE g > d
      <4>1. /\ d - p \in 1 .. e - p /\ f - p \in d - p .. e - p /\ g - p \in f - p .. e - p
            /\ g - p > d - p
        BY <2>2, <3>1
      <4>2. IsFloatNumber(Slice(s, p, e))
        BY <2>3, <2>4, <4>1 DEF IsFloatNumber
      <4>. QED  BY <2>1, <3>1, <4>2 DEF HasType
    <3>2. CASE ~(g > d)
      <4>1. d - p \in 1 .. e - p /\ f - p = d - p /\ g - p = d - p
        BY <2>2, <3>2
      <4>2. IsWhole(Slice(s, p, e))
        BY <2>3, <2>4, <4>1 DEF IsWhole
      <4>. QED  BY <2>1, <3>2, <4>2 DEF HasType
    <3>. QED  BY <3>1, <3>2
  <2>6. ASSUME NEW n \in e + 1 .. Len(s), IsLexeme(Slice(s, p, n)) PROVE FALSE
    <3> DEFINE y == Slice(s, p, n)
    <3>1. n \in Nat /\ e < n /\ n <= Len(s) /\ p <= n /\ n - p \in Nat /\ n - p >= 1 /\ p < n
      BY <1>0, <2>2
    <3>2. y \in Text /\ Len(y) = n - p /\ \A k \in 1 .. n - p : y[k] = s[p + k]
      BY <3>1, SliceIs
    <3>3. y[1] = s[p + 1]
      BY <3>1, <3>2
    <3>4. ASSUME NEW i \in 1 .. n - p, NEW j \in i .. n - p, NEW k \in j .. n - p,
                 DecimalSplit(y, i, j, k)
          PROVE  FALSE
      <4>1. i \in Nat /\ j \in Nat /\ k \in Nat /\ i <= j /\ j <= k /\ p + k <= n
        BY <3>1
      <4>2. SplitIn(s, p, n, p + i, p + j, p + k)
        BY <3>1, <3>4, <4>1, SplitSlice
      <4>3. /\ p + i \in Nat /\ p + j \in Nat /\ p + k \in Nat
            /\ p < p + i /\ p + i <= p + j /\ p + j <= p + k /\ p + k <= n
        BY <3>1, <4>1
      <4>. QED  BY <2>2, <3>1, <4>2, <4>3, SplitLongest
    <3>5. IsLexeme(y)
      BY <2>6
    <3>. HIDE DEF y
    <3>6. ~IsWord(y) /\ y \notin Spelled
      BY <3>2, <3>3, FirstOfLexeme, KindsApart
    <3>7. ~IsHexNumber(y)
      <4>1. ASSUME IsHexNumber(y) PROVE FALSE
        <5>1. y[1] = "0" /\ y[2] = "x" /\ n - p >= 2
          BY <3>2, <4>1, FirstOfLexeme
        <5>2. s[p + 1] = "0" /\ s[p + 2] = "x" /\ p + 1 < Len(s) /\ (p + 1) + 1 = p + 2
          <6>1. 1 \in 1 .. n - p /\ 2 \in 1 .. n - p
            BY <3>1, <5>1
          <6>2. p + 1 < Len(s)
            BY <1>0, <3>1, <5>1
          <6>. QED  BY <3>2, <5>1, <6>1, <6>2
        <5>. QED  BY <1>2, <5>2 DEF IsHex, At
      <4>. QED  BY <4>1
    <3>8. ~IsWhole(y)
      <4>1. \A i \in 1 .. n - p : ~DecimalSplit(y, i, i, i)
        <5>. TAKE i \in 1 .. n - p
        <5>1. i \in i .. n - p
          BY <3>1
        <5>. QED  BY <3>4, <5>1
      <4>. QED  BY <3>2, <4>1 DEF IsWhole
    <3>9. ~IsFloatNumber(y)
      BY <3>2, <3>4 DEF IsFloatNumber
    <3>. QED  BY <3>5, <3>6, <3>7, <3>8, <3>9 DEF IsLexeme
  <2>. QED  BY <2>5, <2>6
<1>. QED
  BY <1>1, <1>2

-----------------------------------------------------------------------------
(* Operators.                                                              *)

\* The operator switch knows the language's spellings of two and three
\* characters, and no others.
LEMMA SwitchIsSpelling ==
    /\ Pair \cup Triple \subseteq Spelled
    /\ \A c \in Operators : <<c>> \in Spelled
    /\ \A c, d : <<c, d>> \in Spelled => <<c, d>> \in Pair
    /\ \A c, d, e : <<c, d, e>> \in Spelled => <<c, d, e>> \in Triple
    /\ \A c, d : <<c, d>> \in Pair => c \in Operators
    /\ \A c, d, e : <<c, d, e>> \in Triple => c \in Operators
<1>1. \A x \in Pair : x \in Spelled
  BY DEF Pair, Spelled
<1>2. \A x \in Triple : x \in Spelled
  BY DEF Triple, Spelled
<1>3. \A c \in Operators : <<c>> \in Spelled
  BY DEF Spelled
<1>4. ASSUME NEW c, NEW d, <<c, d>> \in Spelled PROVE <<c, d>> \in Pair
  <2>1. CASE c = d /\ c \in {"+", "-", "=", "&", "|", ">", "<", ":", "/"}
    BY <2>1 DEF Pair
  <2>2. CASE d = "=" /\ c \in {"+", "-", "*", "/", "%", "&", "|", "~", "^", "!", ">", "<"}
    BY <2>2 DEF Pair
  <2>3. CASE c = "-" /\ d = ">"
    BY <2>3 DEF Pair
  <2>. QED  BY <1>4, <2>1, <2>2, <2>3 DEF Spelled
<1>5. ASSUME NEW c, NEW d, NEW e, <<c, d, e>> \in Spelled PROVE <<c, d, e>> \in Triple
  BY <1>5 DEF Spelled, Triple
<1>6. ASSUME NEW c, NEW d, <<c, d>> \in Pair PROVE c \in Operators
  BY <1>6 DEF Pair, Operators
<1>7. ASSUME NEW c, NEW d, NEW e, <<c, d, e>> \in Triple PROVE c \in Operators
  BY <1>7 DEF Triple, Operators
<1>. QED
  BY <1>1, <1>2, <1>3, <1>4, <1>5, <1>6, <1>7

\* What the operator switch takes at p, and where that ends.
Taken(s, p, x, e) ==
    LET pair   == <<At(s, p), At(s, p + 1)>>
        triple == <<At(s, p), At(s, p + 1), At(s, p + 2)>>
    IN  \/ x = triple /\ x \in Triple /\ e = p + 3
        \/ x = pair /\ x \in Pair /\ triple \notin Triple /\ e = p + 2
        \/ x = <<At(s, p)>> /\ pair \notin Pair /\ triple \notin Triple /\ e = p + 1

\* The switch decides on three characters of look-ahead.
LEMMA LexemeIsTaken ==
    ASSUME NEW s \in Text, NEW p \in Nat, NEW x,
           x = Lexeme(At(s, p), At(s, p + 1), At(s, p + 2))
    PROVE  Taken(s, p, x, p + Len(x))
BY DEF Taken, Lexeme

\* An operator is the longest lexeme at its place; where the switch knows
\* none, there is none.
LEMMA OperatorIsLongest ==
    ASSUME NEW s \in Text, NEW p \in Nat, p < Len(s), s[p + 1] \notin WordChar,
           NEW x, NEW e \in Nat, Taken(s, p, x, e), e <= Len(s)
    PROVE  /\ p < e
           /\ s[p + 1] \in Operators =>
                /\ HasType(Slice(s, p, e), x)
                /\ \A n \in e + 1 .. Len(s) : ~IsLexeme(Slice(s, p, n))
           /\ s[p + 1] \notin Operators => e = p + 1 /\ ~IsLexeme(Slice(s, p, e))
<1> DEFINE c == At(s, p)
           d == At(s, p + 1)
           o == At(s, p + 2)
<1>0. Len(s) \in Nat
  BY DEF Text
<1>1. c = s[p + 1]
  BY DEF At
<1>2. p + 1 < Len(s) => d = s[p + 2]
  <2>1. (p + 1) + 1 = p + 2
    OBVIOUS
  <2>. QED  BY <2>1 DEF At
<1>3. p + 2 < Len(s) => o = s[p + 3]
  <2>1. (p + 2) + 1 = p + 3
    OBVIOUS
  <2>. QED  BY <2>1 DEF At
<1>4. \/ x = <<c, d, o>> /\ x \in Triple /\ e = p + 3
      \/ x = <<c, d>> /\ x \in Pair /\ <<c, d, o>> \notin Triple /\ e = p + 2
      \/ x = <<c>> /\ <<c, d>> \notin Pair /\ <<c, d, o>> \notin Triple /\ e = p + 1
  BY DEF Taken
<1>. HIDE DEF c, d, o
<1>b. e = p + 1 \/ e = p + 2 \/ e = p + 3
  BY <1>4
<1>5. p < e
  BY <1>b
<1>a. ASSUME NEW n \in Nat, p < n, n <= Len(s), IsLexeme(Slice(s, p, n))
      PROVE  /\ Slice(s, p, n) \in Spelled
             /\ Len(Slice(s, p, n)) = n - p /\ n - p \in {1, 2, 3}
             /\ \A k \in 1 .. n - p : Slice(s, p, n)[k] = s[p + k]
  <2> DEFINE y == Slice(s, p, n)
  <2>1. y \in Text /\ Len(y) = n - p /\ \A k \in 1 .. n - p : y[k] = s[p + k]
    <3>1. p <= n
      BY <1>a
    <3>. QED  BY <1>a, <3>1, SliceIs
  <2>2. y[1] = s[p + 1]
    <3>1. 1 \in 1 .. n - p
      BY <1>a
    <3>. QED  BY <2>1, <3>1
  <2>. HIDE DEF y
  <2>3. ~(y[1] \in Letter) /\ ~(y[1] \in Digit)
    BY <2>2 DEF WordChar
  <2>4. y \in Spelled /\ Len(y) \in {1, 2, 3}
    <3>1. IsLexeme(y)
      BY <1>a DEF y
    <3>. QED  BY <2>1, <2>3, <3>1, FirstOfLexeme, KindsApart DEF IsLexeme
  <2>. QED  BY <2>1, <2>4 DEF y
<1>6. ASSUME s[p + 1] \in Operators PROVE HasType(Slice(s, p, e), x)
  <2>1. x \in Spelled
    BY <1>1, <1>4, <1>6, SwitchIsSpelling
  <2>2. Slice(s, p, e) = x
    <3> DEFINE y == Slice(s, p, e)
    <3>1. y \in Text /\ Len(y) = e - p /\ \A k \in 1 .. e - p : y[k] = s[p + k]
      <4>1. p <= e
        BY <1>5
      <4>. QED  BY <4>1, SliceIs
    <3>. HIDE DEF y
    <3>3. y \in Seq(Char)
      BY <3>1 DEF Text
    <3>4. CASE x = <<c>> /\ e = p + 1
      <4>1. Len(y) = 1 /\ y[1] = c
        <5>1. e - p = 1 /\ 1 \in 1 .. 1
          BY <3>4
        <5>. QED  BY <1>1, <3>1, <5>1
      <4>2. \A t \in Seq(Char) : Len(t) = 1 => t = <<t[1]>>
        OBVIOUS
      <4>. QED  BY <3>3, <3>4, <4>1, <4>2 DEF y
    <3>5. CASE x = <<c, d>> /\ e = p + 2
      <4>2. Len(y) = 2 /\ y[1] = c /\ y[2] = d
        <5>1. p + 1 < Len(s) /\ e - p = 2
          BY <1>0, <3>5
        <5>2. 1 \in 1 .. 2 /\ 2 \in 1 .. 2
          OBVIOUS
        <5>. QED  BY <1>1, <1>2, <3>1, <5>1, <5>2
      <4>3. \A t \in Seq(Char) : Len(t) = 2 => t = <<t[1], t[2]>>
        OBVIOUS
      <4>. QED  BY <3>3, <3>5, <4>2, <4>3 DEF y
    <3>6. CASE x = <<c, d, o>> /\ e = p + 3
      <4>2. Len(y) = 3 /\ y[1] = c /\ y[2] = d /\ y[3] = o
        <5>1. p + 1 < Len(s) /\ p + 2 < Len(s) /\ e - p = 3
          BY <1>0, <3>6
        <5>2. 1 \in 1 .. 3 /\ 2 \in 1 .. 3 /\ 3 \in 1 .. 3
          OBVIOUS
        <5>. QED  BY <1>1, <1>2, <1>3, <3>1, <5>1, <5>2
      <4>3. \A t \in Seq(Char) : Len(t) = 3 => t = <<t[1], t[2], t[3]>>
        OBVIOUS
      <4>. QED  BY <3>3, <3>6, <4>2, <4>3 DEF y
    <3>. QED  BY <1>4, <3>4, <3>5, <3>6
  <2>. QED  BY <2>1, <2>2 DEF HasType
<1>7. ASSUME NEW n \in e + 1 .. Len(s), IsLexeme(Slice(s, p, n)) PROVE FALSE
  <2> DEFINE y == Slice(s, p, n)
  <2>1. n \in Nat /\ p < n /\ n <= Len(s) /\ e < n
    BY <1>0, <1>5
  <2>2. /\ y \in Spelled
        /\ Len(y) = n - p /\ n - p \in {1, 2, 3}
        /\ \A k \in 1 .. n - p : y[k] = s[p + k]
    BY <1>7, <1>a, <2>1
  <2>3. y \in Seq(Char)
    <3>1. p <= n
      BY <2>1
    <3>2. y \in Text
      BY <2>1, <3>1, SliceIs
    <3>. QED  BY <3>2 DEF Text
  <2>. HIDE DEF y
  <2>5. CASE n - p = 2
    <3>1. Len(y) = 2 /\ y[1] = c /\ y[2] = d
      <4>1. p + 1 < Len(s) /\ 1 \in 1 .. n - p /\ 2 \in 1 .. n - p
        BY <1>0, <2>1, <2>5
      <4>. QED  BY <1>1, <1>2, <2>2, <2>5, <4>1
    <3>2. \A t \in Seq(Char) : Len(t) = 2 => t = <<t[1], t[2]>>
      OBVIOUS
    <3>3. y = <<c, d>>
      BY <2>3, <3>1, <3>2
    <3>4. <<c, d>> \in Pair
      BY <2>2, <3>3, SwitchIsSpelling
    <3>5. e # p + 1
      BY <1>4, <3>4
    <3>. QED  BY <1>b, <2>1, <2>5, <3>5
  <2>6. CASE n - p = 3
    <3>1. Len(y) = 3 /\ y[1] = c /\ y[2] = d /\ y[3] = o
      <4>1. p + 1 < Len(s) /\ p + 2 < Len(s) /\ 1 \in 1 .. n - p /\ 2 \in 1 .. n - p
            /\ 3 \in 1 .. n - p
        BY <1>0, <2>1, <2>6
      <4>. QED  BY <1>1, <1>2, <1>3, <2>2, <2>6, <4>1
    <3>2. \A t \in Seq(Char) : Len(t) = 3 => t = <<t[1], t[2], t[3]>>
      OBVIOUS
    <3>3. y = <<c, d, o>>
      BY <2>3, <3>1, <3>2
    <3>4. <<c, d, o>> \in Triple
      BY <2>2, <3>3, SwitchIsSpelling
    <3>5. e = p + 3
      BY <1>4, <3>4
    <3>. QED  BY <2>1, <2>6, <3>5
  <2>7. n - p # 1
    BY <1>5, <2>1
  <2>. QED  BY <2>2, <2>5, <2>6, <2>7
<1>8. ASSUME s[p + 1] \notin Operators PROVE e = p + 1 /\ ~IsLexeme(Slice(s, p, e))
  <2>2. e = p + 1
    BY <1>1, <1>4, <1>8, SwitchIsSpelling
  <2>3. ASSUME IsLexeme(Slice(s, p, e)) PROVE FALSE
    <3> DEFINE y == Slice(s, p, e)
    <3>1. y \in Spelled /\ Len(y) = e - p /\ \A k \in 1 .. e - p : y[k] = s[p + k]
      BY <1>5, <1>a, <2>3
    <3>2. y \in Text
      <4>1. p <= e
        BY <1>5
      <4>. QED  BY <4>1, SliceIs
    <3>3. y[1] = s[p + 1]
      <4>1. 1 \in 1 .. e - p
        BY <2>2
      <4>. QED  BY <3>1, <4>1
    <3>. HIDE DEF y
    <3>. QED  BY <1>8, <3>1, <3>2, <3>3, FirstOfLexeme
  <2>. QED  BY <2>2, <2>3
<1>. QED
  BY <1>5, <1>6, <1>7, <1>8

-----------------------------------------------------------------------------

\* LongestLexeme for a token from b to e, by the positions of the text.
NoLexeme == {<<"LString">>, <<"LChar">>, <<"Eof">>}

LexemeIn(s, b, e, type) ==
    /\ type = <<"Unknown">> =>
          e = b + 1 /\ s[e] \notin WordChar \cup Quote \cup Blank /\ ~IsLexeme(Slice(s, b, e))
    /\ type \notin NoLexeme \cup {<<"Unknown">>} =>
          /\ HasType(Slice(s, b, e), type)
          /\ \A n \in e + 1 .. Len(s) : ~IsLexeme(Slice(s, b, n))

Lexemes(s, ts) ==
    \A i \in DOMAIN ts : LexemeIn(s, ts[i].globalOffset, End(ts[i]), ts[i].type)

MInv == GInv /\ Lexemes(source, thisExpr)

\* A token is buffered that is the longest lexeme.
LEMMA EmitLexeme ==
    ASSUME GInv, NEW e \in Int, Begin <= e, e <= Len(source), NEW type,
           Emit(Begin, e, type), Lexemes(source, thisExpr),
           LexemeIn(source, Begin, e, type)
    PROVE  Lexemes(source', thisExpr')
<1> DEFINE n == Len(thisExpr)
<1>1. /\ DOMAIN thisExpr' = DOMAIN thisExpr \cup {n + 1}
      /\ \A i \in DOMAIN thisExpr : thisExpr'[i] = thisExpr[i]
      /\ thisExpr'[n + 1].globalOffset = Begin /\ thisExpr'[n + 1].type = type
      /\ End(thisExpr'[n + 1]) = e
      /\ source' = source
  BY EmitUncut
<1>. HIDE DEF n
<1>2. ASSUME NEW i \in DOMAIN thisExpr'
      PROVE  LexemeIn(source', thisExpr'[i].globalOffset, End(thisExpr'[i]), thisExpr'[i].type)
  <2>1. CASE i = n + 1
    BY <1>1, <2>1
  <2>2. CASE i \in DOMAIN thisExpr
    BY <1>1, <2>2 DEF Lexemes
  <2>. QED  BY <1>1, <2>1, <2>2
<1>. QED
  BY <1>2 DEF Lexemes

\* A word is not the name of a type.
LEMMA WordIsNoName ==
    ASSUME NEW text \in Text
    PROVE  WordType(text) # <<"Unknown">>
<1>1. "Unknown" \notin Char
  BY DEF Char, WordChar, Letter, Digit, Quote, Blank, Operators
<1>2. text # <<"Unknown">>
  <2>1. ASSUME text = <<"Unknown">> PROVE FALSE
    <3>1. Len(text) = 1 /\ text[1] = "Unknown"
      BY <2>1
    <3>2. \A t \in Seq(Char) : Len(t) = 1 => t[1] \in Char
      OBVIOUS
    <3>. QED  BY <1>1, <3>1, <3>2 DEF Text
  <2>. QED  BY <2>1
<1>. QED
  BY <1>2 DEF WordType

\* Every step buffers the longest lexeme at the cursor, or nothing.
LEMMA NextMInv == ShortTexts /\ MInv /\ [Next]_vars => MInv'
<1>. SUFFICES ASSUME ShortTexts, MInv, [Next]_vars PROVE MInv'
  OBVIOUS
<1>0. /\ GInv /\ GInv' /\ source \in Text /\ Len(source) \in Nat
      /\ cursor \in 0 .. Len(source) /\ cursor \in Nat /\ start \in Nat
      /\ pc # "literal" => Begin = cursor
      /\ pc = "literal" => Begin = start /\ start < cursor
      /\ Lexemes(source, thisExpr) /\ Len(source) < LengthMod
  BY NextGInv DEF MInv, GInv, IInv, TypeOK, Text, Begin
<1>a. ASSUME UNCHANGED <<source, thisExpr>> PROVE MInv'
  <2>1. Lexemes(source', thisExpr')
    BY <1>0, <1>a
  <2>. QED  BY <1>0, <2>1 DEF MInv
<1>b. \A e \in Int : \A type :
         /\ Begin <= e /\ e <= Len(source)
         /\ LexemeIn(source, Begin, e, type)
         /\ Emit(Begin, e, type)
         => MInv'
  <2>. TAKE e \in Int
  <2>. TAKE type
  <2>. HAVE /\ Begin <= e /\ e <= Len(source)
            /\ LexemeIn(source, Begin, e, type)
            /\ Emit(Begin, e, type)
  <2>1. Lexemes(source', thisExpr')
    BY <1>0, EmitLexeme
  <2>. QED  BY <1>0, <2>1 DEF MInv
<1>1. CASE NextToken
  BY <1>1, <1>a DEF NextToken
<1>2. CASE SkipWhitespaceAndComments
  <2>1. UNCHANGED <<source, thisExpr>>
    BY <1>2 DEF SkipWhitespaceAndComments, SkipBlank, OpenComment, LineComment, BlockComment
  <2>. QED  BY <1>a, <2>1
<1>3. CASE EndOfSource
  <2>1. pc = "skip" /\ Emit(cursor, cursor, <<"Eof">>)
    BY <1>3 DEF EndOfSource
  <2>2. LexemeIn(source, cursor, cursor, <<"Eof">>)
    BY DEF LexemeIn, NoLexeme
  <2>. QED  BY <1>0, <1>b, <2>1, <2>2
<1>4. CASE LexIdentifierOrKeyword
  <2> DEFINE end    == RunEnd(source, cursor, WordChar)
             length == (end - cursor) % LengthMod
             text   == Slice(source, cursor, cursor + length)
  <2>1. /\ pc = "skip" /\ Emit(cursor, end, WordType(text))
        /\ cursor < Len(source) /\ At(source, cursor) \in Letter
    BY <1>0, <1>4 DEF LexIdentifierOrKeyword, AtToken, peek
  <2>2. end \in cursor .. Len(source)
    BY <1>0, RunEndRange
  <2>3. source[cursor + 1] \in Letter
    BY <2>1 DEF At
  <2>4. /\ IsWord(Slice(source, cursor, end))
        /\ \A n \in end + 1 .. Len(source) : ~IsLexeme(Slice(source, cursor, n))
    BY <1>0, <2>1, <2>3, WordIsLongest
  <2>. HIDE DEF end
  <2>5. end \in Nat /\ cursor <= end /\ end <= Len(source)
    BY <1>0, <2>2
  <2>6. cursor + length = end
    <3>1. \A m, k \in Nat : m < k => m % k = m
      OBVIOUS
    <3>2. end - cursor \in Nat /\ end - cursor < LengthMod /\ LengthMod \in Nat
      BY <1>0, <2>5, LengthAssumption
    <3>3. length = end - cursor
      BY <3>1, <3>2
    <3>. HIDE DEF length
    <3>. QED  BY <1>0, <2>5, <3>3
  <2>7. text = Slice(source, cursor, end)
    BY <2>6
  <2>. HIDE DEF text
  <2>8. text \in Text
    BY <1>0, <2>5, <2>7, SliceIs
  <2>9. WordType(text) # <<"Unknown">>
    BY <2>8, WordIsNoName
  <2>10. HasType(Slice(source, cursor, end), WordType(text))
    BY <2>4, <2>7 DEF HasType, WordType
  <2>11. LexemeIn(source, cursor, end, WordType(text))
    BY <2>4, <2>9, <2>10 DEF LexemeIn
  <2>. QED  BY <1>0, <1>b, <2>1, <2>5, <2>11
<1>5. CASE LexNumber
  <2> DEFINE end  == NumberEnd(source, cursor)
             type == IF IsFloat(source, cursor) THEN <<"LFloat">> ELSE <<"LInt">>
  <2>1. /\ pc = "skip" /\ Emit(cursor, end, type)
        /\ cursor < Len(source) /\ At(source, cursor) \in Digit
    BY <1>0, <1>5 DEF LexNumber, AtToken, peek
  <2>2. end \in cursor .. Len(source)
    BY <1>0, NumberEndRange
  <2>3. source[cursor + 1] \in Digit
    BY <2>1 DEF At
  <2>4. /\ HasType(Slice(source, cursor, end), type)
        /\ \A n \in end + 1 .. Len(source) : ~IsLexeme(Slice(source, cursor, n))
    BY <1>0, <2>1, <2>3, NumberIsLongest
  <2>5. type # <<"Unknown">>
    OBVIOUS
  <2>. HIDE DEF end, type
  <2>6. LexemeIn(source, cursor, end, type)
    BY <2>4, <2>5 DEF LexemeIn
  <2>. QED  BY <1>0, <1>b, <2>1, <2>2, <2>6
<1>6. CASE OpenLiteral \/ CopyLiteral
  <2>1. UNCHANGED <<source, thisExpr>>
    BY <1>6 DEF OpenLiteral, CopyLiteral
  <2>. QED  BY <1>a, <2>1
<1>7. CASE CloseLiteral
  <2> DEFINE e    == IF At(source, cursor) = "nul" THEN cursor ELSE cursor + 1
             type == IF source[start + 1] = "q1" THEN <<"LChar">> ELSE <<"LString">>
  <2>1. pc = "literal" /\ Emit(start, e, type)
    BY <1>0, <1>7 DEF CloseLiteral, peek
  <2>2. e \in Int /\ cursor <= e /\ e <= Len(source)
    BY <1>0, AtInside
  <2>3. LexemeIn(source, start, e, type)
    <3>1. type \in NoLexeme /\ type # <<"Unknown">>
      BY DEF NoLexeme
    <3>. HIDE DEF e, type
    <3>. QED  BY <3>1 DEF LexemeIn
  <2>. HIDE DEF e, type
  <2>. QED  BY <1>0, <1>b, <2>1, <2>2, <2>3
<1>8. CASE LexOperator
  <2> DEFINE c      == At(source, cursor)
             lexeme == Lexeme(c, At(source, cursor + 1), At(source, cursor + 2))
             type   == OperatorType(c, lexeme)
             e      == cursor + Len(lexeme)
  <2>1. /\ pc = "skip" /\ cursor < Len(source) /\ Emit(cursor, e, type)
        /\ c \notin WordChar \cup Quote \cup Blank /\ c = source[cursor + 1]
    BY <1>0, <1>8 DEF LexOperator, AtToken, peek, At
  <2>2. e \in cursor .. Len(source)
    BY <1>0, <2>1, LexemeRange
  <2>3. Taken(source, cursor, lexeme, e)
    BY <1>0, LexemeIsTaken
  <2>4. c \in Operators => lexeme # <<"Unknown">>
    BY DEF Lexeme, Operators
  <2>5. type = IF c \in Operators THEN lexeme ELSE <<"Unknown">>
    BY DEF OperatorType
  <2>. HIDE DEF c, lexeme, type, e
  <2>6. e \in Nat /\ cursor <= e /\ e <= Len(source)
    BY <1>0, <2>2
  <2>7. /\ c \in Operators =>
             /\ HasType(Slice(source, cursor, e), lexeme)
             /\ \A n \in e + 1 .. Len(source) : ~IsLexeme(Slice(source, cursor, n))
        /\ c \notin Operators => e = cursor + 1 /\ ~IsLexeme(Slice(source, cursor, e))
    <3>1. source[cursor + 1] \notin WordChar
      BY <2>1
    <3>. QED  BY <1>0, <2>1, <2>3, <2>6, <3>1, OperatorIsLongest
  <2>8. LexemeIn(source, cursor, e, type)
    <3>1. CASE c \in Operators
      BY <2>4, <2>5, <2>7, <3>1 DEF LexemeIn
    <3>2. CASE c \notin Operators
      <4>1. source[e] \notin WordChar \cup Quote \cup Blank
        BY <2>1, <2>7, <3>2
      <4>. QED  BY <2>5, <2>7, <3>2, <4>1 DEF LexemeIn
    <3>. QED  BY <3>1, <3>2
  <2>. QED  BY <1>0, <1>b, <2>1, <2>6, <2>8
<1>9. CASE SetSource
  <2>1. thisExpr' = <<>>
    BY <1>9 DEF SetSource
  <2>2. Lexemes(source', thisExpr')
    BY <2>1 DEF Lexemes
  <2>. QED  BY <1>0, <2>2 DEF MInv
<1>10. CASE UNCHANGED vars
  BY <1>10, <1>a DEF vars
<1>. QED
  BY <1>1, <1>2, <1>3, <1>4, <1>5, <1>6, <1>7, <1>8, <1>9, <1>10 DEF Next, Lex

\* What the positions say is what LongestLexeme says of the token.
LEMMA LexemesHere == MInv => LongestLexeme
<1>. SUFFICES ASSUME MInv, NEW i \in DOMAIN thisExpr
     PROVE  LET t       == thisExpr[i]
                rest(n) == Slice(source, t.globalOffset, n)
            IN  CASE t.type \in {<<"LString">>, <<"LChar">>, <<"Eof">>} -> TRUE
                  [] t.type = <<"Unknown">> ->
                        t.size = 1 /\ source[End(t)] \notin WordChar \cup Quote \cup Blank
                                   /\ ~IsLexeme(getText(t))
                  [] OTHER ->
                        /\ HasType(getText(t), t.type)
                        /\ \A n \in End(t) + 1 .. Len(source) : ~IsLexeme(rest(n))
  BY DEF LongestLexeme
<1> DEFINE t == thisExpr[i]
<1>1. LexemeIn(source, t.globalOffset, End(t), t.type)
  BY DEF MInv, Lexemes
<1>2. getText(t) = Slice(source, t.globalOffset, End(t))
  BY DEF getText
<1>3. End(t) = t.globalOffset + 1 => t.size = 1
  <2>1. t \in Token /\ LengthMod \in Nat
    BY TokenEnd, LengthAssumption DEF MInv, GInv
  <2>2. t.globalOffset \in Nat /\ t.size \in Nat
    BY <2>1 DEF Token
  <2>. HIDE DEF t
  <2>. QED  BY <2>2 DEF End
<1>. HIDE DEF t
<1>4. <<"Unknown">> \notin NoLexeme
  BY DEF NoLexeme
<1>5. CASE t.type \in NoLexeme
  BY <1>4, <1>5 DEF NoLexeme, t
<1>6. CASE t.type = <<"Unknown">>
  <2>1. t.size = 1 /\ source[End(t)] \notin WordChar \cup Quote \cup Blank
        /\ ~IsLexeme(getText(t))
    BY <1>1, <1>2, <1>3, <1>6 DEF LexemeIn
  <2>2. t.type \notin {<<"LString">>, <<"LChar">>, <<"Eof">>}
    BY <1>4, <1>6 DEF NoLexeme
  <2>. QED  BY <1>6, <2>1, <2>2 DEF t
<1>7. CASE t.type \notin NoLexeme /\ t.type # <<"Unknown">>
  <2>1. /\ HasType(getText(t), t.type)
        /\ \A n \in End(t) + 1 .. Len(source) : ~IsLexeme(Slice(source, t.globalOffset, n))
    BY <1>1, <1>2, <1>7 DEF LexemeIn
  <2>2. t.type \notin {<<"LString">>, <<"LChar">>, <<"Eof">>}
    BY <1>7 DEF NoLexeme
  <2>. QED  BY <1>7, <2>1, <2>2 DEF t
<1>. QED
  BY <1>5, <1>6, <1>7

\* Maximal munch, for any text and any keywords: where no token's length is
\* cut, a token is the longest lexeme at its place and has its type, and a
\* character is Unknown only where there is none.
THEOREM MaximalMunch == ASSUME ShortTexts PROVE Spec => []LongestLexeme
<1>1. Init => MInv
  <2>1. Init => Lexemes(source, thisExpr)
    BY DEF Init, Lexemes
  <2>. QED  BY <2>1, InitGInv DEF MInv
<1>. QED
  BY <1>1, NextMInv, LexemesHere, PTL DEF Spec
=============================================================================
