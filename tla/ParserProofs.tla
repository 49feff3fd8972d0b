---------------------------- MODULE ParserProofs ----------------------------
(***************************************************************************)
(* Theorems about Parser, for every text and every set of names: its       *)
(* types, the shape of the tree it builds and the order of its nodes, that *)
(* its guardrail never skips a token, that a parse which succeeds has one  *)
(* leaf for each identifier and each literal, and that it has closed every *)
(* bracket it has opened.  The heart is the discipline of the C++ call     *)
(* stack: each task finds the ids it takes and leaves the ids it gives, so *)
(* that what is left of a parse always ends with no id held (IInv).  Over  *)
(* that, each token that has been read is a node's or a task's (LeafInv),  *)
(* and what is left of a parse closes exactly what is open (BracketsOK).   *)
(***************************************************************************)
EXTENDS Parser, OrderProofs, FiniteSetTheorems, SequenceTheorems, TLAPS

-----------------------------------------------------------------------------
(* The tasks that can be on the agenda.                                    *)

Alternatives == {<<Statement>>, <<Param>>, Expression(0)}

\* Choices among the last "take" ids, none of them twice.
Picks(take) ==
    {p \in Seq(0 .. take) : \A i, j \in DOMAIN p : p[i] = p[j] /\ p[i] # 0 => i = j}

LeafNode == [kind : {"IdentifierExpr"}, off : Nat, len : {0, 1}, op : TokenType,
             kids : {<<>>}, quals : {{}}]

\* How many links a node has that the compiler goes through; an identifier is
\* a leaf.
Arity(kind, op, n) ==
    /\ kind \in {"BinaryExpr", "CallExpr"} => n = 2
    /\ kind \in {"EvalExpr", "VarDecl", "FunctionDecl"} => n = 3
    /\ kind = "UnaryExpr" => n = 1
    /\ kind = "CompileTimeJump" => n = 3 \/ op \in Jump
    /\ kind = "IdentifierExpr" => n = 0

ChoiceArg == [t : TokenType, n : {0, 1}, tasks : Alternatives]
BuildArg  == [kind : NodeKind, off : Nat \cup {Here}, op : TokenType \cup {NoOp},
              take : Nat, pick : Seq(Nat)]
BuildTask == {b \in BuildArg : /\ b.kind \notin {"VarDecl", "TypeDecl", "FunctionDecl"}
                               /\ b.pick \in Picks(b.take)
                               /\ Arity(b.kind, b.op, Len(b.pick))}
DeclArg   == [quals : SUBSET Qualifier, type : LeafNode, name : LeafNode]

Declare == {"declarator", "declare type", "declare variable", "declare function"}

PlainTask ==
         ({"statement", "param"} \X SUBSET Qualifier)
    \cup ({"primary", "postfix", "drop", "block", "arguments", "base", "body"} \X {0})
    \cup ({"operators"} \X Nat)
    \cup ({"expect", "skip"} \X TokenType)
    \cup ({"when", "unless"} \X ChoiceArg)
    \cup ({"more"} \X {Param})
    \cup ({"build"} \X BuildTask)
    \cup (Declare \X DeclArg)

AnyTask == PlainTask \cup ({"guardrail"} \X Nat) \cup {Task("unit", 0)}

\* How many of the latest ids a task takes, and how many it leaves for them.
Takes(t) ==
    CASE t[1] \in {"postfix", "operators", "drop", "declare variable"} -> 1
      [] t[1] \in {"declare type", "declare function"}                 -> 2
      [] t[1] = "build"                                                -> t[2].take
      [] OTHER                                                         -> 0

Gives(t) ==
    IF t[1] \in {"expect", "skip", "drop", "block", "more", "arguments", "guardrail", "unit"}
    THEN 0 ELSE 1

\* With a ids held, t can be done and leaves b ids.
Does(t, a, b) == a \in Nat /\ Takes(t) \in 0 .. a /\ b = a - Takes(t) + Gives(t)

\* The tasks can be done one after the other, from a ids held to b.
Runs(s, a, b) ==
    \E h \in [0 .. Len(s) -> Nat] :
        /\ h[0] = a /\ h[Len(s)] = b
        /\ \A k \in 1 .. Len(s) : Does(s[k], h[k - 1], h[k])

\* What is left to do when v ids are held: whole tasks, up to the loop of
\* the translation unit.
Remains(s, v) ==
    /\ s \in Seq(AnyTask) /\ s # <<>>
    /\ s[Len(s)] = Task("unit", 0)
    /\ \A k \in 1 .. Len(s) - 1 : s[k][1] # "unit"
    /\ Runs(s, v, 0)

\* What an action may put on the agenda.
Segment(s, a, b) == s \in Seq(PlainTask) /\ Runs(s, a, b)

-----------------------------------------------------------------------------
(* Running sequences of tasks.                                             *)

\* Nothing to do changes nothing.
LEMMA RunsEmpty ==
    ASSUME NEW a \in Nat
    PROVE  Runs(<<>>, a, a)
<1> DEFINE h == [k \in 0 .. 0 |-> a]
<1>1. h \in [0 .. Len(<<>>) -> Nat] /\ h[0] = a /\ h[Len(<<>>)] = a
  OBVIOUS
<1>. HIDE DEF h
<1>. QED  BY <1>1 DEF Runs

\* One task.
LEMMA RunsOne ==
    ASSUME NEW t, NEW a \in Nat, NEW b \in Nat, Does(t, a, b)
    PROVE  Runs(<<t>>, a, b)
<1> DEFINE h == [k \in 0 .. 1 |-> IF k = 0 THEN a ELSE b]
<1>1. h \in [0 .. 1 -> Nat] /\ h[0] = a /\ h[1] = b
  OBVIOUS
<1>. HIDE DEF h
<1>2. Len(<<t>>) = 1 /\ <<t>>[1] = t
  OBVIOUS
<1>3. \A k \in 1 .. 1 : Does(<<t>>[k], h[k - 1], h[k])
  <2>. TAKE k \in 1 .. 1
  <2>1. k = 1 /\ k - 1 = 0
    OBVIOUS
  <2>. QED  BY <2>1, <1>1, <1>2
<1>. QED  BY <1>1, <1>2, <1>3 DEF Runs

\* Two sequences after each other.
LEMMA RunsConcat ==
    ASSUME NEW S, NEW s \in Seq(S), NEW u \in Seq(S), NEW a, NEW b, NEW c,
           Runs(s, a, b), Runs(u, b, c)
    PROVE  Runs(s \o u, a, c)
<1>1. PICK g \in [0 .. Len(s) -> Nat] :
          /\ g[0] = a /\ g[Len(s)] = b
          /\ \A k \in 1 .. Len(s) : Does(s[k], g[k - 1], g[k])
  BY DEF Runs
<1>2. PICK h \in [0 .. Len(u) -> Nat] :
          /\ h[0] = b /\ h[Len(u)] = c
          /\ \A k \in 1 .. Len(u) : Does(u[k], h[k - 1], h[k])
  BY DEF Runs
<1>3. PICK m \in Nat : m = Len(s)
  OBVIOUS
<1>4. PICK n \in Nat : n = Len(u)
  OBVIOUS
<1>5. PICK w \in Seq(S) : w = s \o u
  BY ConcatProperties
<1>6. /\ Len(w) = m + n
      /\ \A k \in 1 .. m : w[k] = s[k]
      /\ \A k \in m + 1 .. m + n : w[k] = u[k - m]
  BY <1>3, <1>4, <1>5
<1> DEFINE f == [k \in 0 .. m + n |-> IF k <= m THEN g[k] ELSE h[k - m]]
<1>7. f \in [0 .. m + n -> Nat]
  BY <1>1, <1>2, <1>3, <1>4
<1>8. f[0] = a /\ f[m + n] = c
  BY <1>1, <1>2, <1>3, <1>4
<1>9. \A k \in 1 .. m : f[k - 1] = g[k - 1] /\ f[k] = g[k]
  <2>. TAKE k \in 1 .. m
  <2>1. f[k] = g[k]
    OBVIOUS
  <2>2. f[k - 1] = g[k - 1]
    <3>1. PICK j \in 0 .. m + n : j = k - 1 /\ j <= m
      OBVIOUS
    <3>. QED  BY <3>1
  <2>. QED  BY <2>1, <2>2
<1>10. \A k \in m + 1 .. m + n : f[k - 1] = h[k - 1 - m] /\ f[k] = h[k - m]
  BY <1>1, <1>2, <1>3
<1>. HIDE DEF f
<1>11. \A k \in 1 .. m : Does(w[k], f[k - 1], f[k])
  BY <1>1, <1>3, <1>6, <1>9
<1>12. ASSUME NEW k \in m + 1 .. m + n PROVE Does(w[k], f[k - 1], f[k])
  <2>1. PICK j \in 1 .. n : j = k - m
    OBVIOUS
  <2>2. Does(u[j], h[j - 1], h[j])
    BY <1>2, <1>4
  <2>3. w[k] = u[j] /\ f[k - 1] = h[j - 1] /\ f[k] = h[j]
    <3>1. k - 1 - m = j - 1
      BY <2>1
    <3>. QED  BY <1>6, <1>10, <2>1, <3>1
  <2>. QED  BY <2>2, <2>3
<1>13. \A k \in 1 .. m + n : k \in 1 .. m \/ k \in m + 1 .. m + n
  OBVIOUS
<1>14. \A k \in 1 .. m + n : Does(w[k], f[k - 1], f[k])
  BY <1>11, <1>12, <1>13
<1>. QED  BY <1>5, <1>6, <1>7, <1>8, <1>14 DEF Runs

\* What is left once the first task is done.
LEMMA RunsTail ==
    ASSUME NEW S, NEW s \in Seq(S), s # <<>>, NEW a, NEW c, Runs(s, a, c)
    PROVE  \E b \in Nat : Does(Head(s), a, b) /\ Runs(Tail(s), b, c)
<1>1. PICK h \in [0 .. Len(s) -> Nat] :
          /\ h[0] = a /\ h[Len(s)] = c
          /\ \A k \in 1 .. Len(s) : Does(s[k], h[k - 1], h[k])
  BY DEF Runs
<1>2. PICK n \in Nat : n + 1 = Len(s)
  OBVIOUS
<1>3. PICK u \in Seq(S) : u = Tail(s)
  OBVIOUS
<1>4. Len(u) = n /\ \A k \in 1 .. n : u[k] = s[k + 1]
  BY <1>2, <1>3
<1> DEFINE g == [k \in 0 .. n |-> h[k + 1]]
<1>5. g \in [0 .. n -> Nat] /\ g[n] = c
  <2>1. h[n + 1] = c
    BY <1>1, <1>2
  <2>2. h \in [0 .. n + 1 -> Nat]
    BY <1>2
  <2>. QED  BY <2>1, <2>2
<1>6. g[0] = h[1]
  OBVIOUS
<1>7. \A k \in 1 .. n : g[k - 1] = h[k] /\ g[k] = h[k + 1]
  OBVIOUS
<1>. HIDE DEF g
<1>8. ASSUME NEW k \in 1 .. n PROVE Does(u[k], g[k - 1], g[k])
  <2>1. PICK j \in 1 .. Len(s) : j = k + 1
    BY <1>2
  <2>2. Does(s[j], h[j - 1], h[j])
    BY <1>1
  <2>3. j - 1 = k
    BY <2>1
  <2>. QED  BY <2>1, <2>2, <2>3, <1>4, <1>7
<1>9. Runs(u, h[1], c)
  BY <1>4, <1>5, <1>6, <1>8 DEF Runs
<1>10. Does(s[1], h[0], h[1]) /\ h[1] \in Nat
  <2>1. 1 \in 1 .. Len(s) /\ 1 - 1 = 0 /\ 1 \in 0 .. Len(s)
    BY <1>2
  <2>. QED  BY <1>1, <2>1
<1>. QED  BY <1>1, <1>3, <1>9, <1>10

-----------------------------------------------------------------------------
(* Segments.                                                               *)

\* A task that does not belong to the loop of the translation unit.
Step(t, a, b) == t \in PlainTask /\ Does(t, a, b)

\* An empty segment.
LEMMA SegmentNil ==
    ASSUME NEW a \in Nat
    PROVE  Segment(<<>>, a, a)
BY RunsEmpty DEF Segment

\* A segment after another.
LEMMA SegmentConcat ==
    ASSUME NEW s, NEW u, NEW a, NEW b, NEW c, Segment(s, a, b), Segment(u, b, c)
    PROVE  Segment(s \o u, a, c)
BY RunsConcat, ConcatProperties DEF Segment

\* A segment of one task.
LEMMA Segment1 ==
    ASSUME NEW t, NEW a \in Nat, NEW b \in Nat, Step(t, a, b)
    PROVE  Segment(<<t>>, a, b)
<1>1. <<t>> \in Seq(PlainTask)
  BY DEF Step
<1>. QED  BY <1>1, RunsOne DEF Segment, Step

\* A segment of two tasks.
LEMMA Segment2 ==
    ASSUME NEW t, NEW u, NEW a \in Nat, NEW b \in Nat, NEW c \in Nat,
           Step(t, a, b), Step(u, b, c)
    PROVE  Segment(<<t, u>>, a, c)
<1>1. <<t>> \o <<u>> = <<t, u>>
  <2>1. <<t>> \in Seq({t, u}) /\ <<u>> \in Seq({t, u}) /\ <<t, u>> \in Seq({t, u})
    OBVIOUS
  <2>2. Len(<<t>>) = 1 /\ Len(<<u>>) = 1 /\ Len(<<t, u>>) = 2
    OBVIOUS
  <2>3. /\ <<t>> \o <<u>> \in Seq({t, u}) /\ Len(<<t>> \o <<u>>) = 2
        /\ \A i \in 1 .. 2 : (<<t>> \o <<u>>)[i] = <<t, u>>[i]
    BY <2>1, <2>2, ConcatProperties
  <2>. QED  BY <2>1, <2>2, <2>3, SeqEqual
<1>. QED  BY <1>1, Segment1, SegmentConcat

\* A segment of three tasks.
LEMMA Segment3 ==
    ASSUME NEW t, NEW u, NEW v, NEW a \in Nat, NEW b \in Nat, NEW c \in Nat, NEW d \in Nat,
           Step(t, a, b), Step(u, b, c), Step(v, c, d)
    PROVE  Segment(<<t, u, v>>, a, d)
<1>1. <<t>> \o <<u, v>> = <<t, u, v>>
  <2>1. <<t>> \in Seq({t, u, v}) /\ <<u, v>> \in Seq({t, u, v}) /\ <<t, u, v>> \in Seq({t, u, v})
    OBVIOUS
  <2>2. Len(<<t>>) = 1 /\ Len(<<u, v>>) = 2 /\ Len(<<t, u, v>>) = 3
    OBVIOUS
  <2>3. /\ <<t>> \o <<u, v>> \in Seq({t, u, v}) /\ Len(<<t>> \o <<u, v>>) = 3
        /\ \A i \in 1 .. 3 : (<<t>> \o <<u, v>>)[i] = <<t, u, v>>[i]
    BY <2>1, <2>2, ConcatProperties
  <2>. QED  BY <2>1, <2>2, <2>3, SeqEqual
<1>. QED  BY <1>1, Segment1, Segment2, SegmentConcat

\* A segment of four tasks.
LEMMA Segment4 ==
    ASSUME NEW t, NEW u, NEW v, NEW w,
           NEW a \in Nat, NEW b \in Nat, NEW c \in Nat, NEW d \in Nat, NEW e \in Nat,
           Step(t, a, b), Step(u, b, c), Step(v, c, d), Step(w, d, e)
    PROVE  Segment(<<t, u, v, w>>, a, e)
<1>1. <<t, u>> \o <<v, w>> = <<t, u, v, w>>
  <2>1. <<t, u>> \in Seq({t, u, v, w}) /\ <<v, w>> \in Seq({t, u, v, w}) /\ <<t, u, v, w>> \in Seq({t, u, v, w})
    OBVIOUS
  <2>2. Len(<<t, u>>) = 2 /\ Len(<<v, w>>) = 2 /\ Len(<<t, u, v, w>>) = 4
    OBVIOUS
  <2>3. /\ <<t, u>> \o <<v, w>> \in Seq({t, u, v, w}) /\ Len(<<t, u>> \o <<v, w>>) = 4
        /\ \A i \in 1 .. 4 : (<<t, u>> \o <<v, w>>)[i] = <<t, u, v, w>>[i]
    BY <2>1, <2>2, ConcatProperties
  <2>. QED  BY <2>1, <2>2, <2>3, SeqEqual
<1>. QED  BY <1>1, Segment2, SegmentConcat

\* A segment of five tasks.
LEMMA Segment5 ==
    ASSUME NEW t, NEW u, NEW v, NEW w, NEW x,
           NEW a \in Nat, NEW b \in Nat, NEW c \in Nat, NEW d \in Nat, NEW e \in Nat, NEW f \in Nat,
           Step(t, a, b), Step(u, b, c), Step(v, c, d), Step(w, d, e), Step(x, e, f)
    PROVE  Segment(<<t, u, v, w, x>>, a, f)
<1>1. <<t, u>> \o <<v, w, x>> = <<t, u, v, w, x>>
  <2>1. <<t, u>> \in Seq({t, u, v, w, x}) /\ <<v, w, x>> \in Seq({t, u, v, w, x}) /\ <<t, u, v, w, x>> \in Seq({t, u, v, w, x})
    OBVIOUS
  <2>2. Len(<<t, u>>) = 2 /\ Len(<<v, w, x>>) = 3 /\ Len(<<t, u, v, w, x>>) = 5
    OBVIOUS
  <2>3. /\ <<t, u>> \o <<v, w, x>> \in Seq({t, u, v, w, x}) /\ Len(<<t, u>> \o <<v, w, x>>) = 5
        /\ \A i \in 1 .. 5 : (<<t, u>> \o <<v, w, x>>)[i] = <<t, u, v, w, x>>[i]
    BY <2>1, <2>2, ConcatProperties
  <2>. QED  BY <2>1, <2>2, <2>3, SeqEqual
<1>. QED  BY <1>1, Segment2, Segment3, SegmentConcat

\* The first task is done and a segment takes its place.
LEMMA Splice ==
    ASSUME NEW s, NEW v, NEW w, NEW seg, NEW b \in Nat,
           Remains(s, v), Head(s)[1] # "unit", Does(Head(s), v, b), Segment(seg, w, b)
    PROVE  Remains(seg \o Tail(s), w)
<1>1. s \in Seq(AnyTask) /\ s # <<>> /\ Runs(s, v, 0)
  BY DEF Remains
<1>2. PICK n \in Nat : n + 1 = Len(s)
  <2>1. Len(s) \in Nat \ {0}
    BY <1>1, EmptySeq
  <2>. QED  BY <2>1
<1>3. s[1][1] # "unit" /\ n > 0
  BY <1>1, <1>2 DEF Remains, Task
<1>4. PICK u \in Seq(AnyTask) : u = Tail(s)
  BY <1>1, HeadTailProperties
<1>5. Len(u) = n /\ \A k \in 1 .. n : u[k] = s[k + 1]
  BY <1>1, <1>2, <1>4, HeadTailProperties
<1>6. seg \in Seq(PlainTask) /\ seg \in Seq(AnyTask) /\ Runs(seg, w, b)
  BY SeqMonotonic DEF Segment, AnyTask
<1>7. PICK m \in Nat : m = Len(seg)
  BY <1>6
<1>8. PICK x \in Seq(AnyTask) : x = seg \o u
  BY <1>4, <1>6, ConcatProperties
<1>9. /\ Len(x) = m + n
      /\ \A k \in 1 .. m : x[k] = seg[k]
      /\ \A k \in m + 1 .. m + n : x[k] = u[k - m]
  <2>1. Len(seg) = m /\ Len(u) = n
    BY <1>5, <1>7
  <2>2. /\ Len(x) = m + n
        /\ \A k \in 1 .. m + n : x[k] = IF k <= m THEN seg[k] ELSE u[k - m]
    BY ZenonT(40), <2>1, <1>4, <1>6, <1>8, ConcatProperties
  <2>3. ASSUME NEW k \in 1 .. m PROVE x[k] = seg[k]
    <3>1. k \in 1 .. m + n /\ k <= m
      OBVIOUS
    <3>. QED  BY <2>2, <3>1
  <2>4. ASSUME NEW k \in m + 1 .. m + n PROVE x[k] = u[k - m]
    <3>1. k \in 1 .. m + n /\ ~(k <= m)
      OBVIOUS
    <3>. QED  BY <2>2, <3>1
  <2>. QED  BY <2>2, <2>3, <2>4
<1>10. Runs(x, w, 0)
  <2>1. Runs(u, b, 0)
    <3>1. PICK c \in Nat : Does(Head(s), v, c) /\ Runs(Tail(s), c, 0)
      BY <1>1, RunsTail
    <3>2. b = c
      BY <3>1 DEF Does
    <3>. QED  BY <3>1, <3>2, <1>4
  <2>. QED  BY <2>1, <1>4, <1>6, <1>8, RunsConcat
<1>11. x[m + n] = Task("unit", 0)
  <2>1. s[n + 1] = Task("unit", 0)
    BY <1>2 DEF Remains
  <2>2. x[m + n] = u[n] /\ u[n] = s[n + 1]
    BY <1>3, <1>5, <1>9
  <2>. QED  BY <2>1, <2>2
<1>12. ASSUME NEW k \in 1 .. m + n - 1 PROVE x[k][1] # "unit"
  <2>1. CASE k <= m
    <3>1. x[k] \in PlainTask
      BY <1>6, <1>7, <1>9, <2>1
    <3>. QED  BY <3>1 DEF PlainTask, Declare
  <2>2. CASE k > m
    <3>1. PICK j \in 1 .. n - 1 : j = k - m /\ k \in m + 1 .. m + n
      BY <2>2
    <3>2. x[k] = u[j]
      BY <1>9, <3>1
    <3>3. u[j] = s[j + 1]
      BY <1>5, <3>1
    <3>. QED  BY <3>1, <3>2, <3>3, <1>2 DEF Remains
  <2>. QED  BY <2>1, <2>2
<1>. QED  BY SMTT(30), <1>3, <1>4, <1>8, <1>9, <1>10, <1>11, <1>12 DEF Remains

\* What a task takes is there.
LEMMA HeadDoes ==
    ASSUME NEW s, NEW v, Remains(s, v)
    PROVE  \E b \in Nat : Does(Head(s), v, b)
BY RunsTail DEF Remains

-----------------------------------------------------------------------------
(* What each task takes and gives.                                         *)

\* Tasks that are called with nothing.
LEMMA StepCalled ==
    ASSUME NEW a \in Nat
    PROVE  /\ Step(Primary, a, a + 1)
           /\ Step(Postfix, a + 1, a + 1)
           /\ Step(Drop, a + 1, a)
           /\ Step(Block, a, a)
           /\ Step(Task("arguments", 0), a, a)
           /\ Step(Task("base", 0), a, a + 1)
           /\ Step(Task("body", 0), a, a + 1)
           /\ Step(Param, a, a + 1)
           /\ Step(Statement, a, a + 1)
           /\ Step(More(Param), a, a)
<1>1. Step(Primary, a, a + 1) /\ Step(Postfix, a + 1, a + 1) /\ Step(Drop, a + 1, a)
  BY DEF Step, Does, Takes, Gives, PlainTask, Primary, Postfix, Drop, Task
<1>2. Step(Block, a, a) /\ Step(Task("arguments", 0), a, a)
  BY DEF Step, Does, Takes, Gives, PlainTask, Block, Task
<1>3. Step(Task("base", 0), a, a + 1) /\ Step(Task("body", 0), a, a + 1)
  BY DEF Step, Does, Takes, Gives, PlainTask, Task
<1>4. Step(Param, a, a + 1) /\ Step(Statement, a, a + 1)
  BY DEF Step, Does, Takes, Gives, PlainTask, Param, Statement, Task
<1>5. Step(More(Param), a, a)
  BY DEF Step, Does, Takes, Gives, PlainTask, More, Task
<1>. QED  BY <1>1, <1>2, <1>3, <1>4, <1>5

\* A statement or a parameter behind some qualifiers.
LEMMA StepQualified ==
    ASSUME NEW a \in Nat, NEW q \in SUBSET Qualifier
    PROVE  Step(Task("statement", q), a, a + 1) /\ Step(Task("param", q), a, a + 1)
BY DEF Step, Does, Takes, Gives, PlainTask, Task

\* The loop of an expression.
LEMMA StepOperators ==
    ASSUME NEW a \in Nat, NEW min \in Nat
    PROVE  Step(Operators(min), a + 1, a + 1)
BY DEF Step, Does, Takes, Gives, PlainTask, Task, Operators

\* Tokens that are expected or skipped.
LEMMA StepToken ==
    ASSUME NEW a \in Nat, NEW t \in TokenType
    PROVE  Step(Expect(t), a, a) /\ Step(Skip(t), a, a)
BY DEF Step, Does, Takes, Gives, PlainTask, Task, Expect, Skip

\* A choice holds one id, whichever way it goes.
LEMMA StepChoice ==
    ASSUME NEW a \in Nat, NEW t \in TokenType, NEW n \in {0, 1}, NEW tasks \in Alternatives
    PROVE  Step(When(t, n, tasks), a, a + 1) /\ Step(Unless(t, n, tasks), a, a + 1)
<1>1. [t |-> t, n |-> n, tasks |-> tasks] \in ChoiceArg
  BY DEF ChoiceArg
<1>. QED  BY <1>1 DEF Step, Does, Takes, Gives, PlainTask, Task, When, Unless

\* A node is made from the ids it takes.
LEMMA StepBuild ==
    ASSUME NEW a \in Nat, NEW kind \in NodeKind, NEW off \in Nat \cup {Here},
           NEW op \in TokenType \cup {NoOp}, NEW take \in Nat, NEW pick \in Picks(take),
           kind \notin {"VarDecl", "TypeDecl", "FunctionDecl"}, Arity(kind, op, Len(pick))
    PROVE  Step(Build(kind, off, op, take, pick), a + take, a + 1)
<1> DEFINE b == [kind |-> kind, off |-> off, op |-> op, take |-> take, pick |-> pick]
<1>1. pick \in Seq(Nat)
  <2>1. pick \in Seq(0 .. take)
    BY DEF Picks
  <2>2. 0 .. take \subseteq Nat
    OBVIOUS
  <2>. QED  BY <2>1, <2>2, SeqMonotonic
<1>2. b \in BuildTask /\ b.take = take
  BY <1>1 DEF BuildArg, BuildTask
<1>. HIDE DEF b
<1>3. Task("build", b) \in PlainTask
  BY <1>2 DEF PlainTask, Task
<1>4. Takes(Task("build", b)) = take /\ Gives(Task("build", b)) = 1
  BY <1>2 DEF Takes, Gives, Task
<1>5. Step(Task("build", b), a + take, a + 1)
  <2>1. a + take \in Nat /\ take \in 0 .. a + take /\ a + 1 = a + take - take + 1
    OBVIOUS
  <2>2. Does(Task("build", b), a + take, a + 1)
    BY <2>1, <1>4 DEF Does
  <2>. QED  BY <2>2, <1>3 DEF Step
<1>. QED  BY <1>5 DEF Build, b

\* A declaration whose leaves are known.
LEMMA StepDeclare ==
    ASSUME NEW a \in Nat, NEW d \in DeclArg
    PROVE  /\ Step(Task("declarator", d), a, a + 1)
           /\ Step(Task("declare variable", d), a + 1, a + 1)
           /\ Step(Task("declare type", d), a + 2, a + 1)
           /\ Step(Task("declare function", d), a + 2, a + 1)
<1>1. /\ Task("declarator", d) \in PlainTask /\ Task("declare variable", d) \in PlainTask
      /\ Task("declare type", d) \in PlainTask /\ Task("declare function", d) \in PlainTask
  BY DEF PlainTask, Declare, Task
<1>3. /\ Gives(Task("declarator", d)) = 1 /\ Gives(Task("declare variable", d)) = 1
      /\ Gives(Task("declare type", d)) = 1 /\ Gives(Task("declare function", d)) = 1
  BY DEF Gives, Task
<1>2. /\ Takes(Task("declarator", d)) = 0
      /\ Takes(Task("declare variable", d)) = 1
      /\ Takes(Task("declare type", d)) = 2
      /\ Takes(Task("declare function", d)) = 2
  BY DEF Takes, Task
<1>4. \A t \in PlainTask : Takes(t) = 0 /\ Gives(t) = 1 => Step(t, a, a + 1)
  BY DEF Step, Does
<1>5. \A t \in PlainTask : Takes(t) = 1 /\ Gives(t) = 1 => Step(t, a + 1, a + 1)
  BY DEF Step, Does
<1>6. \A t \in PlainTask : Takes(t) = 2 /\ Gives(t) = 1 => Step(t, a + 2, a + 1)
  BY DEF Step, Does
<1>. QED  BY <1>1, <1>2, <1>3, <1>4, <1>5, <1>6

\* An expression holds one id.
LEMMA SegmentExpression ==
    ASSUME NEW a \in Nat, NEW min \in Nat
    PROVE  Segment(Expression(min), a, a + 1)
BY Segment2, StepCalled, StepOperators DEF Expression

\* What a choice may be between holds one id.
LEMMA SegmentAlternative ==
    ASSUME NEW a \in Nat, NEW tasks \in Alternatives
    PROVE  Segment(tasks, a, a + 1)
<1>1. CASE tasks = Expression(0)
  BY <1>1, SegmentExpression
<1>2. CASE tasks = <<Statement>>
  BY <1>2, Segment1, StepCalled
<1>3. CASE tasks = <<Param>>
  BY <1>3, Segment1, StepCalled
<1>. QED  BY <1>1, <1>2, <1>3 DEF Alternatives

\* The types and kinds of the tasks' arguments.
LEMMA PickTuples ==
    /\ <<0>> \in Picks(0)
    /\ <<1>> \in Picks(1)
    /\ <<1, 2>> \in Picks(2) /\ <<1, 2, 0>> \in Picks(2)
    /\ <<1, 2, 3>> \in Picks(3)
    /\ <<2, 4, 1>> \in Picks(4)
BY DEF Picks

\* The kinds of nodes with one link.
Single == {"UnaryExpr", "DeleteExpr", "CastExpr", "StructDecl", "NamespaceDecl"}

\* The parse functions give every node its links.
LEMMA Arities ==
    ASSUME NEW op
    PROVE  /\ Arity("BinaryExpr", op, Len(<<1, 2>>)) /\ Arity("CallExpr", op, Len(<<1, 2>>))
           /\ Arity("EvalExpr", op, Len(<<1, 2, 3>>))
           /\ Arity("CompileTimeJump", op, Len(<<1, 2, 0>>))
           /\ Arity("CompileTimeJump", op, Len(<<2, 4, 1>>))
           /\ op \in Jump => Arity("CompileTimeJump", op, Len(<<0>>))
           /\ \A kind \in Single : Arity(kind, op, Len(<<1>>))
BY DEF Arity, Single

-----------------------------------------------------------------------------
(* The invariant.                                                          *)

AnyNode == [kind : NodeKind, off : Nat, len : {0, 1}, op : TokenType \cup {NoOp},
            kids : Seq(Int), quals : SUBSET Qualifier]

\* The window is the two tokens behind those that have left it.
WindowOK ==
    /\ source \in Source
    /\ input \in Seq(Token) /\ pos \in Nat /\ Len(input) = pos + 2

\* Links and held ids are nodes of t or null, and no node is linked or held
\* twice.
Grown(t, v) ==
    /\ t \in Seq(AnyNode) /\ v \in Seq(Int)
    /\ \A n \in DOMAIN t : \A i \in DOMAIN t[n].kids : t[n].kids[i] \in -1 .. Len(t) - 1
    /\ \A a \in DOMAIN v : v[a] \in -1 .. Len(t) - 1
    /\ \A n, m \in DOMAIN t : \A i \in DOMAIN t[n].kids, j \in DOMAIN t[m].kids :
           t[n].kids[i] = t[m].kids[j] /\ t[n].kids[i] # Null => n = m /\ i = j
    /\ \A n \in DOMAIN t : \A i \in DOMAIN t[n].kids, a \in DOMAIN v :
           t[n].kids[i] = v[a] => v[a] = Null
    /\ \A a, b \in DOMAIN v : v[a] = v[b] /\ v[a] # Null => a = b

\* A guardrail that began where the parser stands is behind a task that
\* consumes a token.
Guarded(s, p) ==
    \A k \in DOMAIN s : s[k][1] = "guardrail" =>
        /\ s[k][2] <= p
        /\ s[k][2] = p => \E j \in 1 .. k - 1 : s[j][1] \in {"statement", "primary"}

IInv ==
    /\ WindowOK
    /\ Grown(tree, vals)
    /\ Remains(agenda, Len(vals))
    /\ Guarded(agenda, pos)
    /\ outcome \in {"run", "done", "error"}

-----------------------------------------------------------------------------
(* Tokens.                                                                 *)

\* Token types the grammar names.
LEMMA NamedTokens ==
    /\ {"Ident", "Left", "Right", "SqLeft", "SqRight", "BrLeft", "BrRight", "Semi", "Comma",
        "Colon", "Eof", "Unknown", "kElse", "kAuto", "kReturn", "Equals"} \subseteq TokenType
    /\ Qualifier \subseteq TokenType /\ Prefix \subseteq TokenType /\ Jump \subseteq TokenType
<1>1. "Equals" \in UNION Range(Level)
  <2>1. 1 \in DOMAIN Level /\ "Equals" \in Level[1]
    BY DEF Level
  <2>. QED  BY <2>1 DEF Range
<1>2. {"Ident", "Left", "Right", "SqLeft", "SqRight", "BrLeft", "BrRight", "Semi", "Comma",
       "Colon", "Eof", "Unknown", "kElse", "kReturn"} \subseteq TokenType
  <2>1. "Ident" \in TokenType /\ Punctuation \subseteq TokenType /\ Keyword \subseteq TokenType
    BY DEF TokenType
  <2>2. {"Left", "Right", "SqLeft", "SqRight", "BrLeft", "BrRight", "Semi", "Comma",
         "Colon", "Eof", "Unknown"} \subseteq Punctuation
    BY DEF Punctuation
  <2>3. {"kElse", "kReturn"} \subseteq Keyword
    BY DEF Keyword
  <2>. QED  BY <2>1, <2>2, <2>3
<1>3. /\ Qualifier \subseteq TokenType /\ Prefix \subseteq TokenType /\ Jump \subseteq TokenType
      /\ "kAuto" \in Qualifier
  BY DEF TokenType, Qualifier
<1>4. "Equals" \in TokenType
  BY <1>1 DEF TokenType
<1>. QED  BY <1>2, <1>3, <1>4

\* The end of the text is a token and no identifier.
LEMMA EofToken ==
    "Eof" \in Token /\ "Eof" \notin Ident
BY NameAssumption, NamedTokens DEF Token, Ident

\* A token's type is one.
LEMMA TypeOfToken ==
    ASSUME NEW t \in Token
    PROVE  TypeOf(t) \in TokenType /\ (TypeOf(t) = "Eof" <=> t = "Eof")
BY EofToken, NamedTokens DEF TypeOf, Token

\* What peek sees.
LEMMA PeekToken ==
    ASSUME WindowOK, NEW i \in {0, 1}
    PROVE  /\ peek(i) \in TokenType
           /\ input[pos + 1 + i] \in Token
           /\ peek(i) = "Eof" <=> input[pos + 1 + i] = "Eof"
<1>1. pos + 1 + i \in 1 .. Len(input)
  BY DEF WindowOK
<1>2. input[pos + 1 + i] \in Token
  BY <1>1, ElementOfSeq DEF WindowOK
<1>. QED  BY <1>2, TypeOfToken DEF peek

\* An offset is a number; that of a token of the text is its index less one.
LEMMA OffsetNumber ==
    ASSUME input \in Seq(Token), NEW p \in 1 .. Len(input)
    PROVE  /\ Offset(p) \in Nat
           /\ input[p] # "Eof" => Offset(p) = p - 1
<1>1. DOMAIN input = 1 .. Len(input) /\ Len(input) \in Nat
  OBVIOUS
<1>2. IsFiniteSet(DOMAIN input)
  BY <1>1, FS_Interval
<1>3. {q \in DOMAIN input : input[q] # "Eof"} \in SUBSET DOMAIN input
  OBVIOUS
<1>4. Cardinality({q \in DOMAIN input : input[q] # "Eof"}) \in Nat
  BY <1>2, <1>3, FS_Subset, FS_CardinalityType
<1>5. p - 1 \in Nat
  BY <1>1
<1>. QED  BY <1>4, <1>5 DEF Offset

\* The next tokens of the lexer are tokens.
LEMMA FollowTokens ==
    ASSUME source \in Source, NEW given \in Seq(Token)
    PROVE  Follow(given) \subseteq Token
<1>1. CASE given # <<>> /\ Last(given) = "Eof"
  BY <1>1, EofToken DEF Follow
<1>2. CASE ~(given # <<>> /\ Last(given) = "Eof") /\ Len(given) < Len(source)
  <2>1. source \in Seq(SUBSET Token)
    BY SourceAssumption
  <2>2. Len(given) + 1 \in 1 .. Len(source)
    BY <1>2, <2>1
  <2>3. source[Len(given) + 1] \in SUBSET Token
    BY <2>1, <2>2, ElementOfSeq
  <2>. QED  BY <1>2, <2>3 DEF Follow
<1>3. CASE ~(given # <<>> /\ Last(given) = "Eof") /\ ~(Len(given) < Len(source))
  BY <1>3, EofToken DEF Follow
<1>. QED  BY <1>1, <1>2, <1>3

\* advance keeps the window and what has left it.
LEMMA AdvanceKeeps ==
    ASSUME WindowOK, NEW n \in {0, 1, 2}, Advance(n)
    PROVE  /\ WindowOK' /\ pos' = pos + n
           /\ \A p \in 1 .. Len(input) : input'[p] = input[p]
<1>1. PICK more \in Pulled(n) : input' = input \o more
  BY DEF Advance
<1>2. more \in Seq(Token) /\ Len(more) = n
  <2>1. CASE n = 0
    BY <2>1 DEF Pulled
  <2>2. CASE n = 1
    <3>1. PICK t \in Follow(input) : more = <<t>>
      BY <2>2 DEF Pulled
    <3>2. t \in Token
      BY <3>1, FollowTokens DEF WindowOK
    <3>. QED  BY <2>2, <3>1, <3>2
  <2>3. CASE n = 2
    <3>1. PICK t \in Follow(input) : more \in {<<t, u>> : u \in Follow(Append(input, t))}
      BY <2>3 DEF Pulled
    <3>2. PICK u \in Follow(Append(input, t)) : more = <<t, u>>
      BY <3>1
    <3>3. t \in Token
      BY <3>1, FollowTokens DEF WindowOK
    <3>4. Append(input, t) \in Seq(Token)
      BY <3>3 DEF WindowOK
    <3>5. u \in Token
      BY <3>2, <3>4, FollowTokens DEF WindowOK
    <3>. QED  BY <2>3, <3>2, <3>3, <3>5
  <2>. QED  BY <2>1, <2>2, <2>3
<1>3. /\ input' \in Seq(Token) /\ Len(input') = Len(input) + n
      /\ \A p \in 1 .. Len(input) : input'[p] = input[p]
  BY <1>1, <1>2, ConcatProperties DEF WindowOK
<1>4. source' = source /\ pos' = pos + n
  BY DEF Advance
<1>. QED  BY <1>3, <1>4 DEF WindowOK

-----------------------------------------------------------------------------
(* The tree.                                                               *)

\* What is popped of the held ids and what stays.
LEMMA PopParts ==
    ASSUME NEW v \in Seq(Int), NEW l, l = Len(v), NEW n \in 0 .. l, NEW id \in Int,
           NEW w, w = Append(SubSeq(v, 1, l - n), id)
    PROVE  /\ w \in Seq(Int) /\ Len(w) = l - n + 1
           /\ \A a \in 1 .. l - n : w[a] = v[a]
           /\ w[l - n + 1] = id
<1>1. l \in Nat /\ DOMAIN v = 1 .. l /\ \A a \in 1 .. l : v[a] \in Int
  OBVIOUS
<1>2. PICK m \in 0 .. l : m = l - n
  BY <1>1
<1>3. \A a \in 1 .. m : v[a] \in Int
  BY <1>1
<1>4. PICK u \in Seq(Int) : u = SubSeq(v, 1, m)
  <2>1. 1 \in Int /\ m \in Int
    OBVIOUS
  <2>. QED  BY <2>1, <1>3, SubSeqProperties
<1>5. Len(u) = m /\ \A a \in 1 .. m : u[a] = v[a]
  <2>1. Len(u) = IF 1 <= m THEN m - 1 + 1 ELSE 0
    BY <1>1, <1>3, <1>4, SubSeqProperties
  <2>2. \A a \in 1 .. m - 1 + 1 : u[a] = v[1 + a - 1]
    BY <1>1, <1>3, <1>4, SubSeqProperties
  <2>. QED  BY <1>1, <2>1, <2>2
<1>6. w = Append(u, id) /\ w \in Seq(Int)
  BY <1>2, <1>4, AppendProperties
<1>7. Len(w) = m + 1 /\ w[m + 1] = id /\ \A a \in 1 .. m : w[a] = u[a]
  BY <1>5, <1>6, AppendProperties
<1>. QED  BY <1>1, <1>2, <1>4, <1>5, <1>6, <1>7

\* Links that new nodes may have: null, another new node, or an id that is
\* popped; and none twice.
Fresh(nodes, t, v, n, id) ==
    /\ nodes \in Seq(AnyNode)
    /\ id \in Len(t) .. Len(t) + Len(nodes) - 1
    /\ \A m \in DOMAIN nodes : \A i \in DOMAIN nodes[m].kids :
           \/ nodes[m].kids[i] = Null
           \/ nodes[m].kids[i] \in Len(t) .. Len(t) + Len(nodes) - 1 /\ nodes[m].kids[i] # id
           \/ \E a \in Len(v) - n + 1 .. Len(v) : nodes[m].kids[i] = v[a]
    /\ \A k, m \in DOMAIN nodes : \A i \in DOMAIN nodes[k].kids, j \in DOMAIN nodes[m].kids :
           nodes[k].kids[i] = nodes[m].kids[j] /\ nodes[k].kids[i] # Null => k = m /\ i = j

\* Nodes with such links keep the forest, when one of them is held in the
\* place of the popped ids.
LEMMA GrownCreate ==
    ASSUME NEW t, NEW v, Grown(t, v), NEW l, l = Len(v), NEW n \in 0 .. l,
           NEW nodes, NEW id, Fresh(nodes, t, v, n, id)
    PROVE  Grown(t \o nodes, Append(SubSeq(v, 1, l - n), id))
<1>1. /\ t \in Seq(AnyNode) /\ v \in Seq(Int) /\ nodes \in Seq(AnyNode)
      /\ \A m \in DOMAIN t : t[m].kids \in Seq(Int)
      /\ \A m \in DOMAIN nodes : nodes[m].kids \in Seq(Int)
  <2>1. t \in Seq(AnyNode) /\ v \in Seq(Int) /\ nodes \in Seq(AnyNode)
    BY DEF Grown, Fresh
  <2>2. \A x \in AnyNode : x.kids \in Seq(Int)
    BY DEF AnyNode
  <2>. QED  BY <2>1, <2>2
<1>2. PICK c \in Nat : c = Len(t)
  BY <1>1
<1>3. PICK d \in Nat : d = Len(nodes)
  BY <1>1
<1>4. PICK u \in Seq(AnyNode) : u = t \o nodes
  BY <1>1, ConcatProperties
<1>5. /\ DOMAIN u = 1 .. c + d /\ Len(u) = c + d
      /\ \A k \in 1 .. c : u[k] = t[k]
      /\ \A k \in c + 1 .. c + d : u[k] = nodes[k - c]
  <2>1. /\ Len(u) = c + d
        /\ \A k \in 1 .. c + d : u[k] = IF k <= c THEN t[k] ELSE nodes[k - c]
    BY <1>1, <1>2, <1>3, <1>4, ConcatProperties
  <2>2. \A k \in 1 .. c : k \in 1 .. c + d /\ k <= c
    OBVIOUS
  <2>3. \A k \in c + 1 .. c + d : k \in 1 .. c + d /\ ~(k <= c)
    OBVIOUS
  <2>. QED  BY <2>1, <2>2, <2>3
<1>6. l \in Nat /\ DOMAIN v = 1 .. l /\ DOMAIN t = 1 .. c /\ DOMAIN nodes = 1 .. d
  BY <1>1, <1>2, <1>3
<1>7. id \in c .. c + d - 1 /\ id \in Int
  BY <1>2, <1>3 DEF Fresh
<1>8. PICK w \in Seq(Int) : w = Append(SubSeq(v, 1, l - n), id)
  BY <1>1, <1>7, PopParts
<1>9. PICK e \in 0 .. l : e = l - n
  <2>1. l \in Nat /\ n \in Nat /\ n <= l
    BY <1>6
  <2>2. l - n \in 0 .. l
    BY <2>1
  <2>. QED  BY <2>2
<1>10. /\ DOMAIN w = 1 .. e + 1 /\ w[e + 1] = id
       /\ \A a \in 1 .. e : w[a] = v[a]
  <2>1. Len(w) = l - n + 1 /\ w[l - n + 1] = id /\ \A a \in 1 .. l - n : w[a] = v[a]
    <3>1. v \in Seq(Int) /\ id \in Int
      BY <1>1, <1>7
    <3>. QED  BY <1>8, <3>1, PopParts
  <2>2. DOMAIN w = 1 .. Len(w)
    OBVIOUS
  <2>. QED  BY <1>9, <2>1, <2>2
<1>11. \A m \in 1 .. c : \A i \in DOMAIN t[m].kids : t[m].kids[i] \in -1 .. c - 1
  BY <1>2, <1>6 DEF Grown
<1>12. \A a \in 1 .. l : v[a] \in -1 .. c - 1
  BY <1>2, <1>6 DEF Grown
<1>13. \A m \in 1 .. d : \A i \in DOMAIN nodes[m].kids :
           \/ nodes[m].kids[i] = Null
           \/ nodes[m].kids[i] \in c .. c + d - 1 /\ nodes[m].kids[i] # id
           \/ \E a \in e + 1 .. l : nodes[m].kids[i] = v[a]
  <2>1. \A m \in DOMAIN nodes : \A i \in DOMAIN nodes[m].kids :
           \/ nodes[m].kids[i] = Null
           \/ nodes[m].kids[i] \in c .. c + d - 1 /\ nodes[m].kids[i] # id
           \/ \E a \in e + 1 .. l : nodes[m].kids[i] = v[a]
    BY <1>2, <1>3, <1>9 DEF Fresh
  <2>. QED  BY <2>1, <1>6
<1>14. /\ \A k \in 1 .. c + d : k \in 1 .. c \/ (k \in c + 1 .. c + d /\ k - c \in 1 .. d)
       /\ \A k \in c + 1 .. c + d : k = (k - c) + c
  OBVIOUS
<1>15. ASSUME NEW m \in 1 .. d, NEW i \in DOMAIN nodes[m].kids
       PROVE  nodes[m].kids[i] \in -1 .. c + d - 1
  <2>1. CASE nodes[m].kids[i] = Null
    BY <2>1 DEF Null
  <2>2. CASE nodes[m].kids[i] \in c .. c + d - 1
    BY <2>2
  <2>3. CASE \E a \in e + 1 .. l : nodes[m].kids[i] = v[a]
    <3>1. PICK a \in e + 1 .. l : nodes[m].kids[i] = v[a]
      BY <2>3
    <3>2. a \in 1 .. l
      BY <1>6, <1>9
    <3>3. v[a] \in -1 .. c - 1
      BY <3>2, <1>12
    <3>. QED  BY <3>1, <3>3
  <2>. QED  BY <2>1, <2>2, <2>3, <1>13
<1>16. \A k \in DOMAIN u : \A i \in DOMAIN u[k].kids : u[k].kids[i] \in -1 .. Len(u) - 1
  <2>. TAKE k \in DOMAIN u
  <2>1. CASE k \in 1 .. c
    BY SMTT(30), <2>1, <1>5, <1>11
  <2>2. CASE k \in c + 1 .. c + d /\ k - c \in 1 .. d
    BY SMTT(30), <2>2, <1>5, <1>15
  <2>. QED  BY <2>1, <2>2, <1>5, <1>14
<1>17. \A a \in DOMAIN w : w[a] \in -1 .. Len(u) - 1
  <2>1. \A a \in 1 .. e : w[a] \in -1 .. c - 1
    <3>1. \A a \in 1 .. e : a \in 1 .. l
      BY <1>6
    <3>. QED  BY <3>1, <1>10, <1>12
  <2>2. \A a \in 1 .. e + 1 : a \in 1 .. e \/ a = e + 1
    OBVIOUS
  <2>3. \A x \in -1 .. c - 1 : x \in -1 .. c + d - 1
    OBVIOUS
  <2>4. id \in -1 .. c + d - 1
    BY <1>7
  <2>. QED  BY <1>5, <1>10, <2>1, <2>2, <2>3, <2>4
<1>18. \A k, m \in DOMAIN u : \A i \in DOMAIN u[k].kids, j \in DOMAIN u[m].kids :
           u[k].kids[i] = u[m].kids[j] /\ u[k].kids[i] # Null => k = m /\ i = j
  <2>. SUFFICES ASSUME NEW k \in DOMAIN u, NEW m \in DOMAIN u,
                       NEW i \in DOMAIN u[k].kids, NEW j \in DOMAIN u[m].kids,
                       u[k].kids[i] = u[m].kids[j], u[k].kids[i] # Null
                PROVE  k = m /\ i = j
    OBVIOUS
  <2>0. ASSUME NEW p \in 1 .. c, NEW r \in 1 .. d,
               NEW q \in DOMAIN t[p].kids, NEW s \in DOMAIN nodes[r].kids,
               t[p].kids[q] = nodes[r].kids[s]
        PROVE  t[p].kids[q] = Null
    <3>1. t[p].kids[q] \in -1 .. c - 1
      BY <1>11
    <3>2. CASE nodes[r].kids[s] \in c .. c + d - 1
      BY <2>0, <3>1, <3>2
    <3>3. CASE \E a \in e + 1 .. l : nodes[r].kids[s] = v[a]
      <4>1. PICK a \in e + 1 .. l : nodes[r].kids[s] = v[a]
        BY <3>3
      <4>2. a \in DOMAIN v /\ p \in DOMAIN t
        BY <1>6, <1>9
      <4>3. t[p].kids[q] = v[a]
        BY <2>0, <4>1
      <4>4. v[a] = Null
        <5>1. \A x \in DOMAIN t : \A o \in DOMAIN t[x].kids, b \in DOMAIN v :
                  t[x].kids[o] = v[b] => v[b] = Null
          BY DEF Grown
        <5>. QED  BY <4>2, <4>3, <5>1
      <4>. QED  BY <4>3, <4>4
    <3>. QED  BY <2>0, <3>2, <3>3, <1>13
  <2>1. CASE k \in 1 .. c /\ m \in 1 .. c
    <3>1. u[k] = t[k] /\ u[m] = t[m] /\ k \in DOMAIN t /\ m \in DOMAIN t
      BY <2>1, <1>5, <1>6
    <3>2. \A x, y \in DOMAIN t : \A o \in DOMAIN t[x].kids, r \in DOMAIN t[y].kids :
              t[x].kids[o] = t[y].kids[r] /\ t[x].kids[o] # Null => x = y /\ o = r
      BY DEF Grown
    <3>3. /\ i \in DOMAIN t[k].kids /\ j \in DOMAIN t[m].kids
          /\ t[k].kids[i] = t[m].kids[j] /\ t[k].kids[i] # Null
      BY <3>1
    <3>. QED  BY <3>1, <3>2, <3>3
  <2>2. CASE k \in c + 1 .. c + d /\ k - c \in 1 .. d /\ m \in c + 1 .. c + d /\ m - c \in 1 .. d
    <3>1. u[k] = nodes[k - c] /\ u[m] = nodes[m - c]
      BY <2>2, <1>5
    <3>2. PICK p \in 1 .. d, q \in 1 .. d : p = k - c /\ q = m - c /\ k = p + c /\ m = q + c
      <4>1. k = (k - c) + c /\ m = (m - c) + c
        BY <1>14, <2>2
      <4>. QED  BY <2>2, <4>1
    <3>3. /\ i \in DOMAIN nodes[p].kids /\ j \in DOMAIN nodes[q].kids
          /\ nodes[p].kids[i] = nodes[q].kids[j] /\ nodes[p].kids[i] # Null
      BY <3>1, <3>2
    <3>4. \A a, b \in DOMAIN nodes : \A x \in DOMAIN nodes[a].kids, y \in DOMAIN nodes[b].kids :
              nodes[a].kids[x] = nodes[b].kids[y] /\ nodes[a].kids[x] # Null => a = b /\ x = y
      BY DEF Fresh
    <3>5. p = q /\ i = j
      <4>1. p \in DOMAIN nodes /\ q \in DOMAIN nodes
        BY <1>6
      <4>. QED  BY <3>3, <3>4, <4>1
    <3>. QED  BY <3>2, <3>5
  <2>3. CASE k \in 1 .. c /\ m \in c + 1 .. c + d /\ m - c \in 1 .. d
    <3>1. PICK r \in 1 .. d : r = m - c
      BY <2>3
    <3>2. u[k] = t[k] /\ u[m] = nodes[r]
      BY <2>3, <3>1, <1>5
    <3>3. /\ i \in DOMAIN t[k].kids /\ j \in DOMAIN nodes[r].kids
          /\ t[k].kids[i] = nodes[r].kids[j] /\ t[k].kids[i] # Null
      BY <3>2
    <3>. QED  BY <2>0, <2>3, <3>3
  <2>4. CASE k \in c + 1 .. c + d /\ k - c \in 1 .. d /\ m \in 1 .. c
    <3>1. PICK r \in 1 .. d : r = k - c
      BY <2>4
    <3>2. u[m] = t[m] /\ u[k] = nodes[r]
      BY <2>4, <3>1, <1>5
    <3>3. /\ j \in DOMAIN t[m].kids /\ i \in DOMAIN nodes[r].kids
          /\ t[m].kids[j] = nodes[r].kids[i] /\ t[m].kids[j] # Null
      BY <3>2
    <3>. QED  BY <2>0, <2>4, <3>3
  <2>. QED  BY <2>1, <2>2, <2>3, <2>4, <1>5, <1>14
<1>19. \A k \in DOMAIN u : \A i \in DOMAIN u[k].kids, a \in DOMAIN w :
           u[k].kids[i] = w[a] => w[a] = Null
  <2>. SUFFICES ASSUME NEW k \in DOMAIN u, NEW i \in DOMAIN u[k].kids, NEW a \in DOMAIN w,
                       u[k].kids[i] = w[a]
                PROVE  w[a] = Null
    OBVIOUS
  <2>0. \A b \in 1 .. e : b \in 1 .. l
    BY <1>6
  <2>1. CASE k \in 1 .. c /\ a \in 1 .. e
    <3>1. k \in DOMAIN t /\ a \in DOMAIN v /\ u[k] = t[k] /\ w[a] = v[a]
      BY <2>0, <2>1, <1>5, <1>6, <1>10
    <3>2. \A x \in DOMAIN t : \A o \in DOMAIN t[x].kids, b \in DOMAIN v :
              t[x].kids[o] = v[b] => v[b] = Null
      BY DEF Grown
    <3>3. i \in DOMAIN t[k].kids /\ t[k].kids[i] = v[a]
      BY <3>1
    <3>. QED  BY <3>1, <3>2, <3>3
  <2>2. CASE k \in 1 .. c /\ a = e + 1
    <3>1. u[k].kids[i] \in -1 .. c - 1
      BY <2>2, <1>5, <1>11
    <3>. QED  BY <3>1, <2>2, <1>7, <1>10
  <2>3. CASE k \in c + 1 .. c + d /\ k - c \in 1 .. d /\ a \in 1 .. e
    <3>1. PICK m \in 1 .. d : m = k - c
      BY <2>3
    <3>2. i \in DOMAIN nodes[m].kids /\ nodes[m].kids[i] = v[a] /\ w[a] = v[a]
      BY <2>3, <3>1, <1>5, <1>10
    <3>3. v[a] \in -1 .. c - 1
      BY <2>0, <2>3, <1>12
    <3>4. CASE \E b \in e + 1 .. l : nodes[m].kids[i] = v[b]
      <4>1. PICK b \in e + 1 .. l : v[a] = v[b]
        BY <3>2, <3>4
      <4>2. a # b /\ a \in 1 .. l /\ b \in 1 .. l
        <5>1. a \in 1 .. e
          BY <2>3
        <5>2. a # b /\ b \in 1 .. l
          BY <5>1, <1>6
        <5>. QED  BY <5>1, <5>2, <2>0
      <4>. QED  BY <4>1, <4>2, <3>2, <1>6 DEF Grown
    <3>5. ~(nodes[m].kids[i] \in c .. c + d - 1)
      BY <3>2, <3>3
    <3>. QED  BY <3>2, <3>4, <3>5, <1>13
  <2>4. CASE k \in c + 1 .. c + d /\ k - c \in 1 .. d /\ a = e + 1
    <3>1. PICK m \in 1 .. d : m = k - c
      BY <2>4
    <3>2. i \in DOMAIN nodes[m].kids /\ nodes[m].kids[i] = id /\ w[a] = id
      BY <2>4, <3>1, <1>5, <1>10
    <3>3. \A b \in e + 1 .. l : v[b] # id
      BY SMTT(30), <1>7, <1>9, <1>12
    <3>. QED  BY <3>2, <3>3, <1>13
  <2>. QED  BY SMTT(30), <2>1, <2>2, <2>3, <2>4, <1>5, <1>10, <1>14
<1>20. \A a, b \in DOMAIN w : w[a] = w[b] /\ w[a] # Null => a = b
  <2>. SUFFICES ASSUME NEW a \in DOMAIN w, NEW b \in DOMAIN w, w[a] = w[b], w[a] # Null
                PROVE  a = b
    OBVIOUS
  <2>1. \A x \in 1 .. e : w[x] = v[x] /\ v[x] # id /\ x \in DOMAIN v
    BY SMTT(30), <1>6, <1>7, <1>9, <1>10, <1>12
  <2>2. CASE a \in 1 .. e /\ b \in 1 .. e
    BY <2>1, <2>2 DEF Grown
  <2>3. CASE a = e + 1 \/ b = e + 1
    BY SMTT(30), <2>1, <2>3, <1>10
  <2>. QED  BY <2>2, <2>3, <1>10
<1>21. Grown(u, w)
  BY <1>16, <1>17, <1>18, <1>19, <1>20 DEF Grown
<1>. QED  BY <1>4, <1>8, <1>21

\* Holding a null id keeps the forest, and so does letting an id go.
LEMMA GrownNull ==
    ASSUME NEW t, NEW v, Grown(t, v)
    PROVE  Grown(t, Append(v, Null))
<1>1. t \in Seq(AnyNode) /\ v \in Seq(Int) /\ Null \in Int
  BY DEF Grown, Null
<1>2. PICK l \in Nat : l = Len(v)
  BY <1>1
<1>3. PICK w \in Seq(Int) : w = Append(v, Null)
  BY <1>1, AppendProperties
<1>4. /\ DOMAIN w = 1 .. l + 1 /\ DOMAIN v = 1 .. l /\ w[l + 1] = Null
      /\ \A a \in 1 .. l : w[a] = v[a]
  BY <1>1, <1>2, <1>3
<1>5. \A a \in DOMAIN w : (a \in DOMAIN v /\ w[a] = v[a]) \/ w[a] = Null
  BY <1>2, <1>4
<1>6. Null \in -1 .. Len(t) - 1
  BY <1>1 DEF Null
<1>7. \A a \in DOMAIN w : w[a] \in -1 .. Len(t) - 1
  BY <1>5, <1>6 DEF Grown
<1>8. \A n \in DOMAIN t : \A i \in DOMAIN t[n].kids, a \in DOMAIN w :
          t[n].kids[i] = w[a] => w[a] = Null
  BY <1>5 DEF Grown
<1>9. \A a, b \in DOMAIN w : w[a] = w[b] /\ w[a] # Null => a = b
  BY <1>5 DEF Grown
<1>10. Grown(t, w)
  BY <1>7, <1>8, <1>9 DEF Grown
<1>. QED  BY <1>3, <1>10

\* An id that is let go.
LEMMA GrownDrop ==
    ASSUME NEW t, NEW v, Grown(t, v), NEW l, l = Len(v), l > 0
    PROVE  Grown(t, SubSeq(v, 1, l - 1)) /\ Len(SubSeq(v, 1, l - 1)) = l - 1
<1>1. t \in Seq(AnyNode) /\ v \in Seq(Int) /\ l \in Nat /\ DOMAIN v = 1 .. l
  BY DEF Grown
<1>2. PICK m \in Nat : m = l - 1 /\ m < l
  BY <1>1
<1>3. \A a \in 1 .. m : v[a] \in Int
  <2>1. \A a \in 1 .. m : a \in 1 .. l
    BY <1>1, <1>2
  <2>. QED  BY <1>1, <2>1, ElementOfSeq
<1>4. PICK w \in Seq(Int) : w = SubSeq(v, 1, m)
  <2>1. 1 \in Int /\ m \in Int
    OBVIOUS
  <2>. QED  BY <2>1, <1>3, SubSeqProperties
<1>5. Len(w) = m /\ \A a \in 1 .. m : w[a] = v[a]
  <2>1. Len(w) = IF 1 <= m THEN m - 1 + 1 ELSE 0
    BY <1>3, <1>4, SubSeqProperties
  <2>2. \A a \in 1 .. m - 1 + 1 : w[a] = v[1 + a - 1]
    BY <1>3, <1>4, SubSeqProperties
  <2>. QED  BY <2>1, <2>2
<1>6. \A a \in DOMAIN w : a \in DOMAIN v /\ w[a] = v[a]
  BY <1>1, <1>2, <1>4, <1>5
<1>7. Grown(t, w)
  BY <1>6 DEF Grown
<1>. QED  BY <1>2, <1>4, <1>5, <1>7

-----------------------------------------------------------------------------
(* What an action does to the whole state.                                 *)

\* The number of ids held when the first task is done.
Done == Len(vals) - Takes(Head(agenda)) + Gives(Head(agenda))

\* The first task is one, and it finds what it takes.
LEMMA HeadReady ==
    ASSUME IInv
    PROVE  /\ Head(agenda) \in AnyTask /\ Head(agenda) = agenda[1]
           /\ Len(vals) \in Nat /\ Done \in Nat
           /\ Does(Head(agenda), Len(vals), Done)
<1>1. Remains(agenda, Len(vals))
  BY DEF IInv
<1>2. agenda \in Seq(AnyTask) /\ agenda # <<>>
  BY <1>1 DEF Remains
<1>3. PICK b \in Nat : Does(Head(agenda), Len(vals), b)
  BY <1>1, <1>2, RunsTail DEF Remains
<1>4. b = Done /\ Len(vals) \in Nat
  BY <1>3 DEF Does, Done
<1>. QED  BY <1>2, <1>3, <1>4, HeadTailProperties

\* What the first task changes, by what it does.
LEMMA HeadChange ==
    ASSUME IInv
    PROVE  LET do == Head(agenda)[1]
               l  == Len(vals)
           IN  /\ do \in {"statement", "param", "primary", "base", "body", "when", "unless",
                          "declarator"} => Done = l + 1
               /\ do \in {"expect", "skip", "block", "more", "arguments", "guardrail"} => Done = l
               /\ do \in {"postfix", "operators", "declare variable"} => Done = l /\ l > 0
               /\ do = "drop" => Done = l - 1 /\ l > 0
               /\ do \in {"declare type", "declare function"} => Done = l - 1 /\ l > 1
               /\ do = "build" => Done = l - Head(agenda)[2].take + 1
                                  /\ Head(agenda)[2].take \in 0 .. l
<1>. PICK t : t = Head(agenda)
  OBVIOUS
<1>. PICK l \in Nat : l = Len(vals)
  BY HeadReady
<1>1. Takes(t) \in 0 .. l /\ Done = l - Takes(t) + Gives(t)
  BY HeadReady DEF Does
<1>2. /\ t[1] \in {"statement", "param", "primary", "base", "body", "when", "unless",
                   "declarator"} => Takes(t) = 0 /\ Gives(t) = 1
      /\ t[1] \in {"expect", "skip", "block", "more", "arguments", "guardrail"} =>
             Takes(t) = 0 /\ Gives(t) = 0
  BY DEF Takes, Gives
<1>3. /\ t[1] \in {"postfix", "operators", "declare variable"} => Takes(t) = 1 /\ Gives(t) = 1
      /\ t[1] = "drop" => Takes(t) = 1 /\ Gives(t) = 0
      /\ t[1] \in {"declare type", "declare function"} => Takes(t) = 2 /\ Gives(t) = 1
      /\ t[1] = "build" => Takes(t) = t[2].take /\ Gives(t) = 1
  BY DEF Takes, Gives
<1>4. /\ Takes(t) = 0 /\ Gives(t) = 1 => Done = l + 1
      /\ Takes(t) = 0 /\ Gives(t) = 0 => Done = l
      /\ Takes(t) = 1 /\ Gives(t) = 1 => Done = l /\ l > 0
      /\ Takes(t) = 1 /\ Gives(t) = 0 => Done = l - 1 /\ l > 0
      /\ Takes(t) = 2 /\ Gives(t) = 1 => Done = l - 1 /\ l > 1
      /\ Gives(t) = 1 => Done = l - Takes(t) + 1
  BY <1>1
<1>. QED  BY <1>1, <1>2, <1>3, <1>4

\* The arguments of the first task, by what it does.
LEMMA HeadArg ==
    ASSUME NEW t \in AnyTask
    PROVE  /\ t[1] \in {"statement", "param"} => t[2] \in SUBSET Qualifier
           /\ t[1] = "operators" => t[2] \in Nat
           /\ t[1] \in {"expect", "skip"} => t[2] \in TokenType
           /\ t[1] \in {"when", "unless"} => t[2] \in ChoiceArg
           /\ t[1] = "more" => t[2] = Param
           /\ t[1] = "build" => t[2] \in BuildTask
           /\ t[1] \in Declare => t[2] \in DeclArg
           /\ t = <<t[1], t[2]>>
           /\ t[1] = "guardrail" => t[2] \in Nat
           /\ t[1] = "unit" => t = Task("unit", 0)
<1>1. \/ t \in {"statement", "param"} \X SUBSET Qualifier
      \/ t \in {"primary", "postfix", "drop", "block", "arguments", "base", "body"} \X {0}
      \/ t \in {"operators"} \X Nat
      \/ t \in {"expect", "skip"} \X TokenType
      \/ t \in {"when", "unless"} \X ChoiceArg
      \/ t \in {"more"} \X {Param}
      \/ t \in {"build"} \X BuildTask
      \/ t \in Declare \X DeclArg
      \/ t \in {"guardrail"} \X Nat
      \/ t = <<"unit", 0>>
  BY DEF AnyTask, Task, PlainTask
<1>2. t = <<t[1], t[2]>>
  BY <1>1
<1>3. CASE t \in {"statement", "param"} \X SUBSET Qualifier
  BY <1>2, <1>3 DEF Declare
<1>4. CASE t \in {"primary", "postfix", "drop", "block", "arguments", "base", "body"} \X {0}
  BY <1>2, <1>4 DEF Declare
<1>5. CASE t \in {"operators"} \X Nat
  BY <1>2, <1>5 DEF Declare
<1>6. CASE t \in {"expect", "skip"} \X TokenType
  BY <1>2, <1>6 DEF Declare
<1>7. CASE t \in {"when", "unless"} \X ChoiceArg
  BY <1>2, <1>7 DEF Declare
<1>8. CASE t \in {"more"} \X {Param}
  BY <1>2, <1>8 DEF Declare
<1>9. CASE t \in {"build"} \X BuildTask
  BY <1>2, <1>9 DEF Declare
<1>10. CASE t \in Declare \X DeclArg
  BY <1>2, <1>10 DEF Declare
<1>11. CASE t \in {"guardrail"} \X Nat
  BY <1>2, <1>11 DEF Declare
<1>12. CASE t = <<"unit", 0>>
  BY <1>2, <1>12 DEF Declare, Task
<1>. QED  BY <1>1, <1>3, <1>4, <1>5, <1>6, <1>7, <1>8, <1>9, <1>10, <1>11, <1>12

\* Consuming a token, or passing the burden on, keeps the guardrails behind
\* a task that consumes one.
LEMMA GuardedSplice ==
    ASSUME NEW s, NEW v, Remains(s, v), NEW p \in Nat, Guarded(s, p), NEW n \in Nat,
           NEW seg \in Seq(PlainTask),
           \/ n > 0
           \/ Head(s)[1] \notin {"statement", "primary"}
           \/ \E j \in 1 .. Len(seg) : seg[j][1] \in {"statement", "primary"}
    PROVE  Guarded(seg \o Tail(s), p + n)
<1>1. s \in Seq(AnyTask) /\ s # <<>> /\ Head(s) = s[1]
  BY DEF Remains
<1>2. PICK c \in Nat : c + 1 = Len(s)
  <2>1. Len(s) \in Nat \ {0}
    BY <1>1, EmptySeq
  <2>2. Len(s) - 1 \in Nat /\ Len(s) - 1 + 1 = Len(s)
    BY <2>1
  <2>. QED  BY <2>2
<1>3. PICK u \in Seq(AnyTask) : u = Tail(s)
  BY <1>1, HeadTailProperties
<1>4. Len(u) = c /\ \A k \in 1 .. c : u[k] = s[k + 1]
  BY <1>1, <1>2, <1>3, HeadTailProperties
<1>5. PICK m \in Nat : m = Len(seg)
  OBVIOUS
<1>6. seg \in Seq(AnyTask)
  BY SeqMonotonic DEF AnyTask
<1>7. PICK x \in Seq(AnyTask) : x = seg \o u
  BY <1>3, <1>6, ConcatProperties
<1>8. /\ Len(x) = m + c /\ DOMAIN x = 1 .. m + c
      /\ \A k \in 1 .. m + c : x[k] = IF k <= m THEN seg[k] ELSE u[k - m]
  <2>1. Len(seg) = m /\ Len(u) = c
    BY <1>4, <1>5
  <2>2. /\ Len(x) = m + c
        /\ \A k \in 1 .. m + c : x[k] = IF k <= m THEN seg[k] ELSE u[k - m]
    BY ZenonT(40), <2>1, <1>3, <1>6, <1>7, ConcatProperties
  <2>3. DOMAIN x = 1 .. Len(x)
    OBVIOUS
  <2>. QED  BY <2>2, <2>3
<1>9. ASSUME NEW k \in 1 .. m + c, x[k][1] = "guardrail"
      PROVE  /\ x[k][2] <= p + n
             /\ x[k][2] = p + n => \E j \in 1 .. k - 1 : x[j][1] \in {"statement", "primary"}
  <2>1. k > m
    <3>1. SUFFICES ASSUME k <= m PROVE FALSE
      OBVIOUS
    <3>2. x[k] \in PlainTask
      BY <1>5, <1>8, <3>1, ElementOfSeq
    <3>. QED  BY <1>9, <3>2 DEF PlainTask, Declare
  <2>2. PICK i \in 1 .. c : i = k - m
    BY <2>1
  <2>3. x[k] = s[i + 1]
    <3>1. x[k] = u[i]
      BY <1>8, <2>1, <2>2
    <3>. QED  BY <3>1, <1>4
  <2>4. /\ s[i + 1] \in AnyTask
        /\ s[i + 1][2] <= p
        /\ s[i + 1][2] = p => \E j \in 1 .. i : s[j][1] \in {"statement", "primary"}
    <3>1. i + 1 \in DOMAIN s /\ i + 1 - 1 = i
      BY <1>1, <1>2
    <3>. QED  BY <3>1, <2>3, <1>1, <1>9, ElementOfSeq DEF Guarded
  <2>5. s[i + 1][2] \in Nat
    BY <1>9, <2>3, <2>4, HeadArg
  <2>6. ASSUME s[i + 1][2] = p, n = 0
        PROVE  \E j \in 1 .. k - 1 : x[j][1] \in {"statement", "primary"}
    <3>1. PICK j \in 1 .. i : s[j][1] \in {"statement", "primary"}
      BY <2>4, <2>6
    <3>2. CASE j = 1
      <4>1. PICK q \in 1 .. m : seg[q][1] \in {"statement", "primary"}
        BY <1>1, <1>5, <2>6, <3>1, <3>2
      <4>2. x[q] = seg[q] /\ q \in 1 .. k - 1
        BY <1>8, <2>1
      <4>. QED  BY <4>1, <4>2
    <3>3. CASE j > 1
      <4>1. PICK q \in 1 .. c : q = j - 1
        BY <3>3
      <4>2. u[q] = s[j]
        BY <1>4, <4>1
      <4>3. m + q \in 1 .. m + c /\ ~(m + q <= m) /\ m + q - m = q /\ m + q \in 1 .. k - 1
        BY <2>2, <4>1
      <4>4. x[m + q] = u[q]
        BY <1>8, <4>3
      <4>. QED  BY <3>1, <4>2, <4>3, <4>4
    <3>. QED  BY <3>2, <3>3
  <2>7. s[i + 1][2] <= p + n /\ (s[i + 1][2] = p + n => s[i + 1][2] = p /\ n = 0)
    <3>1. \A o \in Nat : o <= p => o <= p + n /\ (o = p + n => o = p /\ n = 0)
      OBVIOUS
    <3>. QED  BY <2>4, <2>5, <3>1
  <2>. QED  BY <2>3, <2>6, <2>7
<1>10. Guarded(x, p + n)
  BY <1>8, <1>9 DEF Guarded
<1>. QED  BY <1>3, <1>7, <1>10

\* The window moves on by n tokens.
Moves(n) == n \in Nat /\ WindowOK' /\ pos' = pos + n

\* Consuming tokens moves the window, and doing nothing does not.
LEMMA MoveWindow ==
    ASSUME WindowOK
    PROVE  /\ \A n \in {0, 1, 2} : Advance(n) => Moves(n)
           /\ Stay => Moves(0)
<1>1. ASSUME NEW n \in {0, 1, 2}, Advance(n) PROVE Moves(n)
  BY <1>1, AdvanceKeeps DEF Moves
<1>2. ASSUME Stay PROVE Moves(0)
  BY <1>2 DEF Stay, Moves, WindowOK
<1>. QED  BY <1>1, <1>2

\* A segment that leaves the guardrails behind a task that consumes.
Safe(seg, n) ==
    \/ n > 0
    \/ Head(agenda)[1] \notin {"statement", "primary"}
    \/ \E j \in 1 .. Len(seg) : seg[j][1] \in {"statement", "primary"}

\* The first task is done, what it held is held, and a segment takes its
\* place that ends as it would have.
LEMMA ThenKeeps ==
    ASSUME IInv, Head(agenda)[1] # "unit",
           NEW n, Moves(n), NEW seg, Then(seg), Safe(seg, n),
           Grown(tree', vals'), Segment(seg, Len(vals'), Done),
           outcome' \in {"run", "done", "error"}
    PROVE  IInv'
<1>1. Remains(agenda, Len(vals)) /\ Guarded(agenda, pos) /\ pos \in Nat
  BY DEF IInv, WindowOK
<1>2. agenda' = seg \o Tail(agenda)
  BY DEF Then
<1>3. Remains(agenda', Len(vals'))
  BY <1>1, <1>2, HeadReady, Splice
<1>4. Guarded(agenda', pos')
  <2>1. seg \in Seq(PlainTask)
    BY DEF Segment
  <2>2. n \in Nat /\ pos' = pos + n
    BY DEF Moves
  <2>3. Guarded(seg \o Tail(agenda), pos + n)
    BY <1>1, <2>1, <2>2, GuardedSplice DEF Safe
  <2>. QED  BY <1>2, <2>2, <2>3
<1>. QED  BY <1>3, <1>4 DEF IInv, Moves

\* Consuming tokens and going on with a segment.
LEMMA GoKeeps ==
    ASSUME IInv, Head(agenda)[1] # "unit",
           NEW n \in {0, 1, 2}, NEW seg, Go(n, seg), Safe(seg, n), Segment(seg, Len(vals), Done)
    PROVE  IInv'
<1>1. Moves(n)
  BY MoveWindow DEF IInv, Go
<1>2. tree' = tree /\ vals' = vals /\ outcome' = outcome /\ Then(seg)
  BY DEF Go
<1>3. Grown(tree', vals') /\ Segment(seg, Len(vals'), Done)
  BY <1>2 DEF IInv
<1>4. outcome' \in {"run", "done", "error"}
  BY <1>2 DEF IInv
<1>. QED  BY <1>1, <1>2, <1>3, <1>4, ThenKeeps

\* Consuming tokens and holding a null id.
LEMMA GoNullKeeps ==
    ASSUME IInv, Head(agenda)[1] \notin {"unit", "statement", "primary"},
           NEW n \in {0, 1, 2}, GoNull(n), Done = Len(vals) + 1
    PROVE  IInv'
<1>1. Moves(n)
  BY MoveWindow DEF IInv, GoNull
<1>2. tree' = tree /\ vals' = Append(vals, Null) /\ outcome' = outcome /\ Then(<<>>)
  BY DEF GoNull
<1>3. Grown(tree', vals')
  BY <1>2, GrownNull DEF IInv
<1>4. Len(vals') = Done /\ Done \in Nat
  BY <1>2, HeadReady DEF IInv, Grown, Null
<1>5. Segment(<<>>, Len(vals'), Done)
  BY <1>4, SegmentNil
<1>6. Safe(<<>>, n)
  BY DEF Safe
<1>7. outcome' \in {"run", "done", "error"}
  BY <1>2 DEF IInv
<1>. QED  BY <1>1, <1>2, <1>3, <1>5, <1>6, <1>7, ThenKeeps

\* What is created is a forest with one more id held.
LEMMA CreateGrows ==
    ASSUME IInv, NEW nodes, NEW id, NEW k \in 0 .. Len(vals), Create(nodes, id, k),
           Fresh(nodes, tree, vals, k, id)
    PROVE  Grown(tree', vals') /\ Len(vals') = Len(vals) - k + 1
<1>1. /\ tree' = tree \o nodes
      /\ vals' = Append(SubSeq(vals, 1, Len(vals) - k), id)
  BY DEF Create, Pop
<1>2. Grown(tree, vals) /\ vals \in Seq(Int) /\ id \in Int
  <2>1. Grown(tree, vals) /\ tree \in Seq(AnyNode) /\ nodes \in Seq(AnyNode) /\ vals \in Seq(Int)
    BY DEF IInv, Grown, Fresh
  <2>2. Len(tree) \in Nat /\ Len(nodes) \in Nat
    BY <2>1
  <2>. QED  BY <2>1, <2>2 DEF Fresh
<1>3. PICK l : l = Len(vals)
  OBVIOUS
<1>4. Grown(tree', vals')
  BY <1>1, <1>2, <1>3, GrownCreate
<1>5. Len(Append(SubSeq(vals, 1, l - k), id)) = l - k + 1
  BY <1>2, <1>3, PopParts
<1>. QED  BY <1>1, <1>3, <1>4, <1>5

\* Creating nodes and going on with a segment.
LEMMA CreateKeeps ==
    ASSUME IInv, Head(agenda)[1] # "unit",
           NEW n, Moves(n), NEW seg, Then(seg), Safe(seg, n),
           NEW nodes, NEW id, NEW k \in 0 .. Len(vals), Create(nodes, id, k),
           Fresh(nodes, tree, vals, k, id),
           Segment(seg, Len(vals) - k + 1, Done), UNCHANGED outcome
    PROVE  IInv'
<1>1. Grown(tree', vals') /\ Segment(seg, Len(vals'), Done)
  BY CreateGrows
<1>2. outcome' \in {"run", "done", "error"}
  BY DEF IInv
<1>. QED  BY <1>1, <1>2, ThenKeeps

\* Creating nodes in the place of the latest id, the task staying.
LEMMA ReplaceKeeps ==
    ASSUME IInv, Head(agenda)[1] \notin {"statement", "primary"},
           NEW n, Moves(n), NEW nodes, NEW id, Create(nodes, id, 1), Len(vals) > 0,
           Fresh(nodes, tree, vals, 1, id), UNCHANGED <<agenda, outcome>>
    PROVE  IInv'
<1>1. Len(vals) \in Nat /\ Head(agenda) = agenda[1]
  BY HeadReady
<1>2. 1 \in 0 .. Len(vals)
  BY <1>1
<1>3. Grown(tree', vals') /\ Len(vals') = Len(vals)
  BY <1>1, <1>2, CreateGrows
<1>4. Remains(agenda', Len(vals'))
  BY <1>3 DEF IInv
<1>5. Guarded(agenda', pos')
  <2>1. agenda' = agenda /\ pos' = pos + n /\ n \in Nat /\ pos \in Nat /\ Guarded(agenda, pos)
    BY DEF Moves, IInv, WindowOK
  <2>2. agenda \in Seq(AnyTask)
    BY DEF IInv, Remains
  <2>3. ASSUME NEW k \in DOMAIN agenda, agenda[k][1] = "guardrail"
        PROVE  /\ agenda[k][2] <= pos + n
               /\ agenda[k][2] = pos + n =>
                      \E j \in 1 .. k - 1 : agenda[j][1] \in {"statement", "primary"}
    <3>1. agenda[k][2] \in Nat
      BY <2>2, <2>3, HeadArg, ElementOfSeq
    <3>. QED  BY <2>1, <2>3, <3>1 DEF Guarded
  <2>. QED  BY <2>1, <2>3 DEF Guarded
<1>. QED  BY <1>3, <1>4, <1>5 DEF IInv, Moves

\* An error, or nothing but the outcome.
LEMMA StandKeeps ==
    ASSUME IInv, Stay, UNCHANGED <<tree, agenda, vals>>, outcome' \in {"run", "done", "error"}
    PROVE  IInv'
BY DEF IInv, Stay, WindowOK

\* raiseError.
LEMMA ErrorKeeps ==
    ASSUME IInv, raiseError
    PROVE  IInv'
BY StandKeeps DEF raiseError

-----------------------------------------------------------------------------
(* The helpers keep the invariant.                                         *)

\* Nothing is left to do of a task that gives what it takes.
LEMMA GoNothing ==
    ASSUME IInv, Head(agenda)[1] \notin {"unit", "statement", "primary"},
           Done = Len(vals), NEW n \in {0, 1, 2}, Go(n, <<>>)
    PROVE  IInv'
<1>1. Segment(<<>>, Len(vals), Done)
  BY HeadReady, SegmentNil
<1>2. Safe(<<>>, n)
  BY DEF Safe
<1>. QED  BY <1>1, <1>2, GoKeeps

\* expect.
LEMMA ExpectTokenKeeps ==
    ASSUME IInv, ExpectToken
    PROVE  IInv'
<1>1. Head(agenda)[1] = "expect"
  BY DEF ExpectToken, At
<1>2. Done = Len(vals)
  BY <1>1, HeadChange
<1>3. CASE Go(1, <<>>)
  BY <1>1, <1>2, <1>3, GoNothing
<1>4. CASE raiseError
  BY <1>4, ErrorKeeps
<1>. QED  BY <1>3, <1>4 DEF ExpectToken

\* match without a claim.
LEMMA SkipTokenKeeps ==
    ASSUME IInv, SkipToken
    PROVE  IInv'
<1>1. Head(agenda)[1] = "skip"
  BY DEF SkipToken, At
<1>2. Done = Len(vals)
  BY <1>1, HeadChange
<1>3. PICK n \in {0, 1, 2} : Go(n, <<>>)
  BY DEF SkipToken
<1>. QED  BY <1>1, <1>2, <1>3, GoNothing

\* A returned id is ignored.
LEMMA DropIdKeeps ==
    ASSUME IInv, DropId
    PROVE  IInv'
<1>1. Head(agenda)[1] = "drop"
  BY DEF DropId, At
<1>2. Done = Len(vals) - 1 /\ Len(vals) > 0 /\ Done \in Nat
  BY <1>1, HeadChange, HeadReady
<1>3. PICK l : l = Len(vals)
  OBVIOUS
<1>4. vals' = SubSeq(vals, 1, l - 1) /\ tree' = tree
  BY <1>3 DEF DropId, Pop
<1>5. Grown(tree', vals') /\ Len(vals') = Done
  BY <1>2, <1>3, <1>4, GrownDrop DEF IInv
<1>6. Segment(<<>>, Len(vals'), Done)
  BY <1>2, <1>5, SegmentNil
<1>7. Moves(0) /\ Safe(<<>>, 0)
  BY <1>1, MoveWindow DEF IInv, DropId, Safe
<1>8. outcome' \in {"run", "done", "error"} /\ Then(<<>>)
  BY DEF DropId, IInv
<1>. QED  BY <1>1, <1>5, <1>6, <1>7, <1>8, ThenKeeps

\* A choice goes either way.
LEMMA ChooseKeeps ==
    ASSUME IInv, Choose
    PROVE  IInv'
<1>1. Head(agenda)[1] \in {"when", "unless"}
  BY DEF Choose, At
<1>2. Done = Len(vals) + 1 /\ Len(vals) \in Nat
  BY <1>1, HeadChange, HeadReady
<1>3. arg \in ChoiceArg
  BY <1>1, HeadReady, HeadArg DEF arg
<1>4. arg.n \in {0, 1, 2} /\ arg.tasks \in Alternatives
  BY <1>3 DEF ChoiceArg
<1>5. Segment(arg.tasks, Len(vals), Done)
  BY <1>2, <1>4, SegmentAlternative
<1>6. ASSUME NEW n \in {0, 1, 2}, Go(n, arg.tasks) PROVE IInv'
  BY <1>1, <1>5, <1>6, GoKeeps DEF Safe
<1>7. ASSUME NEW n \in {0, 1, 2}, GoNull(n) PROVE IInv'
  BY <1>1, <1>2, <1>7, GoNullKeeps
<1>. QED  BY <1>4, <1>6, <1>7 DEF Choose

\* Further items of a list.
LEMMA MoreItemsKeeps ==
    ASSUME IInv, MoreItems
    PROVE  IInv'
<1>1. Head(agenda)[1] = "more"
  BY DEF MoreItems, At
<1>2. Done = Len(vals) /\ Len(vals) \in Nat
  BY <1>1, HeadChange, HeadReady
<1>3. arg = Param
  BY <1>1, HeadReady, HeadArg DEF arg
<1>4. CASE Go(1, <<arg, Drop, More(arg)>>)
  <2>1. Segment(<<Param, Drop, More(Param)>>, Len(vals), Done)
    BY <1>2, StepCalled, Segment3
  <2>. QED  BY <1>1, <1>3, <1>4, <2>1, GoKeeps DEF Safe
<1>5. CASE Go(0, <<>>)
  BY <1>1, <1>2, <1>5, GoNothing
<1>. QED  BY <1>4, <1>5 DEF MoreItems

\* The last n of the held ids, one by one.
LEMMA LatestIds ==
    ASSUME NEW n \in 0 .. Len(vals), vals \in Seq(Int)
    PROVE  /\ Len(Latest(n)) = n
           /\ \A k \in 1 .. n : Latest(n)[k] = vals[Len(vals) - n + k]
<1>1. PICK l \in Nat : l = Len(vals)
  OBVIOUS
<1>2. PICK m \in Nat : m = l - n
  <2>1. n \in Nat /\ n <= l
    BY <1>1
  <2>2. l - n \in Nat
    BY <2>1
  <2>. QED  BY <2>2
<1>3. \A i \in m + 1 .. l : vals[i] \in Int
  BY <1>1, <1>2, ElementOfSeq
<1>4. m + 1 \in Int /\ l \in Int
  BY <1>1, <1>2
<1> DEFINE s == SubSeq(vals, m + 1, l)
<1>5. /\ Len(s) = IF m + 1 <= l THEN l - (m + 1) + 1 ELSE 0
      /\ \A i \in 1 .. l - (m + 1) + 1 : s[i] = vals[m + 1 + i - 1]
  BY <1>3, <1>4, SubSeqProperties
<1>6. s = Latest(n)
  BY <1>1, <1>2 DEF Latest
<1>. HIDE DEF s
<1>7. Len(s) = n
  BY <1>1, <1>2, <1>5
<1>8. ASSUME NEW k \in 1 .. n PROVE s[k] = vals[l - n + k]
  <2>1. k \in 1 .. l - (m + 1) + 1 /\ m + 1 + k - 1 = l - n + k
    BY <1>1, <1>2
  <2>. QED  BY <1>5, <2>1
<1>. QED  BY <1>1, <1>6, <1>7, <1>8

\* One new node, whose links are picked from the ids it takes.
LEMMA FreshOne ==
    ASSUME NEW node \in AnyNode, Grown(tree, vals), NEW k \in 0 .. Len(vals),
           \A i \in DOMAIN node.kids :
               \/ node.kids[i] = Null
               \/ \E a \in Len(vals) - k + 1 .. Len(vals) : node.kids[i] = vals[a],
           \A i, j \in DOMAIN node.kids :
               node.kids[i] = node.kids[j] /\ node.kids[i] # Null => i = j
    PROVE  Fresh(<<node>>, tree, vals, k, Len(tree))
<1>1. tree \in Seq(AnyNode) /\ Len(tree) \in Nat
  BY DEF Grown
<1>2. PICK s \in Seq(AnyNode) : s = <<node>>
  <2>1. <<node>> \in Seq(AnyNode)
    OBVIOUS
  <2>. QED  BY <2>1
<1>3. Len(s) = 1 /\ DOMAIN s = 1 .. 1 /\ s[1] = node
  BY <1>2
<1>4. \A m \in DOMAIN s : m = 1 /\ s[m] = node
  BY <1>3
<1>5. Len(tree) \in Len(tree) .. Len(tree) + Len(s) - 1
  BY <1>1, <1>3
<1>6. Fresh(s, tree, vals, k, Len(tree))
  BY <1>4, <1>5 DEF Fresh
<1>. QED  BY <1>2, <1>6

\* A node is made of the ids its task takes.
LEMMA BuildNodeKeeps ==
    ASSUME IInv, BuildNode
    PROVE  IInv'
<1>1. Head(agenda)[1] = "build"
  BY DEF BuildNode, At
<1>2. arg \in BuildArg /\ arg.pick \in Picks(arg.take)
  BY <1>1, HeadReady, HeadArg DEF arg, BuildTask
<1>3. /\ arg.take \in 0 .. Len(vals) /\ Done = Len(vals) - arg.take + 1
      /\ Done \in Nat /\ Len(vals) \in Nat
  BY <1>1, HeadChange, HeadReady DEF arg
<1>4. vals \in Seq(Int) /\ Grown(tree, vals)
  BY DEF IInv, Grown
<1>5. PICK l \in Nat : l = Len(vals)
  BY <1>3
<1>6. PICK take \in 0 .. l : take = arg.take
  BY <1>3, <1>5
<1>7. PICK pick \in Picks(take) : pick = arg.pick
  BY <1>2, <1>6
<1>8. /\ \A i \in DOMAIN pick : pick[i] \in 0 .. take
      /\ \A i, j \in DOMAIN pick : pick[i] = pick[j] /\ pick[i] # 0 => i = j
      /\ pick \in Seq(0 .. take)
  BY DEF Picks
<1> DEFINE held == Latest(take)
           kids == [i \in DOMAIN pick |-> IF pick[i] = 0 THEN Null ELSE held[pick[i]]]
           off  == IF arg.off = Here THEN Offset(pos + 1) ELSE arg.off
           len  == IF arg.kind = "UnaryExpr" /\ arg.op \in Prefix THEN 1 ELSE 0
           node == Node(arg.kind, off, len, arg.op, kids)
<1>9. \A n \in 1 .. take : held[n] = vals[l - take + n] /\ l - take + n \in l - take + 1 .. l
  <2>1. \A n \in 1 .. take : held[n] = vals[l - take + n]
    BY <1>4, <1>5, LatestIds
  <2>2. \A n \in 1 .. take : l - take + n \in l - take + 1 .. l
    OBVIOUS
  <2>. QED  BY <2>1, <2>2
<1>10. DOMAIN vals = 1 .. l /\ \A a \in 1 .. l : vals[a] \in Int
  BY <1>4, <1>5, ElementOfSeq
<1>. HIDE DEF held
<1>11. \A i \in DOMAIN pick : pick[i] # 0 => pick[i] \in 1 .. take
  BY <1>8
<1>12. \A i \in DOMAIN kids :
          \/ kids[i] = Null
          \/ \E a \in l - take + 1 .. l : kids[i] = vals[a]
  BY <1>9, <1>11
<1>13. \A i, j \in DOMAIN kids : kids[i] = kids[j] /\ kids[i] # Null => i = j
  <2>. SUFFICES ASSUME NEW i \in DOMAIN pick, NEW j \in DOMAIN pick,
                       kids[i] = kids[j], kids[i] # Null
                PROVE  i = j
    OBVIOUS
  <2>1. pick[i] \in 1 .. take /\ pick[j] \in 1 .. take
    BY <1>11
  <2>2. kids[i] = vals[l - take + pick[i]] /\ kids[j] = vals[l - take + pick[j]]
    BY <1>9, <2>1
  <2>3. l - take + pick[i] \in DOMAIN vals /\ l - take + pick[j] \in DOMAIN vals
    BY <1>10, <2>1
  <2>4. l - take + pick[i] = l - take + pick[j]
    BY <1>4, <2>2, <2>3 DEF Grown
  <2>5. pick[i] = pick[j] /\ pick[i] # 0
    BY <2>1, <2>4
  <2>. QED  BY <1>8, <2>5
<1>14. kids \in Seq(Int)
  <2>1. PICK n \in Nat : DOMAIN pick = 1 .. n
    BY <1>8
  <2>2. \A i \in 1 .. n : kids[i] \in Int
    <3>1. \A a \in l - take + 1 .. l : vals[a] \in Int
      BY <1>10
    <3>. QED  BY <1>12, <2>1, <3>1 DEF Null
  <2>3. kids = [i \in 1 .. n |-> kids[i]]
    BY <2>1
  <2>. HIDE DEF kids
  <2>4. [i \in 1 .. n |-> kids[i]] \in Seq(Int)
    BY <2>2, IsASeq
  <2>. QED  BY <2>3, <2>4
<1>15. off \in Nat
  <2>1. input \in Seq(Token) /\ pos + 1 \in 1 .. Len(input)
    BY DEF IInv, WindowOK
  <2>. QED  BY <2>1, <1>2, OffsetNumber DEF BuildArg
<1>16. node \in AnyNode /\ node.kids = kids
  <2>1. arg.kind \in NodeKind /\ arg.op \in TokenType \cup {NoOp} /\ len \in {0, 1}
    BY <1>2 DEF BuildArg
  <2>. HIDE DEF kids, off, len
  <2>. QED  BY <2>1, <1>14, <1>15 DEF Node, AnyNode
<1>17. Create(<<node>>, Len(tree), take) /\ Then(<<>>) /\ Stay /\ UNCHANGED outcome
  BY <1>6, <1>7 DEF BuildNode, held
<1>. HIDE DEF node, kids
<1>18. Fresh(<<node>>, tree, vals, take, Len(tree))
  BY <1>4, <1>5, <1>12, <1>13, <1>16, FreshOne
<1>19. Segment(<<>>, Len(vals) - take + 1, Done)
  BY <1>3, <1>6, SegmentNil
<1>20. Moves(0) /\ Safe(<<>>, 0)
  BY <1>1, <1>17, MoveWindow DEF IInv, Safe
<1>. QED  BY <1>1, <1>5, <1>17, <1>18, <1>19, <1>20, CreateKeeps

-----------------------------------------------------------------------------
(* Expressions keep the invariant.                                         *)

\* A precedence is a number.
LEMMA PrecedenceNumber ==
    ASSUME NEW t
    PROVE  Precedence(t) \in Nat
<1>1. DOMAIN Level \subseteq Nat
  BY DEF Level
<1>. HIDE DEF Level
<1>2. CASE \E l \in DOMAIN Level : t \in Level[l]
  <2>1. Precedence(t) = CHOOSE l \in DOMAIN Level : t \in Level[l]
    BY <1>2 DEF Precedence
  <2>. QED  BY <1>1, <1>2, <2>1
<1>3. CASE ~\E l \in DOMAIN Level : t \in Level[l]
  BY <1>3 DEF Precedence
<1>. QED  BY <1>2, <1>3

\* The window's tokens and their offsets.
LEMMA WindowTokens ==
    ASSUME IInv
    PROVE  /\ peek(0) \in TokenType /\ peek(1) \in TokenType
           /\ Offset(pos + 1) \in Nat /\ Offset(pos + 2) \in Nat
           /\ Len(vals) \in Nat /\ vals \in Seq(Int) /\ tree \in Seq(AnyNode)
           /\ \A a \in DOMAIN vals : vals[a] \in -1 .. Len(tree) - 1
<1>1. WindowOK /\ Grown(tree, vals)
  BY DEF IInv
<1>2. input \in Seq(Token) /\ pos + 1 \in 1 .. Len(input) /\ pos + 2 \in 1 .. Len(input)
  BY <1>1 DEF WindowOK
<1>3. Offset(pos + 1) \in Nat /\ Offset(pos + 2) \in Nat
  BY <1>2, OffsetNumber
<1>4. vals \in Seq(Int) /\ tree \in Seq(AnyNode)
  BY <1>1 DEF Grown
<1>5. Len(vals) \in Nat /\ \A a \in DOMAIN vals : vals[a] \in -1 .. Len(tree) - 1
  BY <1>1, <1>4 DEF Grown
<1>6. peek(0) \in TokenType /\ peek(1) \in TokenType
  BY <1>1, PeekToken
<1>. QED  BY <1>3, <1>4, <1>5, <1>6

\* The loop of parseExpression: operand, node, and the loop again.
LEMMA BinaryOperatorKeeps ==
    ASSUME IInv, BinaryOperator
    PROVE  IInv'
<1>1. Head(agenda)[1] = "operators"
  BY DEF BinaryOperator, At
<1>2. Done = Len(vals) /\ Len(vals) > 0 /\ arg \in Nat
  BY <1>1, HeadChange, HeadReady, HeadArg DEF arg
<1>3. PICK prec \in Nat : prec = Precedence(peek(0))
  BY PrecedenceNumber
<1>4. CASE Go(0, <<>>)
  BY <1>1, <1>2, <1>4, GoNothing
<1> DEFINE build == Build("BinaryExpr", Offset(pos + 1), peek(0), 2, <<1, 2>>)
<1>5. CASE Go(1, Expression(prec + 1) \o <<build, Operators(arg)>>)
  <2>1. PICK a \in Nat : a + 1 = Len(vals)
    <3>1. Len(vals) - 1 \in Nat /\ Len(vals) - 1 + 1 = Len(vals)
      BY <1>2, HeadReady
    <3>. QED  BY <3>1
  <2>2. Segment(Expression(prec + 1), a + 1, a + 2)
    <3>1. a + 1 \in Nat /\ prec + 1 \in Nat /\ a + 1 + 1 = a + 2
      OBVIOUS
    <3>. QED  BY <3>1, SegmentExpression
  <2>3. Step(build, a + 2, a + 1)
    <3>1. "BinaryExpr" \in NodeKind
      BY DEF NodeKind
    <3>. QED  BY <3>1, StepBuild, PickTuples, Arities, WindowTokens
  <2>4. Step(Operators(arg), a + 1, a + 1)
    BY <1>2, StepOperators
  <2>. HIDE DEF build
  <2>5. Segment(<<build, Operators(arg)>>, a + 2, a + 1)
    <3>1. a + 1 \in Nat /\ a + 2 \in Nat
      OBVIOUS
    <3>. QED  BY <3>1, <2>3, <2>4, Segment2
  <2>6. Segment(Expression(prec + 1) \o <<build, Operators(arg)>>, Len(vals), Done)
    BY <1>2, <2>1, <2>2, <2>5, SegmentConcat
  <2>. QED  BY <1>1, <1>5, <2>6, GoKeeps DEF Safe
<1>. QED  BY <1>3, <1>4, <1>5 DEF BinaryOperator

\* A primary expression that consumes tokens.
LEMMA PrimaryKeeps ==
    ASSUME IInv, NEW T, NEW n \in {1, 2}, NEW seg, PrimaryFrom(T, n, seg),
           \A a \in Nat : Segment(seg, a, a + 1)
    PROVE  IInv'
<1>1. Head(agenda)[1] = "primary" /\ Go(n, seg)
  BY DEF PrimaryFrom, At
<1>2. Done = Len(vals) + 1 /\ Len(vals) \in Nat
  BY <1>1, HeadChange, HeadReady
<1>3. Segment(seg, Len(vals), Done) /\ Safe(seg, n) /\ n \in {0, 1, 2}
  BY <1>2 DEF Safe
<1>. QED  BY <1>1, <1>3, GoKeeps

\* A node over one id that is at hand.
LEMMA StepOver ==
    ASSUME NEW a \in Nat, NEW kind \in Single, NEW off \in Nat \cup {Here},
           NEW op \in TokenType \cup {NoOp}
    PROVE  Step(Build(kind, off, op, 1, <<1>>), a + 1, a + 1)
BY StepBuild, PickTuples, Arities DEF Single, NodeKind

\* A prefix operator.
LEMMA PrefixOperatorKeeps ==
    ASSUME IInv, PrefixOperator
    PROVE  IInv'
<1> DEFINE build == Build("UnaryExpr", Offset(pos + 1), peek(0), 1, <<1>>)
<1>1. \A a \in Nat : Step(build, a + 1, a + 1)
  <2>1. "UnaryExpr" \in Single
    BY DEF Single
  <2>. QED  BY <2>1, StepOver, WindowTokens
<1>2. PrimaryFrom(Prefix, 1, <<Primary, build, Postfix>>)
  BY DEF PrefixOperator
<1>. HIDE DEF build
<1>3. ASSUME NEW a \in Nat PROVE Segment(<<Primary, build, Postfix>>, a, a + 1)
  <2>1. a + 1 \in Nat
    OBVIOUS
  <2>. QED  BY <2>1, <1>1, StepCalled, Segment3
<1>. QED  BY <1>2, <1>3, PrimaryKeeps

\* A new node without links.
LEMMA FreshLeaf ==
    ASSUME IInv, NEW node \in AnyNode, node.kids = <<>>
    PROVE  Fresh(<<node>>, tree, vals, 0, Len(tree))
<1>1. 0 \in 0 .. Len(vals) /\ Grown(tree, vals)
  BY WindowTokens DEF IInv
<1>2. DOMAIN node.kids = {}
  OBVIOUS
<1>. QED  BY <1>1, <1>2, FreshOne

\* A literal, a name or a builtin type.
LEMMA OperandKeeps ==
    ASSUME IInv, Operand
    PROVE  IInv'
<1>1. Head(agenda)[1] = "primary"
  BY DEF Operand, At
<1>2. Done = Len(vals) + 1 /\ Len(vals) \in Nat
  BY <1>1, HeadChange, HeadReady
<1>3. PICK kind \in {"LiteralExpr", "IdentifierExpr"} :
          Create(<<LeafOf(kind, pos + 1)>>, Len(tree), 0)
  BY DEF Operand
<1>4. TypeOf(input[pos + 1]) = peek(0)
  BY DEF peek, IInv, WindowOK
<1>5. LeafOf(kind, pos + 1) \in AnyNode /\ LeafOf(kind, pos + 1).kids = <<>>
  BY <1>4, WindowTokens DEF LeafOf, Node, AnyNode, NodeKind
<1>6. Fresh(<<LeafOf(kind, pos + 1)>>, tree, vals, 0, Len(tree))
  BY <1>5, FreshLeaf
<1>7. Moves(1) /\ Then(<<Postfix>>) /\ UNCHANGED outcome
  BY MoveWindow DEF Operand, IInv
<1>8. Segment(<<Postfix>>, Len(vals) + 1, Done)
  <2>1. Len(vals) + 1 \in Nat
    BY <1>2
  <2>. QED  BY <1>2, <2>1, StepCalled, Segment1
<1>9. 0 \in 0 .. Len(vals) /\ Len(vals) - 0 + 1 = Len(vals) + 1 /\ Safe(<<Postfix>>, 1)
  BY <1>2 DEF Safe
<1>. QED  BY <1>1, <1>3, <1>6, <1>7, <1>8, <1>9, CreateKeeps

\* if and eval hold one id.
LEMMA SegmentConditional ==
    ASSUME NEW off \in Nat, NEW a \in Nat
    PROVE  Segment(Conditional(off), a, a + 1)
<1> DEFINE else  == When("kElse", 1, <<Statement>>)
           build == Build("EvalExpr", off, NoOp, 3, <<1, 2, 3>>)
<1>1. Step(Expect("Left"), a, a) /\ Step(Expect("Right"), a + 1, a + 1)
  BY NamedTokens, StepToken
<1>2. Step(Statement, a + 1, a + 2)
  <2>1. a + 1 \in Nat /\ a + 1 + 1 = a + 2
    OBVIOUS
  <2>. QED  BY <2>1, StepCalled
<1>3. Step(else, a + 2, a + 3)
  <2>1. a + 2 \in Nat /\ a + 2 + 1 = a + 3 /\ <<Statement>> \in Alternatives
    BY DEF Alternatives
  <2>. QED  BY <2>1, NamedTokens, StepChoice
<1>4. Step(build, a + 3, a + 1)
  <2>1. "EvalExpr" \in NodeKind
    BY DEF NodeKind
  <2>. QED  BY <2>1, StepBuild, PickTuples, Arities
<1>. HIDE DEF else, build
<1>5. a + 1 \in Nat /\ a + 2 \in Nat /\ a + 3 \in Nat
  OBVIOUS
<1>6. Segment(<<Expect("Left")>>, a, a)
  BY <1>1, Segment1
<1>7. Segment(Expression(0), a, a + 1)
  BY SegmentExpression
<1>8. Segment(<<Expect("Right"), Statement, else, build>>, a + 1, a + 1)
  BY <1>1, <1>2, <1>3, <1>4, <1>5, Segment4
<1>9. Segment(<<Expect("Left")>> \o Expression(0) \o
              <<Expect("Right"), Statement, else, build>>, a, a + 1)
  BY <1>6, <1>7, <1>8, SegmentConcat
<1>. QED  BY <1>9 DEF Conditional, else, build

\* eval.
LEMMA parseEvalExpressionKeeps ==
    ASSUME IInv, parseEvalExpression
    PROVE  IInv'
<1>1. PrimaryFrom({"kEval"}, 1, Conditional(Offset(pos + 1)) \o <<Postfix>>)
  BY DEF parseEvalExpression
<1>2. ASSUME NEW a \in Nat
      PROVE  Segment(Conditional(Offset(pos + 1)) \o <<Postfix>>, a, a + 1)
  <2>1. Segment(<<Postfix>>, a + 1, a + 1)
    <3>1. a + 1 \in Nat
      OBVIOUS
    <3>. QED  BY <3>1, StepCalled, Segment1
  <2>. QED  BY <2>1, WindowTokens, SegmentConditional, SegmentConcat
<1>. QED  BY <1>1, <1>2, PrimaryKeeps

\* What delete leaves to do holds one id.
LEMMA SegmentDelete ==
    ASSUME NEW off \in Nat, NEW a \in Nat
    PROVE  Segment(Delete(off), a, a + 1)
<1>1. Step(Skip("kAuto"), a, a)
  BY NamedTokens, StepToken
<1>2. Step(Build("DeleteExpr", off, NoOp, 1, <<1>>), a + 1, a + 1)
  <2>1. "DeleteExpr" \in Single
    BY DEF Single
  <2>. QED  BY <2>1, StepOver
<1>3. a + 1 \in Nat
  OBVIOUS
<1>. QED  BY <1>1, <1>2, <1>3, StepCalled, Segment3 DEF Delete

\* delete in parentheses.
LEMMA DeleteInParenthesesKeeps ==
    ASSUME IInv, DeleteInParentheses
    PROVE  IInv'
<1> DEFINE build == Build("CastExpr", Here, NoOp, 1, <<1>>)
           seg   == Delete(Offset(pos + 2)) \o <<Expect("Right"), build, Postfix>>
<1>1. PrimaryFrom({"Left"}, 2, seg)
  BY DEF DeleteInParentheses
<1>2. \A a \in Nat : Step(build, a + 1, a + 1)
  <2>1. "CastExpr" \in Single
    BY DEF Single
  <2>. QED  BY <2>1, StepOver
<1>. HIDE DEF build
<1>3. ASSUME NEW a \in Nat PROVE Segment(seg, a, a + 1)
  <2>1. a + 1 \in Nat
    OBVIOUS
  <2>2. Segment(<<Expect("Right"), build, Postfix>>, a + 1, a + 1)
    BY <1>2, <2>1, NamedTokens, StepToken, StepCalled, Segment3
  <2>. QED  BY <2>2, WindowTokens, SegmentDelete, SegmentConcat
<1>. HIDE DEF seg
<1>. QED  BY <1>1, <1>3, PrimaryKeeps

\* An expression in parentheses.
LEMMA ParenthesizedKeeps ==
    ASSUME IInv, Parenthesized
    PROVE  IInv'
<1>1. PrimaryFrom({"Left"}, 1, Expression(0) \o <<Expect("Right"), Postfix>>)
  BY DEF Parenthesized
<1>2. ASSUME NEW a \in Nat
      PROVE  Segment(Expression(0) \o <<Expect("Right"), Postfix>>, a, a + 1)
  <2>1. a + 1 \in Nat
    OBVIOUS
  <2>2. Segment(<<Expect("Right"), Postfix>>, a + 1, a + 1)
    BY <2>1, NamedTokens, StepToken, StepCalled, Segment2
  <2>. QED  BY <2>2, SegmentExpression, SegmentConcat
<1>. QED  BY <1>1, <1>2, PrimaryKeeps

\* A block's node stands before its statements.
LEMMA OpenBlockKeeps ==
    ASSUME IInv, OpenBlock
    PROVE  IInv'
<1>1. Head(agenda)[1] \in {"primary", "statement"}
  BY DEF OpenBlock, At
<1>2. Done = Len(vals) + 1 /\ Len(vals) \in Nat
  BY <1>1, HeadChange, HeadReady
<1> DEFINE node == Node("TranslationUnit", Offset(pos + 2), 0, NoOp, <<>>)
<1>3. Create(<<node>>, Len(tree), 0) /\ UNCHANGED outcome
  BY DEF OpenBlock
<1>4. node \in AnyNode /\ node.kids = <<>>
  BY WindowTokens DEF Node, AnyNode, NodeKind
<1>. HIDE DEF node
<1>5. Fresh(<<node>>, tree, vals, 0, Len(tree))
  BY <1>4, FreshLeaf
<1>6. Moves(1)
  BY MoveWindow DEF OpenBlock, IInv
<1>7. Segment(<<Block>>, Len(vals) + 1, Done) /\ Segment(<<Postfix>>, Len(vals) + 1, Done)
      /\ Segment(<<>>, Len(vals) + 1, Done)
  <2>1. Len(vals) + 1 \in Nat
    BY <1>2
  <2>. QED  BY <1>2, <2>1, StepCalled, Segment1, SegmentNil
<1>8. PICK rest \in {<<Postfix>>, <<>>} : Then(<<Block>> \o rest)
  BY DEF OpenBlock
<1>9. Segment(<<Block>> \o rest, Len(vals) + 1, Done)
  BY <1>2, <1>7, SegmentConcat
<1>10. 0 \in 0 .. Len(vals) /\ Len(vals) - 0 + 1 = Len(vals) + 1 /\ Safe(<<Block>> \o rest, 1)
  BY <1>2 DEF Safe
<1>. QED  BY <1>1, <1>3, <1>5, <1>6, <1>8, <1>9, <1>10, CreateKeeps

\* The loop over a block's statements.
LEMMA BlockLoopKeeps ==
    ASSUME IInv, BlockLoop
    PROVE  IInv'
<1>1. Head(agenda)[1] = "block"
  BY DEF BlockLoop, At
<1>2. Done = Len(vals) /\ Len(vals) \in Nat
  BY <1>1, HeadChange, HeadReady
<1>3. CASE Go(1, <<>>)
  BY <1>1, <1>2, <1>3, GoNothing
<1>4. CASE raiseError
  BY <1>4, ErrorKeeps
<1>5. CASE Go(0, <<Statement, Drop, Block>>)
  <2>1. Segment(<<Statement, Drop, Block>>, Len(vals), Done)
    <3>1. Len(vals) + 1 \in Nat
      BY <1>2
    <3>. QED  BY <1>2, <3>1, StepCalled, Segment3
  <2>. QED  BY <1>1, <1>5, <2>1, GoKeeps DEF Safe
<1>. QED  BY <1>3, <1>4, <1>5 DEF BlockLoop

\* A missing operand.
LEMMA NoPrimaryKeeps ==
    ASSUME IInv, NoPrimary
    PROVE  IInv'
BY ErrorKeeps DEF NoPrimary

\* What a postfix task finds: one id at least, which stays the only one it
\* works on.
LEMMA PostfixHead ==
    ASSUME IInv, At("postfix")
    PROVE  /\ Head(agenda)[1] = "postfix"
           /\ Done = Len(vals)
           /\ \E a \in Nat : Len(vals) = a + 1 /\ Done = a + 1
<1>1. Head(agenda)[1] = "postfix"
  BY DEF At
<1>2. Done = Len(vals) /\ Len(vals) > 0 /\ Len(vals) \in Nat
  BY <1>1, HeadChange, HeadReady
<1>3. Len(vals) - 1 \in Nat /\ Len(vals) = Len(vals) - 1 + 1
  BY <1>2
<1>. QED  BY <1>1, <1>2, <1>3

\* A call keeps its first argument.
LEMMA CallKeeps ==
    ASSUME IInv, Call
    PROVE  IInv'
<1>1. At("postfix")
  BY DEF Call
<1>2. PICK a \in Nat : Len(vals) = a + 1 /\ Done = a + 1
  BY <1>1, PostfixHead
<1> DEFINE build == Build("CallExpr", Here, NoOp, 2, <<1, 2>>)
           first == Unless("Right", 0, Expression(0))
           rest  == <<Task("arguments", 0), Expect("Right"), build, Postfix>>
<1>3. Go(1, <<first>> \o rest)
  BY DEF Call
<1>4. a + 1 \in Nat /\ a + 2 \in Nat /\ a + 1 + 1 = a + 2
  OBVIOUS
<1>5. Step(first, a + 1, a + 2)
  <2>1. Expression(0) \in Alternatives
    BY DEF Alternatives
  <2>. QED  BY <1>4, <2>1, NamedTokens, StepChoice
<1>6. Step(build, a + 2, a + 1)
  <2>1. "CallExpr" \in NodeKind
    BY DEF NodeKind
  <2>. QED  BY <2>1, StepBuild, PickTuples, Arities
<1>7. /\ Step(Task("arguments", 0), a + 2, a + 2)
      /\ Step(Expect("Right"), a + 2, a + 2)
      /\ Step(Postfix, a + 1, a + 1)
  BY <1>4, NamedTokens, StepToken, StepCalled
<1>. HIDE DEF first, build
<1>8. Segment(<<first>>, a + 1, a + 2) /\ Segment(rest, a + 2, a + 1)
  BY <1>4, <1>5, <1>6, <1>7, Segment1, Segment4
<1>. HIDE DEF rest
<1>9. Segment(<<first>> \o rest, Len(vals), Done)
  BY <1>2, <1>8, SegmentConcat
<1>. QED  BY <1>1, <1>3, <1>9, PostfixHead, GoKeeps DEF Safe

\* Further arguments are ignored.
LEMMA MoreArgumentsKeeps ==
    ASSUME IInv, MoreArguments
    PROVE  IInv'
<1>1. Head(agenda)[1] = "arguments"
  BY DEF MoreArguments, At
<1>2. Done = Len(vals) /\ Len(vals) \in Nat /\ Len(vals) + 1 \in Nat
  <2>1. Done = Len(vals) /\ Len(vals) \in Nat
    BY <1>1, HeadChange, HeadReady
  <2>. QED  BY <2>1
<1>3. CASE Go(0, <<>>)
  BY <1>1, <1>2, <1>3, GoNothing
<1>4. CASE Go(1, Expression(0) \o <<Drop, Task("arguments", 0)>>)
  <2>1. Segment(Expression(0), Len(vals), Len(vals) + 1)
    BY <1>2, SegmentExpression
  <2>2. Segment(<<Drop, Task("arguments", 0)>>, Len(vals) + 1, Done)
    BY <1>2, StepCalled, Segment2
  <2>3. Segment(Expression(0) \o <<Drop, Task("arguments", 0)>>, Len(vals), Done)
    BY <2>1, <2>2, SegmentConcat
  <2>. QED  BY <1>1, <1>4, <2>3, GoKeeps DEF Safe
<1>. QED  BY <1>3, <1>4 DEF MoreArguments

\* The latest id is at hand.
LEMMA LastHeld ==
    ASSUME IInv, Len(vals) > 0
    PROVE  /\ Last(vals) = vals[Len(vals)] /\ Last(vals) \in -1 .. Len(tree) - 1
           /\ Last(vals) \in Int /\ 1 \in 0 .. Len(vals) /\ Len(tree) \in Nat
<1>1. vals \in Seq(Int) /\ Len(vals) \in Nat /\ tree \in Seq(AnyNode)
  BY WindowTokens
<1>2. Last(vals) = vals[Len(vals)] /\ Len(vals) \in DOMAIN vals
  BY <1>1 DEF Last
<1>3. Last(vals) \in -1 .. Len(tree) - 1
  BY <1>2, WindowTokens
<1>. QED  BY <1>1, <1>2, <1>3

\* A member access takes the operand and its member's leaf.
LEMMA MemberAccessKeeps ==
    ASSUME IInv, MemberAccess
    PROVE  IInv'
<1>1. At("postfix")
  BY DEF MemberAccess
<1>2. Len(vals) > 0 /\ Len(vals) \in Nat
  BY <1>1, PostfixHead
<1>3. CASE raiseError
  BY <1>3, ErrorKeeps
<1>4. CASE peek(1) = "Ident"
  <2>. PICK t : t = Len(tree)
    OBVIOUS
  <2>. PICK x : x = Last(vals)
    OBVIOUS
  <2> DEFINE leaf == Leaf(pos + 2)
             node == Node("MemberAccessExpr", Offset(pos + 1), 0, peek(0), <<x, t>>)
  <2>1. Create(<<leaf, node>>, t + 1, 1) /\ UNCHANGED <<agenda, outcome>>
    BY <1>4 DEF MemberAccess
  <2>2. t \in Nat /\ x \in -1 .. t - 1 /\ x \in Int
    BY <1>2, LastHeld
  <2>3. leaf \in AnyNode /\ leaf.kids = <<>>
    <3>1. TypeOf(input[pos + 2]) = peek(1)
      BY DEF peek, IInv, WindowOK
    <3>. QED  BY <3>1, WindowTokens DEF Leaf, LeafOf, Node, AnyNode, NodeKind
  <2>4. node \in AnyNode /\ node.kids = <<x, t>>
    BY <2>2, WindowTokens DEF Node, AnyNode, NodeKind
  <2>. HIDE DEF leaf, node
  <2>5. PICK s \in Seq(AnyNode) : s = <<leaf, node>>
    <3>1. <<leaf, node>> \in Seq(AnyNode)
      BY <2>3, <2>4
    <3>. QED  BY <3>1
  <2>6. Len(s) = 2 /\ DOMAIN s = 1 .. 2 /\ s[1].kids = <<>> /\ s[2].kids = <<x, t>>
    BY <2>3, <2>4, <2>5
  <2>7. ASSUME NEW m \in DOMAIN s, NEW i \in DOMAIN s[m].kids
        PROVE  m = 2 /\ \/ i = 1 /\ s[m].kids[i] = x
                        \/ i = 2 /\ s[m].kids[i] = t
    <3>1. m = 1 \/ m = 2
      BY <2>6
    <3>2. m = 2
      BY <2>6, <3>1
    <3>3. s[m].kids = <<x, t>>
      BY <2>6, <3>2
    <3>4. i = 1 \/ i = 2
      BY <3>3
    <3>5. <<x, t>>[1] = x /\ <<x, t>>[2] = t
      OBVIOUS
    <3>6. (i = 1 => s[m].kids[i] = x) /\ (i = 2 => s[m].kids[i] = t)
      BY <3>3, <3>5
    <3>. QED  BY <3>2, <3>4, <3>6
  <2>8. Fresh(s, tree, vals, 1, t + 1)
    <3>1. x = vals[Len(vals)] /\ Len(vals) \in Len(vals) - 1 + 1 .. Len(vals)
      BY <1>2, LastHeld
    <3>2. t + 1 \in t .. t + Len(s) - 1 /\ t \in t .. t + Len(s) - 1 /\ t # t + 1 /\ x # t
      BY <2>2, <2>6
    <3>. QED  BY <2>7, <3>1, <3>2 DEF Fresh
  <2>9. Moves(2)
    BY <1>4, MoveWindow DEF MemberAccess, IInv
  <2>. QED  BY <1>1, <1>2, <2>1, <2>5, <2>8, <2>9, PostfixHead, ReplaceKeeps
<1>. QED  BY <1>3, <1>4 DEF MemberAccess

\* A subscript.
LEMMA SubscriptKeeps ==
    ASSUME IInv, Subscript
    PROVE  IInv'
<1>1. At("postfix")
  BY DEF Subscript
<1>2. PICK a \in Nat : Len(vals) = a + 1 /\ Done = a + 1
  BY <1>1, PostfixHead
<1> DEFINE build == Build("BinaryExpr", Here, "SqLeft", 2, <<1, 2>>)
           rest  == <<Expect("SqRight"), build, Postfix>>
<1>3. Go(1, Expression(0) \o rest)
  BY DEF Subscript
<1>4. a + 1 \in Nat /\ a + 2 \in Nat /\ a + 1 + 1 = a + 2
  OBVIOUS
<1>5. Step(build, a + 2, a + 1)
  <2>1. "BinaryExpr" \in NodeKind /\ "SqLeft" \in TokenType
    BY NamedTokens DEF NodeKind
  <2>. QED  BY <2>1, StepBuild, PickTuples, Arities
<1>6. Step(Expect("SqRight"), a + 2, a + 2) /\ Step(Postfix, a + 1, a + 1)
  BY <1>4, NamedTokens, StepToken, StepCalled
<1>. HIDE DEF build
<1>7. Segment(rest, a + 2, a + 1)
  BY <1>4, <1>5, <1>6, Segment3
<1>. HIDE DEF rest
<1>8. Segment(Expression(0), a + 1, a + 2)
  BY <1>4, SegmentExpression
<1>9. Segment(Expression(0) \o rest, Len(vals), Done)
  BY <1>2, <1>7, <1>8, SegmentConcat
<1>. QED  BY <1>1, <1>3, <1>9, PostfixHead, GoKeeps DEF Safe

\* A postfix operator takes the operand.
LEMMA PostfixOperatorKeeps ==
    ASSUME IInv, PostfixOperator
    PROVE  IInv'
<1>1. At("postfix")
  BY DEF PostfixOperator
<1>2. Len(vals) > 0 /\ Len(vals) \in Nat
  BY <1>1, PostfixHead
<1>. PICK x : x = Last(vals)
  OBVIOUS
<1> DEFINE node == Node("UnaryExpr", Offset(pos + 1), 0, peek(0), <<x>>)
<1>3. Create(<<node>>, Len(tree), 1) /\ UNCHANGED <<agenda, outcome>>
  BY DEF PostfixOperator
<1>4. node \in AnyNode /\ node.kids = <<x>>
  BY <1>2, LastHeld, WindowTokens DEF Node, AnyNode, NodeKind
<1>. HIDE DEF node
<1>5. \A i \in DOMAIN node.kids : i = 1 /\ node.kids[i] = x
  BY <1>4
<1>6. x = vals[Len(vals)] /\ Len(vals) \in Len(vals) - 1 + 1 .. Len(vals) /\ 1 \in 0 .. Len(vals)
  BY <1>2, LastHeld
<1>7. Fresh(<<node>>, tree, vals, 1, Len(tree))
  BY <1>4, <1>5, <1>6, FreshOne DEF IInv
<1>8. Moves(1)
  BY MoveWindow DEF PostfixOperator, IInv
<1>. QED  BY <1>1, <1>2, <1>3, <1>7, <1>8, PostfixHead, ReplaceKeeps

\* The end of the postfix operators.
LEMMA EndPostfixKeeps ==
    ASSUME IInv, EndPostfix
    PROVE  IInv'
BY PostfixHead, GoNothing DEF EndPostfix

\* Every step of an expression.
LEMMA ExpressionStepKeeps ==
    ASSUME IInv, ExpressionStep
    PROVE  IInv'
BY BinaryOperatorKeeps, PrefixOperatorKeeps, OperandKeeps, parseEvalExpressionKeeps,
   DeleteInParenthesesKeeps, ParenthesizedKeeps, OpenBlockKeeps, BlockLoopKeeps,
   NoPrimaryKeeps, CallKeeps, MoreArgumentsKeeps, MemberAccessKeeps, SubscriptKeeps,
   PostfixOperatorKeeps, EndPostfixKeeps
   DEF ExpressionStep

-----------------------------------------------------------------------------
(* Declarations keep the invariant.                                        *)

\* The leaves of a declaration.
LEMMA DeclarationLeaves ==
    ASSUME IInv
    PROVE  /\ Leaf(pos + 1) \in LeafNode /\ Leaf(pos + 2) \in LeafNode
           /\ MadeUp("kAuto") \in LeafNode /\ MadeUp("Unknown") \in LeafNode
<1>1. TypeOf(input[pos + 1]) = peek(0) /\ TypeOf(input[pos + 2]) = peek(1)
  BY DEF peek, IInv, WindowOK
<1>2. Leaf(pos + 1) \in LeafNode
  BY <1>1, WindowTokens DEF Leaf, LeafOf, Node, LeafNode
<1>3. Leaf(pos + 2) \in LeafNode
  BY <1>1, WindowTokens DEF Leaf, LeafOf, Node, LeafNode
<1>4. MadeUp("kAuto") \in LeafNode /\ MadeUp("Unknown") \in LeafNode
  BY NamedTokens DEF MadeUp, Node, LeafNode
<1>. QED  BY <1>2, <1>3, <1>4

\* A leaf is a node without links.
LEMMA LeafIsNode ==
    ASSUME NEW leaf \in LeafNode
    PROVE  leaf \in AnyNode /\ leaf.kids = <<>> /\ leaf.off \in Nat
<1>1. "IdentifierExpr" \in NodeKind
  BY DEF NodeKind
<1>2. <<>> \in Seq(Int) /\ {} \in SUBSET Qualifier
  OBVIOUS
<1>. QED  BY <1>1, <1>2 DEF LeafNode, AnyNode

\* A qualifier is consumed and remembered.
LEMMA parseQualifiersKeeps ==
    ASSUME IInv, parseQualifiers
    PROVE  IInv'
<1>1. Head(agenda)[1] \in {"statement", "param"}
  BY DEF parseQualifiers, At
<1>2. Done = Len(vals) + 1 /\ Len(vals) \in Nat
  BY <1>1, HeadChange, HeadReady
<1>3. /\ Head(agenda) \in AnyTask /\ Head(agenda) = agenda[1]
      /\ agenda \in Seq(AnyTask) /\ agenda # <<>>
  BY HeadReady DEF IInv, Remains
<1>4. PICK t \in AnyTask : t = agenda[1]
  BY <1>3
<1>5. t = <<t[1], t[2]>> /\ t[2] \in SUBSET Qualifier /\ t[1] \in {"statement", "param"}
  BY <1>1, <1>3, <1>4, HeadArg
<1>6. PICK q \in SUBSET Qualifier : q = t[2] \cup {peek(0)}
  BY <1>5 DEF parseQualifiers
<1>7. Segment(<<Task(t[1], q)>>, Len(vals), Done)
  BY <1>2, <1>5, StepQualified, Segment1
<1>8. agenda' = <<Task(t[1], q)>> \o Tail(agenda)
  <2>1. agenda' = [agenda EXCEPT ![1] = [t EXCEPT ![2] = q]]
    BY <1>4, <1>6 DEF parseQualifiers
  <2>2. [t EXCEPT ![2] = q] = Task(t[1], q)
    BY <1>5 DEF Task
  <2>3. agenda' = [agenda EXCEPT ![1] = Task(t[1], q)]
    BY <2>1, <2>2
  <2>4. Task(t[1], q) \in AnyTask
    <3>1. Step(Task(t[1], q), Len(vals), Len(vals) + 1)
      BY <1>2, <1>5, StepQualified
    <3>. QED  BY <3>1 DEF Step, AnyTask
  <2>. PICK u \in AnyTask : u = Task(t[1], q)
    BY <2>4
  <2>. PICK n \in Nat : n + 1 = Len(agenda)
    <3>1. Len(agenda) \in Nat \ {0}
      BY <1>3, EmptySeq
    <3>2. Len(agenda) - 1 \in Nat /\ Len(agenda) - 1 + 1 = Len(agenda)
      BY <3>1
    <3>. QED  BY <3>2
  <2>5. /\ agenda' \in Seq(AnyTask) /\ Len(agenda') = n + 1
        /\ \A k \in 1 .. n + 1 : agenda'[k] = IF k = 1 THEN u ELSE agenda[k]
    <3>1. 1 \in 1 .. Len(agenda)
      OBVIOUS
    <3>. QED  BY <3>1, <2>3, <1>3, ExceptSeq
  <2>. PICK r \in Seq(AnyTask) : r = Tail(agenda)
    BY <1>3, HeadTailProperties
  <2>6. Len(r) = n /\ \A k \in 1 .. n : r[k] = agenda[k + 1]
    BY <1>3, HeadTailProperties
  <2>. PICK s \in Seq(AnyTask) : s = <<u>>
    <3>1. <<u>> \in Seq(AnyTask)
      OBVIOUS
    <3>. QED  BY <3>1
  <2>7. Len(s) = 1 /\ s[1] = u
    OBVIOUS
  <2>8. /\ s \o r \in Seq(AnyTask) /\ Len(s \o r) = 1 + n
        /\ \A k \in 1 .. 1 + n : (s \o r)[k] = IF k <= 1 THEN s[k] ELSE r[k - 1]
    BY <2>6, <2>7, ConcatProperties
  <2>9. ASSUME NEW k \in 1 .. n + 1 PROVE agenda'[k] = (s \o r)[k]
    <3>1. CASE k = 1
      BY <2>5, <2>7, <2>8, <3>1
    <3>2. CASE k > 1
      <4>1. k - 1 \in 1 .. n /\ k - 1 + 1 = k /\ k \in 1 .. 1 + n /\ ~(k <= 1) /\ k # 1
        BY <3>2
      <4>2. r[k - 1] = agenda[k - 1 + 1]
        BY <2>6, <4>1
      <4>. QED  BY <2>5, <2>8, <4>1, <4>2
    <3>. QED  BY <3>1, <3>2
  <2>. QED  BY <2>5, <2>8, <2>9, SeqEqual
<1>9. Moves(1) /\ Safe(<<Task(t[1], q)>>, 1) /\ Then(<<Task(t[1], q)>>)
  <2>1. WindowOK /\ Advance(1)
    BY DEF parseQualifiers, IInv
  <2>2. Moves(1)
    BY <2>1, MoveWindow
  <2>. QED  BY <1>8, <2>2 DEF Safe, Then
<1>10. Grown(tree', vals') /\ vals' = vals /\ outcome' \in {"run", "done", "error"}
  BY DEF parseQualifiers, IInv
<1>. QED  BY <1>1, <1>7, <1>9, <1>10, ThenKeeps

\* A declaration's task, from its leaves.
LEMMA DeclArgument ==
    ASSUME NEW q \in SUBSET Qualifier, NEW type \in LeafNode, NEW name \in LeafNode
    PROVE  [quals |-> q, type |-> type, name |-> name] \in DeclArg
BY DEF DeclArg

\* type.
LEMMA TypeDeclarationKeeps ==
    ASSUME IInv, TypeDeclaration
    PROVE  IInv'
<1>1. Head(agenda)[1] = "statement"
  BY DEF TypeDeclaration, At
<1>2. Done = Len(vals) + 1 /\ Len(vals) \in Nat
  BY <1>1, HeadChange, HeadReady
<1>3. arg \in SUBSET Qualifier
  BY <1>1, HeadReady, HeadArg DEF arg
<1>. PICK a \in Nat : a = Len(vals)
  BY <1>2
<1> DEFINE d    == [quals |-> arg, type |-> Leaf(pos + 1), name |-> Leaf(pos + 2)]
           body == When("BrLeft", 0, <<Statement>>)
           last == Task("declare type", d)
           seg  == <<Expect("Ident"), Task("base", 0), body, Skip("Semi"), last>>
<1>4. Go(1, seg)
  BY DEF TypeDeclaration, Declarator
<1>5. a + 1 \in Nat /\ a + 2 \in Nat /\ a + 1 + 1 = a + 2
  OBVIOUS
<1>6. Step(last, a + 2, a + 1)
  <2>1. d \in DeclArg
    BY <1>3, DeclarationLeaves, DeclArgument
  <2>. HIDE DEF d
  <2>. QED  BY <2>1, StepDeclare
<1>7. Step(body, a + 1, a + 2)
  <2>1. <<Statement>> \in Alternatives
    BY DEF Alternatives
  <2>. QED  BY <2>1, <1>5, NamedTokens, StepChoice
<1>8. Step(Expect("Ident"), a, a) /\ Step(Task("base", 0), a, a + 1) /\ Step(Skip("Semi"), a + 2, a + 2)
  BY <1>5, NamedTokens, StepToken, StepCalled
<1>. HIDE DEF body, last
<1>9. Segment(seg, a, a + 1)
  BY <1>5, <1>6, <1>7, <1>8, Segment5
<1>. HIDE DEF seg
<1>. QED  BY <1>1, <1>2, <1>4, <1>9, GoKeeps DEF Safe

\* The base of a type.
LEMMA BaseTypeKeeps ==
    ASSUME IInv, BaseType
    PROVE  IInv'
<1>1. Head(agenda)[1] = "base"
  BY DEF BaseType, At
<1>2. Done = Len(vals) + 1 /\ Len(vals) \in Nat
  BY <1>1, HeadChange, HeadReady
<1>3. CASE Go(1, Expression(0))
  <2>1. Segment(Expression(0), Len(vals), Done)
    BY <1>2, SegmentExpression
  <2>. QED  BY <1>1, <1>3, <2>1, GoKeeps DEF Safe
<1>4. CASE Go(1, <<Primary>>)
  <2>1. Segment(<<Primary>>, Len(vals), Done)
    <3>1. Len(vals) + 1 \in Nat
      BY <1>2
    <3>. QED  BY <3>1, <1>2, StepCalled, Segment1
  <2>. QED  BY <1>1, <1>4, <2>1, GoKeeps DEF Safe
<1>5. CASE GoNull(0)
  BY <1>1, <1>2, <1>5, GoNullKeeps
<1>. QED  BY <1>3, <1>4, <1>5 DEF BaseType

\* Three new nodes: one that links the two others, which are leaves, and an
\* id that is null or popped.
LEMMA FreshThree ==
    ASSUME IInv, NEW s \in Seq(AnyNode), Len(s) = 3, NEW d \in 1 .. 3,
           NEW p \in Len(tree) .. Len(tree) + 2, NEW q \in Len(tree) .. Len(tree) + 2,
           p # q, p # Len(tree) + d - 1, q # Len(tree) + d - 1, NEW init,
           \A m \in 1 .. 3 : m # d => s[m].kids = <<>>,
           s[d].kids = <<p, q, init>>, NEW k \in 0 .. Len(vals),
           init = Null \/ \E a \in Len(vals) - k + 1 .. Len(vals) : init = vals[a]
    PROVE  Fresh(s, tree, vals, k, Len(tree) + d - 1)
<1>. PICK t \in Nat : t = Len(tree)
  BY WindowTokens
<1>1. DOMAIN s = 1 .. 3
  OBVIOUS
<1>2. ASSUME NEW m \in DOMAIN s, NEW i \in DOMAIN s[m].kids
      PROVE  m = d /\ \/ i = 1 /\ s[m].kids[i] = p
                      \/ i = 2 /\ s[m].kids[i] = q
                      \/ i = 3 /\ s[m].kids[i] = init
  <2>1. m = d
    <3>1. SUFFICES ASSUME m # d PROVE FALSE
      OBVIOUS
    <3>2. s[m].kids = <<>>
      BY <1>1, <3>1
    <3>. QED  BY <3>2
  <2>2. s[m].kids = <<p, q, init>>
    BY <2>1
  <2>3. i = 1 \/ i = 2 \/ i = 3
    BY <2>2
  <2>. QED  BY <2>1, <2>2, <2>3
<1>3. init # Null => init \in -1 .. t - 1
  <2>1. SUFFICES ASSUME init # Null PROVE init \in -1 .. t - 1
    OBVIOUS
  <2>2. PICK a \in Len(vals) - k + 1 .. Len(vals) : init = vals[a]
    BY <2>1
  <2>3. a \in DOMAIN vals
    <3>1. \A l \in Nat : \A n \in 0 .. l : \A b \in l - n + 1 .. l : b \in 1 .. l
      OBVIOUS
    <3>2. Len(vals) \in Nat /\ DOMAIN vals = 1 .. Len(vals)
      BY WindowTokens
    <3>. QED  BY <3>1, <3>2
  <2>. QED  BY <2>2, <2>3, WindowTokens
<1>4. t + d - 1 \in t .. t + Len(s) - 1 /\ p \in t .. t + Len(s) - 1 /\ q \in t .. t + Len(s) - 1
  OBVIOUS
<1>5. \A m \in DOMAIN s : \A i \in DOMAIN s[m].kids :
          \/ s[m].kids[i] = Null
          \/ s[m].kids[i] \in t .. t + Len(s) - 1 /\ s[m].kids[i] # t + d - 1
          \/ \E a \in Len(vals) - k + 1 .. Len(vals) : s[m].kids[i] = vals[a]
  BY <1>2, <1>4
<1>6. init # Null => init # p /\ init # q
  <2>1. \A x \in -1 .. t - 1 : \A y \in t .. t + 2 : x # y
    OBVIOUS
  <2>2. p \in t .. t + 2 /\ q \in t .. t + 2
    OBVIOUS
  <2>. QED  BY <1>3, <2>1, <2>2
<1>7. ASSUME NEW m \in DOMAIN s, NEW n \in DOMAIN s,
             NEW i \in DOMAIN s[m].kids, NEW j \in DOMAIN s[n].kids,
             s[m].kids[i] = s[n].kids[j], s[m].kids[i] # Null
      PROVE  m = n /\ i = j
  <2>1. m = d /\ n = d
    BY <1>2
  <2>2. s[m].kids[i] = s[m].kids[j] /\ i \in DOMAIN s[m].kids /\ j \in DOMAIN s[m].kids
    BY <2>1, <1>7
  <2>3. \/ i = 1 /\ s[m].kids[i] = p
        \/ i = 2 /\ s[m].kids[i] = q
        \/ i = 3 /\ s[m].kids[i] = init
    BY <1>2
  <2>4. \/ j = 1 /\ s[m].kids[j] = p
        \/ j = 2 /\ s[m].kids[j] = q
        \/ j = 3 /\ s[m].kids[j] = init
    BY <2>2, <1>2
  <2>5. i = 3 \/ j = 3 => (init # p /\ init # q) \/ i = j
    BY <2>2, <2>3, <2>4, <1>6, <1>7
  <2>. QED  BY <2>1, <2>2, <2>3, <2>4, <2>5
<1>. QED  BY <1>4, <1>5, <1>7 DEF Fresh

\* A declaration whose own node comes first.
LEMMA FreshDeclaration ==
    ASSUME IInv, NEW kind \in NodeKind, NEW off \in Nat, NEW type \in LeafNode,
           NEW name \in LeafNode, NEW init \in Int, NEW quals \in SUBSET Qualifier,
           NEW k \in 0 .. Len(vals),
           init = Null \/ \E a \in Len(vals) - k + 1 .. Len(vals) : init = vals[a]
    PROVE  Fresh(Declaration(kind, off, type, name, init, quals), tree, vals, k, Len(tree))
<1>. PICK t \in Nat : t = Len(tree)
  BY WindowTokens
<1> DEFINE node == [Node(kind, off, 0, NoOp, <<t + 1, t + 2, init>>) EXCEPT !.quals = quals]
<1>1. node \in AnyNode /\ node.kids = <<t + 1, t + 2, init>>
  <2>1. <<t + 1, t + 2, init>> \in Seq(Int)
    OBVIOUS
  <2>. QED  BY <2>1 DEF Node, AnyNode
<1>2. /\ type \in AnyNode /\ type.kids = <<>>
      /\ name \in AnyNode /\ name.kids = <<>>
  BY LeafIsNode
<1>3. Declaration(kind, off, type, name, init, quals) = <<node, type, name>>
  BY DEF Declaration
<1>. HIDE DEF node
<1>4. PICK s \in Seq(AnyNode) : s = <<node, type, name>>
  <2>1. <<node, type, name>> \in Seq(AnyNode)
    BY <1>1, <1>2
  <2>. QED  BY <2>1
<1>5. Len(s) = 3 /\ s[1] = node /\ s[2] = type /\ s[3] = name
  BY <1>4
<1>6. \A m \in 1 .. 3 : m # 1 => s[m].kids = <<>>
  BY <1>2, <1>5
<1>7. 1 \in 1 .. 3 /\ t + 1 \in t .. t + 2 /\ t + 2 \in t .. t + 2 /\ t + 1 # t + 2
      /\ t + 1 # t + 1 - 1 /\ t + 2 # t + 1 - 1 /\ t + 1 - 1 = t
  OBVIOUS
<1>8. Fresh(s, tree, vals, k, t + 1 - 1)
  BY <1>1, <1>5, <1>6, <1>7, FreshThree
<1>. QED  BY <1>3, <1>4, <1>7, <1>8

\* The finished type.
LEMMA DeclareTypeKeeps ==
    ASSUME IInv, DeclareType
    PROVE  IInv'
<1>1. Head(agenda)[1] = "declare type"
  BY DEF DeclareType, At
<1>2. Done = Len(vals) - 1 /\ Len(vals) > 1 /\ Len(vals) \in Nat /\ Done \in Nat
  BY <1>1, HeadChange, HeadReady
<1>3. arg \in DeclArg
  BY <1>1, HeadReady, HeadArg DEF arg, Declare
<1>4. /\ arg.quals \in SUBSET Qualifier /\ arg.type \in LeafNode /\ arg.name \in LeafNode
      /\ arg.type.off \in Nat
  BY <1>3, LeafIsNode DEF DeclArg
<1>5. 2 \in 0 .. Len(vals) /\ vals \in Seq(Int)
  BY <1>2, WindowTokens
<1>6. \A n \in 1 .. 2 : Latest(2)[n] = vals[Len(vals) - 2 + n]
  BY <1>5, LatestIds
<1>7. PICK init \in {Latest(2)[1], Latest(2)[2]} :
          Create(Declaration("TypeDecl", arg.type.off, arg.type, arg.name, init, arg.quals),
                 Len(tree), 2)
  BY DEF DeclareType
<1>8. PICK a \in Len(vals) - 2 + 1 .. Len(vals) : init = vals[a]
  <2>1. /\ Len(vals) - 2 + 1 \in Len(vals) - 2 + 1 .. Len(vals)
        /\ Len(vals) - 2 + 2 \in Len(vals) - 2 + 1 .. Len(vals)
    BY <1>2
  <2>. QED  BY <1>6, <2>1
<1>9. init \in Int
  <2>1. a \in 1 .. Len(vals)
    BY <1>2
  <2>. QED  BY <2>1, <1>5, <1>8, ElementOfSeq
<1>10. "TypeDecl" \in NodeKind
  BY DEF NodeKind
<1>11. Fresh(Declaration("TypeDecl", arg.type.off, arg.type, arg.name, init, arg.quals),
             tree, vals, 2, Len(tree))
  BY <1>4, <1>5, <1>8, <1>9, <1>10, FreshDeclaration
<1>12. Then(<<>>) /\ Stay /\ UNCHANGED outcome
  BY DEF DeclareType
<1>13. Moves(0) /\ Safe(<<>>, 0)
  BY <1>1, <1>12, MoveWindow DEF IInv, Safe
<1>14. Segment(<<>>, Len(vals) - 2 + 1, Done)
  <2>1. Len(vals) - 2 + 1 = Done
    BY <1>2
  <2>. QED  BY <2>1, <1>2, SegmentNil
<1>. QED  BY <1>1, <1>5, <1>7, <1>11, <1>12, <1>13, <1>14, CreateKeeps

\* A variable or a function.
LEMMA VarDeclarationKeeps ==
    ASSUME IInv, VarDeclaration
    PROVE  IInv'
<1>1. Head(agenda)[1] = "statement"
  BY DEF VarDeclaration, At
<1>2. Done = Len(vals) + 1 /\ Len(vals) \in Nat
  BY <1>1, HeadChange, HeadReady
<1>3. arg \in SUBSET Qualifier
  BY <1>1, HeadReady, HeadArg DEF arg
<1>4. ASSUME NEW n \in {1, 2}, NEW type \in LeafNode, NEW name \in LeafNode,
             Go(n, <<Declarator("declarator", arg, type, name)>>)
      PROVE  IInv'
  <2>1. Segment(<<Declarator("declarator", arg, type, name)>>, Len(vals), Len(vals) + 1)
    <3>1. Step(Declarator("declarator", arg, type, name), Len(vals), Len(vals) + 1)
      BY <1>2, <1>3, DeclArgument, StepDeclare DEF Declarator
    <3>2. Len(vals) + 1 \in Nat
      BY <1>2
    <3>. QED  BY <1>2, <3>1, <3>2, Segment1
  <2>. QED  BY <1>1, <1>2, <1>4, <2>1, GoKeeps DEF Safe
<1>5. CASE raiseError
  BY <1>5, ErrorKeeps
<1>. QED  BY <1>4, <1>5, DeclarationLeaves DEF VarDeclaration

\* A function's parameters and body, or a variable's initialiser.
LEMMA DeclaratorTailKeeps ==
    ASSUME IInv, DeclaratorTail
    PROVE  IInv'
<1>1. Head(agenda)[1] = "declarator"
  BY DEF DeclaratorTail, At
<1>2. Done = Len(vals) + 1 /\ Len(vals) \in Nat
  BY <1>1, HeadChange, HeadReady
<1>3. arg \in DeclArg
  BY <1>1, HeadReady, HeadArg DEF arg, Declare
<1>. PICK a \in Nat : a = Len(vals)
  BY <1>2
<1>4. a + 1 \in Nat /\ a + 2 \in Nat /\ a + 1 + 1 = a + 2
  OBVIOUS
<1> DEFINE first == Unless("Right", 0, <<Param>>)
           seg   == <<first, More(Param), Expect("Right"), Task("body", 0),
                      Task("declare function", arg)>>
           init  == When("Equals", 1, Expression(0))
           tail  == <<init, Expect("Semi"), Task("declare variable", arg)>>
<1>5. Go(1, seg) \/ Go(0, tail)
  BY DEF DeclaratorTail
<1>6. Step(first, a, a + 1) /\ Step(init, a, a + 1)
  <2>1. <<Param>> \in Alternatives /\ Expression(0) \in Alternatives
    BY DEF Alternatives
  <2>. QED  BY <2>1, NamedTokens, StepChoice
<1>7. /\ Step(More(Param), a + 1, a + 1) /\ Step(Expect("Right"), a + 1, a + 1)
      /\ Step(Task("body", 0), a + 1, a + 2) /\ Step(Expect("Semi"), a + 1, a + 1)
  BY <1>4, NamedTokens, StepToken, StepCalled
<1>8. Step(Task("declare function", arg), a + 2, a + 1)
      /\ Step(Task("declare variable", arg), a + 1, a + 1)
  BY <1>3, StepDeclare
<1>. HIDE DEF first, init
<1>9. Segment(seg, a, a + 1)
  BY <1>4, <1>6, <1>7, <1>8, Segment5
<1>10. Segment(tail, a, a + 1)
  BY <1>4, <1>6, <1>7, <1>8, Segment3
<1>. HIDE DEF seg, tail
<1>. QED  BY <1>1, <1>2, <1>5, <1>9, <1>10, GoKeeps DEF Safe

\* The finished variable.
LEMMA DeclareVariableKeeps ==
    ASSUME IInv, DeclareVariable
    PROVE  IInv'
<1>1. Head(agenda)[1] = "declare variable"
  BY DEF DeclareVariable, At
<1>2. Done = Len(vals) /\ Len(vals) > 0 /\ Len(vals) \in Nat
  BY <1>1, HeadChange, HeadReady
<1>3. arg \in DeclArg
  BY <1>1, HeadReady, HeadArg DEF arg, Declare
<1>4. /\ arg.quals \in SUBSET Qualifier /\ arg.type \in LeafNode /\ arg.name \in LeafNode
      /\ arg.type.off \in Nat
  BY <1>3, LeafIsNode DEF DeclArg
<1> DEFINE nodes == Declaration("VarDecl", arg.type.off, arg.type, arg.name, Last(vals), arg.quals)
<1>5. Create(nodes, Len(tree), 1) /\ Then(<<>>) /\ Stay /\ UNCHANGED outcome
  BY DEF DeclareVariable
<1>6. /\ Last(vals) = vals[Len(vals)] /\ Last(vals) \in Int /\ 1 \in 0 .. Len(vals)
      /\ Len(vals) \in Len(vals) - 1 + 1 .. Len(vals) /\ Len(vals) - 1 + 1 = Len(vals)
  BY <1>2, LastHeld
<1>7. Fresh(nodes, tree, vals, 1, Len(tree))
  <2>1. "VarDecl" \in NodeKind
    BY DEF NodeKind
  <2>. QED  BY <2>1, <1>4, <1>6, FreshDeclaration
<1>. HIDE DEF nodes
<1>8. Moves(0) /\ Safe(<<>>, 0)
  BY <1>1, <1>5, MoveWindow DEF IInv, Safe
<1>9. Segment(<<>>, Len(vals) - 1 + 1, Done)
  BY <1>2, <1>6, SegmentNil
<1>. QED  BY <1>1, <1>5, <1>6, <1>7, <1>8, <1>9, CreateKeeps

\* A parameter.
LEMMA ParamDeclarationKeeps ==
    ASSUME IInv, ParamDeclaration
    PROVE  IInv'
<1>1. Head(agenda)[1] = "param"
  BY DEF ParamDeclaration, At
<1>2. Done = Len(vals) + 1 /\ Len(vals) \in Nat
  BY <1>1, HeadChange, HeadReady
<1>3. arg \in SUBSET Qualifier
  BY <1>1, HeadReady, HeadArg DEF arg
<1>4. ASSUME NEW n \in {1, 2}, NEW type \in LeafNode, NEW name \in LeafNode,
             Go(n, <<When("Equals", 1, Expression(0)),
                     Declarator("declare variable", arg, type, name)>>)
      PROVE  IInv'
  <2>1. Step(When("Equals", 1, Expression(0)), Len(vals), Len(vals) + 1)
    <3>1. Expression(0) \in Alternatives
      BY DEF Alternatives
    <3>. QED  BY <3>1, <1>2, NamedTokens, StepChoice
  <2>2. Step(Declarator("declare variable", arg, type, name), Len(vals) + 1, Len(vals) + 1)
    BY <1>2, <1>3, DeclArgument, StepDeclare DEF Declarator
  <2>3. Len(vals) + 1 \in Nat
    BY <1>2
  <2>4. Segment(<<When("Equals", 1, Expression(0)),
                  Declarator("declare variable", arg, type, name)>>, Len(vals), Done)
    BY <1>2, <2>1, <2>2, <2>3, Segment2
  <2>. QED  BY <1>1, <1>4, <2>4, GoKeeps DEF Safe
<1>5. CASE raiseError
  BY <1>5, ErrorKeeps
<1>. QED  BY <1>4, <1>5, DeclarationLeaves DEF ParamDeclaration

\* A function's body.
LEMMA FunctionBodyKeeps ==
    ASSUME IInv, FunctionBody
    PROVE  IInv'
<1>1. Head(agenda)[1] = "body"
  BY DEF FunctionBody, At
<1>2. Done = Len(vals) + 1 /\ Len(vals) \in Nat
  BY <1>1, HeadChange, HeadReady
<1>3. CASE Go(0, <<Statement>>)
  <2>1. Segment(<<Statement>>, Len(vals), Done)
    <3>1. Len(vals) + 1 \in Nat
      BY <1>2
    <3>. QED  BY <3>1, <1>2, StepCalled, Segment1
  <2>. QED  BY <1>1, <1>3, <2>1, GoKeeps DEF Safe
<1>4. CASE GoNull(1)
  BY <1>1, <1>2, <1>4, GoNullKeeps
<1>5. CASE raiseError
  BY <1>5, ErrorKeeps
<1>. QED  BY <1>3, <1>4, <1>5 DEF FunctionBody

\* The finished function, behind its leaves.
LEMMA DeclareFunctionKeeps ==
    ASSUME IInv, DeclareFunction
    PROVE  IInv'
<1>1. Head(agenda)[1] = "declare function"
  BY DEF DeclareFunction, At
<1>2. Done = Len(vals) - 1 /\ Len(vals) > 1 /\ Len(vals) \in Nat /\ Done \in Nat
  BY <1>1, HeadChange, HeadReady
<1>3. arg \in DeclArg
  BY <1>1, HeadReady, HeadArg DEF arg, Declare
<1>4. /\ arg.quals \in SUBSET Qualifier /\ arg.type \in LeafNode /\ arg.name \in LeafNode
      /\ arg.name.off \in Nat
  BY <1>3, LeafIsNode DEF DeclArg
<1>. PICK t \in Nat : t = Len(tree)
  BY WindowTokens
<1>. PICK init \in Int : init = Last(vals)
  BY <1>2, LastHeld
<1> DEFINE node == [Node("FunctionDecl", arg.name.off, 0, NoOp, <<t, t + 1, init>>)
                       EXCEPT !.quals = arg.quals]
<1>5. node \in AnyNode /\ node.kids = <<t, t + 1, init>>
  <2>1. <<t, t + 1, init>> \in Seq(Int)
    OBVIOUS
  <2>. QED  BY <2>1, <1>4 DEF Node, AnyNode, NodeKind
<1>6. Create(<<arg.type, arg.name, node>>, t + 2, 2) /\ Then(<<>>) /\ Stay /\ UNCHANGED outcome
  BY DEF DeclareFunction
<1>. HIDE DEF node
<1>7. PICK s \in Seq(AnyNode) : s = <<arg.type, arg.name, node>>
  <2>1. <<arg.type, arg.name, node>> \in Seq(AnyNode)
    BY <1>4, <1>5, LeafIsNode
  <2>. QED  BY <2>1
<1>8. Len(s) = 3 /\ s[1] = arg.type /\ s[2] = arg.name /\ s[3] = node
  BY <1>7
<1>9. \A m \in 1 .. 3 : m # 3 => s[m].kids = <<>>
  BY <1>4, <1>8, LeafIsNode
<1>10. /\ 3 \in 1 .. 3 /\ t \in t .. t + 2 /\ t + 1 \in t .. t + 2 /\ t # t + 1
       /\ t # t + 3 - 1 /\ t + 1 # t + 3 - 1 /\ t + 3 - 1 = t + 2
  OBVIOUS
<1>11. /\ init = vals[Len(vals)] /\ Len(vals) \in Len(vals) - 2 + 1 .. Len(vals)
       /\ 2 \in 0 .. Len(vals)
  BY <1>2, LastHeld
<1>12. Fresh(s, tree, vals, 2, t + 3 - 1)
  BY <1>5, <1>8, <1>9, <1>10, <1>11, FreshThree
<1>13. Moves(0) /\ Safe(<<>>, 0)
  BY <1>1, <1>6, MoveWindow DEF IInv, Safe
<1>14. Segment(<<>>, Len(vals) - 2 + 1, Done)
  <2>1. Len(vals) - 2 + 1 = Done
    BY <1>2
  <2>. QED  BY <2>1, <1>2, SegmentNil
<1>. QED  BY <1>1, <1>6, <1>7, <1>10, <1>11, <1>12, <1>13, <1>14, CreateKeeps

\* Every step of a declaration.
LEMMA DeclarationStepKeeps ==
    ASSUME IInv, DeclarationStep
    PROVE  IInv'
BY parseQualifiersKeeps, TypeDeclarationKeeps, BaseTypeKeeps, DeclareTypeKeeps,
   VarDeclarationKeeps, DeclaratorTailKeeps, DeclareVariableKeeps,
   ParamDeclarationKeeps, FunctionBodyKeeps, DeclareFunctionKeeps
   DEF DeclarationStep

-----------------------------------------------------------------------------
(* Statements keep the invariant.                                          *)

\* A statement that consumes its first token.
LEMMA StatementKeeps ==
    ASSUME IInv, NEW T, NEW seg, StatementFrom(T, seg),
           \A a \in Nat : Segment(seg, a, a + 1)
    PROVE  IInv'
<1>1. Head(agenda)[1] = "statement" /\ Go(1, seg)
  BY DEF StatementFrom, At
<1>2. Done = Len(vals) + 1 /\ Len(vals) \in Nat
  BY <1>1, HeadChange, HeadReady
<1>3. Segment(seg, Len(vals), Done) /\ Safe(seg, 1)
  BY <1>2 DEF Safe
<1>. QED  BY <1>1, <1>3, GoKeeps

\* if.
LEMMA parseIfStatementKeeps ==
    ASSUME IInv, parseIfStatement
    PROVE  IInv'
<1>1. StatementFrom({"kIf"}, Conditional(Offset(pos + 1)))
  BY DEF parseIfStatement
<1>2. \A a \in Nat : Segment(Conditional(Offset(pos + 1)), a, a + 1)
  BY WindowTokens, SegmentConditional
<1>. QED  BY <1>1, <1>2, StatementKeeps

\* while.
LEMMA parseWhileStatementKeeps ==
    ASSUME IInv, parseWhileStatement
    PROVE  IInv'
<1> DEFINE build == Build("CompileTimeJump", Offset(pos + 1), NoOp, 2, <<1, 2, 0>>)
           seg   == <<Expect("Left")>> \o Expression(0) \o
                    <<Expect("Right"), Statement, build>>
<1>1. StatementFrom({"kWhile"}, seg)
  BY DEF parseWhileStatement
<1>2. \A a \in Nat : Step(build, a + 2, a + 1)
  <2>1. "CompileTimeJump" \in NodeKind
    BY DEF NodeKind
  <2>. QED  BY <2>1, StepBuild, PickTuples, Arities, WindowTokens
<1>. HIDE DEF build
<1>3. ASSUME NEW a \in Nat PROVE Segment(seg, a, a + 1)
  <2>1. a + 1 \in Nat /\ a + 2 \in Nat /\ a + 1 + 1 = a + 2
    OBVIOUS
  <2>2. /\ Step(Expect("Left"), a, a) /\ Step(Expect("Right"), a + 1, a + 1)
        /\ Step(Statement, a + 1, a + 2)
    BY <2>1, NamedTokens, StepToken, StepCalled
  <2>3. Segment(<<Expect("Left")>>, a, a)
    BY <2>2, Segment1
  <2>4. Segment(Expression(0), a, a + 1)
    BY SegmentExpression
  <2>5. Segment(<<Expect("Right"), Statement, build>>, a + 1, a + 1)
    BY <1>2, <2>1, <2>2, Segment3
  <2>. QED  BY <2>3, <2>4, <2>5, SegmentConcat
<1>. HIDE DEF seg
<1>. QED  BY <1>1, <1>3, StatementKeeps

\* A segment of eight tasks.
LEMMA Segment8 ==
    ASSUME NEW S, NEW s1 \in S, NEW s2 \in S, NEW s3 \in S, NEW s4 \in S,
           NEW s5 \in S, NEW s6 \in S, NEW s7 \in S, NEW s8 \in S,
           NEW a \in Nat, NEW b \in Nat, NEW c \in Nat,
           Segment(<<s1, s2, s3, s4>>, a, b), Segment(<<s5, s6, s7, s8>>, b, c)
    PROVE  Segment(<<s1, s2, s3, s4, s5, s6, s7, s8>>, a, c)
<1>. PICK u \in Seq(S) : u = <<s1, s2, s3, s4>>
  <2>1. <<s1, s2, s3, s4>> \in Seq(S)
    OBVIOUS
  <2>. QED  BY <2>1
<1>. PICK v \in Seq(S) : v = <<s5, s6, s7, s8>>
  <2>1. <<s5, s6, s7, s8>> \in Seq(S)
    OBVIOUS
  <2>. QED  BY <2>1
<1>. PICK w \in Seq(S) : w = <<s1, s2, s3, s4, s5, s6, s7, s8>>
  <2>1. <<s1, s2, s3, s4, s5, s6, s7, s8>> \in Seq(S)
    OBVIOUS
  <2>. QED  BY <2>1
<1>1. Len(u) = 4 /\ u[1] = s1 /\ u[2] = s2 /\ u[3] = s3 /\ u[4] = s4
  OBVIOUS
<1>2. Len(v) = 4 /\ v[1] = s5 /\ v[2] = s6 /\ v[3] = s7 /\ v[4] = s8
  OBVIOUS
<1>3. /\ Len(w) = 8 /\ w[1] = s1 /\ w[2] = s2 /\ w[3] = s3 /\ w[4] = s4
      /\ w[5] = s5 /\ w[6] = s6 /\ w[7] = s7 /\ w[8] = s8
  OBVIOUS
<1>4. /\ u \o v \in Seq(S) /\ Len(u \o v) = 8
      /\ \A i \in 1 .. 8 : (u \o v)[i] = IF i <= 4 THEN u[i] ELSE v[i - 4]
  BY <1>1, <1>2, ConcatProperties
<1>5. ASSUME NEW i \in 1 .. 8 PROVE (u \o v)[i] = w[i]
  <2>1. i \in {1, 2, 3, 4} => i <= 4 /\ u[i] = w[i]
    BY <1>1, <1>3
  <2>2. i \in {5, 6, 7, 8} => ~(i <= 4) /\ v[i - 4] = w[i]
    BY <1>2, <1>3
  <2>3. i \in {1, 2, 3, 4} \/ i \in {5, 6, 7, 8}
    OBVIOUS
  <2>. QED  BY <1>4, <2>1, <2>2, <2>3
<1>6. u \o v = w
  BY <1>3, <1>4, <1>5, SeqEqual
<1>. QED  BY <1>6, SegmentConcat

\* for.
LEMMA parseForStatementKeeps ==
    ASSUME IInv, parseForStatement
    PROVE  IInv'
<1> DEFINE first == Unless("Semi", 1, <<Statement>>)
           cond  == Unless("Semi", 0, Expression(0))
           incr  == Unless("Right", 0, Expression(0))
           build == Build("CompileTimeJump", Offset(pos + 1), NoOp, 4, <<2, 4, 1>>)
           seg   == <<Expect("Left"), first, cond, Expect("Semi"),
                      incr, Expect("Right"), Statement, build>>
<1>1. StatementFrom({"kFor"}, seg)
  BY DEF parseForStatement
<1>2. \A a \in Nat : Step(build, a + 4, a + 1)
  <2>1. "CompileTimeJump" \in NodeKind
    BY DEF NodeKind
  <2>. QED  BY <2>1, StepBuild, PickTuples, Arities, WindowTokens
<1>3. \A a \in Nat : Step(first, a, a + 1) /\ Step(cond, a, a + 1) /\ Step(incr, a, a + 1)
  <2>1. <<Statement>> \in Alternatives /\ Expression(0) \in Alternatives
    BY DEF Alternatives
  <2>. QED  BY <2>1, NamedTokens, StepChoice
<1>. HIDE DEF build, first, cond, incr
<1>4. ASSUME NEW a \in Nat PROVE Segment(seg, a, a + 1)
  <2>1. /\ a + 1 \in Nat /\ a + 2 \in Nat /\ a + 3 \in Nat /\ a + 4 \in Nat
        /\ a + 1 + 1 = a + 2 /\ a + 2 + 1 = a + 3 /\ a + 3 + 1 = a + 4
    OBVIOUS
  <2>2. /\ Step(Expect("Left"), a, a) /\ Step(Expect("Semi"), a + 2, a + 2)
        /\ Step(Expect("Right"), a + 3, a + 3) /\ Step(Statement, a + 3, a + 4)
    BY <2>1, NamedTokens, StepToken, StepCalled
  <2>3. Step(first, a, a + 1) /\ Step(cond, a + 1, a + 2) /\ Step(incr, a + 2, a + 3)
    BY <1>3, <2>1
  <2>4. Segment(<<Expect("Left"), first, cond, Expect("Semi")>>, a, a + 2)
    BY <2>1, <2>2, <2>3, Segment4
  <2>5. Segment(<<incr, Expect("Right"), Statement, build>>, a + 2, a + 1)
    BY <1>2, <2>1, <2>2, <2>3, Segment4
  <2>6. /\ Expect("Left") \in PlainTask /\ Expect("Semi") \in PlainTask
        /\ Expect("Right") \in PlainTask /\ Statement \in PlainTask
        /\ first \in PlainTask /\ cond \in PlainTask /\ incr \in PlainTask
        /\ build \in PlainTask
    BY <1>2, <2>2, <2>3 DEF Step
  <2>. QED  BY <2>1, <2>4, <2>5, <2>6, Segment8
<1>. HIDE DEF seg
<1>. QED  BY <1>1, <1>4, StatementKeeps

\* return.
LEMMA parseReturnStatementKeeps ==
    ASSUME IInv, parseReturnStatement
    PROVE  IInv'
<1> DEFINE first == Unless("Semi", 0, Expression(0))
           build == Build("UnaryExpr", Offset(pos + 1), "kReturn", 1, <<1>>)
           seg   == <<first, Expect("Semi"), build>>
<1>1. StatementFrom({"kReturn"}, seg)
  BY DEF parseReturnStatement
<1>2. \A a \in Nat : Step(build, a + 1, a + 1)
  <2>1. "UnaryExpr" \in Single /\ "kReturn" \in TokenType
    BY NamedTokens DEF Single
  <2>. QED  BY <2>1, StepOver, WindowTokens
<1>3. \A a \in Nat : Step(first, a, a + 1)
  <2>1. Expression(0) \in Alternatives
    BY DEF Alternatives
  <2>. QED  BY <2>1, NamedTokens, StepChoice
<1>. HIDE DEF build, first
<1>4. ASSUME NEW a \in Nat PROVE Segment(seg, a, a + 1)
  <2>1. a + 1 \in Nat
    OBVIOUS
  <2>. QED  BY <1>2, <1>3, <2>1, NamedTokens, StepToken, Segment3
<1>. HIDE DEF seg
<1>. QED  BY <1>1, <1>4, StatementKeeps

\* break and continue.
LEMMA JumpStatementKeeps ==
    ASSUME IInv, JumpStatement
    PROVE  IInv'
<1> DEFINE build == Build("CompileTimeJump", Offset(pos + 1), peek(0), 0, <<0>>)
           seg   == <<Expect("Semi"), build>>
<1>1. StatementFrom(Jump, seg)
  BY DEF JumpStatement
<1>2. \A a \in Nat : Step(build, a, a + 1)
  <2>1. "CompileTimeJump" \in NodeKind
    BY DEF NodeKind
  <2>2. \A a \in Nat : a + 0 = a
    OBVIOUS
  <2>3. peek(0) \in Jump
    BY <1>1 DEF StatementFrom
  <2>. QED  BY <2>1, <2>2, <2>3, StepBuild, PickTuples, Arities, WindowTokens
<1>. HIDE DEF build
<1>3. ASSUME NEW a \in Nat PROVE Segment(seg, a, a + 1)
  <2>1. a + 1 \in Nat
    OBVIOUS
  <2>. QED  BY <1>2, <2>1, NamedTokens, StepToken, Segment2
<1>. HIDE DEF seg
<1>. QED  BY <1>1, <1>3, StatementKeeps

\* struct.
LEMMA parseStructDeclKeeps ==
    ASSUME IInv, parseStructDecl
    PROVE  IInv'
<1> DEFINE body  == When("BrLeft", 0, <<Statement>>)
           build == Build("StructDecl", Offset(pos + 1), NoOp, 1, <<1>>)
           seg   == <<Expect("Ident"), body, Skip("Semi"), build>>
<1>1. StatementFrom({"kStruct"}, seg)
  BY DEF parseStructDecl
<1>2. \A a \in Nat : Step(build, a + 1, a + 1)
  <2>1. "StructDecl" \in Single
    BY DEF Single
  <2>. QED  BY <2>1, StepOver, WindowTokens
<1>3. \A a \in Nat : Step(body, a, a + 1)
  <2>1. <<Statement>> \in Alternatives
    BY DEF Alternatives
  <2>. QED  BY <2>1, NamedTokens, StepChoice
<1>. HIDE DEF build, body
<1>4. ASSUME NEW a \in Nat PROVE Segment(seg, a, a + 1)
  <2>1. a + 1 \in Nat
    OBVIOUS
  <2>. QED  BY <1>2, <1>3, <2>1, NamedTokens, StepToken, Segment4
<1>. HIDE DEF seg
<1>. QED  BY <1>1, <1>4, StatementKeeps

\* namespace.
LEMMA parseNamespaceDeclKeeps ==
    ASSUME IInv, parseNamespaceDecl
    PROVE  IInv'
<1> DEFINE build == Build("NamespaceDecl", Offset(pos + 1), NoOp, 1, <<1>>)
           seg   == <<Expect("Ident"), Statement, build>>
<1>1. StatementFrom({"kNamespace"}, seg)
  BY DEF parseNamespaceDecl
<1>2. \A a \in Nat : Step(build, a + 1, a + 1)
  <2>1. "NamespaceDecl" \in Single
    BY DEF Single
  <2>. QED  BY <2>1, StepOver, WindowTokens
<1>. HIDE DEF build
<1>3. ASSUME NEW a \in Nat PROVE Segment(seg, a, a + 1)
  <2>1. a + 1 \in Nat
    OBVIOUS
  <2>. QED  BY <1>2, <2>1, NamedTokens, StepToken, StepCalled, Segment3
<1>. HIDE DEF seg
<1>. QED  BY <1>1, <1>3, StatementKeeps

\* delete as a statement.
LEMMA DeleteStatementKeeps ==
    ASSUME IInv, DeleteStatement
    PROVE  IInv'
<1>1. StatementFrom({"kDelete"}, Delete(Offset(pos + 1)) \o <<Skip("Semi")>>)
  BY DEF DeleteStatement
<1>2. ASSUME NEW a \in Nat PROVE Segment(Delete(Offset(pos + 1)) \o <<Skip("Semi")>>, a, a + 1)
  <2>1. Segment(<<Skip("Semi")>>, a + 1, a + 1)
    <3>1. a + 1 \in Nat
      OBVIOUS
    <3>. QED  BY <3>1, NamedTokens, StepToken, Segment1
  <2>. QED  BY <2>1, WindowTokens, SegmentDelete, SegmentConcat
<1>. QED  BY <1>1, <1>2, StatementKeeps

\* requires.
LEMMA RequiresClauseKeeps ==
    ASSUME IInv, RequiresClause
    PROVE  IInv'
<1>1. StatementFrom({"kRequires"}, <<Expect("Colon")>> \o Expression(0) \o <<Skip("Semi")>>)
  BY DEF RequiresClause
<1>2. ASSUME NEW a \in Nat
      PROVE  Segment(<<Expect("Colon")>> \o Expression(0) \o <<Skip("Semi")>>, a, a + 1)
  <2>1. Segment(<<Expect("Colon")>>, a, a)
    BY NamedTokens, StepToken, Segment1
  <2>2. Segment(<<Skip("Semi")>>, a + 1, a + 1)
    <3>1. a + 1 \in Nat
      OBVIOUS
    <3>. QED  BY <3>1, NamedTokens, StepToken, Segment1
  <2>. QED  BY <2>1, <2>2, SegmentExpression, SegmentConcat
<1>. QED  BY <1>1, <1>2, StatementKeeps

\* An expression as a statement: its operand consumes a token.
LEMMA ExpressionStatementKeeps ==
    ASSUME IInv, ExpressionStatement
    PROVE  IInv'
<1> DEFINE seg == Expression(0) \o <<Skip("Semi")>>
<1>1. Head(agenda)[1] = "statement" /\ Go(0, seg)
  BY DEF ExpressionStatement, At
<1>2. Done = Len(vals) + 1 /\ Len(vals) \in Nat
  BY <1>1, HeadChange, HeadReady
<1>3. Segment(Expression(0), Len(vals), Done)
  BY <1>2, SegmentExpression
<1>4. Segment(<<Skip("Semi")>>, Done, Done)
  <2>1. Done \in Nat
    BY HeadReady
  <2>. QED  BY <2>1, NamedTokens, StepToken, Segment1
<1>5. Segment(seg, Len(vals), Done)
  BY <1>3, <1>4, SegmentConcat
<1>6. Safe(seg, 0)
  <2>. PICK u \in Seq(PlainTask) : u = Expression(0)
    BY <1>3 DEF Segment
  <2>. PICK v \in Seq(PlainTask) : v = <<Skip("Semi")>>
    BY <1>4 DEF Segment
  <2>1. Len(u) = 2 /\ u[1] = Primary /\ Len(v) = 1
    BY DEF Expression
  <2>2. /\ Len(u \o v) = 3
        /\ \A i \in 1 .. 3 : (u \o v)[i] = IF i <= 2 THEN u[i] ELSE v[i - 2]
    BY <2>1, ConcatProperties
  <2>3. 1 \in 1 .. Len(seg) /\ seg[1] = Primary
    BY <2>1, <2>2
  <2>4. seg[1][1] = "primary"
    BY <2>3 DEF Primary, Task
  <2>. QED  BY <2>3, <2>4 DEF Safe
<1>. HIDE DEF seg
<1>. QED  BY <1>1, <1>5, <1>6, GoKeeps

\* The unit's loop is the last task, and no id is held when it is reached.
LEMMA UnitAlone ==
    ASSUME IInv, Head(agenda)[1] = "unit"
    PROVE  agenda = <<Task("unit", 0)>> /\ Tail(agenda) = <<>> /\ Len(vals) = 0
<1>1. Remains(agenda, Len(vals))
  BY DEF IInv
<1>2. agenda \in Seq(AnyTask) /\ agenda # <<>> /\ Head(agenda) = agenda[1]
  BY <1>1, HeadTailProperties DEF Remains
<1>3. Len(agenda) \in Nat \ {0}
  BY <1>2, EmptySeq
<1>4. Len(agenda) = 1
  <2>1. SUFFICES ASSUME Len(agenda) # 1 PROVE FALSE
    OBVIOUS
  <2>2. 1 \in 1 .. Len(agenda) - 1
    <3>1. \A l \in Nat \ {0} : l # 1 => 1 \in 1 .. l - 1
      OBVIOUS
    <3>. QED  BY <1>3, <2>1, <3>1
  <2>. QED  BY <1>1, <1>2, <2>2 DEF Remains
<1>5. agenda[1] = Task("unit", 0)
  BY <1>1, <1>4 DEF Remains
<1>6. agenda = <<Task("unit", 0)>>
  <2>1. <<Task("unit", 0)>> \in Seq(AnyTask)
    BY DEF AnyTask
  <2>2. Len(<<Task("unit", 0)>>) = 1 /\ <<Task("unit", 0)>>[1] = Task("unit", 0)
    OBVIOUS
  <2>. QED  BY <1>2, <1>4, <1>5, <2>1, <2>2, SeqEqual
<1>7. Tail(agenda) = <<>>
  <2>1. Tail(agenda) \in Seq(AnyTask) /\ Len(Tail(agenda)) = Len(agenda) - 1
    BY <1>2, HeadTailProperties
  <2>2. Len(Tail(agenda)) = 0
    BY <1>4, <2>1
  <2>. QED  BY <2>1, <2>2, EmptySeq
<1>8. Len(vals) = 0
  <2>1. PICK b \in Nat : Does(Head(agenda), Len(vals), b) /\ Runs(<<>>, b, 0)
    BY <1>1, <1>2, <1>7, RunsTail DEF Remains
  <2>2. b = 0
    <3>1. Len(<<>>) = 0
      OBVIOUS
    <3>. QED  BY <2>1, <3>1 DEF Runs
  <2>3. Takes(Head(agenda)) = 0 /\ Gives(Head(agenda)) = 0
    BY <1>2, <1>5 DEF Takes, Gives, Task
  <2>4. \A l \in Nat : 0 = l - 0 + 0 => l = 0
    OBVIOUS
  <2>. QED  BY <2>1, <2>2, <2>3, <2>4 DEF Does
<1>. QED  BY <1>6, <1>7, <1>8

\* The unit's loop: a statement, with a guardrail at its first token.
LEMMA UnitLoopKeeps ==
    ASSUME IInv, UnitLoop
    PROVE  IInv'
<1>1. Head(agenda)[1] = "unit"
  BY DEF UnitLoop, At
<1>2. CASE peek(0) = "Eof"
  <2>1. outcome' = "done" /\ Stay /\ UNCHANGED <<tree, agenda, vals>>
    BY <1>2 DEF UnitLoop
  <2>. QED  BY <2>1, StandKeeps
<1>3. CASE peek(0) # "Eof"
  <2>. PICK g : g = Task("guardrail", Offset(pos + 1))
    OBVIOUS
  <2>. PICK unit : unit = Task("unit", 0)
    OBVIOUS
  <2> DEFINE next == <<Statement, Drop, g, unit>>
  <2>1. Go(0, next)
    BY <1>3 DEF UnitLoop
  <2>2. /\ agenda = <<unit>> /\ Tail(agenda) = <<>> /\ Len(vals) = 0
    BY <1>1, UnitAlone
  <2>3. Offset(pos + 1) = pos /\ pos \in Nat
    <3>1. WindowOK
      BY DEF IInv
    <3>2. input[pos + 1] # "Eof"
      <4>1. peek(0) = TypeOf(input[pos + 1])
        BY <3>1 DEF peek, WindowOK
      <4>. QED  BY <1>3, <4>1, EofToken DEF TypeOf
    <3>3. input \in Seq(Token) /\ pos + 1 \in 1 .. Len(input) /\ pos \in Nat
      BY <3>1 DEF WindowOK
    <3>4. Offset(pos + 1) = pos + 1 - 1
      BY <3>2, <3>3, OffsetNumber
    <3>. QED  BY <3>3, <3>4
  <2>4. /\ Statement \in AnyTask /\ Drop \in AnyTask /\ g \in AnyTask /\ unit \in AnyTask
        /\ Statement[1] = "statement" /\ Drop[1] = "drop"
        /\ g[1] = "guardrail" /\ g[2] = pos /\ unit[1] = "unit"
    <3>1. Step(Statement, 0, 1) /\ Step(Drop, 1, 0)
      <4>1. 0 \in Nat /\ 0 + 1 = 1
        OBVIOUS
      <4>. QED  BY <4>1, StepCalled
    <3>2. Statement[1] = "statement" /\ Drop[1] = "drop"
      BY DEF Statement, Drop, Task
    <3>3. g \in AnyTask /\ g[1] = "guardrail" /\ g[2] = pos
      BY <2>3 DEF AnyTask, Task
    <3>4. unit \in AnyTask /\ unit[1] = "unit"
      BY DEF AnyTask, Task
    <3>. QED  BY <3>1, <3>2, <3>3, <3>4 DEF Step, AnyTask
  <2>. PICK s \in Seq(AnyTask) : s = next
    <3>1. next \in Seq(AnyTask)
      BY <2>4
    <3>. QED  BY <3>1
  <2>5. /\ Len(s) = 4 /\ DOMAIN s = 1 .. 4
        /\ s[1] = Statement /\ s[2] = Drop /\ s[3] = g /\ s[4] = unit
    OBVIOUS
  <2>6. agenda' = s
    <3>1. agenda' = s \o <<>>
      BY <2>1, <2>2 DEF Go, Then
    <3>. QED  BY <3>1, ConcatEmptySeq
  <2>7. Runs(s, 0, 0)
    <3>1. /\ Does(Statement, 0, 1) /\ Does(Drop, 1, 0) /\ Does(g, 0, 0) /\ Does(unit, 0, 0)
      <4>1. Does(Statement, 0, 1) /\ Does(Drop, 1, 0)
        <5>1. 0 \in Nat /\ 0 + 1 = 1
          OBVIOUS
        <5>. QED  BY <5>1, StepCalled DEF Step
      <4>2. Takes(g) = 0 /\ Gives(g) = 0 /\ Takes(unit) = 0 /\ Gives(unit) = 0
        BY <2>4 DEF Takes, Gives
      <4>. QED  BY <4>1, <4>2 DEF Does
    <3> DEFINE h == [k \in 0 .. 4 |-> IF k = 1 THEN 1 ELSE 0]
    <3>2. /\ h \in [0 .. Len(s) -> Nat] /\ h[0] = 0 /\ h[Len(s)] = 0
          /\ h[1] = 1 /\ h[2] = 0 /\ h[3] = 0 /\ h[4] = 0
      BY <2>5
    <3>. HIDE DEF h
    <3>3. ASSUME NEW k \in 1 .. Len(s) PROVE Does(s[k], h[k - 1], h[k])
      <4>1. k = 1 \/ k = 2 \/ k = 3 \/ k = 4
        BY <2>5
      <4>2. CASE k = 1
        BY <4>2, <2>5, <3>1, <3>2
      <4>3. CASE k = 2
        BY <4>3, <2>5, <3>1, <3>2
      <4>4. CASE k = 3
        BY <4>4, <2>5, <3>1, <3>2
      <4>5. CASE k = 4
        BY <4>5, <2>5, <3>1, <3>2
      <4>. QED  BY <4>1, <4>2, <4>3, <4>4, <4>5
    <3>. QED  BY <3>2, <3>3 DEF Runs
  <2>8. Remains(agenda', Len(vals'))
    <3>1. vals' = vals /\ s # <<>>
      BY <2>1, <2>5 DEF Go
    <3>2. s[Len(s)] = Task("unit", 0)
      BY <2>5
    <3>3. ASSUME NEW k \in 1 .. Len(s) - 1 PROVE s[k][1] # "unit"
      <4>1. k = 1 \/ k = 2 \/ k = 3
        BY <2>5
      <4>. QED  BY <2>4, <2>5, <4>1
    <3>. QED  BY <2>2, <2>6, <2>7, <3>1, <3>2, <3>3 DEF Remains
  <2>9. Moves(0)
    <3>1. WindowOK /\ Advance(0)
      BY <2>1 DEF IInv, Go
    <3>. QED  BY <3>1, MoveWindow
  <2>10. Guarded(agenda', pos')
    <3>1. pos' = pos
      BY <2>3, <2>9 DEF Moves
    <3>2. ASSUME NEW k \in DOMAIN s, s[k][1] = "guardrail"
          PROVE  /\ s[k][2] <= pos
                 /\ \E j \in 1 .. k - 1 : s[j][1] \in {"statement", "primary"}
      <4>1. k = 3
        <5>1. k = 1 \/ k = 2 \/ k = 3 \/ k = 4
          BY <2>5
        <5>. QED  BY <2>4, <2>5, <3>2, <5>1
      <4>2. s[k][2] = pos
        BY <2>4, <2>5, <4>1
      <4>3. 1 \in 1 .. k - 1 /\ s[1][1] = "statement"
        BY <2>4, <2>5, <4>1
      <4>. QED  BY <2>3, <4>2, <4>3
    <3>. QED  BY <2>6, <3>1, <3>2 DEF Guarded
  <2>11. Grown(tree', vals') /\ outcome' \in {"run", "done", "error"} /\ WindowOK'
    BY <2>1, <2>9 DEF Go, IInv, Moves
  <2>. QED  BY <2>8, <2>10, <2>11 DEF IInv
<1>. QED  BY <1>2, <1>3

\* The guardrail, whether it skips or not.
LEMMA GuardrailKeeps ==
    ASSUME IInv, Guardrail
    PROVE  IInv'
<1>1. Head(agenda)[1] = "guardrail"
  BY DEF Guardrail, At
<1>2. Done = Len(vals)
  BY <1>1, HeadChange
<1>3. PICK n \in {0, 1, 2} : Go(n, <<>>)
  BY DEF Guardrail
<1>. QED  BY <1>1, <1>2, <1>3, GoNothing

\* Every step of a statement or of the unit.
LEMMA StatementStepKeeps ==
    ASSUME IInv, StatementStep
    PROVE  IInv'
BY parseIfStatementKeeps, parseWhileStatementKeeps, parseForStatementKeeps,
   parseReturnStatementKeeps, JumpStatementKeeps, parseStructDeclKeeps,
   parseNamespaceDeclKeeps, DeleteStatementKeeps, RequiresClauseKeeps,
   ExpressionStatementKeeps, UnitLoopKeeps, GuardrailKeeps
   DEF StatementStep

-----------------------------------------------------------------------------
(* The theorems.                                                           *)

\* The constructor's window, the root and the unit's loop.
LEMMA InitIInv ==
    ASSUME Init
    PROVE  IInv
<1>1. WindowOK
  <2>1. source \in Source /\ pos = 0
    BY DEF Init
  <2>2. PICK t \in Follow(<<>>) : \E u \in Follow(<<t>>) : input = <<t, u>>
    BY DEF Init
  <2>3. PICK u \in Follow(<<t>>) : input = <<t, u>>
    BY <2>2
  <2>4. t \in Token
    <3>1. <<>> \in Seq(Token)
      OBVIOUS
    <3>. QED  BY <2>1, <3>1, FollowTokens
  <2>5. u \in Token
    <3>1. <<t>> \in Seq(Token)
      BY <2>4
    <3>. QED  BY <2>1, <3>1, FollowTokens
  <2>6. input \in Seq(Token) /\ Len(input) = 2
    BY <2>3, <2>4, <2>5
  <2>. QED  BY <2>1, <2>6 DEF WindowOK
<1>2. Grown(tree, vals)
  <2>. PICK root \in AnyNode : root = Node("TranslationUnit", 0, 0, NoOp, <<>>)
    <3>1. "TranslationUnit" \in NodeKind /\ <<>> \in Seq(Int) /\ {} \in SUBSET Qualifier
      BY DEF NodeKind
    <3>2. Node("TranslationUnit", 0, 0, NoOp, <<>>) \in AnyNode
      BY <3>1 DEF Node, AnyNode
    <3>. QED  BY <3>2
  <2>1. root.kids = <<>> /\ tree = <<root>> /\ vals = <<>>
    BY DEF Init, Node
  <2>2. tree \in Seq(AnyNode) /\ vals \in Seq(Int) /\ DOMAIN vals = {}
    BY <2>1
  <2>3. \A n \in DOMAIN tree : DOMAIN tree[n].kids = {}
    <3>1. DOMAIN tree = 1 .. 1 /\ tree[1] = root
      BY <2>1
    <3>2. DOMAIN root.kids = {}
      BY <2>1
    <3>. QED  BY <3>1, <3>2
  <2>. QED  BY <2>2, <2>3 DEF Grown
<1>. PICK unit : unit = Task("unit", 0)
  OBVIOUS
<1>3. agenda = <<unit>> /\ Len(vals) = 0 /\ unit[1] = "unit"
  BY DEF Init, Task
<1>4. Remains(agenda, Len(vals))
  <2>1. unit \in AnyTask
    BY DEF AnyTask
  <2>2. <<unit>> \in Seq(AnyTask) /\ Len(<<unit>>) = 1 /\ <<unit>>[1] = unit /\ <<unit>> # <<>>
    BY <2>1
  <2>3. Does(unit, 0, 0)
    <3>1. Takes(unit) = 0 /\ Gives(unit) = 0
      BY <1>3 DEF Takes, Gives
    <3>. QED  BY <3>1 DEF Does
  <2>4. Runs(<<unit>>, 0, 0)
    BY <2>3, RunsOne
  <2>5. 1 .. Len(<<unit>>) - 1 = {}
    BY <2>2
  <2>. QED  BY <1>3, <2>2, <2>4, <2>5 DEF Remains
<1>5. Guarded(agenda, pos)
  <2>1. DOMAIN <<unit>> = 1 .. 1 /\ <<unit>>[1][1] = "unit"
    BY <1>3
  <2>. QED  BY <1>3, <2>1 DEF Guarded
<1>. QED  BY <1>1, <1>2, <1>4, <1>5 DEF Init, IInv

\* The parser's discipline: each task of the C++ call stack finds the node
\* ids its callers hold for it and leaves what it returns; links and held
\* ids point at nodes, none of them twice; and between the start of a
\* statement and its guardrail stands a task that consumes a token.
THEOREM Invariance == Spec => []IInv
<1>1. Init => IInv
  BY InitIInv
<1>2. IInv /\ [Next]_vars => IInv'
  <2>. SUFFICES ASSUME IInv, [Next]_vars PROVE IInv'
    OBVIOUS
  <2>1. CASE Helper
    BY <2>1, ExpectTokenKeeps, SkipTokenKeeps, DropIdKeeps, ChooseKeeps, MoreItemsKeeps,
       BuildNodeKeeps DEF Helper
  <2>2. CASE ExpressionStep
    BY <2>2, ExpressionStepKeeps
  <2>3. CASE DeclarationStep
    BY <2>3, DeclarationStepKeeps
  <2>4. CASE StatementStep
    BY <2>4, StatementStepKeeps
  <2>5. CASE UNCHANGED vars
    BY <2>5, StandKeeps DEF vars, Stay, IInv
  <2>. QED  BY <2>1, <2>2, <2>3, <2>4, <2>5 DEF Next
<1>. QED  BY <1>1, <1>2, PTL DEF Spec

\* Every variable has its type: in particular, no link and no id that a
\* parse function holds points outside the vector of nodes, which
\* AST_manager.cpp indexes with them unchecked.
THEOREM TypeCorrect == Spec => []TypeOK
<1>1. IInv => TypeOK
  <2>. SUFFICES ASSUME IInv PROVE TypeOK
    OBVIOUS
  <2>1. WindowOK /\ Grown(tree, vals) /\ tree \in Seq(AnyNode) /\ Len(tree) \in Nat
    BY DEF IInv, Grown
  <2>2. -1 .. Len(tree) - 1 \subseteq NodeId \cup {Null}
    BY <2>1 DEF NodeId, Null
  <2>3. ASSUME NEW i \in DOMAIN tree
        PROVE  /\ tree[i].kind \in NodeKind
               /\ tree[i].off \in Nat
               /\ Range(tree[i].kids) \subseteq NodeId \cup {Null}
    <3>1. tree[i] \in AnyNode
      BY <2>1
    <3>2. \A k \in DOMAIN tree[i].kids : tree[i].kids[k] \in -1 .. Len(tree) - 1
      BY <2>1 DEF Grown
    <3>. QED  BY <2>2, <3>1, <3>2 DEF AnyNode, Range
  <2>4. Range(vals) \subseteq NodeId \cup {Null}
    BY <2>1, <2>2 DEF Grown, Range
  <2>. QED  BY <2>1, <2>3, <2>4 DEF TypeOK, WindowOK, IInv
<1>. QED  BY <1>1, Invariance, PTL

\* No node has two parents, and an id a function still holds has none and is
\* held once: the replacements of expr in parser.cpp:190-237 share no node.
THEOREM LinksFormAForest == Spec => []LinksFormForest
<1>1. IInv => LinksFormForest
  <2>. SUFFICES ASSUME IInv PROVE LinksFormForest
    OBVIOUS
  <2> DEFINE Links == UNION {{<<n, i>> : i \in DOMAIN tree[n].kids} : n \in DOMAIN tree}
             To(l) == tree[l[1]].kids[l[2]]
  <2>1. Grown(tree, vals)
    BY DEF IInv
  <2>2. \A l \in Links : l = <<l[1], l[2]>> /\ l[1] \in DOMAIN tree
                         /\ l[2] \in DOMAIN tree[l[1]].kids
    OBVIOUS
  <2>3. ASSUME NEW k \in Links, NEW l \in Links, To(k) = To(l), To(k) # Null
        PROVE  k = l
    <3>1. k[1] = l[1] /\ k[2] = l[2]
      BY <2>1, <2>2, <2>3 DEF Grown
    <3>. QED  BY <2>2, <3>1
  <2>4. ASSUME NEW l \in Links, To(l) \in ToSet(vals)
        PROVE  To(l) = Null
    <3>1. PICK a \in DOMAIN vals : To(l) = vals[a]
      BY <2>4 DEF ToSet
    <3>. QED  BY <2>1, <2>2, <3>1 DEF Grown
  <2>5. \A i, j \in DOMAIN vals : vals[i] = vals[j] /\ vals[i] # Null => i = j
    BY <2>1 DEF Grown
  <2>. QED  BY <2>3, <2>4, <2>5 DEF LinksFormForest
<1>. QED  BY <1>1, Invariance, PTL

\* The guardrail that would skip a token never does.
LEMMA GuardrailFree ==
    ASSUME IInv
    PROVE  GuardrailIdle
<1>. SUFFICES ASSUME At("guardrail"), Stuck PROVE FALSE
  BY DEF GuardrailIdle
<1>1. Head(agenda)[1] = "guardrail"
  BY DEF At
<1>2. WindowOK /\ Guarded(agenda, pos) /\ agenda \in Seq(AnyTask) /\ agenda # <<>>
      /\ Head(agenda) = agenda[1]
  BY HeadReady DEF IInv, Remains
<1>3. Offset(pos + 1) = pos
  <2>1. input[pos + 1] # "Eof"
    <3>1. peek(0) = TypeOf(input[pos + 1])
      BY <1>2 DEF peek, WindowOK
    <3>. QED  BY <3>1, EofToken DEF TypeOf, Stuck
  <2>2. input \in Seq(Token) /\ pos + 1 \in 1 .. Len(input) /\ pos \in Nat
    BY <1>2 DEF WindowOK
  <2>3. Offset(pos + 1) = pos + 1 - 1
    BY <2>1, <2>2, OffsetNumber
  <2>. QED  BY <2>2, <2>3
<1>4. agenda[1][2] = pos
  BY <1>2, <1>3 DEF Stuck, arg
<1>5. 1 \in DOMAIN agenda
  BY <1>2, EmptySeq
<1>6. \E j \in 1 .. 1 - 1 : agenda[j][1] \in {"statement", "primary"}
  BY <1>1, <1>2, <1>4, <1>5 DEF Guarded
<1>. QED  BY <1>6

\* parseStatement consumes a token whenever it returns: the guardrail of
\* parser.cpp:636 never skips one.
THEOREM GuardrailNeverSkips == Spec => []GuardrailIdle
BY GuardrailFree, Invariance, PTL

-----------------------------------------------------------------------------
(* The order of the nodes.                                                 *)

\* The nth node has the links its kind needs, and they point at nodes before
\* it, but for the leaves a declaration of a variable or a type makes.
Shaped(x, n) ==
    /\ Arity(x.kind, x.op, Len(x.kids))
    /\ \A i \in DOMAIN x.kids :
          x.kids[i] < n - 1 \/ (x.kind \in {"VarDecl", "TypeDecl"} /\ i < 3)

\* The type and the name of a declaration are leaves of the tree t.
LeavesOf(x, t) ==
    x.kind \in {"VarDecl", "TypeDecl", "FunctionDecl"} =>
        \A i \in 1 .. 2 : /\ x.kids[i] + 1 \in DOMAIN t
                          /\ t[x.kids[i] + 1].kind = "IdentifierExpr"

Ordered ==
    /\ tree # <<>>
    /\ tree[1].kind = "TranslationUnit"
    /\ \A n \in DOMAIN tree : Shaped(tree[n], n) /\ LeavesOf(tree[n], tree)

\* Nodes of the right shape, put behind the others.
LEMMA AppendOrdered ==
    ASSUME IInv, Ordered, NEW nodes \in Seq(AnyNode), tree' = tree \o nodes,
           \A m \in DOMAIN nodes : /\ Shaped(nodes[m], Len(tree) + m)
                                   /\ LeavesOf(nodes[m], tree \o nodes)
    PROVE  Ordered'
<1>1. tree \in Seq(AnyNode)
  BY WindowTokens
<1>2. PICK t \in Nat, l \in Nat : t = Len(tree) /\ l = Len(nodes)
  BY <1>1
<1>3. /\ tree' \in Seq(AnyNode) /\ DOMAIN tree' = 1 .. t + l
      /\ \A n \in 1 .. t + l : tree'[n] = IF n <= t THEN tree[n] ELSE nodes[n - t]
  BY <1>1, <1>2
<1>4. t > 0
  BY <1>1, <1>2, EmptySeq DEF Ordered
<1>5. ASSUME NEW n \in 1 .. t + l PROVE Shaped(tree'[n], n) /\ LeavesOf(tree'[n], tree')
  <2>1. CASE n <= t
    <3>1. n \in DOMAIN tree /\ tree'[n] = tree[n]
      BY <1>1, <1>2, <1>3, <2>1
    <3>2. \A k \in DOMAIN tree : k \in DOMAIN tree' /\ tree'[k] = tree[k]
      BY <1>1, <1>2, <1>3
    <3>3. LeavesOf(tree[n], tree) => LeavesOf(tree[n], tree')
      BY <3>2 DEF LeavesOf
    <3>. QED  BY <3>1, <3>3 DEF Ordered
  <2>2. CASE ~(n <= t)
    <3>1. PICK m \in 1 .. l : m = n - t
      BY <2>2
    <3>2. m \in DOMAIN nodes /\ t + m = n /\ tree'[n] = nodes[m]
      BY <1>2, <1>3, <2>2, <3>1
    <3>. QED  BY <1>2, <3>2
  <2>. QED  BY <2>1, <2>2
<1>6. tree'[1] = tree[1] /\ 1 \in 1 .. t + l
  BY <1>3, <1>4
<1>7. tree' # <<>>
  BY <1>3, <1>6
<1>. QED  BY <1>3, <1>5, <1>6, <1>7 DEF Ordered

\* Where nodes put behind the others are found.
LEMMA BehindTree ==
    ASSUME IInv, NEW nodes \in Seq(AnyNode), NEW m \in DOMAIN nodes,
           NEW t \in Nat, t = Len(tree)
    PROVE  t + m \in DOMAIN (tree \o nodes) /\ (tree \o nodes)[t + m] = nodes[m]
<1>1. tree \in Seq(AnyNode)
  BY WindowTokens
<1>. QED  BY <1>1

\* One node, whose links are among the nodes there are.
LEMMA AppendOne ==
    ASSUME IInv, Ordered, NEW node \in AnyNode, tree' = tree \o <<node>>,
           Arity(node.kind, node.op, Len(node.kids)),
           \A i \in DOMAIN node.kids : node.kids[i] < Len(tree),
           node.kind \notin {"VarDecl", "TypeDecl", "FunctionDecl"}
    PROVE  Ordered'
<1>1. Len(tree) \in Nat
  BY WindowTokens
<1>2. PICK s \in Seq(AnyNode) : s = <<node>>
  <2>1. <<node>> \in Seq(AnyNode)
    OBVIOUS
  <2>. QED  BY <2>1
<1>3. \A m \in DOMAIN s : m = 1 /\ s[m] = node
  BY <1>2
<1>4. \A i \in DOMAIN node.kids : node.kids[i] < Len(tree) + 1 - 1
  BY <1>1
<1>5. \A m \in DOMAIN s : Shaped(s[m], Len(tree) + m) /\ LeavesOf(s[m], tree \o s)
  BY <1>3, <1>4 DEF Shaped, LeavesOf
<1>. QED  BY <1>2, <1>5, AppendOrdered

\* The kinds of nodes that need no links.
LEMMA NoArity ==
    ASSUME NEW op, NEW n,
           NEW kind \in {"TranslationUnit", "LiteralExpr", "MemberAccessExpr", "TypeDecl"}
    PROVE  Arity(kind, op, n)
BY DEF Arity

\* An identifier has none.
LEMMA LeafArity ==
    ASSUME NEW op
    PROVE  Arity("IdentifierExpr", op, Len(<<>>))
BY DEF Arity

\* A node made of the ids its task takes.
LEMMA BuildOrders ==
    ASSUME IInv, Ordered, BuildNode
    PROVE  Ordered'
<1>1. Head(agenda)[1] = "build"
  BY DEF BuildNode, At
<1>2. arg \in BuildTask
  BY <1>1, HeadReady, HeadArg DEF arg
<1>3. arg.take \in 0 .. Len(vals) /\ Len(vals) \in Nat
  BY <1>1, HeadChange, HeadReady DEF arg
<1>4. vals \in Seq(Int) /\ Grown(tree, vals) /\ Len(tree) \in Nat
  BY WindowTokens DEF IInv
<1>5. PICK l \in Nat : l = Len(vals)
  BY <1>3
<1>6. PICK take \in 0 .. l : take = arg.take
  BY <1>3, <1>5
<1>7. PICK pick \in Picks(take) : pick = arg.pick
  BY <1>2, <1>6 DEF BuildTask
<1>8. pick \in Seq(0 .. take) /\ \A i \in DOMAIN pick : pick[i] \in 0 .. take
  BY DEF Picks
<1> DEFINE held == Latest(take)
           kids == [i \in DOMAIN pick |-> IF pick[i] = 0 THEN Null ELSE held[pick[i]]]
           off  == IF arg.off = Here THEN Offset(pos + 1) ELSE arg.off
           len  == IF arg.kind = "UnaryExpr" /\ arg.op \in Prefix THEN 1 ELSE 0
           node == Node(arg.kind, off, len, arg.op, kids)
<1>9. \A n \in 1 .. take : held[n] = vals[l - take + n]
  BY <1>4, <1>5, LatestIds
<1>. HIDE DEF held
<1>10. \A i \in DOMAIN kids : kids[i] \in -1 .. Len(tree) - 1
  <2>. SUFFICES ASSUME NEW i \in DOMAIN pick PROVE kids[i] \in -1 .. Len(tree) - 1
    OBVIOUS
  <2>1. CASE pick[i] = 0
    BY <1>4, <2>1 DEF Null
  <2>2. CASE pick[i] # 0
    <3>1. pick[i] \in 1 .. take
      BY <1>8, <2>2
    <3>2. l - take + pick[i] \in 1 .. l
      BY <3>1
    <3>3. kids[i] = vals[l - take + pick[i]] /\ l - take + pick[i] \in DOMAIN vals
      BY <1>4, <1>5, <1>9, <2>2, <3>1, <3>2
    <3>. QED  BY <1>4, <3>3 DEF Grown
  <2>. QED  BY <2>1, <2>2
<1>11. kids \in Seq(Int) /\ Len(kids) = Len(pick)
  <2>1. PICK n \in Nat : DOMAIN pick = 1 .. n /\ Len(pick) = n
    BY <1>8
  <2>2. \A i \in 1 .. n : kids[i] \in Int
    BY <1>10, <2>1
  <2>3. kids = [i \in 1 .. n |-> kids[i]]
    BY <2>1
  <2>4. DOMAIN kids = 1 .. n
    BY <2>1
  <2>. HIDE DEF kids
  <2>5. [i \in 1 .. n |-> kids[i]] \in Seq(Int)
    BY <2>2, IsASeq
  <2>6. kids \in Seq(Int)
    BY <2>3, <2>5
  <2>7. DOMAIN kids = 1 .. Len(kids) /\ Len(kids) \in Nat
    BY <2>6
  <2>8. Len(kids) = n
    BY <2>4, <2>7
  <2>. QED  BY <2>1, <2>6, <2>8
<1>12. off \in Nat
  <2>1. input \in Seq(Token) /\ pos + 1 \in 1 .. Len(input)
    BY DEF IInv, WindowOK
  <2>. QED  BY <2>1, <1>2, OffsetNumber DEF BuildArg, BuildTask
<1>13. node \in AnyNode /\ node.kids = kids /\ node.kind = arg.kind /\ node.op = arg.op
  <2>1. arg.kind \in NodeKind /\ arg.op \in TokenType \cup {NoOp} /\ len \in {0, 1}
    BY <1>2 DEF BuildArg, BuildTask
  <2>. HIDE DEF kids, off, len
  <2>. QED  BY <2>1, <1>11, <1>12 DEF Node, AnyNode
<1>14. tree' = tree \o <<node>>
  BY <1>6, <1>7 DEF BuildNode, Create, held
<1>. HIDE DEF node, kids
<1>15. Arity(node.kind, node.op, Len(node.kids))
  BY <1>2, <1>7, <1>11, <1>13 DEF BuildTask
<1>16. \A i \in DOMAIN node.kids : node.kids[i] < Len(tree)
  BY <1>4, <1>10, <1>13
<1>17. node.kind \notin {"VarDecl", "TypeDecl", "FunctionDecl"}
  BY <1>2, <1>13 DEF BuildTask
<1>. QED  BY <1>13, <1>14, <1>15, <1>16, <1>17, AppendOne

\* A leaf or a block's node.
LEMMA LeafOrders ==
    ASSUME IInv, Ordered, Operand \/ OpenBlock
    PROVE  Ordered'
<1>1. CASE Operand
  <2>1. PICK kind \in {"LiteralExpr", "IdentifierExpr"} :
            tree' = tree \o <<LeafOf(kind, pos + 1)>>
    BY <1>1 DEF Operand, Create
  <2>2. TypeOf(input[pos + 1]) = peek(0)
    BY DEF peek, IInv, WindowOK
  <2>3. PICK node : node = LeafOf(kind, pos + 1)
    OBVIOUS
  <2>4. node \in AnyNode /\ node.kids = <<>> /\ node.kind = kind
    BY <2>2, <2>3, WindowTokens DEF LeafOf, Node, AnyNode, NodeKind
  <2>5. Arity(node.kind, node.op, Len(node.kids))
    BY <2>4, NoArity, LeafArity
  <2>. QED  BY <2>1, <2>3, <2>4, <2>5, AppendOne
<1>2. CASE OpenBlock
  <2>1. PICK node : node = Node("TranslationUnit", Offset(pos + 2), 0, NoOp, <<>>)
    OBVIOUS
  <2>2. tree' = tree \o <<node>>
    BY <1>2, <2>1 DEF OpenBlock, Create
  <2>3. node \in AnyNode /\ node.kids = <<>> /\ node.kind = "TranslationUnit"
    BY <2>1, WindowTokens DEF Node, AnyNode, NodeKind
  <2>. QED  BY <2>2, <2>3, NoArity, AppendOne
<1>. QED  BY <1>1, <1>2

\* A member's access comes after the member.
LEMMA MemberOrders ==
    ASSUME IInv, Ordered, MemberAccess
    PROVE  Ordered'
<1>1. At("postfix")
  BY DEF MemberAccess
<1>2. Len(vals) > 0 /\ Len(vals) \in Nat
  BY <1>1, PostfixHead
<1>3. PICK t \in Nat : t = Len(tree)
  BY WindowTokens
<1>. PICK x : x = Last(vals)
  OBVIOUS
<1>4. x \in -1 .. t - 1
  BY <1>2, <1>3, LastHeld, WindowTokens
<1> DEFINE node == Node("MemberAccessExpr", Offset(pos + 1), 0, peek(0), <<x, t>>)
<1>5. UNCHANGED tree \/ tree' = tree \o <<Leaf(pos + 2), node>>
  BY <1>3 DEF MemberAccess, raiseError, Create
<1>6. node \in AnyNode /\ node.kids = <<x, t>> /\ node.kind = "MemberAccessExpr"
  BY <1>4, WindowTokens DEF Node, AnyNode, NodeKind
<1>7. PICK leaf \in AnyNode : leaf = Leaf(pos + 2) /\ leaf.kids = <<>> /\ leaf.kind = "IdentifierExpr"
  BY DeclarationLeaves, LeafIsNode DEF LeafNode
<1>. HIDE DEF node
<1>8. CASE tree' = tree \o <<Leaf(pos + 2), node>>
  <2>1. PICK s \in Seq(AnyNode) : s = <<leaf, node>>
    <3>1. <<leaf, node>> \in Seq(AnyNode)
      BY <1>6
    <3>. QED  BY <3>1
  <2>2. DOMAIN s = 1 .. 2 /\ s[1] = leaf /\ s[2] = node
    BY <2>1
  <2>3. Shaped(leaf, t + 1)
    BY <1>7, LeafArity DEF Shaped
  <2>4. Shaped(node, t + 2)
    <3>1. \A i \in DOMAIN node.kids : node.kids[i] < t + 2 - 1
      BY <1>4, <1>6
    <3>. QED  BY <1>6, <3>1, NoArity DEF Shaped
  <2>5. \A m \in DOMAIN s : Shaped(s[m], t + m) /\ LeavesOf(s[m], tree \o s)
    BY <1>6, <1>7, <2>2, <2>3, <2>4 DEF LeavesOf
  <2>. QED  BY <1>3, <1>7, <1>8, <2>1, <2>5, AppendOrdered
<1>9. CASE UNCHANGED tree
  BY <1>9 DEF Ordered
<1>. QED  BY <1>5, <1>8, <1>9

\* A postfix operator comes after its operand.
LEMMA PostfixOrders ==
    ASSUME IInv, Ordered, PostfixOperator
    PROVE  Ordered'
<1>1. At("postfix")
  BY DEF PostfixOperator
<1>2. Len(vals) > 0 /\ Len(vals) \in Nat
  BY <1>1, PostfixHead
<1>. PICK x : x = Last(vals)
  OBVIOUS
<1>3. x \in -1 .. Len(tree) - 1 /\ Len(tree) \in Nat
  BY <1>2, LastHeld, WindowTokens
<1> DEFINE node == Node("UnaryExpr", Offset(pos + 1), 0, peek(0), <<x>>)
<1>4. tree' = tree \o <<node>>
  BY DEF PostfixOperator, Create
<1>5. node \in AnyNode /\ node.kids = <<x>> /\ node.kind = "UnaryExpr" /\ node.op = peek(0)
  BY <1>3, WindowTokens DEF Node, AnyNode, NodeKind
<1>. HIDE DEF node
<1>6. Arity(node.kind, node.op, Len(node.kids))
  BY <1>5 DEF Arity
<1>7. \A i \in DOMAIN node.kids : node.kids[i] < Len(tree)
  BY <1>3, <1>5
<1>. QED  BY <1>4, <1>5, <1>6, <1>7, AppendOne

\* A declaration whose node comes before its leaves, and after its
\* initialiser, base or body.
LEMMA DeclarationOrders ==
    ASSUME IInv, Ordered, NEW kind \in {"VarDecl", "TypeDecl"}, NEW off \in Nat,
           NEW type \in LeafNode, NEW name \in LeafNode, NEW init \in -1 .. Len(tree) - 1,
           NEW quals \in SUBSET Qualifier,
           tree' = tree \o Declaration(kind, off, type, name, init, quals)
    PROVE  Ordered'
<1>. PICK t \in Nat : t = Len(tree)
  BY WindowTokens
<1> DEFINE node == [Node(kind, off, 0, NoOp, <<t + 1, t + 2, init>>) EXCEPT !.quals = quals]
<1>1. node \in AnyNode /\ node.kids = <<t + 1, t + 2, init>> /\ node.kind = kind
  <2>1. <<t + 1, t + 2, init>> \in Seq(Int)
    OBVIOUS
  <2>. QED  BY <2>1 DEF Node, AnyNode, NodeKind
<1>2. /\ type \in AnyNode /\ type.kids = <<>> /\ type.kind = "IdentifierExpr"
      /\ name \in AnyNode /\ name.kids = <<>> /\ name.kind = "IdentifierExpr"
  BY LeafIsNode DEF LeafNode
<1>3. Declaration(kind, off, type, name, init, quals) = <<node, type, name>>
  BY DEF Declaration
<1>. HIDE DEF node
<1>4. PICK s \in Seq(AnyNode) : s = <<node, type, name>>
  <2>1. <<node, type, name>> \in Seq(AnyNode)
    BY <1>1, <1>2
  <2>. QED  BY <2>1
<1>5. DOMAIN s = 1 .. 3 /\ s[1] = node /\ s[2] = type /\ s[3] = name
  BY <1>4
<1>6. Shaped(type, t + 2) /\ Shaped(name, t + 3)
  BY <1>2, LeafArity DEF Shaped
<1>7. Shaped(node, t + 1)
  <2>1. \A i \in DOMAIN node.kids : i < 3 \/ node.kids[i] < t + 1 - 1
    BY <1>1
  <2>2. Arity(kind, node.op, Len(node.kids))
    BY <1>1 DEF Arity
  <2>. QED  BY <1>1, <2>1, <2>2 DEF Shaped
<1>8. LeavesOf(node, tree \o s)
  <2>1. PICK x : x = tree \o s
    OBVIOUS
  <2>2. t + 2 \in DOMAIN x /\ x[t + 2] = type /\ t + 3 \in DOMAIN x /\ x[t + 3] = name
    <3>1. PICK a \in DOMAIN s, b \in DOMAIN s : a = 2 /\ b = 3
      BY <1>5
    <3>2. t + a \in DOMAIN x /\ x[t + a] = s[a]
      BY <2>1, BehindTree
    <3>3. t + b \in DOMAIN x /\ x[t + b] = s[b]
      BY <2>1, BehindTree
    <3>. QED  BY <1>5, <3>1, <3>2, <3>3
  <2>3. \A i \in 1 .. 2 : node.kids[i] + 1 \in {t + 2, t + 3}
    BY <1>1
  <2>4. LeavesOf(node, x)
    BY <1>2, <2>2, <2>3 DEF LeavesOf
  <2>. QED  BY <2>1, <2>4
<1>9. LeavesOf(type, tree \o s) /\ LeavesOf(name, tree \o s)
  BY <1>2 DEF LeavesOf
<1>10. \A m \in DOMAIN s : Shaped(s[m], t + m) /\ LeavesOf(s[m], tree \o s)
  BY <1>5, <1>6, <1>7, <1>8, <1>9
<1>. QED  BY <1>3, <1>4, <1>10, AppendOrdered

\* The declarations.
LEMMA DeclareOrders ==
    ASSUME IInv, Ordered, DeclareType \/ DeclareVariable \/ DeclareFunction
    PROVE  Ordered'
<1>1. Head(agenda)[1] \in Declare
  BY DEF DeclareType, DeclareVariable, DeclareFunction, At, Declare
<1>2. arg \in DeclArg
  BY <1>1, HeadReady, HeadArg DEF arg, Declare
<1>3. /\ arg.quals \in SUBSET Qualifier /\ arg.type \in LeafNode /\ arg.name \in LeafNode
      /\ arg.type.off \in Nat /\ arg.name.off \in Nat
  BY <1>2, LeafIsNode DEF DeclArg
<1>. PICK t \in Nat : t = Len(tree)
  BY WindowTokens
<1>. PICK l \in Nat : l = Len(vals)
  BY WindowTokens
<1>4. CASE DeclareType
  <2>1. l > 1
    BY <1>4, HeadChange, HeadReady DEF DeclareType, At
  <2>2. 2 \in 0 .. l /\ vals \in Seq(Int)
    BY <2>1, WindowTokens
  <2>3. \A n \in 1 .. 2 : Latest(2)[n] = vals[l - 2 + n]
    BY <2>2, LatestIds
  <2>4. \A n \in 1 .. 2 : Latest(2)[n] \in -1 .. t - 1
    <3>1. \A n \in 1 .. 2 : l - 2 + n \in DOMAIN vals
      BY <2>1, <2>2
    <3>. QED  BY <2>3, <3>1, WindowTokens
  <2>5. PICK init \in {Latest(2)[1], Latest(2)[2]} :
            tree' = tree \o Declaration("TypeDecl", arg.type.off, arg.type, arg.name, init, arg.quals)
    BY <1>4 DEF DeclareType, Create
  <2>6. init \in -1 .. t - 1
    BY <2>4, <2>5
  <2>. QED  BY <1>3, <2>5, <2>6, DeclarationOrders
<1>5. CASE DeclareVariable
  <2>1. l > 0
    BY <1>5, HeadChange, HeadReady DEF DeclareVariable, At
  <2>2. PICK init : init = Last(vals)
    OBVIOUS
  <2>3. init \in -1 .. t - 1
    BY <2>1, <2>2, LastHeld, WindowTokens
  <2>4. tree' = tree \o Declaration("VarDecl", arg.type.off, arg.type, arg.name, init, arg.quals)
    BY <1>5, <2>2 DEF DeclareVariable, Create
  <2>. QED  BY <1>3, <2>3, <2>4, DeclarationOrders
<1>6. CASE DeclareFunction
  <2>1. l > 1
    BY <1>6, HeadChange, HeadReady DEF DeclareFunction, At
  <2>2. PICK init : init = Last(vals)
    OBVIOUS
  <2>3. init \in -1 .. t - 1
    BY <2>1, <2>2, LastHeld, WindowTokens
  <2> DEFINE node == [Node("FunctionDecl", arg.name.off, 0, NoOp, <<t, t + 1, init>>)
                         EXCEPT !.quals = arg.quals]
  <2>4. node \in AnyNode /\ node.kids = <<t, t + 1, init>> /\ node.kind = "FunctionDecl"
    <3>1. <<t, t + 1, init>> \in Seq(Int)
      BY <2>3
    <3>. QED  BY <1>3, <3>1 DEF Node, AnyNode, NodeKind
  <2>5. tree' = tree \o <<arg.type, arg.name, node>>
    BY <1>6, <2>2 DEF DeclareFunction, Create
  <2>. HIDE DEF node
  <2>6. /\ arg.type \in AnyNode /\ arg.type.kids = <<>> /\ arg.type.kind = "IdentifierExpr"
        /\ arg.name \in AnyNode /\ arg.name.kids = <<>> /\ arg.name.kind = "IdentifierExpr"
    BY <1>3, LeafIsNode DEF LeafNode
  <2>7. PICK s \in Seq(AnyNode) : s = <<arg.type, arg.name, node>>
    <3>1. <<arg.type, arg.name, node>> \in Seq(AnyNode)
      BY <2>4, <2>6
    <3>. QED  BY <3>1
  <2>8. DOMAIN s = 1 .. 3 /\ s[1] = arg.type /\ s[2] = arg.name /\ s[3] = node
    BY <2>7
  <2>9. Shaped(arg.type, t + 1) /\ Shaped(arg.name, t + 2)
    BY <2>6, LeafArity DEF Shaped
  <2>10. Shaped(node, t + 3)
    <3>1. \A i \in DOMAIN node.kids : node.kids[i] < t + 3 - 1
      BY <2>3, <2>4
    <3>2. Arity("FunctionDecl", node.op, Len(node.kids))
      BY <2>4 DEF Arity
    <3>. QED  BY <2>4, <3>1, <3>2 DEF Shaped
  <2>11. LeavesOf(node, tree \o s)
    BY <2>4, <2>6, <2>7, <2>8, BehindTree DEF LeavesOf
  <2>12. LeavesOf(arg.type, tree \o s) /\ LeavesOf(arg.name, tree \o s)
    BY <2>6 DEF LeavesOf
  <2>13. \A m \in DOMAIN s : Shaped(s[m], t + m) /\ LeavesOf(s[m], tree \o s)
    BY <2>8, <2>9, <2>10, <2>11, <2>12
  <2>. QED  BY <2>5, <2>7, <2>13, AppendOrdered
<1>. QED  BY <1>4, <1>5, <1>6

\* The other steps create no node.
LEMMA TreeStays ==
    ASSUME Next
    PROVE  \/ UNCHANGED tree
           \/ BuildNode \/ Operand \/ OpenBlock \/ MemberAccess \/ PostfixOperator
           \/ DeclareType \/ DeclareVariable \/ DeclareFunction
<1>1. CASE Helper
  BY <1>1 DEF Helper, ExpectToken, SkipToken, DropId, Choose, MoreItems, Go, GoNull, raiseError
<1>2. CASE ExpressionStep
  BY <1>2 DEF ExpressionStep, BinaryOperator, PrefixOperator, parseEvalExpression,
     DeleteInParentheses, Parenthesized, BlockLoop, NoPrimary, Call, MoreArguments, Subscript,
     EndPostfix, PrimaryFrom, Go, raiseError
<1>3. CASE DeclarationStep
  BY <1>3 DEF DeclarationStep, parseQualifiers, TypeDeclaration, BaseType, VarDeclaration,
     DeclaratorTail, ParamDeclaration, FunctionBody, Go, GoNull, raiseError
<1>4. CASE StatementStep
  BY <1>4 DEF StatementStep, parseIfStatement, parseWhileStatement, parseForStatement,
     parseReturnStatement, JumpStatement, parseStructDecl, parseNamespaceDecl, DeleteStatement,
     RequiresClause, ExpressionStatement, UnitLoop, Guardrail, StatementFrom, Go
<1>. QED  BY <1>1, <1>2, <1>3, <1>4 DEF Next

\* What a node links to was created before it, but for the type and the name
\* of a declared variable or type, which are leaves, and every node has the
\* links its kind needs: createNode is called when the operands have been
\* parsed.
THEOREM OperandsComeFirst == Spec => []Ordered
<1>1. Init => Ordered
  <2>. SUFFICES ASSUME Init PROVE Ordered
    OBVIOUS
  <2>1. PICK root : root = Node("TranslationUnit", 0, 0, NoOp, <<>>)
    OBVIOUS
  <2>2. root.kids = <<>> /\ root.kind = "TranslationUnit"
    BY <2>1 DEF Node
  <2>3. tree = <<root>>
    BY <2>1 DEF Init
  <2>4. \A n \in DOMAIN tree : tree[n] = root
    BY <2>3
  <2>5. \A n \in DOMAIN tree : Shaped(tree[n], n)
    BY <2>2, <2>4, NoArity DEF Shaped
  <2>6. \A n \in DOMAIN tree : LeavesOf(tree[n], tree)
    BY <2>2, <2>4 DEF LeavesOf
  <2>. QED  BY <2>2, <2>3, <2>5, <2>6 DEF Ordered
<1>2. IInv /\ Ordered /\ [Next]_vars => Ordered'
  <2>. SUFFICES ASSUME IInv, Ordered, [Next]_vars PROVE Ordered'
    OBVIOUS
  <2>1. CASE UNCHANGED tree
    BY <2>1 DEF Ordered
  <2>2. \/ UNCHANGED tree
        \/ BuildNode \/ Operand \/ OpenBlock \/ MemberAccess \/ PostfixOperator
        \/ DeclareType \/ DeclareVariable \/ DeclareFunction
    BY TreeStays DEF vars
  <2>. QED  BY <2>1, <2>2, BuildOrders, LeafOrders, MemberOrders, PostfixOrders, DeclareOrders
<1>. QED  BY <1>1, <1>2, Invariance, PTL DEF Spec

\* In every set of nodes there is one that links to none of them: no node is
\* its own descendant, however long the way down.
Acyclic ==
    \A S \in SUBSET (DOMAIN tree) :
        S # {} => \E n \in S : \A i \in DOMAIN tree[n].kids : tree[n].kids[i] + 1 \notin S

\* The links never run in a circle, in the middle of any statement as at the
\* end.  Of a set of nodes take the first: what it links to was created
\* before it and is not in the set, unless it is a declaration and links to
\* the leaf of its type or name; then that leaf is the node.
THEOREM LinksAreAcyclic == Spec => []Acyclic
<1>1. IInv /\ Ordered => Acyclic
  <2>. SUFFICES ASSUME IInv, Ordered, NEW S \in SUBSET (DOMAIN tree), S # {}
                PROVE  \E n \in S : \A i \in DOMAIN tree[n].kids : tree[n].kids[i] + 1 \notin S
    BY DEF Acyclic
  <2>1. tree \in Seq(AnyNode)
    BY WindowTokens
  <2>2. S \subseteq Nat
    BY <2>1
  <2>3. PICK m \in S : \A y \in S : m <= y
    BY <2>2, MinNat
  <2>4. m \in DOMAIN tree /\ m \in Nat /\ Shaped(tree[m], m) /\ LeavesOf(tree[m], tree)
    BY <2>2 DEF Ordered
  <2>5. /\ tree[m] \in AnyNode
        /\ \A i \in DOMAIN tree[m].kids : i \in Nat \ {0} /\ tree[m].kids[i] \in Int
    <3>1. tree[m] \in AnyNode
      BY <2>1, <2>4
    <3>2. tree[m].kids \in Seq(Int)
      BY <3>1 DEF AnyNode
    <3>. QED  BY <3>1, <3>2
  <2>6. CASE \A i \in DOMAIN tree[m].kids : tree[m].kids[i] + 1 \notin S
    BY <2>6
  <2>7. CASE \E i \in DOMAIN tree[m].kids : tree[m].kids[i] + 1 \in S
    <3>1. PICK i \in DOMAIN tree[m].kids : tree[m].kids[i] + 1 \in S
      BY <2>7
    <3>2. ~(tree[m].kids[i] < m - 1)
      BY <2>3, <2>4, <2>5, <3>1
    <3>3. tree[m].kind \in {"VarDecl", "TypeDecl"} /\ i < 3
      BY <2>4, <3>1, <3>2 DEF Shaped
    <3>4. i \in 1 .. 2
      BY <2>5, <3>1, <3>3
    <3>5. PICK l \in S : l = tree[m].kids[i] + 1
      BY <3>1
    <3>6. tree[l].kind = "IdentifierExpr"
      BY <2>4, <3>3, <3>4, <3>5 DEF LeavesOf
    <3>7. Len(tree[l].kids) = 0 /\ tree[l] \in AnyNode
      BY <2>1, <3>5, <3>6 DEF Ordered, Shaped, Arity
    <3>8. DOMAIN tree[l].kids = {}
      BY <3>7 DEF AnyNode
    <3>. QED  BY <3>5, <3>8
  <2>. QED  BY <2>6, <2>7
<1>. QED  BY <1>1, Invariance, OperandsComeFirst, PTL

-----------------------------------------------------------------------------
(* What becomes of each token.                                             *)

\* The node is the leaf of the token at index p.
LeafAt(n, p) == n.len = 1 /\ n.kids = <<>> /\ n.off = p - 1

\* The task will create that leaf.
Holds(t, p) == t[1] \in Declare /\ (LeafAt(t[2].type, p) \/ LeafAt(t[2].name, p))

Taken(p) ==
    \/ \E i \in DOMAIN tree : LeafAt(tree[i], p)
    \/ \E j \in DOMAIN agenda : Holds(agenda[j], p)

\* The name of a type declaration is taken before it is consumed.
Naming == agenda # <<>> /\ Head(agenda) = Expect("Ident") /\ pos > 0 /\ input[pos] = "kType"

Seen == IF Naming THEN pos + 1 ELSE pos

Word(p) == p \in 1 .. Len(input) /\ input[p] # "Eof"

\* Behind the end of the text there is only the end.
EofLast == \A p, q \in DOMAIN input : p <= q /\ input[p] = "Eof" => input[q] = "Eof"

Placed == \A p \in Nat : Taken(p) => p <= Seen

\* No token of the text has two leaves.
OnceIn(t, s, p) ==
    /\ \A i, j \in DOMAIN t : LeafAt(t[i], p) /\ LeafAt(t[j], p) => i = j
    /\ \A i \in DOMAIN t, j \in DOMAIN s : ~(LeafAt(t[i], p) /\ Holds(s[j], p))
    /\ \A i, j \in DOMAIN s : Holds(s[i], p) /\ Holds(s[j], p) => i = j
    /\ \A j \in DOMAIN s : s[j][1] \in Declare =>
           ~(LeafAt(s[j][2].type, p) /\ LeafAt(s[j][2].name, p))

Once == \A p \in Nat : Word(p) => OnceIn(tree, agenda, p)

\* A token that must have a leaf.
Operandlike == Literal \cup {"Ident"}

Kept ==
    \A p \in 1 .. Seen : TypeOf(input[p]) \in Operandlike => Nameless(p) \/ Taken(p)

LeafKind == {"LiteralExpr", "IdentifierExpr"}

\* A node of a token's length is a leaf or has an operand.
Kind(n) == n.len = 1 => (n.kids = <<>> <=> n.kind \in LeafKind)

Kinds == \A i \in DOMAIN tree : Kind(tree[i])

\* What has been read of the text at a step, and the lexer's part in it.
Reads(n) ==
    /\ Moves(n) /\ n \in {0, 1, 2}
    /\ \A p \in 1 .. Len(input) : input'[p] = input[p]
    /\ EofLast'

\* Eof is followed by Eof.
LEMMA FollowEof ==
    ASSUME NEW s \in Seq(Token), NEW m \in Nat, m > 0, Len(s) = m,
           \A p, q \in 1 .. m : p <= q /\ s[p] = "Eof" => s[q] = "Eof",
           NEW t \in Follow(s), t \in Token
    PROVE  \A p, q \in 1 .. m + 1 : p <= q /\ Append(s, t)[p] = "Eof" => Append(s, t)[q] = "Eof"
<1>. PICK u : u = Append(s, t)
  OBVIOUS
<1>1. u[m + 1] = t /\ \A p \in 1 .. m : u[p] = s[p]
  OBVIOUS
<1>2. s[m] = "Eof" => t = "Eof"
  BY DEF Follow, Last
<1>3. ASSUME NEW p \in 1 .. m + 1, NEW q \in 1 .. m + 1, p <= q, u[p] = "Eof"
      PROVE  u[q] = "Eof"
  <2>1. CASE q \in 1 .. m
    <3>1. p \in 1 .. m
      BY <1>3, <2>1
    <3>. QED  BY <1>1, <1>3, <2>1, <3>1
  <2>2. CASE q = m + 1 /\ p \in 1 .. m
    <3>1. m \in 1 .. m /\ s[p] = "Eof" /\ p <= m
      BY <1>1, <1>3, <2>2
    <3>2. s[m] = "Eof"
      BY <2>2, <3>1
    <3>. QED  BY <1>1, <1>2, <2>2, <3>2
  <2>3. CASE q = m + 1 /\ p = m + 1
    BY <1>3, <2>3
  <2>. QED  BY <1>3, <2>1, <2>2, <2>3
<1>. QED  BY <1>3

\* The lexer gives nothing but Eof after the first.
LEMMA EofStays ==
    ASSUME WindowOK, EofLast, NEW n \in {0, 1, 2}, Advance(n)
    PROVE  EofLast'
<1>1. PICK l \in Nat : l = Len(input) /\ l > 0 /\ input \in Seq(Token) /\ DOMAIN input = 1 .. l
  BY DEF WindowOK
<1>3. \A p, q \in 1 .. l : p <= q /\ input[p] = "Eof" => input[q] = "Eof"
  BY <1>1 DEF EofLast
<1>4. PICK more \in Pulled(n) : input' = input \o more
  BY DEF Advance
<1>5. CASE n = 0
  <2>1. input' = input
    BY <1>1, <1>4, <1>5 DEF Pulled
  <2>. QED  BY <1>1, <1>3, <2>1 DEF EofLast
<1>6. CASE n = 1
  <2>1. PICK t \in Follow(input) : more = <<t>>
    BY <1>6 DEF Pulled
  <2>2. t \in Token
    BY <2>1, FollowTokens DEF WindowOK
  <2>3. input' = Append(input, t) /\ DOMAIN input' = 1 .. l + 1
    BY <1>1, <1>4, <2>1, <2>2
  <2>4. \A p, q \in 1 .. l + 1 : p <= q /\ Append(input, t)[p] = "Eof" => Append(input, t)[q] = "Eof"
    BY <1>1, <1>3, <2>2, FollowEof
  <2>. QED  BY <2>3, <2>4 DEF EofLast
<1>7. CASE n = 2
  <2>1. PICK t \in Follow(input) : more \in {<<t, u>> : u \in Follow(Append(input, t))}
    BY <1>7 DEF Pulled
  <2>2. PICK u \in Follow(Append(input, t)) : more = <<t, u>>
    BY <2>1
  <2>3. t \in Token
    BY <2>1, FollowTokens DEF WindowOK
  <2>4. PICK s \in Seq(Token) : s = Append(input, t)
    <3>1. Append(input, t) \in Seq(Token)
      BY <1>1, <2>3
    <3>. QED  BY <3>1
  <2>5. PICK m \in Nat : m = l + 1 /\ m > 0 /\ Len(s) = m
    <3>1. Len(s) = l + 1
      BY <1>1, <2>3, <2>4
    <3>. QED  BY <3>1
  <2>6. u \in Token /\ u \in Follow(s)
    BY <2>2, <2>4, FollowTokens DEF WindowOK
  <2>7. input' = Append(s, u) /\ DOMAIN input' = 1 .. m + 1
    BY <1>1, <1>4, <2>2, <2>3, <2>4, <2>5, <2>6
  <2>8. \A p, q \in 1 .. m : p <= q /\ s[p] = "Eof" => s[q] = "Eof"
    BY <1>1, <1>3, <2>3, <2>4, <2>5, FollowEof
  <2>9. \A p, q \in 1 .. m + 1 : p <= q /\ Append(s, u)[p] = "Eof" => Append(s, u)[q] = "Eof"
    BY <2>4, <2>5, <2>6, <2>8, FollowEof
  <2>. QED  BY <2>7, <2>9 DEF EofLast
<1>. QED  BY <1>5, <1>6, <1>7

\* advance reads on.
LEMMA AdvanceReads ==
    ASSUME WindowOK, EofLast
    PROVE  /\ \A n \in {0, 1, 2} : Advance(n) => Reads(n)
           /\ Stay => Reads(0)
<1>1. ASSUME NEW n \in {0, 1, 2}, Advance(n) PROVE Reads(n)
  BY <1>1, EofStays, AdvanceKeeps, MoveWindow DEF Reads
<1>2. ASSUME Stay PROVE Reads(0)
  BY <1>2, MoveWindow DEF Reads, Stay, EofLast
<1>. QED  BY <1>1, <1>2

\* Where a token's leaf stands: at the token, or at the end of the text.
LEMMA LeafSpot ==
    ASSUME WindowOK, EofLast, NEW q \in 1 .. Len(input), NEW kind
    PROVE  /\ \A p \in Nat : LeafAt(LeafOf(kind, q), p) =>
                  p \in 1 .. q /\ (p = q \/ input[p] = "Eof")
           /\ Word(q) => LeafAt(LeafOf(kind, q), q)
<1>1. PICK l \in Nat : l = Len(input) /\ DOMAIN input = 1 .. l /\ input \in Seq(Token)
  BY DEF WindowOK
<1>2. \A p : LeafAt(LeafOf(kind, q), p) <=> Offset(q) = p - 1
  BY DEF LeafAt, LeafOf, Node
<1>3. CASE input[q] # "Eof"
  <2>1. Offset(q) = q - 1
    BY <1>1, <1>3, OffsetNumber
  <2>. QED  BY <1>1, <1>2, <2>1
<1>4. CASE input[q] = "Eof"
  <2> DEFINE E == {p \in 1 .. l : input[p] = "Eof"}
  <2>1. PICK e \in E : \A p \in E : e <= p
    <3>1. E \subseteq Nat /\ E # {}
      BY <1>1, <1>4
    <3>. HIDE DEF E
    <3>. QED  BY <3>1, MinNat
  <2>2. {p \in DOMAIN input : input[p] # "Eof"} = 1 .. e - 1
    <3>1. \A p \in 1 .. l : p < e => input[p] # "Eof"
      BY <2>1
    <3>2. \A p \in 1 .. l : ~(p < e) => input[p] = "Eof"
      BY <1>1, <2>1 DEF EofLast
    <3>. QED  BY <1>1, <2>1, <3>1, <3>2
  <2>3. Offset(q) = e - 1
    <3>1. Cardinality(1 .. e - 1) = e - 1
      <4>1. 1 \in Int /\ e - 1 \in Int
        BY <2>1
      <4>2. Cardinality(1 .. e - 1) = IF 1 > e - 1 THEN 0 ELSE e - 1 - 1 + 1
        BY <4>1, FS_Interval
      <4>. QED  BY <2>1, <4>2
    <3>. QED  BY <1>4, <2>2, <3>1 DEF Offset
  <2>4. e <= q /\ e \in 1 .. l /\ input[e] = "Eof" /\ q \in E
    BY <1>1, <1>4, <2>1
  <2>5. ~Word(q)
    BY <1>4 DEF Word
  <2>6. \A p \in Nat : e - 1 = p - 1 => p = e
    BY <2>4
  <2>. QED  BY <1>1, <1>2, <2>3, <2>4, <2>5, <2>6
<1>. QED  BY <1>3, <1>4

-----------------------------------------------------------------------------
(* How a step changes the agenda and the tree.                             *)

\* What is behind the first of a sequence.
LEMMA TailParts ==
    ASSUME NEW S, NEW s \in Seq(S), s # <<>>
    PROVE  \E n \in Nat : /\ DOMAIN s = 1 .. n + 1 /\ Tail(s) \in Seq(S) /\ Len(Tail(s)) = n
                         /\ \A k \in 1 .. n : Tail(s)[k] = s[k + 1]
<1>1. PICK n \in Nat : n + 1 = Len(s)
  OBVIOUS
<1>. QED  BY <1>1

\* u is s with the tasks seg in the place of the first.
Replaces(u, s, seg) ==
    /\ u \in Seq(AnyTask)
    /\ \A j \in DOMAIN u :
           \/ j \in DOMAIN seg /\ u[j] = seg[j]
           \/ \E k \in DOMAIN s : k > 1 /\ j = Len(seg) + k - 1 /\ u[j] = s[k]
    /\ \A j \in DOMAIN seg : j \in DOMAIN u /\ u[j] = seg[j]
    /\ \A k \in DOMAIN s : k > 1 => /\ Len(seg) + k - 1 \in DOMAIN u
                                    /\ u[Len(seg) + k - 1] = s[k]

\* Tasks in the place of the first one.
LEMMA SpliceParts ==
    ASSUME NEW s \in Seq(AnyTask), s # <<>>, NEW seg \in Seq(AnyTask)
    PROVE  Replaces(seg \o Tail(s), s, seg)
<1>1. PICK n \in Nat : /\ DOMAIN s = 1 .. n + 1 /\ Tail(s) \in Seq(AnyTask) /\ Len(Tail(s)) = n
                        /\ \A k \in 1 .. n : Tail(s)[k] = s[k + 1]
  BY TailParts
<1>2. PICK m \in Nat : m = Len(seg) /\ DOMAIN seg = 1 .. m
  OBVIOUS
<1>3. PICK t \in Seq(AnyTask) : t = Tail(s)
  BY <1>1
<1>4. PICK x : x = seg \o t
  OBVIOUS
<1>5. /\ x \in Seq(AnyTask) /\ DOMAIN x = 1 .. m + n
      /\ \A j \in 1 .. m : x[j] = seg[j]
      /\ \A j \in m + 1 .. m + n : x[j] = t[j - m]
  <2>1. Len(t) = n /\ t \in Seq(AnyTask) /\ seg \in Seq(AnyTask) /\ Len(seg) = m
    BY <1>1, <1>2, <1>3
  <2>2. /\ x \in Seq(AnyTask) /\ Len(x) = m + n
        /\ \A j \in 1 .. m + n : x[j] = IF j <= m THEN seg[j] ELSE t[j - m]
    BY <1>4, <2>1, ConcatProperties
  <2>3. DOMAIN x = 1 .. m + n
    BY <2>2
  <2>4. ASSUME NEW j \in 1 .. m PROVE x[j] = seg[j]
    <3>1. j \in 1 .. m + n /\ j <= m
      OBVIOUS
    <3>. QED  BY <2>2, <3>1
  <2>5. ASSUME NEW j \in m + 1 .. m + n PROVE x[j] = t[j - m]
    <3>1. j \in 1 .. m + n /\ ~(j <= m)
      OBVIOUS
    <3>. QED  BY <2>2, <3>1
  <2>. QED  BY <2>2, <2>3, <2>4, <2>5
<1>6. ASSUME NEW j \in 1 .. m + n
      PROVE  \/ j \in 1 .. m /\ x[j] = seg[j]
             \/ \E k \in 1 .. n + 1 : k > 1 /\ j = m + k - 1 /\ x[j] = s[k]
  <2>1. CASE j \in 1 .. m
    BY <1>5, <2>1
  <2>2. CASE j \notin 1 .. m
    <3>1. PICK i \in 1 .. n : i = j - m
      BY <2>2
    <3>2. i + 1 \in 1 .. n + 1 /\ i + 1 > 1 /\ j = m + (i + 1) - 1 /\ j \in m + 1 .. m + n
      BY <3>1
    <3>3. x[j] = s[i + 1]
      BY <1>1, <1>3, <1>5, <3>1, <3>2
    <3>. QED  BY <3>2, <3>3
  <2>. QED  BY <2>1, <2>2
<1>7. ASSUME NEW k \in 1 .. n + 1, k > 1
      PROVE  m + k - 1 \in 1 .. m + n /\ x[m + k - 1] = s[k]
  <2>1. PICK i \in 1 .. n : i + 1 = k
    <3>1. k - 1 \in 1 .. n /\ k - 1 + 1 = k
      BY <1>7
    <3>. QED  BY <3>1
  <2>2. PICK j \in m + 1 .. m + n : j = m + k - 1 /\ j - m = i
    BY <2>1
  <2>3. x[j] = t[i]
    BY <1>5, <2>2
  <2>4. t[i] = s[k]
    BY <1>1, <1>3, <2>1
  <2>5. j \in 1 .. m + n
    OBVIOUS
  <2>. QED  BY <2>2, <2>3, <2>4, <2>5
<1>8. \A j \in 1 .. m : j \in 1 .. m + n
  OBVIOUS
<1>10. Replaces(x, s, seg)
  <2>1. DOMAIN s = 1 .. n + 1 /\ DOMAIN seg = 1 .. m /\ Len(seg) = m
    BY <1>1, <1>2
  <2>. QED  BY <1>5, <1>6, <1>7, <1>8, <2>1 DEF Replaces
<1>11. seg \o Tail(s) = x
  BY <1>3, <1>4
<1>. QED  BY <1>10, <1>11

\* u is t with the nodes behind it.
Lengthens(u, t, nodes) ==
    /\ u \in Seq(AnyNode)
    /\ \A i \in DOMAIN u :
           \/ i \in DOMAIN t /\ u[i] = t[i]
           \/ \E k \in DOMAIN nodes : i = Len(t) + k /\ u[i] = nodes[k]
    /\ \A i \in DOMAIN t : i \in DOMAIN u /\ u[i] = t[i]
    /\ \A k \in DOMAIN nodes : Len(t) + k \in DOMAIN u /\ u[Len(t) + k] = nodes[k]

\* New nodes come behind the old ones.
LEMMA AppendParts ==
    ASSUME NEW t \in Seq(AnyNode), NEW nodes \in Seq(AnyNode)
    PROVE  Lengthens(t \o nodes, t, nodes)
<1>1. PICK n \in Nat : n = Len(t) /\ DOMAIN t = 1 .. n
  OBVIOUS
<1>2. PICK m \in Nat : m = Len(nodes) /\ DOMAIN nodes = 1 .. m
  OBVIOUS
<1>3. PICK x : x = t \o nodes
  OBVIOUS
<1>4. /\ x \in Seq(AnyNode) /\ Len(x) = n + m /\ DOMAIN x = 1 .. n + m
      /\ \A i \in 1 .. n : x[i] = t[i]
      /\ \A i \in n + 1 .. n + m : x[i] = nodes[i - n]
  BY <1>3, <1>1, <1>2
<1>5. ASSUME NEW i \in 1 .. n + m
      PROVE  \/ i \in 1 .. n /\ x[i] = t[i]
             \/ \E k \in 1 .. m : i = n + k /\ x[i] = nodes[k]
  <2>1. CASE i \in 1 .. n
    BY <1>4, <2>1
  <2>2. CASE i \notin 1 .. n
    <3>1. PICK k \in 1 .. m : k = i - n /\ i = n + k
      BY <2>2
    <3>2. i \in n + 1 .. n + m /\ i - n = k
      BY <3>1
    <3>3. x[i] = nodes[k]
      BY <1>4, <3>2
    <3>. QED  BY <3>1, <3>3
  <2>. QED  BY <2>1, <2>2
<1>6. ASSUME NEW k \in 1 .. m
      PROVE  n + k \in 1 .. n + m /\ x[n + k] = nodes[k]
  <2>1. n + k \in n + 1 .. n + m /\ n + k - n = k
    OBVIOUS
  <2>. QED  BY <1>4, <2>1
<1>7. \A i \in 1 .. n : i \in 1 .. n + m
  OBVIOUS
<1>8. Lengthens(x, t, nodes)
  <2>1. DOMAIN x = 1 .. n + m /\ DOMAIN t = 1 .. n /\ DOMAIN nodes = 1 .. m /\ Len(t) = n
    BY <1>1, <1>2, <1>4
  <2>. QED  BY <1>4, <1>5, <1>6, <1>7, <2>1 DEF Lengthens
<1>. QED  BY <1>3, <1>8

\* Tasks seg and nodes nodes take the place of the first task.
Splices(nodes, seg) ==
    /\ nodes \in Seq(AnyNode) /\ seg \in Seq(AnyTask)
    /\ tree' = tree \o nodes /\ agenda' = seg \o Tail(agenda)

\* The tasks or nodes that are new have a leaf for p.
Has(nodes, seg, p) ==
    (\E i \in DOMAIN nodes : LeafAt(nodes[i], p)) \/ (\E j \in DOMAIN seg : Holds(seg[j], p))

\* What is taken after a step.
LEMMA TakenNext ==
    ASSUME IInv, NEW nodes, NEW seg, Splices(nodes, seg), NEW p,
           Holds(Head(agenda), p) => Has(nodes, seg, p)
    PROVE  /\ Taken(p)' <=> Taken(p) \/ Has(nodes, seg, p)
<1>1. tree \in Seq(AnyNode) /\ agenda \in Seq(AnyTask) /\ agenda # <<>>
  BY DEF IInv, Grown, Remains
<1>2. PICK s, t : s = agenda' /\ t = tree' /\ s = seg \o Tail(agenda) /\ t = tree \o nodes
  BY DEF Splices
<1>3. nodes \in Seq(AnyNode) /\ seg \in Seq(AnyTask)
  BY DEF Splices
<1>4. Taken(p)' <=> (\E i \in DOMAIN t : LeafAt(t[i], p)) \/ (\E j \in DOMAIN s : Holds(s[j], p))
  BY <1>2 DEF Taken
<1>5. /\ \A j \in DOMAIN s : \/ j \in DOMAIN seg /\ s[j] = seg[j]
                             \/ \E k \in DOMAIN agenda : k > 1 /\ s[j] = agenda[k]
      /\ \A j \in DOMAIN seg : j \in DOMAIN s /\ s[j] = seg[j]
      /\ \A k \in DOMAIN agenda : k > 1 => \E j \in DOMAIN s : s[j] = agenda[k]
  <2>1. Replaces(s, agenda, seg)
    BY <1>1, <1>2, <1>3, SpliceParts
  <2>. QED  BY <2>1 DEF Replaces
<1>6. /\ \A i \in DOMAIN t : \/ \E k \in DOMAIN tree : t[i] = tree[k]
                             \/ \E k \in DOMAIN nodes : t[i] = nodes[k]
      /\ \A i \in DOMAIN tree : \E k \in DOMAIN t : t[k] = tree[i]
      /\ \A i \in DOMAIN nodes : \E k \in DOMAIN t : t[k] = nodes[i]
  <2>1. Lengthens(t, tree, nodes)
    BY <1>1, <1>2, <1>3, AppendParts
  <2>. QED  BY <2>1 DEF Lengthens
<1>7. \A k \in DOMAIN agenda : k > 1 \/ agenda[k] = Head(agenda)
  BY <1>1
<1>8. ASSUME Taken(p)' PROVE Taken(p) \/ Has(nodes, seg, p)
  BY <1>4, <1>5, <1>6, <1>8 DEF Taken, Has
<1>9. ASSUME Taken(p) \/ Has(nodes, seg, p) PROVE Taken(p)'
  <2>1. CASE Has(nodes, seg, p)
    BY <1>4, <1>5, <1>6, <2>1 DEF Has
  <2>2. CASE Taken(p) /\ ~Has(nodes, seg, p)
    BY <1>4, <1>5, <1>6, <1>7, <2>2 DEF Taken
  <2>. QED  BY <1>9, <2>1, <2>2
<1>. QED  BY <1>8, <1>9

\* No leaf becomes two, if the new ones are of tokens not seen before or
\* those the first task holds.
LEMMA OnceNext ==
    ASSUME IInv, NEW nodes, NEW seg, Splices(nodes, seg), NEW p,
           OnceIn(nodes, seg, p),
           ~Taken(p) \/ OnceIn(tree, agenda, p),
           Has(nodes, seg, p) /\ Taken(p) => Holds(Head(agenda), p)
    PROVE  OnceIn(tree, agenda, p)'
<1>1. tree \in Seq(AnyNode) /\ agenda \in Seq(AnyTask) /\ agenda # <<>>
  BY DEF IInv, Grown, Remains
<1>2. PICK s, t : s = agenda' /\ t = tree' /\ s = seg \o Tail(agenda) /\ t = tree \o nodes
  BY DEF Splices
<1>3. nodes \in Seq(AnyNode) /\ seg \in Seq(AnyTask) /\ Head(agenda) = agenda[1] /\ 1 \in DOMAIN agenda
  BY <1>1 DEF Splices
<1>4. SUFFICES OnceIn(t, s, p)
  BY <1>2 DEF OnceIn
<1>5. \A j \in DOMAIN s : \/ j \in DOMAIN seg /\ s[j] = seg[j]
                          \/ \E k \in DOMAIN agenda : k > 1 /\ j = Len(seg) + k - 1 /\ s[j] = agenda[k]
  <2>1. Replaces(s, agenda, seg)
    BY <1>1, <1>2, <1>3, SpliceParts
  <2>. QED  BY <2>1 DEF Replaces
<1>6. \A i \in DOMAIN t : \/ i \in DOMAIN tree /\ t[i] = tree[i]
                          \/ \E k \in DOMAIN nodes : i = Len(tree) + k /\ t[i] = nodes[k]
  <2>1. Lengthens(t, tree, nodes)
    BY <1>1, <1>2, <1>3, AppendParts
  <2>. QED  BY <2>1 DEF Lengthens
<1>7. OnceIn(tree, agenda, p)
  BY DEF OnceIn, Taken, Holds
<1>8. (\E k \in DOMAIN agenda : k > 1 /\ Holds(agenda[k], p)) => ~Holds(Head(agenda), p)
  BY <1>3, <1>7 DEF OnceIn
<1>9. (\E i \in DOMAIN tree : LeafAt(tree[i], p)) => ~Holds(Head(agenda), p)
  BY <1>3, <1>7 DEF OnceIn
<1>10. /\ (\E k \in DOMAIN agenda : k > 1 /\ Holds(agenda[k], p)) => ~Has(nodes, seg, p)
       /\ (\E i \in DOMAIN tree : LeafAt(tree[i], p)) => ~Has(nodes, seg, p)
  BY <1>8, <1>9 DEF Taken
<1>11. \A i, j \in DOMAIN t : LeafAt(t[i], p) /\ LeafAt(t[j], p) => i = j
  BY <1>6, <1>7, <1>10 DEF OnceIn, Has
<1>12. \A i \in DOMAIN t, j \in DOMAIN s : ~(LeafAt(t[i], p) /\ Holds(s[j], p))
  BY <1>5, <1>6, <1>7, <1>10 DEF OnceIn, Has
<1>13. \A i, j \in DOMAIN s : Holds(s[i], p) /\ Holds(s[j], p) => i = j
  BY <1>5, <1>7, <1>10 DEF OnceIn, Has
<1>14. \A j \in DOMAIN s : s[j][1] \in Declare =>
           ~(LeafAt(s[j][2].type, p) /\ LeafAt(s[j][2].name, p))
  BY <1>5, <1>7 DEF OnceIn
<1>. QED  BY <1>11, <1>12, <1>13, <1>14 DEF OnceIn

-----------------------------------------------------------------------------
(* Names stand behind their keywords.                                      *)

\* A task that consumes no identifier and no literal.
Calm(t) ==
    /\ t[1] # "base"
    /\ t[1] = "expect" => t[2] \notin Operandlike
    /\ t[1] = "skip" => t[2] \in {"Semi", "kAuto"}
    /\ t[1] \in {"when", "unless"} => t[2].n = 0 \/ t[2].t \in {"Semi", "kElse", "Equals"}

\* The others come right behind the keyword they belong to.
NamesFollow ==
    \A k \in DOMAIN agenda :
        \/ Calm(agenda[k])
        \/ /\ k = 1 /\ agenda[k] = Expect("Ident")
           /\ pos > 0 /\ input[pos] \in {"kStruct", "kNamespace", "kType"}
        \/ k = 2 /\ agenda[k][1] = "base" /\ Naming
        \/ k = 1 /\ agenda[k][1] = "base" /\ pos > 1 /\ input[pos - 1] = "kType"

\* The same of tasks that an action puts first.
NewNames(seg) ==
    \A k \in DOMAIN seg :
        \/ Calm(seg[k])
        \/ /\ k = 1 /\ seg[k] = Expect("Ident")
           /\ pos' > 0 /\ input'[pos'] \in {"kStruct", "kNamespace", "kType"}
        \/ /\ k = 2 /\ seg[k][1] = "base" /\ seg[1] = Expect("Ident")
           /\ pos' > 0 /\ input'[pos'] = "kType"

LeafInv ==
    /\ EofLast /\ Placed /\ Once /\ Kept /\ Kinds /\ NamesFollow
    /\ outcome = "done" => agenda = <<Task("unit", 0)>>

\* The agenda before and after a step.
LEMMA Agendas ==
    ASSUME IInv, IInv'
    PROVE  /\ agenda \in Seq(AnyTask) /\ agenda # <<>> /\ Head(agenda) = agenda[1] /\ 1 \in DOMAIN agenda
           /\ agenda' \in Seq(AnyTask) /\ agenda' # <<>> /\ Head(agenda') = agenda'[1]
           /\ 1 \in DOMAIN agenda'
<1>1. \A s \in Seq(AnyTask) : s # <<>> => Head(s) = s[1] /\ 1 \in DOMAIN s
  OBVIOUS
<1>2. agenda \in Seq(AnyTask) /\ agenda # <<>>
  BY DEF IInv, Remains
<1>3. agenda' \in Seq(AnyTask) /\ agenda' # <<>>
  BY DEF IInv, Remains
<1>. QED  BY <1>1, <1>2, <1>3

\* The window before and after a step.
LEMMA Windows ==
    ASSUME IInv, NEW n, Reads(n)
    PROVE  /\ pos \in Nat /\ pos' = pos + n /\ n \in {0, 1, 2}
           /\ Len(input) = pos + 2 /\ Len(input') = pos + n + 2
           /\ DOMAIN input = 1 .. pos + 2 /\ DOMAIN input' = 1 .. pos + n + 2
           /\ \A p \in 1 .. pos + 2 : input'[p] = input[p]
BY DEF IInv, WindowOK, Reads, Moves

\* A name's task is no calm one.
LEMMA NameNotCalm ==
    /\ ~Calm(Expect("Ident"))
    /\ Expect("Ident")[1] = "expect" /\ Expect("Ident")[2] = "Ident"
BY DEF Calm, Expect, Task, Operandlike

\* What is not calm still follows its keyword.
LEMMA NamesStep ==
    ASSUME IInv, IInv', NamesFollow, NEW n, Reads(n), NEW nodes, NEW seg, Splices(nodes, seg),
           Head(agenda) = Expect("Ident") => seg = <<>> /\ n = 1,
           NewNames(seg)
    PROVE  NamesFollow'
<1>1. /\ agenda \in Seq(AnyTask) /\ agenda # <<>> /\ Head(agenda) = agenda[1]
      /\ agenda' \in Seq(AnyTask) /\ agenda' # <<>> /\ Head(agenda') = agenda'[1]
      /\ pos \in Nat /\ pos' = pos + n /\ n \in {0, 1, 2} /\ Len(input) = pos + 2
      /\ \A p \in 1 .. Len(input) : input'[p] = input[p]
      /\ seg \in Seq(AnyTask) /\ Len(seg) \in Nat /\ DOMAIN seg = 1 .. Len(seg)
  <2>1. seg \in Seq(AnyTask)
    BY DEF Splices
  <2>. QED  BY <2>1, Agendas, Windows
<1>. PICK s : s = agenda'
  OBVIOUS
<1>2. Replaces(s, agenda, seg)
  BY <1>1, SpliceParts DEF Splices
<1>3. SUFFICES ASSUME NEW j \in DOMAIN s
               PROVE  \/ Calm(s[j])
                      \/ /\ j = 1 /\ s[j] = Expect("Ident")
                         /\ pos' > 0 /\ input'[pos'] \in {"kStruct", "kNamespace", "kType"}
                      \/ /\ j = 2 /\ s[j][1] = "base" /\ s[1] = Expect("Ident")
                         /\ pos' > 0 /\ input'[pos'] = "kType"
                      \/ j = 1 /\ s[j][1] = "base" /\ pos' > 1 /\ input'[pos' - 1] = "kType"
  BY <1>1 DEF NamesFollow, Naming
<1>4. CASE j \in DOMAIN seg /\ s[j] = seg[j]
  <2>1. CASE j = 2
    <3>1. 1 \in DOMAIN seg
      BY <1>1, <1>4, <2>1
    <3>2. s[1] = seg[1]
      BY <1>2, <3>1 DEF Replaces
    <3>. QED  BY <1>4, <2>1, <3>2 DEF NewNames
  <2>2. CASE j # 2
    BY <1>4, <2>2 DEF NewNames
  <2>. QED  BY <2>1, <2>2
<1>5. ASSUME NEW k \in DOMAIN agenda, k > 1, j = Len(seg) + k - 1, s[j] = agenda[k], ~Calm(s[j])
      PROVE  j = 1 /\ s[j][1] = "base" /\ pos' > 1 /\ input'[pos' - 1] = "kType"
  <2>1. k = 2 /\ agenda[k][1] = "base" /\ Naming
    BY <1>5 DEF NamesFollow
  <2>2. Head(agenda) = Expect("Ident") /\ pos > 0 /\ input[pos] = "kType"
    BY <2>1 DEF Naming
  <2>3. Len(seg) = 0 /\ n = 1
    BY <2>2
  <2>4. j = 1 /\ pos' = pos + 1 /\ pos \in 1 .. Len(input)
    BY <1>1, <1>5, <2>1, <2>2, <2>3
  <2>5. pos' > 1 /\ pos' - 1 = pos
    BY <1>1, <2>2, <2>4
  <2>. QED  BY <1>1, <1>5, <2>1, <2>2, <2>4, <2>5
<1>. QED  BY <1>2, <1>4, <1>5 DEF Replaces

\* How far the tokens have been seen.
LEMMA SeenSpan ==
    ASSUME IInv
    PROVE  /\ Seen \in pos .. pos + 1 /\ pos \in Nat /\ Len(input) = pos + 2
           /\ Head(agenda) # Expect("Ident") => Seen = pos
BY DEF IInv, WindowOK, Seen, Naming

\* Whether a task of a name comes next.
LEMMA SeenNext ==
    ASSUME IInv, IInv', NamesFollow, NEW n, Reads(n), NEW nodes, NEW seg, Splices(nodes, seg),
           \A k \in DOMAIN seg : Calm(seg[k])
    PROVE  Seen' = pos'
<1>1. /\ agenda \in Seq(AnyTask) /\ agenda # <<>>
      /\ agenda' \in Seq(AnyTask) /\ agenda' # <<>> /\ Head(agenda') = agenda'[1]
      /\ seg \in Seq(AnyTask)
  BY Agendas DEF Splices
<1>. PICK s : s = agenda'
  OBVIOUS
<1>2. Replaces(s, agenda, seg)
  BY <1>1, SpliceParts DEF Splices
<1>3. 1 \in DOMAIN s
  BY <1>1
<1>4. ASSUME NEW k \in DOMAIN agenda, k > 1 PROVE agenda[k] # Expect("Ident")
  BY <1>4, NameNotCalm DEF NamesFollow
<1>5. s[1] # Expect("Ident")
  BY <1>2, <1>3, <1>4, NameNotCalm DEF Replaces
<1>. QED  BY <1>1, <1>5 DEF Seen, Naming

-----------------------------------------------------------------------------
(* The leaves a step makes.                                                *)

\* The leaves that are new are of tokens newly seen, which all get theirs,
\* or they were held by the first task.
NewLeaves(nodes, seg) ==
    /\ \A i \in DOMAIN nodes : Kind(nodes[i])
    /\ \A p \in Nat : Has(nodes, seg, p) =>
           p <= Seen' /\ (p > Seen \/ Holds(Head(agenda), p) \/ ~Word(p)')
    /\ \A p \in Nat : Word(p)' => OnceIn(nodes, seg, p)
    /\ \A p \in Nat : Holds(Head(agenda), p) => Has(nodes, seg, p)
    /\ \A p \in Seen + 1 .. Seen' :
           TypeOf(input'[p]) \in Operandlike => Nameless(p)' \/ Has(nodes, seg, p)

\* A token stays what it is.
LEMMA SameToken ==
    ASSUME IInv, NEW n, Reads(n), NEW p \in 1 .. pos + 2
    PROVE  /\ input'[p] = input[p]
           /\ Word(p)' <=> Word(p)
           /\ Nameless(p) => Nameless(p)'
<1>1. /\ pos \in Nat /\ n \in {0, 1, 2} /\ Len(input) = pos + 2 /\ Len(input') = pos + n + 2
      /\ \A q \in 1 .. pos + 2 : input'[q] = input[q]
  BY Windows
<1>2. p \in 1 .. pos + n + 2
  BY <1>1
<1>3. Word(p)' <=> Word(p)
  BY <1>1, <1>2 DEF Word
<1>4. ASSUME Nameless(p) PROVE Nameless(p)'
  <2>1. p > 1 /\ p - 1 \in 1 .. pos + 2 /\ (p > 2 => p - 2 \in 1 .. pos + 2)
    BY <1>1, <1>4 DEF Nameless
  <2>. QED  BY <1>1, <1>4, <2>1 DEF Nameless
<1>. QED  BY <1>1, <1>3, <1>4

\* What a step does to the leaves.
LEMMA LeafStep ==
    ASSUME IInv, IInv', LeafInv, NEW n, Reads(n), NEW nodes, NEW seg, Splices(nodes, seg),
           Head(agenda) = Expect("Ident") => seg = <<>> /\ n = 1,
           NewNames(seg), outcome' = "run", Seen <= Seen', NewLeaves(nodes, seg)
    PROVE  /\ LeafInv'
           /\ \A p \in Nat : Taken(p)' <=> Taken(p) \/ Has(nodes, seg, p)
           /\ \A p \in 1 .. pos : Word(p) => (Taken(p)' <=> Taken(p))
<1>1. /\ pos \in Nat /\ n \in {0, 1, 2} /\ pos' = pos + n
      /\ Seen \in pos .. pos + 1 /\ Seen' \in Int
  <2>1. Seen' \in pos' .. pos' + 1 /\ pos' \in Nat
    <3>1. pos' \in Nat
      BY Windows
    <3>2. Seen' = pos' \/ Seen' = pos' + 1
      BY DEF Seen
    <3>. QED  BY <3>1, <3>2
  <2>. QED  BY <2>1, Windows, SeenSpan
<1>2. ASSUME NEW p \in Nat PROVE Taken(p)' <=> Taken(p) \/ Has(nodes, seg, p)
  <2>1. Holds(Head(agenda), p) => Has(nodes, seg, p)
    BY DEF NewLeaves
  <2>. QED  BY <2>1, TakenNext
<1>3. ASSUME NEW p \in Nat, Holds(Head(agenda), p) PROVE Taken(p)
  BY <1>3, Agendas DEF Taken
<1>4. Placed'
  <2>1. ASSUME NEW p \in Nat, Taken(p)' PROVE p <= Seen'
    <3>1. CASE Taken(p)
      <4>1. p <= Seen
        BY <3>1 DEF LeafInv, Placed
      <4>. QED  BY <1>1, <4>1
    <3>2. CASE Has(nodes, seg, p)
      BY <3>2 DEF NewLeaves
    <3>. QED  BY <1>2, <2>1, <3>1, <3>2
  <2>. QED  BY <2>1 DEF Placed
<1>5. Once'
  <2>1. ASSUME NEW p \in Nat, Word(p)' PROVE OnceIn(tree, agenda, p)'
    <3>1. OnceIn(nodes, seg, p)
      BY <2>1 DEF NewLeaves
    <3>2. ASSUME Taken(p) PROVE OnceIn(tree, agenda, p) /\ p <= Seen
      <4>1. p <= Seen
        BY <3>2 DEF LeafInv, Placed
      <4>2. p \in 1 .. pos + 2
        BY <1>1, <2>1, <4>1 DEF Word
      <4>3. Word(p)
        BY <2>1, <4>2, SameToken
      <4>. QED  BY <4>1, <4>3 DEF LeafInv, Once
    <3>3. Has(nodes, seg, p) /\ Taken(p) => Holds(Head(agenda), p)
      <4>1. Has(nodes, seg, p) => p > Seen \/ Holds(Head(agenda), p)
        BY <2>1 DEF NewLeaves
      <4>. QED  BY <1>1, <3>2, <4>1
    <3>. QED  BY <3>1, <3>2, <3>3, OnceNext
  <2>. QED  BY <2>1 DEF Once
<1>6. Kept'
  <2>1. ASSUME NEW p \in 1 .. Seen', TypeOf(input'[p]) \in Operandlike
        PROVE  Nameless(p)' \/ Taken(p)'
    <3>1. CASE p <= Seen
      <4>1. p \in 1 .. pos + 2 /\ p \in 1 .. Seen
        BY <1>1, <3>1
      <4>2. TypeOf(input[p]) \in Operandlike /\ (Nameless(p) => Nameless(p)')
        BY <2>1, <4>1, SameToken
      <4>3. Nameless(p) \/ Taken(p)
        BY <4>1, <4>2 DEF LeafInv, Kept
      <4>. QED  BY <1>2, <4>2, <4>3
    <3>2. CASE p > Seen
      <4>1. p \in Seen + 1 .. Seen' /\ p \in Nat
        BY <1>1, <3>2
      <4>. QED  BY <1>2, <2>1, <4>1 DEF NewLeaves
    <3>. QED  BY <1>1, <3>1, <3>2
  <2>. QED  BY <2>1 DEF Kept
<1>7. Kinds'
  <2>. PICK t : t = tree'
    OBVIOUS
  <2>1. Lengthens(t, tree, nodes)
    <3>1. tree \in Seq(AnyNode) /\ nodes \in Seq(AnyNode) /\ t = tree \o nodes
      BY DEF IInv, Grown, Splices
    <3>. QED  BY <3>1, AppendParts
  <2>2. \A i \in DOMAIN t : Kind(t[i])
    <3>1. /\ \A i \in DOMAIN tree : Kind(tree[i])
          /\ \A i \in DOMAIN nodes : Kind(nodes[i])
      BY DEF LeafInv, Kinds, NewLeaves
    <3>. QED  BY <2>1, <3>1 DEF Lengthens
  <2>. QED  BY <2>2 DEF Kinds, Kind
<1>8. EofLast' /\ NamesFollow'
  BY NamesStep DEF Reads, LeafInv
<1>9. ASSUME NEW p \in 1 .. pos, Word(p) PROVE Taken(p)' <=> Taken(p)
  <2>1. p \in 1 .. pos + 2 /\ p \in Nat /\ ~(p > Seen)
    BY <1>1
  <2>2. Word(p)'
    BY <1>9, <2>1, SameToken
  <2>3. Has(nodes, seg, p) => Holds(Head(agenda), p)
    BY <2>1, <2>2 DEF NewLeaves
  <2>. QED  BY <1>2, <1>3, <2>1, <2>3
<1>. QED  BY <1>2, <1>4, <1>5, <1>6, <1>7, <1>8, <1>9 DEF LeafInv

-----------------------------------------------------------------------------
(* Tasks that neither read a leaf nor hold one.                            *)

\* Tasks that consume no identifier, no literal and no bracket themselves
\* and create no leaf.
StillTask ==
         ({"statement", "param"} \X SUBSET Qualifier)
    \cup ({"primary", "postfix", "drop", "arguments", "body"} \X {0})
    \cup ({"operators", "guardrail"} \X Nat)
    \cup ({"expect"} \X {"Semi", "Colon"})
    \cup ({"skip"} \X {"Semi", "kAuto"})
    \cup ({"when", "unless"} \X {c \in ChoiceArg : c.n = 0 \/ c.t \in {"Semi", "kElse", "Equals"}})
    \cup ({"more"} \X {Param})
    \cup ({"build"} \X BuildArg)
    \cup {Task("unit", 0)}

\* The same, and brackets.
QuietTask ==
    StillTask \cup {Block}
    \cup ({"expect"} \X {"Left", "Right", "SqLeft", "SqRight", "BrLeft", "BrRight"})

\* Quiet tasks are calm.
LEMMA QuietIsCalm ==
    ASSUME NEW t \in QuietTask
    PROVE  Calm(t) /\ t[1] \notin Declare
<1>1. CASE t \in ({"statement", "param"} \X SUBSET Qualifier)
                 \cup ({"primary", "postfix", "drop", "arguments", "body"} \X {0})
                 \cup ({"operators", "guardrail"} \X Nat)
  BY <1>1 DEF Calm, Declare
<1>2. CASE t \in ({"expect"} \X {"Semi", "Colon"})
                 \cup ({"expect"} \X {"Left", "Right", "SqLeft", "SqRight", "BrLeft", "BrRight"})
  BY <1>2 DEF Calm, Declare, Operandlike, Literal
<1>3. CASE t \in {"skip"} \X {"Semi", "kAuto"}
  BY <1>3 DEF Calm, Declare
<1>4. CASE t \in {"when", "unless"} \X {c \in ChoiceArg : c.n = 0 \/ c.t \in {"Semi", "kElse", "Equals"}}
  BY <1>4 DEF Calm, Declare
<1>5. CASE t \in ({"more"} \X {Param}) \cup ({"build"} \X BuildArg)
  BY <1>5 DEF Calm, Declare
<1>6. CASE t = Task("unit", 0) \/ t = Block
  <2>1. t[1] = "unit" \/ t[1] = "block"
    BY <1>6 DEF Task, Block
  <2>. QED  BY <2>1 DEF Calm, Declare
<1>. QED  BY <1>1, <1>2, <1>3, <1>4, <1>5, <1>6 DEF QuietTask, StillTask

\* Tasks on the agenda are tasks.
LEMMA SegmentTyped ==
    ASSUME IInv, IInv', NEW S, NEW seg \in Seq(S), agenda' = seg \o Tail(agenda)
    PROVE  seg \in Seq(AnyTask)
<1>1. PICK t : t = Tail(agenda) /\ t \in Seq(AnyTask)
  <2>1. Tail(agenda) \in Seq(AnyTask)
    BY Agendas, HeadTailProperties
  <2>. QED  BY <2>1
<1>2. PICK s : s = agenda' /\ s \in Seq(AnyTask)
  BY Agendas
<1>3. s = seg \o t
  BY <1>1, <1>2
<1>4. /\ Len(s) = Len(seg) + Len(t) /\ Len(seg) \in Nat /\ Len(t) \in Nat
      /\ \A j \in 1 .. Len(seg) : s[j] = seg[j]
  BY <1>1, <1>3
<1>5. \A j \in 1 .. Len(seg) : seg[j] \in AnyTask
  BY <1>2, <1>4, ElementOfSeq
<1>. QED  BY <1>4, <1>5

\* A node that is no leaf.
Inner(n) == n.len = 1 => n.kids # <<>> /\ n.kind \notin LeafKind

\* Steps that create no leaf and consume nothing that must have one.
LEMMA NoLeaves ==
    ASSUME IInv, IInv', LeafInv, NEW n, Reads(n), NEW nodes, NEW seg, Splices(nodes, seg),
           Head(agenda)[1] \notin Declare, Head(agenda) # Expect("Ident"), outcome' = "run",
           NewNames(seg), Seen' = pos', \A k \in DOMAIN seg : seg[k][1] \notin Declare,
           \A i \in DOMAIN nodes : Inner(nodes[i]),
           \A p \in pos + 1 .. pos + n : TypeOf(input[p]) \in Operandlike => Nameless(p)
    PROVE  LeafInv' /\ (\A p \in Nat : Taken(p)' <=> Taken(p))
<1>1. /\ pos \in Nat /\ n \in {0, 1, 2} /\ pos' = pos + n /\ Seen = pos
  BY Windows, SeenSpan
<1>2. \A p : ~Has(nodes, seg, p) /\ ~Holds(Head(agenda), p)
  BY DEF Has, Holds, Inner, LeafAt
<1>3. \A i \in DOMAIN nodes : Kind(nodes[i])
  BY DEF Inner, Kind
<1>4. \A p \in Nat : OnceIn(nodes, seg, p)
  BY <1>2 DEF OnceIn, Has
<1>5. ASSUME NEW p \in Seen + 1 .. Seen', TypeOf(input'[p]) \in Operandlike
      PROVE  Nameless(p)'
  <2>1. p \in 1 .. pos + 2 /\ p \in pos + 1 .. pos + n
    BY <1>1
  <2>2. input'[p] = input[p] /\ (Nameless(p) => Nameless(p)')
    BY <2>1, SameToken
  <2>. QED  BY <1>5, <2>1, <2>2
<1>6. NewLeaves(nodes, seg)
  BY <1>2, <1>3, <1>4, <1>5 DEF NewLeaves
<1>7. Seen <= Seen'
  BY <1>1
<1>. QED  BY <1>2, <1>6, <1>7, LeafStep

\* The same with quiet tasks.
LEMMA QuietLeaves ==
    ASSUME IInv, IInv', LeafInv, NEW n, Reads(n), NEW nodes \in Seq(AnyNode),
           NEW seg \in Seq(QuietTask), tree' = tree \o nodes, agenda' = seg \o Tail(agenda),
           Head(agenda)[1] \notin Declare, Head(agenda) # Expect("Ident"), outcome' = "run",
           \A i \in DOMAIN nodes : Inner(nodes[i]),
           \A p \in pos + 1 .. pos + n : TypeOf(input[p]) \in Operandlike => Nameless(p)
    PROVE  /\ LeafInv' /\ (\A p \in Nat : Taken(p)' <=> Taken(p))
           /\ Splices(nodes, seg)
<1>1. Splices(nodes, seg)
  BY SegmentTyped DEF Splices
<1>2. \A k \in DOMAIN seg : Calm(seg[k]) /\ seg[k][1] \notin Declare
  BY QuietIsCalm
<1>3. Seen' = pos'
  BY <1>1, <1>2, SeenNext DEF LeafInv
<1>4. NewNames(seg)
  BY <1>2 DEF NewNames
<1>. QED  BY <1>1, <1>2, <1>3, <1>4, NoLeaves

\* Steps that only end the parse.
LEMMA StandLeaves ==
    ASSUME LeafInv, Stay, UNCHANGED <<tree, agenda>>,
           outcome' = "done" => agenda = <<Task("unit", 0)>>
    PROVE  LeafInv'
BY DEF LeafInv, Stay, EofLast, Placed, Taken, Seen, Naming, Once, Word, OnceIn, Kept, Nameless,
       Kinds, Kind, NamesFollow

-----------------------------------------------------------------------------
(* Brackets: what is open, and what the tasks still close.                 *)

BracketToken == {"Left", "Right", "SqLeft", "SqRight", "BrLeft", "BrRight"}

\* What is open: the closing brackets that are due, the next one last.
Stacks == Seq({"Right", "SqRight", "BrRight"})

\* The bracket a task will demand.
Bracket(t) ==
    IF t[1] = "block" THEN "BrRight" ELSE IF t[1] = "expect" THEN t[2] ELSE "none"

\* A task and all it leads to turn what is open from a to b.
Turns(t, a, b) == a \in Stacks /\ b \in Stacks /\ b = Read(a, Bracket(t), FALSE)

\* The tasks one after the other do.
Closes(s, a, b) ==
    \E h \in [0 .. Len(s) -> Stacks] :
        /\ h[0] = a /\ h[Len(s)] = b
        /\ \A k \in 1 .. Len(s) : Turns(s[k], h[k - 1], h[k])

\* What has been read of the text, and how what is left of the parse closes
\* what is open.
BracketsOK ==
    \E f : /\ f[0] = <<>>
           /\ \A p \in 1 .. pos : f[p] = Read(f[p - 1], input[p], Taken(p))
           /\ f[pos] \in Stacks
           /\ Closes(agenda, f[pos], <<>>)

\* Consuming n tokens turns what is open from a to b.
Passes(n, a, b) ==
    \E g : /\ g[pos] = a /\ g[pos + n] = b
           /\ \A p \in pos + 1 .. pos + n : g[p] = Read(g[p - 1], input[p], Taken(p)')

\* A leaf and a token that is no bracket change nothing.
LEMMA ReadFlat ==
    ASSUME NEW a, NEW token, NEW leaf \in BOOLEAN, leaf \/ token \notin BracketToken
    PROVE  Read(a, token, leaf) = a
<1>1. DOMAIN Closing = {"Left", "SqLeft", "BrLeft"}
  BY DEF Closing
<1>2. Range(Closing) = {"Right", "SqRight", "BrRight"}
  BY <1>1 DEF Range, Closing
<1>. QED  BY <1>1, <1>2 DEF Read, BracketToken

\* A closing bracket closes what the opening one has opened.
LEMMA ReadPair ==
    ASSUME NEW a \in Stacks
    PROVE  /\ \A c \in {"Left", "SqLeft", "BrLeft"} : Read(a, c, FALSE) = Append(a, Closing[c])
           /\ \A c \in {"Right", "SqRight", "BrRight"} :
                  Append(a, c) \in Stacks /\ Read(Append(a, c), c, FALSE) = a
           /\ Closing["Left"] = "Right" /\ Closing["SqLeft"] = "SqRight" /\ Closing["BrLeft"] = "BrRight"
<1>1. /\ DOMAIN Closing = {"Left", "SqLeft", "BrLeft"}
      /\ Closing["Left"] = "Right" /\ Closing["SqLeft"] = "SqRight" /\ Closing["BrLeft"] = "BrRight"
  BY DEF Closing
<1>2. Range(Closing) = {"Right", "SqRight", "BrRight"}
  BY <1>1 DEF Range
<1>3. ASSUME NEW c \in {"Right", "SqRight", "BrRight"}
      PROVE  Append(a, c) \in Stacks /\ Read(Append(a, c), c, FALSE) = a
  <2>1. PICK b : b = Append(a, c)
    OBVIOUS
  <2>2. b \in Stacks /\ b # <<>> /\ Last(b) = c
    BY <2>1 DEF Stacks, Last
  <2>3. Front(b) = a
    BY <2>1 DEF Stacks, Front
  <2>4. Read(b, c, FALSE) = Front(b)
    BY <1>1, <1>2, <2>2 DEF Read
  <2>. QED  BY <2>1, <2>2, <2>3, <2>4
<1>4. \A c \in {"Left", "SqLeft", "BrLeft"} : Read(a, c, FALSE) = Append(a, Closing[c])
  BY <1>1 DEF Read
<1>. QED  BY <1>1, <1>3, <1>4

\* A task without a bracket changes nothing.
LEMMA TurnsFlat ==
    ASSUME NEW t, Bracket(t) \notin BracketToken, NEW a, NEW b
    PROVE  Turns(t, a, b) <=> a \in Stacks /\ a = b
<1>1. Read(a, Bracket(t), FALSE) = a
  BY ReadFlat
<1>. QED  BY <1>1 DEF Turns

\* Tasks without brackets.
LEMMA ClosesFlat ==
    ASSUME NEW S, NEW s \in Seq(S), \A k \in DOMAIN s : Bracket(s[k]) \notin BracketToken,
           NEW a \in Stacks
    PROVE  Closes(s, a, a)
<1> DEFINE h == [k \in 0 .. Len(s) |-> a]
<1>1. h \in [0 .. Len(s) -> Stacks] /\ h[0] = a /\ h[Len(s)] = a
  OBVIOUS
<1>2. \A k \in 1 .. Len(s) : h[k - 1] = a /\ h[k] = a
  OBVIOUS
<1>. HIDE DEF h
<1>3. \A k \in 1 .. Len(s) : Turns(s[k], h[k - 1], h[k])
  BY <1>2, TurnsFlat
<1>. QED  BY <1>1, <1>3 DEF Closes

\* Tasks of which one has a bracket.
LEMMA ClosesAt ==
    ASSUME NEW S, NEW s \in Seq(S), NEW j \in DOMAIN s,
           \A k \in DOMAIN s : k # j => Bracket(s[k]) \notin BracketToken,
           NEW a, NEW b, Turns(s[j], a, b)
    PROVE  Closes(s, a, b)
<1>. PICK l \in Nat : l = Len(s)
  OBVIOUS
<1>1. a \in Stacks /\ b \in Stacks /\ j \in 1 .. l
  <2>1. j \in 1 .. l
    OBVIOUS
  <2>2. a \in Stacks /\ b \in Stacks
    BY DEF Turns
  <2>. QED  BY <2>1, <2>2
<1> DEFINE h == [k \in 0 .. l |-> IF k < j THEN a ELSE b]
<1>2. h \in [0 .. l -> Stacks] /\ h[0] = a /\ h[l] = b
  BY <1>1
<1>3. \A k \in 1 .. l : /\ k < j => h[k - 1] = a /\ h[k] = a
                        /\ k = j => h[k - 1] = a /\ h[k] = b
                        /\ k > j => h[k - 1] = b /\ h[k] = b
  BY <1>1
<1>. HIDE DEF h
<1>4. ASSUME NEW k \in 1 .. l PROVE Turns(s[k], h[k - 1], h[k])
  <2>1. CASE k = j
    BY <1>3, <2>1
  <2>2. CASE k # j
    <3>1. Bracket(s[k]) \notin BracketToken
      BY <2>2
    <3>2. h[k - 1] = h[k] /\ h[k] \in Stacks
      BY <1>1, <1>3, <2>2
    <3>. QED  BY <3>1, <3>2, TurnsFlat
  <2>. QED  BY <2>1, <2>2
<1>. QED  BY <1>2, <1>4 DEF Closes

\* Tasks of which two have brackets.
LEMMA ClosesTwo ==
    ASSUME NEW S, NEW s \in Seq(S), NEW i \in DOMAIN s, NEW j \in DOMAIN s, i < j,
           \A k \in DOMAIN s : k # i /\ k # j => Bracket(s[k]) \notin BracketToken,
           NEW a, NEW b, NEW c, Turns(s[i], a, b), Turns(s[j], b, c)
    PROVE  Closes(s, a, c)
<1>. PICK l \in Nat : l = Len(s)
  OBVIOUS
<1>1. a \in Stacks /\ b \in Stacks /\ c \in Stacks /\ i \in 1 .. l /\ j \in 1 .. l
  <2>1. i \in 1 .. l /\ j \in 1 .. l
    OBVIOUS
  <2>2. a \in Stacks /\ b \in Stacks /\ c \in Stacks
    BY DEF Turns
  <2>. QED  BY <2>1, <2>2
<1> DEFINE h == [k \in 0 .. l |-> IF k < i THEN a ELSE IF k < j THEN b ELSE c]
<1>2. h \in [0 .. l -> Stacks] /\ h[0] = a /\ h[l] = c
  BY <1>1
<1>3. \A k \in 1 .. l : /\ k < i => h[k - 1] = a /\ h[k] = a
                        /\ k = i => h[k - 1] = a /\ h[k] = b
                        /\ k > i /\ k < j => h[k - 1] = b /\ h[k] = b
                        /\ k = j => h[k - 1] = b /\ h[k] = c
                        /\ k > j => h[k - 1] = c /\ h[k] = c
  BY <1>1
<1>. HIDE DEF h
<1>4. ASSUME NEW k \in 1 .. l PROVE Turns(s[k], h[k - 1], h[k])
  <2>1. CASE k = i \/ k = j
    BY <1>3, <2>1
  <2>2. CASE k # i /\ k # j
    <3>1. Bracket(s[k]) \notin BracketToken
      BY <2>2
    <3>2. h[k - 1] = h[k] /\ h[k] \in Stacks
      BY <1>1, <1>3, <2>2
    <3>. QED  BY <3>1, <3>2, TurnsFlat
  <2>. QED  BY <2>1, <2>2
<1>. QED  BY <1>2, <1>4 DEF Closes

-----------------------------------------------------------------------------
(* Brackets across a step.                                                 *)

\* Two sequences of tasks after each other.
LEMMA ClosesConcat ==
    ASSUME NEW S, NEW s \in Seq(S), NEW u \in Seq(S), NEW a, NEW b, NEW c,
           Closes(s, a, b), Closes(u, b, c)
    PROVE  Closes(s \o u, a, c)
<1>1. PICK g \in [0 .. Len(s) -> Stacks] :
          /\ g[0] = a /\ g[Len(s)] = b
          /\ \A k \in 1 .. Len(s) : Turns(s[k], g[k - 1], g[k])
  BY DEF Closes
<1>2. PICK h \in [0 .. Len(u) -> Stacks] :
          /\ h[0] = b /\ h[Len(u)] = c
          /\ \A k \in 1 .. Len(u) : Turns(u[k], h[k - 1], h[k])
  BY DEF Closes
<1>3. PICK m \in Nat : m = Len(s)
  OBVIOUS
<1>4. PICK n \in Nat : n = Len(u)
  OBVIOUS
<1>5. PICK w \in Seq(S) : w = s \o u
  BY ConcatProperties
<1>6. /\ Len(w) = m + n
      /\ \A k \in 1 .. m : w[k] = s[k]
      /\ \A k \in m + 1 .. m + n : w[k] = u[k - m]
  BY <1>3, <1>4, <1>5
<1> DEFINE f == [k \in 0 .. m + n |-> IF k <= m THEN g[k] ELSE h[k - m]]
<1>7. f \in [0 .. m + n -> Stacks]
  BY <1>1, <1>2, <1>3, <1>4
<1>8. f[0] = a /\ f[m + n] = c
  BY <1>1, <1>2, <1>3, <1>4
<1>9. \A k \in 1 .. m : f[k - 1] = g[k - 1] /\ f[k] = g[k]
  <2>. TAKE k \in 1 .. m
  <2>1. f[k] = g[k]
    OBVIOUS
  <2>2. f[k - 1] = g[k - 1]
    <3>1. PICK j \in 0 .. m + n : j = k - 1 /\ j <= m
      OBVIOUS
    <3>. QED  BY <3>1
  <2>. QED  BY <2>1, <2>2
<1>10. \A k \in m + 1 .. m + n : f[k - 1] = h[k - 1 - m] /\ f[k] = h[k - m]
  BY <1>1, <1>2, <1>3
<1>. HIDE DEF f
<1>11. \A k \in 1 .. m : Turns(w[k], f[k - 1], f[k])
  BY <1>1, <1>3, <1>6, <1>9
<1>12. ASSUME NEW k \in m + 1 .. m + n PROVE Turns(w[k], f[k - 1], f[k])
  <2>1. PICK j \in 1 .. n : j = k - m
    OBVIOUS
  <2>2. Turns(u[j], h[j - 1], h[j])
    BY <1>2, <1>4
  <2>3. w[k] = u[j] /\ f[k - 1] = h[j - 1] /\ f[k] = h[j]
    <3>1. k - 1 - m = j - 1
      BY <2>1
    <3>. QED  BY <1>6, <1>10, <2>1, <3>1
  <2>. QED  BY <2>2, <2>3
<1>13. \A k \in 1 .. m + n : k \in 1 .. m \/ k \in m + 1 .. m + n
  OBVIOUS
<1>14. \A k \in 1 .. m + n : Turns(w[k], f[k - 1], f[k])
  BY <1>11, <1>12, <1>13
<1>. QED  BY <1>5, <1>6, <1>7, <1>8, <1>14 DEF Closes

\* What is still closed once the first task is done.
LEMMA ClosesTail ==
    ASSUME NEW S, NEW s \in Seq(S), s # <<>>, NEW a, NEW c, Closes(s, a, c)
    PROVE  \E b \in Stacks : Turns(Head(s), a, b) /\ Closes(Tail(s), b, c)
<1>1. PICK h \in [0 .. Len(s) -> Stacks] :
          /\ h[0] = a /\ h[Len(s)] = c
          /\ \A k \in 1 .. Len(s) : Turns(s[k], h[k - 1], h[k])
  BY DEF Closes
<1>2. PICK n \in Nat : n + 1 = Len(s)
  OBVIOUS
<1>3. PICK u \in Seq(S) : u = Tail(s)
  OBVIOUS
<1>4. Len(u) = n /\ \A k \in 1 .. n : u[k] = s[k + 1]
  BY <1>2, <1>3
<1> DEFINE g == [k \in 0 .. n |-> h[k + 1]]
<1>5. g \in [0 .. n -> Stacks] /\ g[n] = c
  <2>1. h[n + 1] = c
    BY <1>1, <1>2
  <2>2. h \in [0 .. n + 1 -> Stacks]
    BY <1>2
  <2>. QED  BY <2>1, <2>2
<1>6. g[0] = h[1]
  OBVIOUS
<1>7. \A k \in 1 .. n : g[k - 1] = h[k] /\ g[k] = h[k + 1]
  OBVIOUS
<1>. HIDE DEF g
<1>8. ASSUME NEW k \in 1 .. n PROVE Turns(u[k], g[k - 1], g[k])
  <2>1. PICK j \in 1 .. Len(s) : j = k + 1
    BY <1>2
  <2>2. Turns(s[j], h[j - 1], h[j])
    BY <1>1
  <2>3. j - 1 = k
    BY <2>1
  <2>. QED  BY <2>1, <2>2, <2>3, <1>4, <1>7
<1>9. Closes(u, h[1], c)
  BY <1>4, <1>5, <1>6, <1>8 DEF Closes
<1>10. Turns(s[1], h[0], h[1]) /\ h[1] \in Stacks
  <2>1. 1 \in 1 .. Len(s) /\ 1 - 1 = 0 /\ 1 \in 0 .. Len(s)
    BY <1>2
  <2>. QED  BY <1>1, <2>1
<1>. QED  BY <1>1, <1>3, <1>9, <1>10

\* Tokens that are leaves or no brackets.
LEMMA PassFlat ==
    ASSUME pos \in Nat, NEW n \in {0, 1, 2}, NEW a,
           \A p \in pos + 1 .. pos + n : Taken(p)' \/ input[p] \notin BracketToken
    PROVE  Passes(n, a, a)
<1> DEFINE g == [p \in Nat |-> a]
<1>1. g[pos] = a /\ g[pos + n] = a
  OBVIOUS
<1>2. ASSUME NEW p \in pos + 1 .. pos + n
      PROVE  g[p] = Read(g[p - 1], input[p], Taken(p)')
  <2>1. g[p] = a /\ g[p - 1] = a
    OBVIOUS
  <2>2. Taken(p)' \in BOOLEAN
    BY DEF Taken
  <2>3. Read(a, input[p], Taken(p)') = a
    BY <1>2, <2>2, ReadFlat
  <2>. QED  BY <2>1, <2>3
<1>. HIDE DEF g
<1>. QED  BY <1>1, <1>2 DEF Passes

\* A token that is no leaf, perhaps with one that is no bracket.
LEMMA PassToken ==
    ASSUME pos \in Nat, NEW n \in {1, 2}, NEW a, NEW b,
           \A p \in Nat : p = pos + 1 => ~Taken(p)' /\ b = Read(a, input[p], FALSE),
           \A p \in Nat : p = pos + 2 /\ n = 2 => input[p] \notin BracketToken
    PROVE  Passes(n, a, b)
<1> DEFINE g == [p \in Nat |-> IF p = pos THEN a ELSE b]
<1>1. g[pos] = a /\ g[pos + n] = b
  OBVIOUS
<1>2. ASSUME NEW p \in pos + 1 .. pos + n
      PROVE  g[p] = Read(g[p - 1], input[p], Taken(p)')
  <2>1. Taken(p)' \in BOOLEAN
    BY DEF Taken
  <2>2. CASE p = pos + 1
    <3>1. g[p] = b /\ g[p - 1] = a /\ p \in Nat
      BY <2>2
    <3>2. Taken(p)' = FALSE /\ b = Read(a, input[p], FALSE)
      BY <2>1, <2>2, <3>1
    <3>. QED  BY <3>1, <3>2
  <2>3. CASE p # pos + 1
    <3>1. p = pos + 2 /\ n = 2 /\ p \in Nat
      BY <2>3
    <3>2. g[p] = b /\ g[p - 1] = b
      BY <3>1
    <3>. QED  BY <2>1, <3>1, <3>2, ReadFlat
  <2>. QED  BY <2>2, <2>3
<1>. HIDE DEF g
<1>. QED  BY <1>1, <1>2 DEF Passes

\* If the new tasks close what the first one would have, all is closed.
LEMMA BracketStep ==
    ASSUME IInv, IInv', BracketsOK, NEW n, Reads(n), NEW seg \in Seq(AnyTask),
           agenda' = seg \o Tail(agenda),
           \A p \in 1 .. pos : Word(p) => (Taken(p)' <=> Taken(p)),
           \A a, c \in Stacks : Turns(Head(agenda), a, c) =>
               \E b \in Stacks : Passes(n, a, b) /\ Closes(seg, b, c)
    PROVE  BracketsOK'
<1>1. /\ pos \in Nat /\ n \in {0, 1, 2} /\ pos' = pos + n
      /\ \A p \in 1 .. pos + 2 : input'[p] = input[p]
      /\ agenda \in Seq(AnyTask) /\ agenda # <<>>
  BY Windows, Agendas
<1>2. PICK f : /\ f[0] = <<>>
               /\ \A p \in 1 .. pos : f[p] = Read(f[p - 1], input[p], Taken(p))
               /\ f[pos] \in Stacks
               /\ Closes(agenda, f[pos], <<>>)
  BY DEF BracketsOK
<1>3. PICK c \in Stacks : Turns(Head(agenda), f[pos], c) /\ Closes(Tail(agenda), c, <<>>)
  BY <1>1, <1>2, ClosesTail
<1>4. PICK b \in Stacks : Passes(n, f[pos], b) /\ Closes(seg, b, c)
  BY <1>2, <1>3
<1>5. Closes(agenda', b, <<>>)
  <2>1. Tail(agenda) \in Seq(AnyTask)
    BY <1>1, HeadTailProperties
  <2>2. Closes(seg \o Tail(agenda), b, <<>>)
    BY <1>3, <1>4, <2>1, ClosesConcat
  <2>. QED  BY <2>2
<1>6. PICK g : /\ g[pos] = f[pos] /\ g[pos + n] = b
               /\ \A p \in pos + 1 .. pos + n : g[p] = Read(g[p - 1], input[p], Taken(p)')
  BY <1>4 DEF Passes
<1> DEFINE e == [p \in 0 .. pos + n |-> IF p <= pos THEN f[p] ELSE g[p]]
<1>7. e[0] = <<>> /\ e[pos + n] = b
  BY <1>1, <1>2, <1>6
<1>8. \A p \in 1 .. pos : e[p] = f[p] /\ e[p - 1] = f[p - 1]
  BY <1>1
<1>9. ASSUME NEW p \in pos + 1 .. pos + n PROVE e[p] = g[p] /\ e[p - 1] = g[p - 1]
  <2>1. p \in 0 .. pos + n /\ p - 1 \in 0 .. pos + n /\ ~(p <= pos)
    BY <1>1
  <2>2. p - 1 <= pos => p - 1 = pos
    BY <1>1
  <2>. QED  BY <1>6, <2>1, <2>2
<1>. HIDE DEF e
<1>10. ASSUME NEW p \in 1 .. pos + n PROVE e[p] = Read(e[p - 1], input'[p], Taken(p)')
  <2>1. input'[p] = input[p] /\ Taken(p)' \in BOOLEAN /\ Taken(p) \in BOOLEAN
    <3>1. Taken(p)' \in BOOLEAN
      BY DEF Taken
    <3>2. Taken(p) \in BOOLEAN
      BY DEF Taken
    <3>3. input'[p] = input[p]
      BY <1>1
    <3>. QED  BY <3>1, <3>2, <3>3
  <2>2. CASE p <= pos
    <3>1. p \in 1 .. pos /\ f[p] = Read(f[p - 1], input[p], Taken(p))
      BY <1>1, <1>2, <2>2
    <3>2. CASE Word(p)
      <4>1. Taken(p)' = Taken(p)
        BY <2>1, <3>1, <3>2
      <4>. QED  BY <1>8, <2>1, <3>1, <4>1
    <3>3. CASE ~Word(p)
      <4>1. input[p] = "Eof"
        BY <1>1, <3>1, <3>3, Windows DEF Word
      <4>2. /\ Read(f[p - 1], input[p], Taken(p)) = f[p - 1]
            /\ Read(f[p - 1], input[p], Taken(p)') = f[p - 1]
        BY <2>1, <4>1, ReadFlat DEF BracketToken
      <4>. QED  BY <1>8, <2>1, <3>1, <4>2
    <3>. QED  BY <3>2, <3>3
  <2>3. CASE ~(p <= pos)
    <3>1. p \in pos + 1 .. pos + n
      BY <1>1, <2>3
    <3>. QED  BY <1>6, <1>9, <2>1, <3>1
  <2>. QED  BY <2>2, <2>3
<1>11. /\ e[0] = <<>> /\ e[pos'] \in Stacks /\ Closes(agenda', e[pos'], <<>>)
       /\ \A p \in 1 .. pos' : e[p] = Read(e[p - 1], input'[p], Taken(p)')
  BY <1>1, <1>5, <1>7, <1>10
<1>. QED  BY <1>11 DEF BracketsOK

\* A bracket is its own type.
LEMMA BracketType ==
    ASSUME NEW t
    PROVE  /\ t \in BracketToken => TypeOf(t) = t
           /\ TypeOf(t) \in BracketToken => TypeOf(t) = t
<1>1. BracketToken \cap Ident = {} /\ "Ident" \notin BracketToken
  <2>1. BracketToken \subseteq TokenType
    BY NamedTokens DEF BracketToken
  <2>2. "using" \notin BracketToken /\ "Ident" \notin BracketToken
    BY DEF BracketToken
  <2>. QED  BY <2>1, <2>2, NameAssumption DEF Ident
<1>. QED  BY <1>1 DEF TypeOf

\* What is done without a declaration at the head.
Undeclared == Head(agenda)[1] \notin Declare /\ Head(agenda) # Expect("Ident") /\ outcome' = "run"

\* Consumed tokens that need no leaf.
LeafFree(n) == \A p \in pos + 1 .. pos + n : TypeOf(input[p]) \in Operandlike => Nameless(p)

\* Steps that create no leaf, consume nothing that must have one, and put
\* quiet tasks first that close what the first one would have.
LEMMA QuietStep ==
    ASSUME IInv, IInv', LeafInv, BracketsOK, NEW n, Reads(n),
           NEW nodes \in Seq(AnyNode), NEW seg \in Seq(QuietTask),
           tree' = tree \o nodes, agenda' = seg \o Tail(agenda), Undeclared,
           \A i \in DOMAIN nodes : Inner(nodes[i]), LeafFree(n),
           \A p \in Nat : p = pos + 2 /\ n = 2 => input[p] \notin BracketToken,
           \A a, c \in Stacks : Turns(Head(agenda), a, c) =>
               \E b \in Stacks : /\ Closes(seg, b, c)
                                 /\ n = 0 => b = a
                                 /\ n > 0 => b = Read(a, input[pos + 1], FALSE)
    PROVE  LeafInv' /\ BracketsOK'
<1>1. /\ LeafInv' /\ (\A p \in Nat : Taken(p)' <=> Taken(p))
      /\ Splices(nodes, seg)
  BY QuietLeaves DEF Undeclared, LeafFree
<1>2. pos \in Nat /\ n \in {0, 1, 2} /\ seg \in Seq(AnyTask)
  BY <1>1, Windows DEF Splices
<1>3. ASSUME NEW p \in Nat, p > pos PROVE ~Taken(p)'
  <2>1. Seen = pos
    BY SeenSpan DEF Undeclared
  <2>2. ~(p <= Seen)
    BY <1>2, <1>3, <2>1
  <2>. QED  BY <1>1, <2>2 DEF LeafInv, Placed
<1>4. ASSUME NEW a \in Stacks, NEW b \in Stacks, n = 0 => b = a,
             n > 0 => b = Read(a, input[pos + 1], FALSE)
      PROVE  Passes(n, a, b)
  <2>1. CASE n = 0
    <3>1. \A p \in pos + 1 .. pos + n : FALSE
      BY <1>2, <2>1
    <3>2. Passes(n, a, a)
      BY <1>2, <3>1, PassFlat
    <3>. QED  BY <1>4, <2>1, <3>2
  <2>2. CASE n \in {1, 2}
    <3>1. ASSUME NEW p \in Nat, p = pos + 1 PROVE ~Taken(p)' /\ b = Read(a, input[p], FALSE)
      <4>1. p > pos /\ n > 0
        BY <1>2, <2>2, <3>1
      <4>. QED  BY <1>3, <1>4, <3>1, <4>1
    <3>. QED  BY <1>2, <2>2, <3>1, PassToken
  <2>. QED  BY <1>2, <2>1, <2>2
<1>5. \A p \in 1 .. pos : Taken(p)' <=> Taken(p)
  BY <1>1, <1>2
<1>6. \A a, c \in Stacks : Turns(Head(agenda), a, c) =>
          \E b \in Stacks : Passes(n, a, b) /\ Closes(seg, b, c)
  BY <1>4
<1>7. BracketsOK'
  BY <1>2, <1>5, <1>6, BracketStep
<1>. QED  BY <1>1, <1>7

\* Quiet tasks without a bracket.
LEMMA StillIsFlat ==
    ASSUME NEW t \in StillTask
    PROVE  t \in QuietTask /\ Bracket(t) \notin BracketToken
<1>1. CASE t[1] \notin {"block", "expect"}
  BY <1>1 DEF QuietTask, Bracket, BracketToken
<1>2. CASE t[1] \in {"block", "expect"}
  <2>1. t \in {"expect"} \X {"Semi", "Colon"}
    BY <1>2 DEF StillTask, Task
  <2>. QED  BY <2>1 DEF QuietTask, Bracket, BracketToken
<1>. QED  BY <1>1, <1>2

\* Steps that have nothing to do with brackets either.
LEMMA StillStep ==
    ASSUME IInv, IInv', LeafInv, BracketsOK, NEW n \in {0, 1}, Reads(n),
           NEW nodes \in Seq(AnyNode), NEW seg \in Seq(StillTask),
           tree' = tree \o nodes, agenda' = seg \o Tail(agenda), Undeclared,
           Bracket(Head(agenda)) \notin BracketToken,
           \A i \in DOMAIN nodes : Inner(nodes[i]), LeafFree(n),
           n = 1 => peek(0) \notin BracketToken
    PROVE  LeafInv' /\ BracketsOK'
<1>1. seg \in Seq(QuietTask) /\ \A k \in DOMAIN seg : Bracket(seg[k]) \notin BracketToken
  <2>1. \A k \in DOMAIN seg : seg[k] \in QuietTask /\ Bracket(seg[k]) \notin BracketToken
    BY StillIsFlat
  <2>. QED  BY <2>1
<1>2. ASSUME NEW a \in Stacks, NEW c \in Stacks, Turns(Head(agenda), a, c)
      PROVE  /\ Closes(seg, a, c)
             /\ n > 0 => a = Read(a, input[pos + 1], FALSE)
  <2>1. a = c
    BY <1>2, TurnsFlat
  <2>2. Closes(seg, a, a)
    BY <1>1, ClosesFlat
  <2>3. ASSUME n > 0 PROVE input[pos + 1] \notin BracketToken
    <3>1. TypeOf(input[pos + 1]) \notin BracketToken
      BY <2>3, Windows DEF peek
    <3>. QED  BY <3>1, BracketType
  <2>. QED  BY <2>1, <2>2, <2>3, ReadFlat
<1>3. \A a, c \in Stacks : Turns(Head(agenda), a, c) =>
          \E b \in Stacks : /\ Closes(seg, b, c)
                            /\ n = 0 => b = a
                            /\ n > 0 => b = Read(a, input[pos + 1], FALSE)
  BY <1>2
<1>4. \A p \in Nat : p = pos + 2 /\ n = 2 => input[p] \notin BracketToken
  OBVIOUS
<1>. QED  BY <1>1, <1>3, <1>4, QuietStep

\* The next token needs no leaf.
LEMMA FreeToken ==
    ASSUME IInv
    PROVE  /\ LeafFree(0)
           /\ peek(0) \notin Operandlike => LeafFree(1)
           /\ peek(0) \notin Operandlike /\ peek(1) \notin Operandlike => LeafFree(2)
<1>1. pos \in Nat
  BY SeenSpan
<1>2. peek(0) = TypeOf(input[pos + 1]) /\ peek(1) = TypeOf(input[pos + 2])
  BY <1>1 DEF peek
<1>3. /\ \A p \in pos + 1 .. pos + 0 : FALSE
      /\ \A p \in pos + 1 .. pos + 1 : p = pos + 1
      /\ \A p \in pos + 1 .. pos + 2 : p = pos + 1 \/ p = pos + 2
  BY <1>1
<1>. QED  BY <1>2, <1>3 DEF LeafFree

\* A node, or none, in the place of the first task.
LEMMA StillCreate ==
    ASSUME IInv, IInv', LeafInv, BracketsOK, Reads(0), outcome' = "run",
           NEW nodes \in Seq(AnyNode), tree' = tree \o nodes, \A i \in DOMAIN nodes : Inner(nodes[i]),
           Then(<<>>), Head(agenda)[1] \notin Declare, Head(agenda) # Expect("Ident"),
           Bracket(Head(agenda)) \notin BracketToken
    PROVE  LeafInv' /\ BracketsOK'
<1>1. PICK seg \in Seq(StillTask) : seg = <<>>
  <2>1. <<>> \in Seq(StillTask)
    OBVIOUS
  <2>. QED  BY <2>1
<1>2. PICK n \in {0, 1} : n = 0
  OBVIOUS
<1>3. agenda' = seg \o Tail(agenda) /\ Reads(n) /\ LeafFree(n) /\ (n = 1 => peek(0) \notin BracketToken)
  BY <1>1, <1>2, FreeToken DEF Then
<1>4. Undeclared
  BY DEF Undeclared
<1>. QED  BY <1>3, <1>4, StillStep

\* Going on with still tasks.
LEMMA StillGo ==
    ASSUME IInv, IInv', LeafInv, BracketsOK, outcome = "run", NEW n \in {0, 1},
           NEW seg \in Seq(StillTask), Go(n, seg),
           Head(agenda)[1] \notin Declare, Head(agenda) # Expect("Ident"),
           Bracket(Head(agenda)) \notin BracketToken,
           n = 1 => peek(0) \notin BracketToken \cup Operandlike
    PROVE  LeafInv' /\ BracketsOK'
<1>1. Reads(n) /\ agenda' = seg \o Tail(agenda) /\ tree' = tree /\ outcome' = "run"
  BY AdvanceReads DEF IInv, LeafInv, Go, Then
<1>2. tree' = tree \o <<>> /\ <<>> \in Seq(AnyNode)
  <2>1. tree \in Seq(AnyNode)
    BY DEF IInv, Grown
  <2>. QED  BY <1>1, <2>1
<1>3. LeafFree(n) /\ Undeclared
  BY <1>1, FreeToken DEF Undeclared
<1>4. \A i \in DOMAIN <<>> : Inner(<<>>[i])
  OBVIOUS
<1>. QED  BY <1>1, <1>2, <1>3, <1>4, StillStep

\* Nothing is left of the first task.
LEMMA StillEnd ==
    ASSUME IInv, IInv', LeafInv, BracketsOK, outcome = "run", NEW n \in {0, 1}, Go(n, <<>>),
           Head(agenda)[1] \notin Declare, Head(agenda) # Expect("Ident"),
           Bracket(Head(agenda)) \notin BracketToken,
           n = 1 => peek(0) \notin BracketToken \cup Operandlike
    PROVE  LeafInv' /\ BracketsOK'
<1>1. PICK seg \in Seq(StillTask) : seg = <<>>
  <2>1. <<>> \in Seq(StillTask)
    OBVIOUS
  <2>. QED  BY <2>1
<1>2. Go(n, seg)
  BY <1>1
<1>. QED  BY <1>2, StillGo

\* Holding a null id.
LEMMA StillNull ==
    ASSUME IInv, IInv', LeafInv, BracketsOK, outcome = "run", NEW n \in {0, 1}, GoNull(n),
           Head(agenda)[1] \notin Declare, Head(agenda) # Expect("Ident"),
           Bracket(Head(agenda)) \notin BracketToken,
           n = 1 => peek(0) \notin BracketToken \cup Operandlike
    PROVE  LeafInv' /\ BracketsOK'
<1>1. Reads(n) /\ agenda' = <<>> \o Tail(agenda) /\ tree' = tree /\ outcome' = "run"
  BY AdvanceReads DEF IInv, LeafInv, GoNull, Then
<1>2. tree' = tree \o <<>> /\ <<>> \in Seq(AnyNode) /\ <<>> \in Seq(StillTask)
  <2>1. tree \in Seq(AnyNode)
    BY DEF IInv, Grown
  <2>. QED  BY <1>1, <2>1
<1>3. LeafFree(n) /\ Undeclared
  BY <1>1, FreeToken DEF Undeclared
<1>4. \A i \in DOMAIN <<>> : Inner(<<>>[i])
  OBVIOUS
<1>. QED  BY <1>1, <1>2, <1>3, <1>4, StillStep

\* A second token that is consumed is no bracket.
SecondFlat(n) == \A p \in Nat : p = pos + 2 /\ n = 2 => input[p] \notin BracketToken

\* The tasks seg, after n tokens, close what the first task would have.
Balances(n, seg) ==
    \A a, c \in Stacks : Turns(Head(agenda), a, c) =>
        \E b \in Stacks : /\ Closes(seg, b, c)
                          /\ n = 0 => b = a
                          /\ n > 0 => b = Read(a, input[pos + 1], FALSE)

\* Going on with quiet tasks.
LEMMA QuietGo ==
    ASSUME IInv, IInv', LeafInv, BracketsOK, outcome = "run", NEW n \in {0, 1, 2},
           NEW seg \in Seq(QuietTask), Go(n, seg), LeafFree(n),
           Head(agenda)[1] \notin Declare, Head(agenda) # Expect("Ident"),
           SecondFlat(n), Balances(n, seg)
    PROVE  LeafInv' /\ BracketsOK'
<1>1. Reads(n) /\ agenda' = seg \o Tail(agenda) /\ tree' = tree /\ outcome' = "run"
  BY AdvanceReads DEF IInv, LeafInv, Go, Then
<1>2. tree' = tree \o <<>> /\ <<>> \in Seq(AnyNode)
  <2>1. tree \in Seq(AnyNode)
    BY DEF IInv, Grown
  <2>. QED  BY <1>1, <2>1
<1>3. Undeclared
  BY <1>1 DEF Undeclared
<1>4. \A i \in DOMAIN <<>> : Inner(<<>>[i])
  OBVIOUS
<1>5. \A p \in Nat : p = pos + 2 /\ n = 2 => input[p] \notin BracketToken
  BY DEF SecondFlat
<1>6. \A a, c \in Stacks : Turns(Head(agenda), a, c) =>
          \E b \in Stacks : /\ Closes(seg, b, c)
                            /\ n = 0 => b = a
                            /\ n > 0 => b = Read(a, input[pos + 1], FALSE)
  BY DEF Balances
<1>. QED  BY <1>1, <1>2, <1>3, <1>4, <1>5, <1>6, QuietStep

\* Consuming one token that no leaf is due for.
LEMMA QuietOne ==
    ASSUME IInv, IInv', LeafInv, BracketsOK, outcome = "run",
           NEW seg \in Seq(QuietTask), Go(1, seg), peek(0) \notin Operandlike,
           Head(agenda)[1] \notin Declare, Head(agenda) # Expect("Ident"),
           \A a, c \in Stacks : Turns(Head(agenda), a, c) =>
               \E b \in Stacks : Closes(seg, b, c) /\ b = Read(a, input[pos + 1], FALSE)
    PROVE  LeafInv' /\ BracketsOK'
<1>1. PICK n \in {0, 1, 2} : n = 1
  OBVIOUS
<1>2. Go(n, seg) /\ LeafFree(n)
  BY <1>1, FreeToken
<1>3. Balances(n, seg)
  <2>1. ~(n = 0)
    BY <1>1
  <2>. QED  BY <2>1 DEF Balances
<1>4. SecondFlat(n)
  <2>1. n # 2
    BY <1>1
  <2>. QED  BY <2>1 DEF SecondFlat
<1>. QED  BY <1>2, <1>3, <1>4, QuietGo

\* Consuming nothing.
LEMMA QuietNone ==
    ASSUME IInv, IInv', LeafInv, BracketsOK, outcome = "run",
           NEW seg \in Seq(QuietTask), Go(0, seg),
           Head(agenda)[1] \notin Declare, Head(agenda) # Expect("Ident"),
           \A a, c \in Stacks : Turns(Head(agenda), a, c) => Closes(seg, a, c)
    PROVE  LeafInv' /\ BracketsOK'
<1>1. PICK n \in {0, 1, 2} : n = 0
  OBVIOUS
<1>2. Go(n, seg) /\ LeafFree(n)
  BY <1>1, FreeToken
<1>3. Balances(n, seg)
  <2>1. ~(n > 0)
    BY <1>1
  <2>. QED  BY <2>1 DEF Balances
<1>4. SecondFlat(n)
  <2>1. n # 2
    BY <1>1
  <2>. QED  BY <2>1 DEF SecondFlat
<1>. QED  BY <1>2, <1>3, <1>4, QuietGo

\* raiseError.
LEMMA ErrorStep ==
    ASSUME LeafInv, BracketsOK, raiseError
    PROVE  LeafInv' /\ BracketsOK'
<1>1. Stay /\ UNCHANGED <<tree, agenda>> /\ outcome' = "error"
  BY DEF raiseError
<1>2. LeafInv'
  BY <1>1, StandLeaves
<1>3. BracketsOK'
  BY <1>1 DEF Stay, BracketsOK, Taken
<1>. QED  BY <1>2, <1>3

-----------------------------------------------------------------------------
(* The tasks of the parse functions.                                       *)

\* Tasks the parse functions are made of.
LEMMA StillTasks ==
    /\ {Primary, Postfix, Drop, Task("arguments", 0), Task("body", 0), Param, Statement,
        More(Param), Expect("Semi"), Expect("Colon"), Skip("Semi"), Skip("kAuto"),
        Task("unit", 0)} \subseteq StillTask
    /\ \A min \in Nat : /\ Operators(min) \in StillTask /\ Task("guardrail", min) \in StillTask
                        /\ Expression(min) \in Seq(StillTask)
    /\ \A q \in SUBSET Qualifier : {Task("statement", q), Task("param", q)} \subseteq StillTask
<1>1. {Primary, Postfix, Drop, Task("arguments", 0), Task("body", 0)} \subseteq StillTask
  BY DEF StillTask, Task, Primary, Postfix, Drop
<1>2. {Param, Statement, More(Param), Expect("Semi"), Expect("Colon")} \subseteq StillTask
  BY DEF StillTask, Task, Param, Statement, More, Expect
<1>3. {Skip("Semi"), Skip("kAuto"), Task("unit", 0)} \subseteq StillTask
  BY DEF StillTask, Task, Skip
<1>4. \A min \in Nat : Operators(min) \in StillTask /\ Task("guardrail", min) \in StillTask
  BY DEF StillTask, Task, Operators
<1>5. \A min \in Nat : Expression(min) \in Seq(StillTask)
  BY <1>1, <1>4 DEF Expression
<1>6. \A q \in SUBSET Qualifier : {Task("statement", q), Task("param", q)} \subseteq StillTask
  BY DEF StillTask, Task
<1>. QED  BY <1>1, <1>2, <1>3, <1>4, <1>5, <1>6

\* Choices, whose token is consumed only if it is no name and no bracket.
LEMMA StillChoice ==
    ASSUME NEW t \in TokenType, NEW n \in {0, 1}, NEW tasks \in Alternatives,
           n = 0 \/ t \in {"Semi", "kElse", "Equals"}
    PROVE  When(t, n, tasks) \in StillTask /\ Unless(t, n, tasks) \in StillTask
<1>1. [t |-> t, n |-> n, tasks |-> tasks] \in
          {c \in ChoiceArg : c.n = 0 \/ c.t \in {"Semi", "kElse", "Equals"}}
  BY DEF ChoiceArg
<1>. QED  BY <1>1 DEF StillTask, Task, When, Unless

\* Nodes to build.
LEMMA StillBuild ==
    ASSUME NEW kind \in NodeKind, NEW off \in Nat \cup {Here}, NEW op \in TokenType \cup {NoOp},
           NEW take \in Nat, NEW pick \in Seq(Nat)
    PROVE  Build(kind, off, op, take, pick) \in StillTask
<1>1. [kind |-> kind, off |-> off, op |-> op, take |-> take, pick |-> pick] \in BuildArg
  BY DEF BuildArg
<1>. QED  BY <1>1 DEF StillTask, Task, Build

\* Alternatives are made of them.
LEMMA StillAlternatives ==
    ASSUME NEW tasks \in Alternatives
    PROVE  tasks \in Seq(StillTask)
<1>1. <<Statement>> \in Seq(StillTask) /\ <<Param>> \in Seq(StillTask) /\ Expression(0) \in Seq(StillTask)
  BY StillTasks
<1>. QED  BY <1>1 DEF Alternatives

\* Demanded brackets and blocks.
LEMMA QuietTasks ==
    /\ \A t \in BracketToken : Expect(t) \in QuietTask /\ Bracket(Expect(t)) = t
    /\ Block \in QuietTask /\ Bracket(Block) = "BrRight"
    /\ \A s \in Seq(StillTask) :
           s \in Seq(QuietTask) /\ \A k \in DOMAIN s : Bracket(s[k]) \notin BracketToken
<1>1. \A t \in BracketToken : Expect(t) \in QuietTask /\ Bracket(Expect(t)) = t
  BY DEF QuietTask, Expect, Task, BracketToken, Bracket
<1>2. Block \in QuietTask /\ Bracket(Block) = "BrRight"
  BY DEF QuietTask, Block, Task, Bracket
<1>3. ASSUME NEW s \in Seq(StillTask)
      PROVE  s \in Seq(QuietTask) /\ \A k \in DOMAIN s : Bracket(s[k]) \notin BracketToken
  <2>1. \A k \in DOMAIN s : s[k] \in QuietTask /\ Bracket(s[k]) \notin BracketToken
    BY StillIsFlat
  <2>. QED  BY <2>1
<1>. QED  BY <1>1, <1>2, <1>3

\* A task that is neither a block nor a demand has no bracket.
LEMMA HeadPlain ==
    ASSUME NEW t, t[1] \notin {"block", "expect"}
    PROVE  t # Expect("Ident") /\ Bracket(t) \notin BracketToken
BY DEF Expect, Task, Bracket, BracketToken

\* Binary operators are neither.
LEMMA OperatorToken ==
    ASSUME NEW t, Precedence(t) # 0
    PROVE  t \notin BracketToken \cup Operandlike
<1>1. PICK l \in DOMAIN Level : t \in Level[l]
  BY DEF Precedence
<1>2. l \in 1 .. 11 /\ DOMAIN Level = 1 .. 11
  BY <1>1 DEF Level
<1>3. Level[l] \cap (BracketToken \cup Operandlike) = {}
  BY <1>2 DEF Level, BracketToken, Operandlike, Literal
<1>. QED  BY <1>1, <1>3

\* Nodes of the tree are nodes.
LEMMA NodesTyped ==
    ASSUME IInv, IInv', NEW S, NEW nodes \in Seq(S), tree' = tree \o nodes
    PROVE  nodes \in Seq(AnyNode)
<1>1. PICK s : s = tree' /\ s \in Seq(AnyNode)
  BY DEF IInv, Grown
<1>2. tree \in Seq(AnyNode) /\ s = tree \o nodes
  BY <1>1 DEF IInv, Grown
<1>3. /\ Len(s) = Len(tree) + Len(nodes) /\ Len(nodes) \in Nat /\ Len(tree) \in Nat
      /\ \A j \in 1 .. Len(nodes) : s[Len(tree) + j] = nodes[j]
  <2>1. /\ Len(s) = Len(tree) + Len(nodes) /\ Len(nodes) \in Nat /\ Len(tree) \in Nat
        /\ \A j \in Len(tree) + 1 .. Len(tree) + Len(nodes) : s[j] = nodes[j - Len(tree)]
    BY <1>2
  <2>2. ASSUME NEW j \in 1 .. Len(nodes) PROVE s[Len(tree) + j] = nodes[j]
    <3>1. /\ Len(tree) + j \in Len(tree) + 1 .. Len(tree) + Len(nodes)
          /\ Len(tree) + j - Len(tree) = j
      BY <2>1
    <3>. QED  BY <2>1, <3>1
  <2>. QED  BY <2>1, <2>2
<1>4. ASSUME NEW j \in 1 .. Len(nodes) PROVE nodes[j] \in AnyNode
  <2>1. Len(tree) + j \in 1 .. Len(s)
    BY <1>3
  <2>2. s[Len(tree) + j] \in AnyNode
    BY <1>1, <2>1, ElementOfSeq
  <2>. QED  BY <1>3, <2>2
<1>5. PICK d \in Nat : d = Len(nodes) /\ DOMAIN nodes = 1 .. d
  BY <1>3
<1>6. nodes = [j \in 1 .. d |-> nodes[j]]
  BY <1>5
<1>7. \A j \in 1 .. d : nodes[j] \in AnyNode
  BY <1>4, <1>5
<1>8. nodes \in [1 .. d -> AnyNode]
  BY <1>6, <1>7
<1>. QED  BY <1>8, SeqDef

\* The first task is calm or a name's.
LEMMA HeadNames ==
    ASSUME IInv, LeafInv
    PROVE  \/ Calm(Head(agenda))
           \/ /\ Head(agenda) = Expect("Ident")
              /\ pos > 0 /\ input[pos] \in {"kStruct", "kNamespace", "kType"}
           \/ Head(agenda)[1] = "base" /\ pos > 1 /\ input[pos - 1] = "kType"
<1>1. agenda \in Seq(AnyTask) /\ agenda # <<>>
  BY DEF IInv, Remains
<1>2. 1 \in DOMAIN agenda /\ Head(agenda) = agenda[1]
  BY <1>1
<1>. QED  BY <1>2 DEF LeafInv, NamesFollow

\* A name is consumed: it has a leaf, or is kept by offset only.
LEMMA ExpectName ==
    ASSUME IInv, IInv', LeafInv, BracketsOK, outcome = "run", Go(1, <<>>),
           Head(agenda) = Expect("Ident"), peek(0) = "Ident"
    PROVE  LeafInv' /\ BracketsOK'
<1>1. Reads(1) /\ agenda' = <<>> \o Tail(agenda) /\ tree' = tree /\ outcome' = "run"
  BY AdvanceReads DEF IInv, LeafInv, Go, Then
<1>2. Splices(<<>>, <<>>)
  <2>1. tree \in Seq(AnyNode)
    BY DEF IInv, Grown
  <2>. QED  BY <1>1, <2>1 DEF Splices
<1>3. pos > 0 /\ input[pos] \in {"kStruct", "kNamespace", "kType"}
  BY HeadNames, NameNotCalm DEF Task
<1>4. NewNames(<<>>) /\ \A k \in DOMAIN <<>> : Calm(<<>>[k])
  BY DEF NewNames
<1>5. Seen' = pos' /\ pos' = pos + 1 /\ pos \in Nat /\ Seen \in pos .. pos + 1
  BY <1>1, <1>2, <1>4, SeenNext, Windows, SeenSpan DEF LeafInv
<1>6. \A p : ~Has(<<>>, <<>>, p) /\ ~Holds(Head(agenda), p)
  <2>1. Head(agenda)[1] \notin Declare
    BY NameNotCalm DEF Declare
  <2>2. DOMAIN <<>> = {}
    OBVIOUS
  <2>. QED  BY <2>1, <2>2 DEF Has, Holds
<1>7. ASSUME NEW p \in Seen + 1 .. Seen' PROVE Nameless(p)'
  <2>1. Seen = pos /\ p = pos + 1
    BY <1>5
  <2>2. input[pos] # "kType"
    BY <1>3, <1>5, <2>1, Agendas DEF Seen, Naming
  <2>3. Nameless(p)
    BY <1>3, <1>5, <2>1, <2>2 DEF Nameless
  <2>. QED  BY <1>1, <1>5, <2>1, <2>3, SameToken
<1>8. NewLeaves(<<>>, <<>>)
  BY <1>6, <1>7 DEF NewLeaves, OnceIn
<1>9. Seen <= Seen'
  BY <1>5
<1>10. LeafInv' /\ \A p \in 1 .. pos : Word(p) => (Taken(p)' <=> Taken(p))
  BY <1>1, <1>2, <1>4, <1>8, <1>9, LeafStep
<1>11. ASSUME NEW a \in Stacks, NEW c \in Stacks, Turns(Head(agenda), a, c)
       PROVE  Passes(1, a, c) /\ Closes(<<>>, c, c)
  <2>1. a = c
    BY <1>11, NameNotCalm, TurnsFlat DEF Bracket, BracketToken
  <2>2. ASSUME NEW p \in pos + 1 .. pos + 1 PROVE input[p] \notin BracketToken
    <3>1. TypeOf(input[p]) = "Ident"
      BY <1>5, <2>2 DEF peek
    <3>. QED  BY <3>1, BracketType DEF BracketToken
  <2>3. Passes(1, a, a)
    BY <1>5, <2>2, PassFlat
  <2>4. Closes(<<>>, a, a)
    <3>1. <<>> \in Seq(StillTask) /\ DOMAIN <<>> = {}
      OBVIOUS
    <3>. QED  BY <3>1, ClosesFlat
  <2>. QED  BY <2>1, <2>3, <2>4
<1>12. BracketsOK'
  BY <1>1, <1>2, <1>10, <1>11, BracketStep DEF Splices
<1>. QED  BY <1>10, <1>12

\* expect.
LEMMA ExpectTokenSound ==
    ASSUME IInv, IInv', LeafInv, BracketsOK, ExpectToken
    PROVE  LeafInv' /\ BracketsOK'
<1>1. Head(agenda)[1] = "expect" /\ outcome = "run" /\ arg = Head(agenda)[2]
  BY DEF ExpectToken, At, arg
<1>2. Head(agenda) = <<"expect", arg>>
  BY <1>1, HeadReady, HeadArg
<1>3. CASE raiseError
  BY <1>3, ErrorStep
<1>4. CASE Go(1, <<>>) /\ peek(0) = arg /\ arg = "Ident"
  BY <1>1, <1>2, <1>4, ExpectName DEF Expect, Task
<1>5. CASE Go(1, <<>>) /\ peek(0) = arg /\ arg # "Ident"
  <2>1. Head(agenda) # Expect("Ident") /\ Head(agenda)[1] \notin Declare
    <3>1. Head(agenda)[1] \notin Declare
      BY <1>1 DEF Declare
    <3>2. Head(agenda)[2] # "Ident"
      BY <1>1, <1>5
    <3>. QED  BY <3>1, <3>2, NameNotCalm
  <2>2. Calm(Head(agenda))
    BY <1>1, <2>1, HeadNames
  <2>3. arg \notin Operandlike /\ Bracket(Head(agenda)) = arg
    BY <1>1, <2>2 DEF Calm, Bracket
  <2>4. LeafFree(1)
    BY <1>5, <2>3, FreeToken
  <2>5. TypeOf(input[pos + 1]) = arg
    BY <1>5, SeenSpan DEF peek
  <2>6. ASSUME NEW a \in Stacks, NEW c \in Stacks, Turns(Head(agenda), a, c)
        PROVE  c = Read(a, input[pos + 1], FALSE) /\ Closes(<<>>, c, c)
    <3>1. c = Read(a, arg, FALSE)
      BY <2>3, <2>6 DEF Turns
    <3>2. ASSUME arg \in BracketToken PROVE c = Read(a, input[pos + 1], FALSE)
      <4>1. input[pos + 1] = arg
        BY <2>5, <3>2, BracketType
      <4>. QED  BY <3>1, <4>1
    <3>3. ASSUME arg \notin BracketToken PROVE c = Read(a, input[pos + 1], FALSE)
      <4>1. input[pos + 1] \notin BracketToken
        BY <2>5, <3>3, BracketType
      <4>2. Read(a, arg, FALSE) = a
        BY <3>3, ReadFlat
      <4>3. Read(a, input[pos + 1], FALSE) = a
        BY <4>1, ReadFlat
      <4>. QED  BY <3>1, <4>2, <4>3
    <3>4. Closes(<<>>, c, c)
      <4>1. <<>> \in Seq(StillTask) /\ DOMAIN <<>> = {}
        OBVIOUS
      <4>. QED  BY <4>1, ClosesFlat
    <3>. QED  BY <3>2, <3>3, <3>4
  <2>7. PICK seg \in Seq(QuietTask) : seg = <<>>
    <3>1. <<>> \in Seq(QuietTask)
      OBVIOUS
    <3>. QED  BY <3>1
  <2>8. Go(1, seg) /\ peek(0) \notin Operandlike
    BY <1>5, <2>3, <2>7
  <2>9. \A a, c \in Stacks : Turns(Head(agenda), a, c) =>
            \E b \in Stacks : Closes(seg, b, c) /\ b = Read(a, input[pos + 1], FALSE)
    BY <2>6, <2>7
  <2>. QED  BY <1>1, <2>1, <2>8, <2>9, QuietOne
<1>. QED  BY <1>3, <1>4, <1>5 DEF ExpectToken

\* match without a claim.
LEMMA SkipTokenSound ==
    ASSUME IInv, IInv', LeafInv, BracketsOK, SkipToken
    PROVE  LeafInv' /\ BracketsOK'
<1>1. Head(agenda)[1] = "skip" /\ outcome = "run" /\ arg = Head(agenda)[2]
  BY DEF SkipToken, At, arg
<1>2. arg \in {"Semi", "kAuto"}
  <2>1. Calm(Head(agenda))
    BY <1>1, HeadNames, NameNotCalm
  <2>. QED  BY <1>1, <2>1 DEF Calm
<1>3. PICK n \in {0, 1} : Go(n, <<>>) /\ (n = 1 => peek(0) = arg)
  BY DEF SkipToken
<1>4. n = 1 => peek(0) \notin BracketToken \cup Operandlike
  BY <1>2, <1>3 DEF BracketToken, Operandlike, Literal
<1>5. Head(agenda)[1] \notin Declare
  BY <1>1 DEF Declare
<1>. QED  BY <1>1, <1>3, <1>4, <1>5, HeadPlain, StillEnd

\* A returned id is ignored.
LEMMA DropIdSound ==
    ASSUME IInv, IInv', LeafInv, BracketsOK, DropId
    PROVE  LeafInv' /\ BracketsOK'
<1>1. Head(agenda)[1] = "drop" /\ outcome' = "run"
  BY DEF DropId, At
<1>2. Reads(0) /\ Then(<<>>) /\ tree' = tree
  BY AdvanceReads DEF IInv, LeafInv, DropId
<1>3. PICK nodes \in Seq(AnyNode) : nodes = <<>>
  <2>1. <<>> \in Seq(AnyNode)
    OBVIOUS
  <2>. QED  BY <2>1
<1>4. tree' = tree \o nodes /\ \A i \in DOMAIN nodes : Inner(nodes[i])
  <2>1. tree \in Seq(AnyNode)
    BY DEF IInv, Grown
  <2>. QED  BY <1>2, <1>3, <2>1
<1>5. Head(agenda)[1] \notin Declare
  BY <1>1 DEF Declare
<1>. QED  BY <1>1, <1>2, <1>4, <1>5, HeadPlain, StillCreate

\* A choice goes either way.
LEMMA ChooseSound ==
    ASSUME IInv, IInv', LeafInv, BracketsOK, Choose
    PROVE  LeafInv' /\ BracketsOK'
<1>1. Head(agenda)[1] \in {"when", "unless"} /\ outcome = "run" /\ arg = Head(agenda)[2]
  BY DEF Choose, At, arg
<1>2. arg \in ChoiceArg
  BY <1>1, HeadReady, HeadArg
<1>3. arg.n = 0 \/ arg.t \in {"Semi", "kElse", "Equals"}
  <2>1. Calm(Head(agenda))
    BY <1>1, HeadNames, NameNotCalm
  <2>. QED  BY <1>1, <2>1 DEF Calm
<1>4. arg.n \in {0, 1} /\ arg.tasks \in Seq(StillTask)
  BY <1>2, StillAlternatives DEF ChoiceArg
<1>5. /\ Head(agenda)[1] \notin Declare /\ Head(agenda) # Expect("Ident")
      /\ Bracket(Head(agenda)) \notin BracketToken
  BY <1>1, HeadPlain DEF Declare
<1>6. peek(0) = arg.t /\ arg.n = 1 => peek(0) \notin BracketToken \cup Operandlike
  BY <1>3 DEF BracketToken, Operandlike, Literal
<1>7. CASE Go(arg.n, arg.tasks) /\ peek(0) = arg.t
  BY <1>1, <1>4, <1>5, <1>6, <1>7, StillGo
<1>8. CASE Go(0, arg.tasks)
  BY <1>1, <1>4, <1>5, <1>8, StillGo
<1>9. CASE GoNull(arg.n) /\ peek(0) = arg.t
  BY <1>1, <1>4, <1>5, <1>6, <1>9, StillNull
<1>10. CASE GoNull(0)
  BY <1>1, <1>5, <1>10, StillNull
<1>. QED  BY <1>7, <1>8, <1>9, <1>10 DEF Choose

\* Further items of a list.
LEMMA MoreItemsSound ==
    ASSUME IInv, IInv', LeafInv, BracketsOK, MoreItems
    PROVE  LeafInv' /\ BracketsOK'
<1>1. Head(agenda)[1] = "more" /\ outcome = "run" /\ arg = Param
  BY HeadReady, HeadArg DEF MoreItems, At, arg
<1>2. /\ Head(agenda)[1] \notin Declare /\ Head(agenda) # Expect("Ident")
      /\ Bracket(Head(agenda)) \notin BracketToken
  BY <1>1, HeadPlain DEF Declare
<1>3. CASE peek(0) = "Comma" /\ Go(1, <<arg, Drop, More(arg)>>)
  <2>1. <<arg, Drop, More(arg)>> \in Seq(StillTask)
    BY <1>1, StillTasks
  <2>2. peek(0) \notin BracketToken \cup Operandlike
    BY <1>3 DEF BracketToken, Operandlike, Literal
  <2>. QED  BY <1>1, <1>2, <1>3, <2>1, <2>2, StillGo
<1>4. CASE Go(0, <<>>)
  BY <1>1, <1>2, <1>4, StillEnd
<1>. QED  BY <1>3, <1>4 DEF MoreItems

\* A node over ids is no leaf.
LEMMA BuildNodeSound ==
    ASSUME IInv, IInv', LeafInv, BracketsOK, BuildNode
    PROVE  LeafInv' /\ BracketsOK'
<1>1. Head(agenda)[1] = "build" /\ outcome' = "run"
  BY DEF BuildNode, At
<1>2. arg \in BuildTask
  BY <1>1, HeadReady, HeadArg DEF arg
<1> DEFINE held == Latest(arg.take)
           kids == [i \in DOMAIN arg.pick |-> IF arg.pick[i] = 0 THEN Null ELSE held[arg.pick[i]]]
           off  == IF arg.off = Here THEN Offset(pos + 1) ELSE arg.off
           len  == IF arg.kind = "UnaryExpr" /\ arg.op \in Prefix THEN 1 ELSE 0
           node == Node(arg.kind, off, len, arg.op, kids)
<1>3. tree' = tree \o <<node>> /\ Then(<<>>) /\ Stay
  BY DEF BuildNode, Create
<1>4. Inner(node)
  <2>1. node.len = len /\ node.kids = kids /\ node.kind = arg.kind
    BY DEF Node
  <2>2. ASSUME len = 1 PROVE arg.kind = "UnaryExpr" /\ kids # <<>>
    <3>1. arg.kind = "UnaryExpr"
      BY <2>2
    <3>2. Len(arg.pick) = 1 /\ arg.pick \in Seq(Nat)
      BY <1>2, <3>1 DEF BuildTask, BuildArg, Arity
    <3>3. DOMAIN arg.pick = 1 .. 1
      BY <3>2
    <3>4. DOMAIN kids = 1 .. 1
      BY <3>3
    <3>. HIDE DEF kids
    <3>5. kids # <<>>
      BY <3>4
    <3>. QED  BY <3>1, <3>5
  <2>. QED  BY <2>1, <2>2 DEF Inner, LeafKind
<1>. HIDE DEF node
<1>5. <<node>> \in Seq(AnyNode)
  <2>1. <<node>> \in Seq({node})
    OBVIOUS
  <2>. QED  BY <1>3, <2>1, NodesTyped
<1>6. Reads(0)
  BY <1>3, AdvanceReads DEF IInv, LeafInv
<1>7. Head(agenda)[1] \notin Declare
  BY <1>1 DEF Declare
<1>8. \A i \in DOMAIN <<node>> : Inner(<<node>>[i])
  BY <1>4
<1>. QED  BY <1>1, <1>3, <1>5, <1>6, <1>7, <1>8, HeadPlain, StillCreate

\* The first task is none that holds a leaf, demands a token or ends a block.
Undemanding == Head(agenda)[1] \notin Declare \cup {"block", "expect"} /\ outcome = "run"

\* What the first task is not.
LEMMA PlainHead ==
    ASSUME Undemanding
    PROVE  /\ Head(agenda)[1] \notin Declare /\ Head(agenda) # Expect("Ident") /\ outcome = "run"
           /\ Bracket(Head(agenda)) \notin BracketToken
           /\ \A a, c \in Stacks : Turns(Head(agenda), a, c) => a = c
<1>1. Head(agenda)[1] \notin {"block", "expect"} /\ Head(agenda)[1] \notin Declare
  BY DEF Undemanding
<1>2. Head(agenda) # Expect("Ident") /\ Bracket(Head(agenda)) \notin BracketToken
  BY <1>1, HeadPlain
<1>3. ASSUME NEW a \in Stacks, NEW c \in Stacks, Turns(Head(agenda), a, c) PROVE a = c
  BY <1>2, <1>3, TurnsFlat
<1>. QED  BY <1>1, <1>2, <1>3 DEF Undemanding

\* Consuming a token that is no operand and no bracket, with balanced tasks
\* behind it.
LEMMA KeywordGo ==
    ASSUME IInv, IInv', LeafInv, BracketsOK, Undemanding, NEW seg \in Seq(QuietTask), Go(1, seg),
           peek(0) \notin BracketToken \cup Operandlike, \A a \in Stacks : Closes(seg, a, a)
    PROVE  LeafInv' /\ BracketsOK'
<1>1. input[pos + 1] \notin BracketToken
  <2>1. TypeOf(input[pos + 1]) \notin BracketToken
    BY Windows, SeenSpan DEF peek
  <2>. QED  BY <2>1, BracketType
<1>2. \A a : Read(a, input[pos + 1], FALSE) = a
  BY <1>1, ReadFlat
<1>3. \A a, c \in Stacks : Turns(Head(agenda), a, c) =>
          \E b \in Stacks : Closes(seg, b, c) /\ b = Read(a, input[pos + 1], FALSE)
  BY <1>2, PlainHead
<1>4. peek(0) \notin Operandlike
  OBVIOUS
<1>. QED  BY <1>3, <1>4, PlainHead, QuietOne

\* What an opening bracket does.
LEMMA OpeningRead ==
    ASSUME IInv, NEW c \in {"Left", "SqLeft", "BrLeft"}, peek(0) = c, NEW a \in Stacks
    PROVE  /\ Append(a, Closing[c]) \in Stacks
           /\ Append(a, Closing[c]) = Read(a, input[pos + 1], FALSE)
           /\ peek(0) \notin Operandlike /\ Closing[c] \in {"Right", "SqRight", "BrRight"}
<1>1. TypeOf(input[pos + 1]) = c /\ c \in BracketToken /\ c \notin Operandlike
  BY SeenSpan DEF peek, BracketToken, Operandlike, Literal
<1>2. input[pos + 1] = c
  BY <1>1, BracketType
<1>. QED  BY <1>1, <1>2, ReadPair

\* Consuming an opening bracket, with the closing one behind it.
LEMMA OpenGo ==
    ASSUME IInv, IInv', LeafInv, BracketsOK, Undemanding, NEW seg \in Seq(QuietTask), Go(1, seg),
           NEW c \in {"Left", "SqLeft", "BrLeft"}, peek(0) = c,
           \A a \in Stacks : Closes(seg, Append(a, Closing[c]), a)
    PROVE  LeafInv' /\ BracketsOK'
<1>1. \A a, d \in Stacks : Turns(Head(agenda), a, d) =>
          \E b \in Stacks : Closes(seg, b, d) /\ b = Read(a, input[pos + 1], FALSE)
  BY PlainHead, OpeningRead
<1>2. peek(0) \notin Operandlike
  BY DEF Operandlike, Literal
<1>. QED  BY <1>1, <1>2, PlainHead, QuietOne

\* Balanced tasks, and a closing bracket demanded behind an expression.
LEMMA StillCloses ==
    ASSUME NEW s \in Seq(StillTask), NEW a \in Stacks
    PROVE  s \in Seq(QuietTask) /\ Closes(s, a, a)
BY QuietTasks, ClosesFlat

\* A demanded closing bracket.
LEMMA ExpectTurns ==
    ASSUME NEW c \in {"Right", "SqRight", "BrRight"}, NEW a \in Stacks
    PROVE  /\ Append(a, c) \in Stacks /\ Expect(c) \in QuietTask
           /\ Turns(Expect(c), Append(a, c), a)
<1>1. c \in BracketToken
  BY DEF BracketToken
<1>2. Bracket(Expect(c)) = c /\ Expect(c) \in QuietTask
  BY <1>1, QuietTasks
<1>3. Append(a, c) \in Stacks /\ Read(Append(a, c), c, FALSE) = a
  BY ReadPair
<1>. QED  BY <1>2, <1>3 DEF Turns

\* An opening bracket demanded.
LEMMA ExpectOpens ==
    ASSUME NEW a \in Stacks
    PROVE  /\ Append(a, "Right") \in Stacks /\ Expect("Left") \in QuietTask
           /\ Turns(Expect("Left"), a, Append(a, "Right"))
<1>1. "Left" \in BracketToken
  BY DEF BracketToken
<1>2. Bracket(Expect("Left")) = "Left" /\ Expect("Left") \in QuietTask
  BY <1>1, QuietTasks
<1>3. Append(a, "Right") \in Stacks /\ Read(a, "Left", FALSE) = Append(a, "Right")
  BY ReadPair
<1>. QED  BY <1>2, <1>3 DEF Turns

\* One bracket demanded, and tasks without any behind it.
LEMMA ClosesFirst ==
    ASSUME NEW t \in QuietTask, NEW s \in Seq(StillTask), NEW a, NEW b, Turns(t, a, b)
    PROVE  <<t>> \o s \in Seq(QuietTask) /\ Closes(<<t>> \o s, a, b)
<1>1. a \in Stacks /\ b \in Stacks /\ s \in Seq(QuietTask)
  BY QuietTasks DEF Turns
<1>2. PICK u \in Seq(QuietTask) : u = <<t>> /\ DOMAIN u = 1 .. 1 /\ u[1] = t
  <2>1. <<t>> \in Seq(QuietTask) /\ DOMAIN <<t>> = 1 .. 1 /\ <<t>>[1] = t
    OBVIOUS
  <2>. QED  BY <2>1
<1>3. Closes(u, a, b)
  <2>1. 1 \in DOMAIN u /\ \A k \in DOMAIN u : k = 1
    BY <1>2
  <2>. QED  BY <1>2, <2>1, ClosesAt
<1>4. Closes(s, b, b)
  BY <1>1, StillCloses
<1>5. Closes(u \o s, a, b) /\ u \o s \in Seq(QuietTask)
  BY <1>1, <1>3, <1>4, ClosesConcat, ConcatProperties
<1>. QED  BY <1>2, <1>5

\* Tasks without brackets, then the closing one, then others without.
LEMMA ClosesBehind ==
    ASSUME NEW r \in Seq(StillTask), NEW c \in {"Right", "SqRight", "BrRight"},
           NEW s \in Seq(StillTask), NEW a \in Stacks
    PROVE  /\ r \o (<<Expect(c)>> \o s) \in Seq(QuietTask)
           /\ Closes(r \o (<<Expect(c)>> \o s), Append(a, c), a)
<1>1. Append(a, c) \in Stacks /\ Expect(c) \in QuietTask /\ Turns(Expect(c), Append(a, c), a)
  BY ExpectTurns
<1>2. PICK u \in Seq(QuietTask) : u = <<Expect(c)>> \o s /\ Closes(u, Append(a, c), a)
  BY <1>1, ClosesFirst
<1>3. r \in Seq(QuietTask) /\ Closes(r, Append(a, c), Append(a, c))
  BY <1>1, StillCloses
<1>4. Closes(r \o u, Append(a, c), a) /\ r \o u \in Seq(QuietTask)
  BY <1>2, <1>3, ClosesConcat, ConcatProperties
<1>. QED  BY <1>2, <1>4

\* The same in parentheses demanded both.
LEMMA ClosesParens ==
    ASSUME NEW r \in Seq(StillTask), NEW s \in Seq(StillTask), NEW a \in Stacks
    PROVE  /\ <<Expect("Left")>> \o r \o (<<Expect("Right")>> \o s) \in Seq(QuietTask)
           /\ Closes(<<Expect("Left")>> \o r \o (<<Expect("Right")>> \o s), a, a)
<1>1. /\ Append(a, "Right") \in Stacks /\ Expect("Left") \in QuietTask
      /\ Turns(Expect("Left"), a, Append(a, "Right"))
  BY ExpectOpens
<1>2. PICK u \in Seq(QuietTask) : u = <<Expect("Left")>> \o r /\ Closes(u, a, Append(a, "Right"))
  BY <1>1, ClosesFirst
<1>3. Expect("Right") \in QuietTask /\ Turns(Expect("Right"), Append(a, "Right"), a)
  BY ExpectTurns
<1>4. PICK w \in Seq(QuietTask) : w = <<Expect("Right")>> \o s /\ Closes(w, Append(a, "Right"), a)
  BY <1>3, ClosesFirst
<1>5. Closes(u \o w, a, a) /\ u \o w \in Seq(QuietTask)
  BY <1>2, <1>4, ClosesConcat, ConcatProperties
<1>. QED  BY <1>2, <1>4, <1>5

\* Consuming an opening bracket, with its closing one demanded among tasks
\* that have none.
LEMMA OpenBehind ==
    ASSUME IInv, IInv', LeafInv, BracketsOK, Undemanding,
           NEW c \in {"Left", "SqLeft", "BrLeft"}, peek(0) = c,
           NEW r \in Seq(StillTask), NEW s \in Seq(StillTask),
           Go(1, r \o (<<Expect(Closing[c])>> \o s))
    PROVE  LeafInv' /\ BracketsOK'
<1>1. <<>> \in Stacks
  BY DEF Stacks
<1>2. Closing[c] \in {"Right", "SqRight", "BrRight"}
  BY <1>1, OpeningRead
<1>3. PICK seg \in Seq(QuietTask) : /\ seg = r \o (<<Expect(Closing[c])>> \o s)
                                     /\ \A a \in Stacks : Closes(seg, Append(a, Closing[c]), a)
  <2>1. r \o (<<Expect(Closing[c])>> \o s) \in Seq(QuietTask)
    BY <1>1, <1>2, ClosesBehind
  <2>2. \A a \in Stacks : Closes(r \o (<<Expect(Closing[c])>> \o s), Append(a, Closing[c]), a)
    BY <1>2, ClosesBehind
  <2>. QED  BY <2>1, <2>2
<1>4. Go(1, seg)
  BY <1>3
<1>. QED  BY <1>3, <1>4, OpenGo

\* A sequence that begins with t.
LEMMA JoinOne ==
    ASSUME NEW S, NEW t \in S, NEW s \in Seq(S), NEW x \in Seq(S), Len(x) = Len(s) + 1,
           x[1] = t, \A k \in 1 .. Len(s) : x[k + 1] = s[k]
    PROVE  <<t>> \o s = x
<1>1. PICK z \in Seq(S) : z = <<t>> /\ Len(z) = 1 /\ z[1] = t
  <2>1. <<t>> \in Seq(S) /\ Len(<<t>>) = 1 /\ <<t>>[1] = t
    OBVIOUS
  <2>. QED  BY <2>1
<1>2. PICK n \in Nat : n = Len(s)
  OBVIOUS
<1>3. PICK w : w = z \o s
  OBVIOUS
<1>4. w \in Seq(S) /\ Len(w) = n + 1 /\ \A i \in 1 .. n + 1 : w[i] = IF i <= 1 THEN z[i] ELSE s[i - 1]
  <2>1. w \in Seq(S) /\ Len(w) = 1 + n /\ \A i \in 1 .. 1 + n : w[i] = IF i <= 1 THEN z[i] ELSE s[i - 1]
    BY <1>1, <1>2, <1>3, ConcatProperties
  <2>2. 1 + n = n + 1
    OBVIOUS
  <2>. QED  BY <2>1, <2>2
<1>5. ASSUME NEW i \in 1 .. n + 1 PROVE w[i] = x[i]
  <2>1. CASE i = 1
    BY <1>1, <1>4, <2>1
  <2>2. CASE i > 1
    <3>1. PICK k \in 1 .. n : k + 1 = i /\ i - 1 = k
      <4>1. i - 1 \in 1 .. n /\ i - 1 + 1 = i
        BY <1>2, <2>2
      <4>. QED  BY <4>1
    <3>2. ~(i <= 1)
      BY <2>2
    <3>3. x[i] = s[k]
      BY <1>2, <3>1
    <3>. QED  BY <1>4, <3>1, <3>2, <3>3
  <2>. QED  BY <2>1, <2>2
<1>6. w = x
  BY <1>2, <1>4, <1>5, SeqEqual
<1>. QED  BY <1>1, <1>3, <1>6

\* A task before one or two.
LEMMA JoinTasks ==
    ASSUME NEW t, NEW u, NEW v
    PROVE  /\ <<t>> \o <<u>> = <<t, u>>
           /\ <<t>> \o <<u, v>> = <<t, u, v>>
<1>. PICK S : t \in S /\ u \in S /\ v \in S
  <2>1. t \in {t, u, v} /\ u \in {t, u, v} /\ v \in {t, u, v}
    OBVIOUS
  <2>. QED  BY <2>1
<1>1. <<t>> \o <<u>> = <<t, u>>
  <2>1. PICK s \in Seq(S) : s = <<u>> /\ Len(s) = 1 /\ s[1] = u
    <3>1. <<u>> \in Seq(S) /\ Len(<<u>>) = 1
      OBVIOUS
    <3>. QED  BY <3>1
  <2>2. PICK x \in Seq(S) : x = <<t, u>> /\ Len(x) = 2 /\ x[1] = t /\ x[2] = u
    <3>1. <<t, u>> \in Seq(S) /\ Len(<<t, u>>) = 2
      OBVIOUS
    <3>. QED  BY <3>1
  <2>3. \A k \in 1 .. 1 : k = 1
    OBVIOUS
  <2>4. Len(x) = Len(s) + 1 /\ x[1] = t /\ \A k \in 1 .. Len(s) : x[k + 1] = s[k]
    BY <2>1, <2>2, <2>3
  <2>5. <<t>> \o s = x
    BY <2>4, JoinOne
  <2>. QED  BY <2>1, <2>2, <2>5
<1>2. <<t>> \o <<u, v>> = <<t, u, v>>
  <2>1. PICK s \in Seq(S) : s = <<u, v>> /\ Len(s) = 2 /\ s[1] = u /\ s[2] = v
    <3>1. <<u, v>> \in Seq(S) /\ Len(<<u, v>>) = 2
      OBVIOUS
    <3>. QED  BY <3>1
  <2>2. PICK x \in Seq(S) : x = <<t, u, v>> /\ Len(x) = 3 /\ x[1] = t /\ x[2] = u /\ x[3] = v
    <3>1. <<t, u, v>> \in Seq(S) /\ Len(<<t, u, v>>) = 3
      OBVIOUS
    <3>. QED  BY <3>1
  <2>3. \A k \in 1 .. 2 : k = 1 \/ k = 2
    OBVIOUS
  <2>4. Len(x) = Len(s) + 1 /\ x[1] = t /\ \A k \in 1 .. Len(s) : x[k + 1] = s[k]
    BY <2>1, <2>2, <2>3
  <2>5. <<t>> \o s = x
    BY <2>4, JoinOne
  <2>. QED  BY <2>1, <2>2, <2>5
<1>. QED  BY <1>1, <1>2

\* A task before three.
LEMMA JoinThree ==
    ASSUME NEW t, NEW u, NEW v, NEW w
    PROVE  <<t>> \o <<u, v, w>> = <<t, u, v, w>>
<1>. PICK S : t \in S /\ u \in S /\ v \in S /\ w \in S
  <2>1. t \in {t, u, v, w} /\ u \in {t, u, v, w} /\ v \in {t, u, v, w} /\ w \in {t, u, v, w}
    OBVIOUS
  <2>. QED  BY <2>1
<1>1. PICK s \in Seq(S) : s = <<u, v, w>> /\ Len(s) = 3 /\ s[1] = u /\ s[2] = v /\ s[3] = w
  <2>1. <<u, v, w>> \in Seq(S) /\ Len(<<u, v, w>>) = 3
    OBVIOUS
  <2>. QED  BY <2>1
<1>2. PICK x \in Seq(S) : x = <<t, u, v, w>> /\ Len(x) = 4 /\ x[1] = t /\ x[2] = u /\ x[3] = v /\ x[4] = w
  <2>1. <<t, u, v, w>> \in Seq(S) /\ Len(<<t, u, v, w>>) = 4
    OBVIOUS
  <2>. QED  BY <2>1
<1>3. \A k \in 1 .. 3 : k = 1 \/ k = 2 \/ k = 3
  OBVIOUS
<1>4. Len(x) = Len(s) + 1 /\ x[1] = t /\ \A k \in 1 .. Len(s) : x[k + 1] = s[k]
  BY <1>1, <1>2, <1>3
<1>5. <<t>> \o s = x
  BY <1>4, JoinOne
<1>. QED  BY <1>1, <1>2, <1>5

\* Nodes of one, two and three links, and of four to choose from.
LEMMA StillBuilds ==
    ASSUME NEW off \in Nat \cup {Here}, NEW op \in TokenType \cup {NoOp}, NEW kind \in NodeKind
    PROVE  /\ Build(kind, off, op, 1, <<1>>) \in StillTask
           /\ Build(kind, off, op, 2, <<1, 2>>) \in StillTask
           /\ Build(kind, off, op, 3, <<1, 2, 3>>) \in StillTask
           /\ Build(kind, off, op, 2, <<1, 2, 0>>) \in StillTask
           /\ Build(kind, off, op, 4, <<2, 4, 1>>) \in StillTask
           /\ Build(kind, off, op, 0, <<0>>) \in StillTask
<1>1. /\ <<1>> \in Seq(Nat) /\ <<1, 2>> \in Seq(Nat) /\ <<1, 2, 3>> \in Seq(Nat)
      /\ <<1, 2, 0>> \in Seq(Nat) /\ <<2, 4, 1>> \in Seq(Nat) /\ <<0>> \in Seq(Nat)
  OBVIOUS
<1>2. /\ Build(kind, off, op, 1, <<1>>) \in StillTask
      /\ Build(kind, off, op, 2, <<1, 2>>) \in StillTask
      /\ Build(kind, off, op, 3, <<1, 2, 3>>) \in StillTask
  BY <1>1, StillBuild
<1>3. /\ Build(kind, off, op, 2, <<1, 2, 0>>) \in StillTask
      /\ Build(kind, off, op, 4, <<2, 4, 1>>) \in StillTask
      /\ Build(kind, off, op, 0, <<0>>) \in StillTask
  BY <1>1, StillBuild
<1>. QED  BY <1>2, <1>3

-----------------------------------------------------------------------------
(* Expressions.                                                            *)

\* if and eval close what they open.
LEMMA ClosesConditional ==
    ASSUME NEW off \in Nat
    PROVE  /\ Conditional(off) \in Seq(QuietTask)
           /\ \A a \in Stacks : Closes(Conditional(off), a, a)
<1> DEFINE else  == When("kElse", 1, <<Statement>>)
           build == Build("EvalExpr", off, NoOp, 3, <<1, 2, 3>>)
<1>1. else \in StillTask
  <2>1. <<Statement>> \in Alternatives
    BY DEF Alternatives
  <2>. QED  BY <2>1, NamedTokens, StillChoice
<1>2. build \in StillTask
  <2>1. "EvalExpr" \in NodeKind
    BY DEF NodeKind
  <2>. QED  BY <2>1, StillBuilds
<1>. HIDE DEF else, build
<1>3. <<Statement, else, build>> \in Seq(StillTask) /\ Expression(0) \in Seq(StillTask)
  BY <1>1, <1>2, StillTasks
<1>4. PICK s \in Seq(StillTask) : s = <<Statement, else, build>>
  BY <1>3
<1>5. /\ <<Expect("Left")>> \o Expression(0) \o (<<Expect("Right")>> \o s) \in Seq(QuietTask)
      /\ \A a \in Stacks : Closes(<<Expect("Left")>> \o Expression(0) \o (<<Expect("Right")>> \o s), a, a)
  <2>1. PICK r \in Seq(StillTask) : r = Expression(0)
    BY <1>3
  <2>2. \A a \in Stacks : /\ <<Expect("Left")>> \o r \o (<<Expect("Right")>> \o s) \in Seq(QuietTask)
                          /\ Closes(<<Expect("Left")>> \o r \o (<<Expect("Right")>> \o s), a, a)
    BY ClosesParens
  <2>3. <<>> \in Stacks
    BY DEF Stacks
  <2>. QED  BY <2>1, <2>2, <2>3
<1>6. <<Expect("Right")>> \o s = <<Expect("Right"), Statement, else, build>>
  BY <1>4, JoinThree
<1>. QED  BY <1>5, <1>6 DEF Conditional, else, build

\* A binary operator.
LEMMA BinaryOperatorSound ==
    ASSUME IInv, IInv', LeafInv, BracketsOK, BinaryOperator
    PROVE  LeafInv' /\ BracketsOK'
<1>1. Head(agenda)[1] = "operators" /\ outcome = "run" /\ arg \in Nat
  BY HeadReady, HeadArg DEF BinaryOperator, At, arg
<1>2. Undemanding
  BY <1>1 DEF Undemanding, Declare
<1>3. PICK prec \in Nat : prec = Precedence(peek(0))
  BY PrecedenceNumber
<1>4. CASE Go(0, <<>>)
  BY <1>2, <1>4, PlainHead, StillEnd
<1> DEFINE build == Build("BinaryExpr", Offset(pos + 1), peek(0), 2, <<1, 2>>)
<1>5. CASE Go(1, Expression(prec + 1) \o <<build, Operators(arg)>>) /\ prec # 0
  <2>1. build \in StillTask
    <3>1. "BinaryExpr" \in NodeKind
      BY DEF NodeKind
    <3>. QED  BY <3>1, StillBuilds, WindowTokens
  <2>. HIDE DEF build
  <2>2. <<build, Operators(arg)>> \in Seq(StillTask) /\ Expression(prec + 1) \in Seq(StillTask)
    BY <1>1, <2>1, StillTasks
  <2>3. Expression(prec + 1) \o <<build, Operators(arg)>> \in Seq(StillTask)
    BY <2>2, ConcatProperties
  <2>4. peek(0) \notin BracketToken \cup Operandlike
    BY <1>3, <1>5, OperatorToken
  <2>. QED  BY <1>2, <1>5, <2>3, <2>4, PlainHead, StillGo
<1>. QED  BY <1>3, <1>4, <1>5 DEF BinaryOperator

\* A prefix operator.
LEMMA PrefixOperatorSound ==
    ASSUME IInv, IInv', LeafInv, BracketsOK, PrefixOperator
    PROVE  LeafInv' /\ BracketsOK'
<1> DEFINE build == Build("UnaryExpr", Offset(pos + 1), peek(0), 1, <<1>>)
<1>1. Go(1, <<Primary, build, Postfix>>) /\ peek(0) \in Prefix /\ Undemanding
  BY DEF PrefixOperator, PrimaryFrom, At, Undemanding, Declare
<1>2. build \in StillTask
  <2>1. "UnaryExpr" \in NodeKind
    BY DEF NodeKind
  <2>. QED  BY <2>1, StillBuilds, WindowTokens
<1>. HIDE DEF build
<1>3. <<Primary, build, Postfix>> \in Seq(StillTask)
  BY <1>2, StillTasks
<1>4. peek(0) \notin BracketToken \cup Operandlike
  BY <1>1 DEF Prefix, BracketToken, Operandlike, Literal
<1>. QED  BY <1>1, <1>3, <1>4, PlainHead, StillGo

\* eval.
LEMMA parseEvalExpressionSound ==
    ASSUME IInv, IInv', LeafInv, BracketsOK, parseEvalExpression
    PROVE  LeafInv' /\ BracketsOK'
<1>1. Go(1, Conditional(Offset(pos + 1)) \o <<Postfix>>) /\ peek(0) = "kEval" /\ Undemanding
  BY DEF parseEvalExpression, PrimaryFrom, At, Undemanding, Declare
<1>2. PICK s \in Seq(QuietTask) : s = Conditional(Offset(pos + 1)) /\ \A a \in Stacks : Closes(s, a, a)
  BY WindowTokens, ClosesConditional
<1>3. PICK u \in Seq(StillTask) : u = <<Postfix>>
  <2>1. <<Postfix>> \in Seq(StillTask)
    BY StillTasks
  <2>. QED  BY <2>1
<1>4. u \in Seq(QuietTask) /\ \A a \in Stacks : Closes(u, a, a)
  BY StillCloses, QuietTasks
<1>5. s \o u \in Seq(QuietTask) /\ \A a \in Stacks : Closes(s \o u, a, a)
  BY <1>2, <1>4, ClosesConcat, ConcatProperties
<1>6. peek(0) \notin BracketToken \cup Operandlike
  BY <1>1 DEF BracketToken, Operandlike, Literal
<1>. QED  BY <1>1, <1>2, <1>3, <1>5, <1>6, KeywordGo

\* What delete leaves to do.
LEMMA StillDelete ==
    ASSUME NEW off \in Nat
    PROVE  Delete(off) \in Seq(StillTask)
<1>1. Build("DeleteExpr", off, NoOp, 1, <<1>>) \in StillTask
  <2>1. "DeleteExpr" \in NodeKind
    BY DEF NodeKind
  <2>. QED  BY <2>1, StillBuilds
<1>. QED  BY <1>1, StillTasks DEF Delete

\* delete in parentheses.
LEMMA DeleteInParenthesesSound ==
    ASSUME IInv, IInv', LeafInv, BracketsOK, DeleteInParentheses
    PROVE  LeafInv' /\ BracketsOK'
<1> DEFINE build == Build("CastExpr", Here, NoOp, 1, <<1>>)
<1>1. /\ Go(2, Delete(Offset(pos + 2)) \o <<Expect("Right"), build, Postfix>>)
      /\ peek(0) = "Left" /\ peek(1) = "kDelete" /\ Undemanding
  BY DEF DeleteInParentheses, PrimaryFrom, At, Undemanding, Declare
<1>2. build \in StillTask
  <2>1. "CastExpr" \in NodeKind
    BY DEF NodeKind
  <2>. QED  BY <2>1, StillBuilds
<1>. HIDE DEF build
<1>3. PICK r \in Seq(StillTask) : r = Delete(Offset(pos + 2))
  BY WindowTokens, StillDelete
<1>4. PICK s \in Seq(StillTask) : s = <<build, Postfix>>
  <2>1. <<build, Postfix>> \in Seq(StillTask)
    BY <1>2, StillTasks
  <2>. QED  BY <2>1
<1>5. <<Expect("Right")>> \o s = <<Expect("Right"), build, Postfix>>
  BY <1>4, JoinTasks
<1>6. PICK seg \in Seq(QuietTask) : /\ seg = r \o (<<Expect("Right")>> \o s)
                                     /\ \A a \in Stacks : Closes(seg, Append(a, "Right"), a)
  <2>1. r \o (<<Expect("Right")>> \o s) \in Seq(QuietTask)
    <3>1. <<>> \in Stacks
      BY DEF Stacks
    <3>. QED  BY <3>1, ClosesBehind
  <2>2. \A a \in Stacks : Closes(r \o (<<Expect("Right")>> \o s), Append(a, "Right"), a)
    BY ClosesBehind
  <2>. QED  BY <2>1, <2>2
<1>7. Go(2, seg)
  BY <1>1, <1>3, <1>5, <1>6
<1>8. LeafFree(2)
  BY <1>1, FreeToken DEF Operandlike, Literal
<1>9. ASSUME NEW p \in Nat, p = pos + 2 PROVE input[p] \notin BracketToken
  <2>1. TypeOf(input[p]) = "kDelete"
    BY <1>1, <1>9, SeenSpan DEF peek
  <2>. QED  BY <2>1, BracketType DEF BracketToken
<1>10. ASSUME NEW a \in Stacks, NEW c \in Stacks, Turns(Head(agenda), a, c)
       PROVE  /\ Closes(seg, Append(a, "Right"), c) /\ Append(a, "Right") \in Stacks
              /\ Append(a, "Right") = Read(a, input[pos + 1], FALSE)
  <2>1. a = c
    BY <1>1, <1>10, PlainHead
  <2>2. Closing["Left"] = "Right"
    BY ReadPair
  <2>3. Append(a, "Right") \in Stacks /\ Append(a, "Right") = Read(a, input[pos + 1], FALSE)
    BY <1>1, <2>2, OpeningRead
  <2>. QED  BY <1>6, <2>1, <2>3
<1>11. PICK n \in {0, 1, 2} : n = 2
  OBVIOUS
<1>12. Balances(n, seg)
  <2>1. ~(n = 0)
    BY <1>11
  <2>. QED  BY <1>10, <2>1 DEF Balances
<1>13. Go(n, seg) /\ LeafFree(n) /\ SecondFlat(n)
  BY <1>7, <1>8, <1>9, <1>11 DEF SecondFlat
<1>14. /\ Head(agenda)[1] \notin Declare /\ Head(agenda) # Expect("Ident") /\ outcome = "run"
  BY <1>1, PlainHead
<1>. QED  BY <1>12, <1>13, <1>14, QuietGo

\* An expression in parentheses.
LEMMA ParenthesizedSound ==
    ASSUME IInv, IInv', LeafInv, BracketsOK, Parenthesized
    PROVE  LeafInv' /\ BracketsOK'
<1>1. Go(1, Expression(0) \o <<Expect("Right"), Postfix>>) /\ peek(0) = "Left" /\ Undemanding
  BY DEF Parenthesized, PrimaryFrom, At, Undemanding, Declare
<1>2. PICK s \in Seq(StillTask) : s = <<Postfix>>
  <2>1. <<Postfix>> \in Seq(StillTask)
    BY StillTasks
  <2>. QED  BY <2>1
<1>3. <<Expect("Right")>> \o s = <<Expect("Right"), Postfix>>
  BY <1>2, JoinTasks
<1>4. PICK r \in Seq(StillTask) : r = Expression(0)
  BY StillTasks
<1>5. Closing["Left"] = "Right"
  BY DEF Closing
<1>6. Go(1, r \o (<<Expect(Closing["Left"])>> \o s))
  BY <1>1, <1>3, <1>4, <1>5
<1>. QED  BY <1>1, <1>6, OpenBehind

\* A block's node links to nothing, and its brace closes it.
LEMMA OpenBlockSound ==
    ASSUME IInv, IInv', LeafInv, BracketsOK, OpenBlock
    PROVE  LeafInv' /\ BracketsOK'
<1> DEFINE node == Node("TranslationUnit", Offset(pos + 2), 0, NoOp, <<>>)
<1>1. Undemanding /\ peek(0) = "BrLeft" /\ outcome' = "run" /\ tree' = tree \o <<node>> /\ Advance(1)
  BY DEF OpenBlock, At, Undemanding, Declare, Create
<1>2. node.len = 0
  BY DEF Node
<1>. HIDE DEF node
<1>3. PICK nodes \in Seq(AnyNode) : nodes = <<node>> /\ \A i \in DOMAIN nodes : Inner(nodes[i])
  <2>1. <<node>> \in Seq({node})
    OBVIOUS
  <2>2. <<node>> \in Seq(AnyNode)
    BY <1>1, <2>1, NodesTyped
  <2>3. Inner(node)
    BY <1>2 DEF Inner
  <2>4. \A i \in DOMAIN <<node>> : Inner(<<node>>[i])
    BY <2>3
  <2>. QED  BY <2>2, <2>4
<1>4. PICK rest \in Seq(StillTask) : Then(<<Block>> \o rest)
  <2>1. <<Postfix>> \in Seq(StillTask) /\ <<>> \in Seq(StillTask)
    BY StillTasks
  <2>2. PICK rest \in {<<Postfix>>, <<>>} : Then(<<Block>> \o rest)
    BY DEF OpenBlock
  <2>. QED  BY <2>1, <2>2
<1>5. ASSUME NEW a \in Stacks
      PROVE  /\ <<Block>> \o rest \in Seq(QuietTask)
             /\ Append(a, "BrRight") \in Stacks /\ Closes(<<Block>> \o rest, Append(a, "BrRight"), a)
  <2>1. Append(a, "BrRight") \in Stacks /\ Read(Append(a, "BrRight"), "BrRight", FALSE) = a
    BY ReadPair
  <2>2. Block \in QuietTask /\ Turns(Block, Append(a, "BrRight"), a)
    BY <2>1, QuietTasks DEF Turns
  <2>. QED  BY <2>1, <2>2, ClosesFirst
<1>6. PICK seg \in Seq(QuietTask) : seg = <<Block>> \o rest
  <2>1. <<>> \in Stacks
    BY DEF Stacks
  <2>. QED  BY <1>5, <2>1
<1>7. PICK n \in {0, 1, 2} : n = 1
  OBVIOUS
<1>8. Reads(n) /\ LeafFree(n) /\ Undeclared /\ agenda' = seg \o Tail(agenda)
  <2>1. Reads(1)
    BY <1>1, AdvanceReads DEF IInv, LeafInv
  <2>2. peek(0) \notin Operandlike
    BY <1>1 DEF Operandlike, Literal
  <2>. QED  BY <1>1, <1>4, <1>6, <1>7, <2>1, <2>2, FreeToken, PlainHead DEF Undeclared, Then
<1>9. ASSUME NEW a \in Stacks, NEW c \in Stacks, Turns(Head(agenda), a, c)
      PROVE  \E b \in Stacks : Closes(seg, b, c) /\ b = Read(a, input[pos + 1], FALSE)
  <2>1. a = c
    BY <1>1, <1>9, PlainHead
  <2>2. Closing["BrLeft"] = "BrRight"
    BY ReadPair
  <2>3. Append(a, "BrRight") = Read(a, input[pos + 1], FALSE)
    BY <1>1, <2>2, OpeningRead
  <2>. QED  BY <1>5, <1>6, <2>1, <2>3
<1>10. \A a, c \in Stacks : Turns(Head(agenda), a, c) =>
           \E b \in Stacks : /\ Closes(seg, b, c)
                             /\ n = 0 => b = a
                             /\ n > 0 => b = Read(a, input[pos + 1], FALSE)
  <2>1. ~(n = 0)
    BY <1>7
  <2>. QED  BY <1>9, <2>1
<1>11. \A p \in Nat : p = pos + 2 /\ n = 2 => input[p] \notin BracketToken
  BY <1>7
<1>12. tree' = tree \o nodes
  BY <1>1, <1>3
<1>. QED  BY <1>3, <1>8, <1>10, <1>11, <1>12, QuietStep

\* A block ends with its brace.
LEMMA BlockLoopSound ==
    ASSUME IInv, IInv', LeafInv, BracketsOK, BlockLoop
    PROVE  LeafInv' /\ BracketsOK'
<1>1. Head(agenda)[1] = "block" /\ outcome = "run"
  BY DEF BlockLoop, At
<1>2. Head(agenda)[1] \notin Declare /\ Head(agenda) # Expect("Ident") /\ Bracket(Head(agenda)) = "BrRight"
  <2>1. Head(agenda)[1] # "expect"
    BY <1>1
  <2>. QED  BY <1>1, <2>1, NameNotCalm DEF Declare, Bracket
<1>3. CASE raiseError
  BY <1>3, ErrorStep
<1>4. CASE Go(1, <<>>) /\ peek(0) = "BrRight"
  <2>1. PICK seg \in Seq(QuietTask) : seg = <<>> /\ \A c \in Stacks : Closes(seg, c, c)
    <3>1. <<>> \in Seq(StillTask)
      OBVIOUS
    <3>. QED  BY <3>1, StillCloses, QuietTasks
  <2>2. input[pos + 1] = "BrRight"
    <3>1. TypeOf(input[pos + 1]) = "BrRight" /\ "BrRight" \in BracketToken
      BY <1>4, SeenSpan DEF peek, BracketToken
    <3>. QED  BY <3>1, BracketType
  <2>3. \A a, c \in Stacks : Turns(Head(agenda), a, c) =>
            \E b \in Stacks : Closes(seg, b, c) /\ b = Read(a, input[pos + 1], FALSE)
    BY <1>2, <2>1, <2>2 DEF Turns
  <2>4. Go(1, seg) /\ peek(0) \notin Operandlike
    BY <1>4, <2>1 DEF Operandlike, Literal
  <2>. QED  BY <1>1, <1>2, <2>3, <2>4, QuietOne
<1>5. CASE Go(0, <<Statement, Drop, Block>>)
  <2>1. PICK r \in Seq(StillTask) : r = <<Statement, Drop>>
    <3>1. <<Statement, Drop>> \in Seq(StillTask)
      BY StillTasks
    <3>. QED  BY <3>1
  <2>2. PICK seg \in Seq(QuietTask) : seg = <<Statement, Drop, Block>>
    <3>1. <<Statement, Drop, Block>> \in Seq(QuietTask)
      BY StillTasks, StillIsFlat, QuietTasks
    <3>. QED  BY <3>1
  <2>3. /\ DOMAIN seg = 1 .. 3 /\ seg[1] = Statement /\ seg[2] = Drop /\ seg[3] = Block
        /\ Bracket(Statement) \notin BracketToken /\ Bracket(Drop) \notin BracketToken
    BY <2>2, StillTasks, StillIsFlat
  <2>4. ASSUME NEW a \in Stacks, NEW c \in Stacks, Turns(Head(agenda), a, c)
        PROVE  Closes(seg, a, c)
    <3>1. Turns(seg[3], a, c)
      BY <1>2, <2>3, <2>4, QuietTasks DEF Turns
    <3>2. 3 \in DOMAIN seg /\ \A k \in DOMAIN seg : k # 3 => Bracket(seg[k]) \notin BracketToken
      BY <2>3
    <3>. QED  BY <3>1, <3>2, ClosesAt
  <2>5. Go(0, seg)
    BY <1>5, <2>2
  <2>. QED  BY <1>1, <1>2, <2>4, <2>5, QuietNone
<1>. QED  BY <1>3, <1>4, <1>5 DEF BlockLoop

\* A missing operand.
LEMMA NoPrimarySound ==
    ASSUME IInv, IInv', LeafInv, BracketsOK, NoPrimary
    PROVE  LeafInv' /\ BracketsOK'
BY ErrorStep DEF NoPrimary

\* A call's arguments are in parentheses.
LEMMA CallSound ==
    ASSUME IInv, IInv', LeafInv, BracketsOK, Call
    PROVE  LeafInv' /\ BracketsOK'
<1> DEFINE build == Build("CallExpr", Here, NoOp, 2, <<1, 2>>)
           first == Unless("Right", 0, Expression(0))
<1>1. /\ Undemanding /\ peek(0) = "Left"
      /\ Go(1, <<first>> \o <<Task("arguments", 0), Expect("Right"), build, Postfix>>)
  BY DEF Call, At, Undemanding, Declare
<1>2. build \in StillTask
  <2>1. "CallExpr" \in NodeKind
    BY DEF NodeKind
  <2>. QED  BY <2>1, StillBuilds
<1>3. first \in StillTask
  <2>1. Expression(0) \in Alternatives
    BY DEF Alternatives
  <2>. QED  BY <2>1, NamedTokens, StillChoice
<1>. HIDE DEF build, first
<1>4. PICK f \in Seq(StillTask) : f = <<first>>
  <2>1. <<first>> \in Seq(StillTask)
    BY <1>3
  <2>. QED  BY <2>1
<1>5. PICK r \in Seq(StillTask) : r = <<Task("arguments", 0)>>
  <2>1. <<Task("arguments", 0)>> \in Seq(StillTask)
    BY StillTasks
  <2>. QED  BY <2>1
<1>6. PICK s \in Seq(StillTask) : s = <<build, Postfix>>
  <2>1. <<build, Postfix>> \in Seq(StillTask)
    BY <1>2, StillTasks
  <2>. QED  BY <2>1
<1>7. r \o (<<Expect("Right")>> \o s) = <<Task("arguments", 0), Expect("Right"), build, Postfix>>
  <2>1. <<Expect("Right")>> \o s = <<Expect("Right"), build, Postfix>>
    BY <1>6, JoinTasks
  <2>2. <<Task("arguments", 0)>> \o <<Expect("Right"), build, Postfix>> =
            <<Task("arguments", 0), Expect("Right"), build, Postfix>>
    BY JoinThree
  <2>. QED  BY <1>5, <2>1, <2>2
<1>8. PICK u : u = r \o (<<Expect("Right")>> \o s)
  OBVIOUS
<1>9. u \in Seq(QuietTask) /\ \A a \in Stacks : Closes(u, Append(a, "Right"), a)
  <2>1. <<>> \in Stacks
    BY DEF Stacks
  <2>. QED  BY <1>8, <2>1, ClosesBehind
<1>10. f \in Seq(QuietTask) /\ \A a \in Stacks : Closes(f, Append(a, "Right"), Append(a, "Right"))
  <2>1. \A a \in Stacks : Append(a, "Right") \in Stacks
    BY ReadPair
  <2>. QED  BY <2>1, StillCloses, QuietTasks
<1>11. f \o u \in Seq(QuietTask) /\ \A a \in Stacks : Closes(f \o u, Append(a, "Right"), a)
  BY <1>9, <1>10, ClosesConcat, ConcatProperties
<1>12. Go(1, f \o u)
  BY <1>1, <1>4, <1>7, <1>8
<1>13. Closing["Left"] = "Right"
  BY DEF Closing
<1>. QED  BY <1>1, <1>11, <1>12, <1>13, OpenGo

\* Further arguments.
LEMMA MoreArgumentsSound ==
    ASSUME IInv, IInv', LeafInv, BracketsOK, MoreArguments
    PROVE  LeafInv' /\ BracketsOK'
<1>1. Undemanding
  BY DEF MoreArguments, At, Undemanding, Declare
<1>2. CASE Go(0, <<>>)
  BY <1>1, <1>2, PlainHead, StillEnd
<1>3. CASE Go(1, Expression(0) \o <<Drop, Task("arguments", 0)>>) /\ peek(0) = "Comma"
  <2>1. Expression(0) \o <<Drop, Task("arguments", 0)>> \in Seq(StillTask)
    <3>1. Expression(0) \in Seq(StillTask) /\ <<Drop, Task("arguments", 0)>> \in Seq(StillTask)
      BY StillTasks
    <3>. QED  BY <3>1, ConcatProperties
  <2>2. peek(0) \notin BracketToken \cup Operandlike
    BY <1>3 DEF BracketToken, Operandlike, Literal
  <2>. QED  BY <1>1, <1>3, <2>1, <2>2, PlainHead, StillGo
<1>. QED  BY <1>2, <1>3 DEF MoreArguments

\* A subscript.
LEMMA SubscriptSound ==
    ASSUME IInv, IInv', LeafInv, BracketsOK, Subscript
    PROVE  LeafInv' /\ BracketsOK'
<1> DEFINE build == Build("BinaryExpr", Here, "SqLeft", 2, <<1, 2>>)
<1>1. Undemanding /\ peek(0) = "SqLeft" /\ Go(1, Expression(0) \o <<Expect("SqRight"), build, Postfix>>)
  BY DEF Subscript, At, Undemanding, Declare
<1>2. build \in StillTask
  <2>1. "BinaryExpr" \in NodeKind /\ "SqLeft" \in TokenType
    BY NamedTokens DEF NodeKind
  <2>. QED  BY <2>1, StillBuilds
<1>. HIDE DEF build
<1>3. PICK s \in Seq(StillTask) : s = <<build, Postfix>>
  <2>1. <<build, Postfix>> \in Seq(StillTask)
    BY <1>2, StillTasks
  <2>. QED  BY <2>1
<1>4. <<Expect("SqRight")>> \o s = <<Expect("SqRight"), build, Postfix>>
  BY <1>3, JoinTasks
<1>5. PICK r \in Seq(StillTask) : r = Expression(0)
  BY StillTasks
<1>6. Closing["SqLeft"] = "SqRight"
  BY DEF Closing
<1>7. Go(1, r \o (<<Expect(Closing["SqLeft"])>> \o s))
  BY <1>1, <1>4, <1>5, <1>6
<1>. QED  BY <1>1, <1>7, OpenBehind

\* The end of the postfix operators.
LEMMA EndPostfixSound ==
    ASSUME IInv, IInv', LeafInv, BracketsOK, EndPostfix
    PROVE  LeafInv' /\ BracketsOK'
<1>1. Undemanding /\ Go(0, <<>>)
  BY DEF EndPostfix, At, Undemanding, Declare
<1>. QED  BY <1>1, PlainHead, StillEnd

\* A postfix task stays the next.
LEMMA SameHead ==
    ASSUME IInv, Head(agenda)[1] = "postfix"
    PROVE  agenda = <<Postfix>> \o Tail(agenda)
<1>1. Head(agenda) = Postfix
  <2>1. Head(agenda) \in AnyTask
    BY HeadReady
  <2>2. Head(agenda) \in {"postfix"} \X {0}
    <3>. PICK t \in AnyTask : t = Head(agenda)
      BY <2>1
    <3>1. \/ t \in {"primary", "postfix", "drop", "block", "arguments", "base", "body"} \X {0}
          \/ t[1] \in {"statement", "param", "operators", "expect", "skip", "when", "unless",
                       "more", "build", "guardrail", "unit"} \cup Declare
      BY DEF AnyTask, PlainTask, Task
    <3>2. t[1] = "postfix" /\ t[1] \notin Declare
      BY DEF Declare
    <3>. QED  BY <3>1, <3>2
  <2>. QED  BY <2>2 DEF Postfix, Task
<1>2. agenda \in Seq(AnyTask) /\ agenda # <<>>
  BY DEF IInv, Remains
<1>3. Tail(agenda) \in Seq(AnyTask) /\ Len(agenda) = Len(Tail(agenda)) + 1 /\ agenda[1] = Head(agenda)
      /\ \A k \in 1 .. Len(Tail(agenda)) : agenda[k + 1] = Tail(agenda)[k]
  BY <1>2, TailParts
<1>4. Head(agenda) \in AnyTask
  BY HeadReady
<1>. QED  BY <1>1, <1>2, <1>3, <1>4, JoinOne

\* A postfix operator has its operand.
LEMMA PostfixOperatorSound ==
    ASSUME IInv, IInv', LeafInv, BracketsOK, PostfixOperator
    PROVE  LeafInv' /\ BracketsOK'
<1> DEFINE node == Node("UnaryExpr", Offset(pos + 1), 0, peek(0), <<Last(vals)>>)
<1>1. /\ Undemanding /\ Head(agenda)[1] = "postfix" /\ peek(0) \in {"PPlus", "MMinus"}
      /\ tree' = tree \o <<node>> /\ Advance(1) /\ UNCHANGED <<agenda, outcome>>
  BY DEF PostfixOperator, At, Undemanding, Declare, Create
<1>2. node.len = 0
  BY DEF Node
<1>. HIDE DEF node
<1>3. PICK nodes \in Seq(AnyNode) : nodes = <<node>> /\ \A i \in DOMAIN nodes : Inner(nodes[i])
  <2>1. <<node>> \in Seq({node})
    OBVIOUS
  <2>2. <<node>> \in Seq(AnyNode)
    BY <1>1, <2>1, NodesTyped
  <2>3. Inner(node)
    BY <1>2 DEF Inner
  <2>4. \A i \in DOMAIN <<node>> : Inner(<<node>>[i])
    BY <2>3
  <2>. QED  BY <2>2, <2>4
<1>4. PICK seg \in Seq(StillTask) : seg = <<Postfix>>
  <2>1. <<Postfix>> \in Seq(StillTask)
    BY StillTasks
  <2>. QED  BY <2>1
<1>5. agenda' = seg \o Tail(agenda)
  BY <1>1, <1>4, SameHead
<1>6. PICK n \in {0, 1} : n = 1
  OBVIOUS
<1>7. Reads(n) /\ LeafFree(n) /\ Undeclared /\ tree' = tree \o nodes
  <2>1. Reads(1)
    BY <1>1, AdvanceReads DEF IInv, LeafInv
  <2>2. peek(0) \notin Operandlike
    BY <1>1 DEF Operandlike, Literal
  <2>. QED  BY <1>1, <1>3, <1>6, <2>1, <2>2, FreeToken, PlainHead DEF Undeclared
<1>8. Bracket(Head(agenda)) \notin BracketToken
  BY <1>1, PlainHead
<1>9. peek(0) \notin BracketToken
  BY <1>1 DEF BracketToken
<1>. QED  BY <1>3, <1>5, <1>7, <1>8, <1>9, StillStep

\* A leaf for the last token consumed, behind at most one that needs none.
LEMMA LeafNew ==
    ASSUME IInv, IInv', LeafInv, BracketsOK, Undemanding, outcome' = "run",
           NEW n \in {1, 2}, Reads(n), NEW nodes \in Seq(AnyNode), NEW seg \in Seq(StillTask),
           tree' = tree \o nodes, agenda' = seg \o Tail(agenda),
           NEW q, q = pos + n, TypeOf(input[q]) \notin BracketToken \cup {"Eof"},
           \A p \in pos + 1 .. pos + n : p # q =>
               TypeOf(input[p]) \notin BracketToken \cup Operandlike,
           NEW j \in DOMAIN nodes, NEW kind \in LeafKind, nodes[j] = LeafOf(kind, q),
           \A i \in DOMAIN nodes : i # j => nodes[i].len = 0
    PROVE  LeafInv' /\ BracketsOK'
<1>1. Splices(nodes, seg)
  BY SegmentTyped DEF Splices
<1>2. \A k \in DOMAIN seg : Calm(seg[k]) /\ seg[k][1] \notin Declare
  BY StillIsFlat, QuietIsCalm
<1>3. Seen' = pos' /\ pos' = pos + n /\ Seen = pos /\ pos \in Nat
  BY <1>1, <1>2, SeenNext, SeenSpan, Windows, PlainHead DEF LeafInv
<1>4. NewNames(seg)
  BY <1>2 DEF NewNames
<1>5. q \in 1 .. Len(input) /\ q \in Nat
  BY <1>3, SeenSpan
<1>6. input[q] # "Eof"
  BY NamedTokens, EofToken DEF TypeOf
<1>7. \A p \in Nat : Has(nodes, seg, p) <=> p = q
  <2>1. LeafAt(nodes[j], q)
    <3>1. Word(q)
      BY <1>5, <1>6 DEF Word
    <3>. QED  BY <1>5, <3>1, LeafSpot DEF IInv, LeafInv
  <2>2. \A p \in Nat : LeafAt(nodes[j], p) => p = q
    BY <1>5, <2>1 DEF LeafAt
  <2>3. \A p \in Nat : Has(nodes, seg, p) => LeafAt(nodes[j], p)
    <3>1. \A p \in Nat, k \in DOMAIN seg : ~Holds(seg[k], p)
      BY <1>2 DEF Holds
    <3>2. \A p \in Nat, i \in DOMAIN nodes : i # j => ~LeafAt(nodes[i], p)
      BY DEF LeafAt
    <3>. QED  BY <3>1, <3>2 DEF Has
  <2>. QED  BY <1>5, <2>1, <2>2, <2>3 DEF Has
<1>8. \A p \in Nat : OnceIn(nodes, seg, p)
  <2>1. \A p \in Nat, i \in DOMAIN nodes : LeafAt(nodes[i], p) => i = j
    BY DEF LeafAt
  <2>. QED  BY <1>2, <2>1 DEF OnceIn, Holds
<1>9. \A i \in DOMAIN nodes : Kind(nodes[i])
  <2>1. Kind(nodes[j])
    <3>1. nodes[j].kids = <<>> /\ nodes[j].kind = kind
      BY DEF LeafOf, Node
    <3>. QED  BY <3>1 DEF Kind
  <2>2. ASSUME NEW i \in DOMAIN nodes, i # j PROVE Kind(nodes[i])
    <3>1. nodes[i].len = 0
      BY <2>2
    <3>. QED  BY <3>1 DEF Kind
  <2>. QED  BY <2>1, <2>2
<1>10. \A p : ~Holds(Head(agenda), p)
  BY PlainHead DEF Holds
<1>11. ASSUME NEW p \in Seen + 1 .. Seen', TypeOf(input'[p]) \in Operandlike
       PROVE  Has(nodes, seg, p)
  <2>1. p \in pos + 1 .. pos + n /\ p \in 1 .. pos + 2 /\ p \in Nat
    BY <1>3
  <2>2. input'[p] = input[p]
    BY <2>1, SameToken
  <2>3. p = q
    BY <1>11, <2>1, <2>2
  <2>. QED  BY <1>7, <2>1, <2>3
<1>12. \A p \in Nat : Has(nodes, seg, p) => p <= Seen' /\ p > Seen
  BY <1>3, <1>7
<1>13. NewLeaves(nodes, seg) /\ Seen <= Seen'
  BY <1>3, <1>8, <1>9, <1>10, <1>11, <1>12 DEF NewLeaves
<1>14. LeafInv' /\ \A p \in 1 .. pos : Word(p) => (Taken(p)' <=> Taken(p))
  BY <1>1, <1>4, <1>13, PlainHead, LeafStep
<1>15. \A a : Passes(n, a, a)
  <2>1. ASSUME NEW p \in pos + 1 .. pos + n PROVE input[p] \notin BracketToken
    <3>1. TypeOf(input[p]) \notin BracketToken
      BY <2>1
    <3>. QED  BY <3>1, BracketType
  <2>. QED  BY <1>3, <2>1, PassFlat
<1>16. \A a \in Stacks : Closes(seg, a, a)
  BY StillCloses
<1>17. \A a, c \in Stacks : Turns(Head(agenda), a, c) =>
           \E b \in Stacks : Passes(n, a, b) /\ Closes(seg, b, c)
  BY <1>15, <1>16, PlainHead
<1>18. BracketsOK'
  BY <1>1, <1>14, <1>17, BracketStep DEF Splices
<1>. QED  BY <1>14, <1>18

\* A literal, a name or a builtin type has its leaf.
LEMMA OperandSound ==
    ASSUME IInv, IInv', LeafInv, BracketsOK, Operand
    PROVE  LeafInv' /\ BracketsOK'
<1>1. PICK kind \in LeafKind : tree' = tree \o <<LeafOf(kind, pos + 1)>>
  BY DEF Operand, Create, LeafKind
<1>2. /\ Undemanding /\ outcome' = "run" /\ Advance(1) /\ Then(<<Postfix>>)
      /\ peek(0) \in Literal \cup Builtin \cup {"Ident"}
  BY DEF Operand, At, Undemanding, Declare
<1>3. PICK leaf : leaf = LeafOf(kind, pos + 1)
  OBVIOUS
<1>4. PICK nodes \in Seq(AnyNode) : /\ nodes = <<leaf>> /\ 1 \in DOMAIN nodes /\ nodes[1] = leaf
                                     /\ \A i \in DOMAIN nodes : i = 1
  <2>1. <<leaf>> \in Seq({leaf})
    OBVIOUS
  <2>2. <<leaf>> \in Seq(AnyNode)
    BY <1>1, <1>3, <2>1, NodesTyped
  <2>3. 1 \in DOMAIN <<leaf>> /\ <<leaf>>[1] = leaf /\ \A i \in DOMAIN <<leaf>> : i = 1
    OBVIOUS
  <2>. QED  BY <2>2, <2>3
<1>5. PICK seg \in Seq(StillTask) : seg = <<Postfix>>
  <2>1. <<Postfix>> \in Seq(StillTask)
    BY StillTasks
  <2>. QED  BY <2>1
<1>6. PICK n \in {1, 2} : n = 1
  OBVIOUS
<1>7. Reads(n)
  BY <1>2, <1>6, AdvanceReads DEF IInv, LeafInv
<1>8. PICK q : q = pos + n /\ q = pos + 1
  BY <1>6
<1>9. tree' = tree \o nodes /\ agenda' = seg \o Tail(agenda) /\ nodes[1] = LeafOf(kind, q)
  BY <1>1, <1>2, <1>3, <1>4, <1>5, <1>8 DEF Then
<1>10. TypeOf(input[q]) \notin BracketToken \cup {"Eof"}
  <2>1. TypeOf(input[q]) = peek(0)
    BY <1>8, SeenSpan DEF peek
  <2>. QED  BY <1>2, <2>1 DEF BracketToken, Literal, Builtin
<1>11. \A p \in pos + 1 .. pos + n : p = q
  BY <1>6, <1>8, SeenSpan
<1>12. \A i \in DOMAIN nodes : i # 1 => nodes[i].len = 0
  BY <1>4
<1>. QED  BY <1>2, <1>4, <1>7, <1>8, <1>9, <1>10, <1>11, <1>12, LeafNew

\* A member has its leaf.
LEMMA MemberAccessSound ==
    ASSUME IInv, IInv', LeafInv, BracketsOK, MemberAccess
    PROVE  LeafInv' /\ BracketsOK'
<1>1. CASE raiseError
  BY <1>1, ErrorStep
<1>2. CASE ~raiseError
  <2> DEFINE node == Node("MemberAccessExpr", Offset(pos + 1), 0, peek(0), <<Last(vals), Len(tree)>>)
  <2>1. /\ Undemanding /\ outcome' = "run" /\ Advance(2) /\ agenda' = agenda /\ Head(agenda)[1] = "postfix"
        /\ peek(0) \in {"Dot", "Arrow"} /\ peek(1) = "Ident"
        /\ tree' = tree \o <<Leaf(pos + 2), node>>
    BY <1>2 DEF MemberAccess, At, Undemanding, Declare, Create
  <2>2. node.len = 0
    BY DEF Node
  <2>. HIDE DEF node
  <2>3. PICK leaf, own : leaf = Leaf(pos + 2) /\ own = node
    OBVIOUS
  <2>4. PICK nodes \in Seq(AnyNode) : /\ nodes = <<leaf, own>> /\ 1 \in DOMAIN nodes /\ nodes[1] = leaf
                                       /\ nodes[2] = own /\ \A i \in DOMAIN nodes : i = 1 \/ i = 2
    <3>1. <<leaf, own>> \in Seq({leaf, own})
      OBVIOUS
    <3>2. <<leaf, own>> \in Seq(AnyNode)
      BY <2>1, <2>3, <3>1, NodesTyped
    <3>3. 1 \in DOMAIN <<leaf, own>> /\ <<leaf, own>>[1] = leaf /\ <<leaf, own>>[2] = own
          /\ \A i \in DOMAIN <<leaf, own>> : i = 1 \/ i = 2
      OBVIOUS
    <3>. QED  BY <3>2, <3>3
  <2>5. PICK seg \in Seq(StillTask) : seg = <<Postfix>>
    <3>1. <<Postfix>> \in Seq(StillTask)
      BY StillTasks
    <3>. QED  BY <3>1
  <2>6. PICK n \in {1, 2} : n = 2
    OBVIOUS
  <2>7. Reads(n)
    BY <2>1, <2>6, AdvanceReads DEF IInv, LeafInv
  <2>8. PICK q : q = pos + n /\ q = pos + 2
    BY <2>6
  <2>9. tree' = tree \o nodes /\ agenda' = seg \o Tail(agenda) /\ nodes[1] = LeafOf("IdentifierExpr", q)
    <3>1. agenda' = seg \o Tail(agenda)
      BY <2>1, <2>5, SameHead
    <3>2. nodes[1] = LeafOf("IdentifierExpr", q)
      BY <2>3, <2>4, <2>8 DEF Leaf
    <3>. QED  BY <2>1, <2>3, <2>4, <3>1, <3>2
  <2>10. TypeOf(input[pos + 1]) = peek(0) /\ TypeOf(input[q]) = peek(1)
    BY <2>8, SeenSpan DEF peek
  <2>11. TypeOf(input[q]) \notin BracketToken \cup {"Eof"}
    BY <2>1, <2>10 DEF BracketToken
  <2>12. ASSUME NEW p \in pos + 1 .. pos + n, p # q
         PROVE  TypeOf(input[p]) \notin BracketToken \cup Operandlike
    <3>1. p = pos + 1
      BY <2>6, <2>8, <2>12, SeenSpan
    <3>. QED  BY <2>1, <2>10, <3>1 DEF BracketToken, Operandlike, Literal
  <2>13. \A i \in DOMAIN nodes : i # 1 => nodes[i].len = 0
    BY <2>2, <2>3, <2>4
  <2>14. PICK kind \in LeafKind : kind = "IdentifierExpr"
    BY DEF LeafKind
  <2>15. nodes[1] = LeafOf(kind, q)
    BY <2>9, <2>14
  <2>16. \A p \in pos + 1 .. pos + n : p # q =>
             TypeOf(input[p]) \notin BracketToken \cup Operandlike
    BY <2>12
  <2>17. PICK j \in DOMAIN nodes : /\ nodes[j] = LeafOf(kind, q)
                                    /\ \A i \in DOMAIN nodes : i # j => nodes[i].len = 0
    BY <2>4, <2>13, <2>15
  <2>18. tree' = tree \o nodes /\ agenda' = seg \o Tail(agenda) /\ Undemanding /\ outcome' = "run"
    BY <2>1, <2>9
  <2>19. q = pos + n
    BY <2>8
  <2>. QED  BY <2>7, <2>11, <2>16, <2>17, <2>18, <2>19, LeafNew
<1>. QED  BY <1>1, <1>2

\* Every helper and every step of an expression.
LEMMA HelperSound ==
    ASSUME IInv, IInv', LeafInv, BracketsOK, Helper
    PROVE  LeafInv' /\ BracketsOK'
BY ExpectTokenSound, SkipTokenSound, DropIdSound, ChooseSound, MoreItemsSound, BuildNodeSound
   DEF Helper

\* Every step of an expression.
LEMMA ExpressionStepSound ==
    ASSUME IInv, IInv', LeafInv, BracketsOK, ExpressionStep
    PROVE  LeafInv' /\ BracketsOK'
BY BinaryOperatorSound, PrefixOperatorSound, OperandSound, parseEvalExpressionSound,
   DeleteInParenthesesSound, ParenthesizedSound, OpenBlockSound, BlockLoopSound,
   NoPrimarySound, CallSound, MoreArgumentsSound, MemberAccessSound, SubscriptSound,
   PostfixOperatorSound, EndPostfixSound
   DEF ExpressionStep

-----------------------------------------------------------------------------
(* Declarations.                                                           *)

\* The agenda behind a qualifier.
LEMMA QualifierAgenda ==
    ASSUME IInv, parseQualifiers
    PROVE  \E q \in SUBSET Qualifier : agenda' = <<Task(Head(agenda)[1], q)>> \o Tail(agenda)
<1>1. Head(agenda)[1] \in {"statement", "param"}
  BY DEF parseQualifiers, At
<1>2. Done = Len(vals) + 1 /\ Len(vals) \in Nat
  BY <1>1, HeadChange, HeadReady
<1>3. /\ Head(agenda) \in AnyTask /\ Head(agenda) = agenda[1]
      /\ agenda \in Seq(AnyTask) /\ agenda # <<>>
  BY HeadReady DEF IInv, Remains
<1>4. PICK t \in AnyTask : t = agenda[1]
  BY <1>3
<1>5. t = <<t[1], t[2]>> /\ t[2] \in SUBSET Qualifier /\ t[1] \in {"statement", "param"}
  BY <1>1, <1>3, <1>4, HeadArg
<1>6. PICK q \in SUBSET Qualifier : q = t[2] \cup {peek(0)}
  BY <1>5 DEF parseQualifiers
<1>8. agenda' = <<Task(t[1], q)>> \o Tail(agenda)
  <2>1. agenda' = [agenda EXCEPT ![1] = [t EXCEPT ![2] = q]]
    BY <1>4, <1>6 DEF parseQualifiers
  <2>2. [t EXCEPT ![2] = q] = Task(t[1], q)
    BY <1>5 DEF Task
  <2>3. agenda' = [agenda EXCEPT ![1] = Task(t[1], q)]
    BY <2>1, <2>2
  <2>4. Task(t[1], q) \in AnyTask
    <3>1. Step(Task(t[1], q), Len(vals), Len(vals) + 1)
      BY <1>2, <1>5, StepQualified
    <3>. QED  BY <3>1 DEF Step, AnyTask
  <2>. PICK u \in AnyTask : u = Task(t[1], q)
    BY <2>4
  <2>. PICK n \in Nat : n + 1 = Len(agenda)
    <3>1. Len(agenda) \in Nat \ {0}
      BY <1>3, EmptySeq
    <3>2. Len(agenda) - 1 \in Nat /\ Len(agenda) - 1 + 1 = Len(agenda)
      BY <3>1
    <3>. QED  BY <3>2
  <2>5. /\ agenda' \in Seq(AnyTask) /\ Len(agenda') = n + 1
        /\ \A k \in 1 .. n + 1 : agenda'[k] = IF k = 1 THEN u ELSE agenda[k]
    <3>1. 1 \in 1 .. Len(agenda)
      OBVIOUS
    <3>. QED  BY <3>1, <2>3, <1>3, ExceptSeq
  <2>. PICK r \in Seq(AnyTask) : r = Tail(agenda)
    BY <1>3, HeadTailProperties
  <2>6. Len(r) = n /\ \A k \in 1 .. n : r[k] = agenda[k + 1]
    BY <1>3, HeadTailProperties
  <2>. PICK s \in Seq(AnyTask) : s = <<u>>
    <3>1. <<u>> \in Seq(AnyTask)
      OBVIOUS
    <3>. QED  BY <3>1
  <2>7. Len(s) = 1 /\ s[1] = u
    OBVIOUS
  <2>8. /\ s \o r \in Seq(AnyTask) /\ Len(s \o r) = 1 + n
        /\ \A k \in 1 .. 1 + n : (s \o r)[k] = IF k <= 1 THEN s[k] ELSE r[k - 1]
    BY <2>6, <2>7, ConcatProperties
  <2>9. ASSUME NEW k \in 1 .. n + 1 PROVE agenda'[k] = (s \o r)[k]
    <3>1. CASE k = 1
      BY <2>5, <2>7, <2>8, <3>1
    <3>2. CASE k > 1
      <4>1. k - 1 \in 1 .. n /\ k - 1 + 1 = k /\ k \in 1 .. 1 + n /\ ~(k <= 1) /\ k # 1
        BY <3>2
      <4>2. r[k - 1] = agenda[k - 1 + 1]
        BY <2>6, <4>1
      <4>. QED  BY <2>5, <2>8, <4>1, <4>2
    <3>. QED  BY <3>1, <3>2
  <2>. QED  BY <2>5, <2>8, <2>9, SeqEqual
<1>. QED  BY <1>3, <1>4, <1>8

\* A qualifier is no operand and no bracket.
LEMMA parseQualifiersSound ==
    ASSUME IInv, IInv', LeafInv, BracketsOK, parseQualifiers
    PROVE  LeafInv' /\ BracketsOK'
<1>1. /\ Undemanding /\ Head(agenda)[1] \in {"statement", "param"} /\ peek(0) \in Qualifier
      /\ Advance(1) /\ tree' = tree /\ outcome' = "run"
  BY DEF parseQualifiers, At, Undemanding, Declare
<1>2. PICK q \in SUBSET Qualifier : agenda' = <<Task(Head(agenda)[1], q)>> \o Tail(agenda)
  BY QualifierAgenda
<1>3. PICK t \in StillTask : t = Task(Head(agenda)[1], q)
  BY <1>1, StillTasks
<1>4. PICK seg \in Seq(StillTask) : seg = <<t>>
  <2>1. <<t>> \in Seq(StillTask)
    OBVIOUS
  <2>. QED  BY <2>1
<1>5. PICK nodes \in Seq(AnyNode) : nodes = <<>> /\ \A i \in DOMAIN nodes : Inner(nodes[i])
  <2>1. <<>> \in Seq(AnyNode) /\ DOMAIN <<>> = {}
    OBVIOUS
  <2>. QED  BY <2>1
<1>6. PICK n \in {0, 1} : n = 1
  OBVIOUS
<1>7. Reads(n) /\ LeafFree(n) /\ Undeclared
  <2>1. Reads(1)
    BY <1>1, AdvanceReads DEF IInv, LeafInv
  <2>2. peek(0) \notin Operandlike
    BY <1>1 DEF Operandlike, Literal, Qualifier
  <2>. QED  BY <1>1, <1>6, <2>1, <2>2, FreeToken, PlainHead DEF Undeclared
<1>8. tree' = tree \o nodes /\ agenda' = seg \o Tail(agenda)
  <2>1. tree \in Seq(AnyNode)
    BY DEF IInv, Grown
  <2>2. tree' = tree \o nodes
    BY <1>1, <1>5, <2>1
  <2>. QED  BY <1>2, <1>3, <1>4, <2>2
<1>9. Bracket(Head(agenda)) \notin BracketToken /\ peek(0) \notin BracketToken
  BY <1>1, PlainHead DEF BracketToken, Qualifier
<1>. QED  BY <1>5, <1>7, <1>8, <1>9, StillStep

\* Where the leaves of the window's tokens stand.
LEMMA WindowLeaves ==
    ASSUME IInv, LeafInv, NEW n, Reads(n)
    PROVE  /\ \A q \in {pos + 1, pos + 2}, p \in Nat : LeafAt(Leaf(q), p) =>
                  p <= q /\ (p = q \/ ~Word(p)')
           /\ \A q \in {pos + 1, pos + 2} : input[q] # "Eof" => LeafAt(Leaf(q), q)
           /\ \A x, p : ~LeafAt(MadeUp(x), p)
<1>1. pos \in Nat /\ Len(input) = pos + 2 /\ DOMAIN input = 1 .. pos + 2
  BY Windows
<1>2. ASSUME NEW q \in {pos + 1, pos + 2}, NEW p \in Nat, LeafAt(Leaf(q), p)
      PROVE  p <= q /\ (p = q \/ ~Word(p)')
  <2>1. q \in 1 .. Len(input)
    BY <1>1
  <2>2. p \in 1 .. q /\ (p = q \/ input[p] = "Eof")
    BY <1>2, <2>1, LeafSpot DEF Leaf, IInv, LeafInv
  <2>3. p \in 1 .. pos + 2 /\ p <= q
    BY <1>1, <2>2
  <2>4. input[p] = "Eof" => ~Word(p)'
    BY <2>3, SameToken DEF Word
  <2>. QED  BY <2>2, <2>3, <2>4
<1>3. ASSUME NEW q \in {pos + 1, pos + 2}, input[q] # "Eof" PROVE LeafAt(Leaf(q), q)
  <2>1. q \in 1 .. Len(input)
    BY <1>1
  <2>2. Word(q)
    BY <1>3, <2>1 DEF Word
  <2>. QED  BY <2>1, <2>2, LeafSpot DEF Leaf, IInv, LeafInv
<1>4. \A x, p : ~LeafAt(MadeUp(x), p)
  BY DEF LeafAt, MadeUp, Node
<1>. QED  BY <1>2, <1>3, <1>4

\* A declaration that will have the leaves of what is seen of the text.
LEMMA DeclareNew ==
    ASSUME IInv, IInv', LeafInv, BracketsOK, Undemanding, outcome' = "run",
           NEW n \in {1, 2}, Reads(n), NEW seg \in Seq(AnyTask),
           tree' = tree, agenda' = seg \o Tail(agenda), NewNames(seg),
           \A k \in DOMAIN seg : Bracket(seg[k]) \notin BracketToken,
           NEW j \in DOMAIN seg, \A k \in DOMAIN seg : seg[k][1] \in Declare <=> k = j,
           NEW type, NEW name, seg[j][2].type = type, seg[j][2].name = name,
           \A p \in Nat : LeafAt(type, p) => p <= Seen' /\ (p > pos \/ ~Word(p)'),
           \A p \in Nat : LeafAt(name, p) => p <= Seen' /\ (p > pos \/ ~Word(p)'),
           \A p \in Nat : Word(p)' => ~(LeafAt(type, p) /\ LeafAt(name, p)),
           \A p \in pos + 1 .. Seen' : TypeOf(input'[p]) \in Operandlike =>
               LeafAt(type, p) \/ LeafAt(name, p),
           \A p \in pos + 1 .. pos + n :
               input[p] \notin BracketToken \/ LeafAt(type, p) \/ LeafAt(name, p)
    PROVE  LeafInv' /\ BracketsOK'
<1>1. Splices(<<>>, seg)
  <2>1. tree \in Seq(AnyNode)
    BY DEF IInv, Grown
  <2>. QED  BY <2>1 DEF Splices
<1>2. Seen = pos /\ pos \in Nat /\ pos' = pos + n /\ Seen <= Seen'
  <2>1. Seen = pos /\ pos \in Nat /\ pos' = pos + n
    BY SeenSpan, Windows, PlainHead
  <2>2. Seen' = pos' \/ Seen' = pos' + 1
    BY DEF Seen
  <2>. QED  BY <2>1, <2>2
<1>3. \A p \in Nat : Has(<<>>, seg, p) <=> LeafAt(type, p) \/ LeafAt(name, p)
  <2>1. DOMAIN <<>> = {}
    OBVIOUS
  <2>. QED  BY <2>1 DEF Has, Holds
<1>4. ASSUME NEW p \in Nat, Word(p)' PROVE OnceIn(<<>>, seg, p)
  <2>1. DOMAIN <<>> = {}
    OBVIOUS
  <2>2. \A i, k \in DOMAIN seg : Holds(seg[i], p) /\ Holds(seg[k], p) => i = k
    BY DEF Holds
  <2>3. \A k \in DOMAIN seg : seg[k][1] \in Declare =>
            ~(LeafAt(seg[k][2].type, p) /\ LeafAt(seg[k][2].name, p))
    BY <1>4
  <2>. QED  BY <2>1, <2>2, <2>3 DEF OnceIn
<1>5. \A p : ~Holds(Head(agenda), p)
  BY PlainHead DEF Holds
<1>6. \A p \in Nat : Has(<<>>, seg, p) => p <= Seen' /\ (p > Seen \/ ~Word(p)')
  BY <1>2, <1>3
<1>7. ASSUME NEW p \in Seen + 1 .. Seen', TypeOf(input'[p]) \in Operandlike
      PROVE  Has(<<>>, seg, p)
  <2>1. p \in pos + 1 .. Seen' /\ p \in Nat
    BY <1>2
  <2>. QED  BY <1>3, <1>7, <2>1
<1>8. NewLeaves(<<>>, seg)
  <2>1. DOMAIN <<>> = {}
    OBVIOUS
  <2>. QED  BY <1>4, <1>5, <1>6, <1>7, <2>1 DEF NewLeaves
<1>9. /\ LeafInv' /\ \A p \in 1 .. pos : Word(p) => (Taken(p)' <=> Taken(p))
      /\ \A p \in Nat : Taken(p)' <=> Taken(p) \/ Has(<<>>, seg, p)
  BY <1>1, <1>2, <1>8, PlainHead, LeafStep
<1>10. \A a : Passes(n, a, a)
  <2>1. ASSUME NEW p \in pos + 1 .. pos + n PROVE Taken(p)' \/ input[p] \notin BracketToken
    <3>1. p \in Nat
      BY <1>2
    <3>. QED  BY <1>3, <1>9, <3>1
  <2>. QED  BY <1>2, <2>1, PassFlat
<1>11. \A a \in Stacks : Closes(seg, a, a)
  BY ClosesFlat
<1>12. \A a, c \in Stacks : Turns(Head(agenda), a, c) =>
           \E b \in Stacks : Passes(n, a, b) /\ Closes(seg, b, c)
  BY <1>10, <1>11, PlainHead
<1>13. BracketsOK'
  BY <1>9, <1>12, BracketStep
<1>. QED  BY <1>9, <1>13

\* Only a name is not its own type.
LEMMA TypeIsToken ==
    ASSUME NEW t, TypeOf(t) # "Ident"
    PROVE  t = TypeOf(t)
BY DEF TypeOf

\* Tokens of the text have their leaves.
LEMMA WindowTaken ==
    ASSUME IInv, LeafInv, NEW n, Reads(n), NEW q \in {pos + 1, pos + 2}
    PROVE  /\ TypeOf(input'[q]) \in Operandlike => LeafAt(Leaf(q), q)
           /\ input[q] \in BracketToken => LeafAt(Leaf(q), q)
<1>1. q \in 1 .. pos + 2
  BY Windows
<1>2. input'[q] = input[q]
  BY <1>1, SameToken
<1>3. TypeOf(input[q]) \in Operandlike => input[q] # "Eof"
  <2>1. TypeOf("Eof") = "Eof" /\ "Eof" \notin Operandlike
    BY EofToken DEF TypeOf, Operandlike, Literal
  <2>. QED  BY <2>1
<1>4. input[q] \in BracketToken => input[q] # "Eof"
  BY DEF BracketToken
<1>. QED  BY <1>2, <1>3, <1>4, WindowLeaves

\* A declarator that has consumed its leaves.
LEMMA DeclareHere ==
    ASSUME IInv, IInv', LeafInv, BracketsOK, Undemanding,
           NEW n \in {1, 2}, NEW S, NEW seg \in Seq(S), Go(n, seg),
           \A k \in DOMAIN seg : Bracket(seg[k]) \notin BracketToken /\ Calm(seg[k]),
           NEW j \in DOMAIN seg, \A k \in DOMAIN seg : seg[k][1] \in Declare <=> k = j,
           NEW type, NEW name, seg[j][2].type = type, seg[j][2].name = name,
           \/ n = 2 /\ type = Leaf(pos + 1) /\ name = Leaf(pos + 2)
           \/ n = 1 /\ (\E x : type = MadeUp(x)) /\ name = Leaf(pos + 1)
           \/ n = 1 /\ type = Leaf(pos + 1) /\ (\E x : name = MadeUp(x))
    PROVE  LeafInv' /\ BracketsOK'
<1>1. Reads(n) /\ agenda' = seg \o Tail(agenda) /\ tree' = tree /\ outcome' = "run"
  BY AdvanceReads, PlainHead DEF IInv, LeafInv, Go, Then
<1>2. seg \in Seq(AnyTask)
  BY <1>1, SegmentTyped
<1>3. Splices(<<>>, seg)
  <2>1. tree \in Seq(AnyNode)
    BY DEF IInv, Grown
  <2>. QED  BY <1>1, <1>2, <2>1 DEF Splices
<1>4. Seen' = pos' /\ pos' = pos + n /\ pos \in Nat
  BY <1>1, <1>3, SeenNext, Windows DEF LeafInv
<1>5. NewNames(seg)
  BY DEF NewNames
<1>6. /\ \A q \in {pos + 1, pos + 2}, p \in Nat : LeafAt(Leaf(q), p) =>
             p <= q /\ (p = q \/ ~Word(p)')
      /\ \A x, p : ~LeafAt(MadeUp(x), p)
  BY <1>1, WindowLeaves
<1>7. \A p \in Nat : LeafAt(type, p) => p <= Seen' /\ (p > pos \/ ~Word(p)')
  <2>1. ASSUME NEW p \in Nat, LeafAt(type, p) PROVE p <= Seen' /\ (p > pos \/ ~Word(p)')
    <3>1. type = Leaf(pos + 1)
      BY <1>6, <2>1
    <3>2. p <= pos + 1 /\ (p = pos + 1 \/ ~Word(p)')
      BY <1>6, <2>1, <3>1
    <3>. QED  BY <1>4, <3>2
  <2>. QED  BY <2>1
<1>8. \A p \in Nat : LeafAt(name, p) => p <= Seen' /\ (p > pos \/ ~Word(p)')
  <2>1. ASSUME NEW p \in Nat, LeafAt(name, p) PROVE p <= Seen' /\ (p > pos \/ ~Word(p)')
    <3>1. name = Leaf(pos + n)
      BY <1>6, <2>1
    <3>2. pos + n \in {pos + 1, pos + 2}
      OBVIOUS
    <3>3. p <= pos + n /\ (p = pos + n \/ ~Word(p)')
      BY <1>6, <2>1, <3>1, <3>2
    <3>. QED  BY <1>4, <3>3
  <2>. QED  BY <2>1
<1>9. ASSUME NEW p \in Nat, Word(p)', LeafAt(type, p), LeafAt(name, p) PROVE FALSE
  <2>1. n = 2 /\ type = Leaf(pos + 1) /\ name = Leaf(pos + 2)
    BY <1>6, <1>9
  <2>2. p = pos + 1 /\ p = pos + 2
    BY <1>6, <1>9, <2>1
  <2>. QED  BY <1>4, <2>2
<1>10. \A p \in pos + 1 .. pos + n : \/ p = pos + 1 /\ (type = Leaf(p) \/ name = Leaf(p))
                                     \/ p = pos + 2 /\ name = Leaf(p)
  <2>1. CASE n = 1
    <3>1. \A p \in pos + 1 .. pos + 1 : p = pos + 1
      BY <1>4
    <3>2. type = Leaf(pos + 1) \/ name = Leaf(pos + 1)
      BY <2>1
    <3>. QED  BY <2>1, <3>1, <3>2
  <2>2. CASE n = 2
    <3>1. \A p \in pos + 1 .. pos + 2 : p = pos + 1 \/ p = pos + 2
      BY <1>4
    <3>2. type = Leaf(pos + 1) /\ name = Leaf(pos + 2)
      BY <2>2
    <3>. QED  BY <2>2, <3>1, <3>2
  <2>. QED  BY <2>1, <2>2
<1>11. ASSUME NEW p \in pos + 1 .. pos + n
       PROVE  /\ TypeOf(input'[p]) \in Operandlike => LeafAt(type, p) \/ LeafAt(name, p)
              /\ input[p] \notin BracketToken \/ LeafAt(type, p) \/ LeafAt(name, p)
  <2>1. p \in {pos + 1, pos + 2} /\ (type = Leaf(p) \/ name = Leaf(p))
    BY <1>10
  <2>2. /\ TypeOf(input'[p]) \in Operandlike => LeafAt(Leaf(p), p)
        /\ input[p] \in BracketToken => LeafAt(Leaf(p), p)
    BY <1>1, <2>1, WindowTaken
  <2>. QED  BY <2>1, <2>2
<1>12. \A p \in pos + 1 .. Seen' : TypeOf(input'[p]) \in Operandlike =>
           LeafAt(type, p) \/ LeafAt(name, p)
  BY <1>4, <1>11
<1>13. \A p \in Nat : Word(p)' => ~(LeafAt(type, p) /\ LeafAt(name, p))
  BY <1>9
<1>. QED  BY <1>1, <1>2, <1>5, <1>7, <1>8, <1>11, <1>12, <1>13, DeclareNew

\* A declaration's task is calm and has no bracket.
LEMMA DeclareCalm ==
    ASSUME NEW do \in Declare, NEW q, NEW type, NEW name, NEW t, t = Declarator(do, q, type, name)
    PROVE  /\ Calm(t) /\ Bracket(t) \notin BracketToken /\ t[1] \in Declare
           /\ t[2].type = type /\ t[2].name = name
<1>1. t[1] = do /\ t[2] = [quals |-> q, type |-> type, name |-> name]
  BY DEF Declarator, Task
<1>2. Calm(t) /\ Bracket(t) \notin BracketToken
  BY <1>1 DEF Declare, Calm, Bracket, BracketToken
<1>. QED  BY <1>1, <1>2

\* A variable or function: its type and its name, or its name behind auto.
LEMMA VarDeclarationSound ==
    ASSUME IInv, IInv', LeafInv, BracketsOK, VarDeclaration
    PROVE  LeafInv' /\ BracketsOK'
<1>1. CASE raiseError
  BY <1>1, ErrorStep
<1>2. CASE ~raiseError
  <2>1. Undemanding
    BY DEF VarDeclaration, At, Undemanding, Declare
  <2>2. PICK n, type, name :
            /\ n \in {1, 2}
            /\ Go(n, <<Declarator("declarator", arg, type, name)>>)
            /\ \/ n = 2 /\ type = Leaf(pos + 1) /\ name = Leaf(pos + 2)
               \/ n = 1 /\ type = MadeUp("kAuto") /\ name = Leaf(pos + 1)
    BY <1>2 DEF VarDeclaration
  <2>3. PICK t : t = Declarator("declarator", arg, type, name)
    OBVIOUS
  <2>4. /\ Calm(t) /\ Bracket(t) \notin BracketToken /\ t[1] \in Declare
        /\ t[2].type = type /\ t[2].name = name
    <3>1. "declarator" \in Declare
      BY DEF Declare
    <3>. QED  BY <2>3, <3>1, DeclareCalm
  <2>5. PICK seg \in Seq({t}) : seg = <<t>> /\ seg[1] = t /\ DOMAIN seg = 1 .. 1
    <3>1. <<t>> \in Seq({t}) /\ <<t>>[1] = t /\ DOMAIN <<t>> = 1 .. 1
      OBVIOUS
    <3>. QED  BY <3>1
  <2>6. Go(n, seg)
    BY <2>2, <2>3, <2>5
  <2>7. /\ \A k \in DOMAIN seg : Bracket(seg[k]) \notin BracketToken /\ Calm(seg[k])
        /\ \A k \in DOMAIN seg : seg[k][1] \in Declare <=> k = 1
        /\ 1 \in DOMAIN seg /\ seg[1][2].type = type /\ seg[1][2].name = name
    BY <2>4, <2>5
  <2>. QED  BY <2>1, <2>2, <2>6, <2>7, DeclareHere
<1>. QED  BY <1>1, <1>2

\* A parameter: the same, and any one token for its type.
LEMMA ParamDeclarationSound ==
    ASSUME IInv, IInv', LeafInv, BracketsOK, ParamDeclaration
    PROVE  LeafInv' /\ BracketsOK'
<1>1. CASE raiseError
  BY <1>1, ErrorStep
<1>2. CASE ~raiseError
  <2>1. Undemanding
    BY DEF ParamDeclaration, At, Undemanding, Declare
  <2>2. PICK n \in {1, 2} : \E type, name :
            /\ Go(n, <<When("Equals", 1, Expression(0)),
                      Declarator("declare variable", arg, type, name)>>)
            /\ \/ n = 2 /\ type = Leaf(pos + 1) /\ name = Leaf(pos + 2)
               \/ n = 1 /\ type = MadeUp("kAuto") /\ name = Leaf(pos + 1)
               \/ n = 1 /\ type = Leaf(pos + 1) /\ name = MadeUp("Unknown")
    BY <1>2 DEF ParamDeclaration
  <2>3. PICK type, name :
            /\ Go(n, <<When("Equals", 1, Expression(0)),
                      Declarator("declare variable", arg, type, name)>>)
            /\ \/ n = 2 /\ type = Leaf(pos + 1) /\ name = Leaf(pos + 2)
               \/ n = 1 /\ type = MadeUp("kAuto") /\ name = Leaf(pos + 1)
               \/ n = 1 /\ type = Leaf(pos + 1) /\ name = MadeUp("Unknown")
    BY <2>2
  <2>4. PICK do, t :
            do = "declare variable" /\ do \in Declare /\ t = Declarator(do, arg, type, name)
    BY DEF Declare
  <2>5. /\ Calm(t) /\ Bracket(t) \notin BracketToken /\ t[1] \in Declare
        /\ t[2].type = type /\ t[2].name = name
    <3>1. do \in Declare /\ t = Declarator(do, arg, type, name)
      BY <2>4
    <3>2. t[1] = do
      BY <3>1 DEF Declarator, Task
    <3>3. t[2].type = type /\ t[2].name = name
      BY <3>1 DEF Declarator, Task
    <3>4. Calm(t)
      BY <3>1, DeclareCalm
    <3>5. Bracket(t) \notin BracketToken
      BY <2>4, <3>2 DEF Bracket, BracketToken
    <3>. QED  BY <3>1, <3>2, <3>3, <3>4, <3>5
  <2>6. PICK init \in StillTask : init = When("Equals", 1, Expression(0))
    <3>1. Expression(0) \in Alternatives
      BY DEF Alternatives
    <3>. QED  BY <3>1, NamedTokens, StillChoice
  <2>7. Calm(init) /\ Bracket(init) \notin BracketToken /\ init[1] \notin Declare
    BY <2>6, StillIsFlat, QuietIsCalm
  <2>8. PICK seg \in Seq({init, t}) : /\ seg = <<init, t>> /\ seg[1] = init /\ seg[2] = t
                                       /\ DOMAIN seg = 1 .. 2
    <3>1. <<init, t>> \in Seq({init, t}) /\ <<init, t>>[1] = init /\ <<init, t>>[2] = t
          /\ DOMAIN <<init, t>> = 1 .. 2
      OBVIOUS
    <3>. QED  BY <3>1
  <2>9. Go(n, seg)
    BY <2>3, <2>4, <2>6, <2>8
  <2>10. \A k \in DOMAIN seg : k = 1 \/ k = 2
    BY <2>8
  <2>11. /\ \A k \in DOMAIN seg : Bracket(seg[k]) \notin BracketToken /\ Calm(seg[k])
         /\ \A k \in DOMAIN seg : seg[k][1] \in Declare <=> k = 2
         /\ 2 \in DOMAIN seg /\ seg[2][2].type = type /\ seg[2][2].name = name
    BY <2>5, <2>7, <2>8, <2>10
  <2>. QED  BY <2>1, <2>3, <2>9, <2>11, DeclareHere
<1>. QED  BY <1>1, <1>2

\* type: its name is seen before it is consumed.
LEMMA TypeDeclarationSound ==
    ASSUME IInv, IInv', LeafInv, BracketsOK, TypeDeclaration
    PROVE  LeafInv' /\ BracketsOK'
<1>1. PICK t : t = Declarator("declare type", arg, Leaf(pos + 1), Leaf(pos + 2))
  OBVIOUS
<1>2. PICK base : base = Task("base", 0)
  OBVIOUS
<1>3. PICK body \in StillTask : body = When("BrLeft", 0, <<Statement>>)
  <2>1. <<Statement>> \in Alternatives
    BY DEF Alternatives
  <2>. QED  BY <2>1, NamedTokens, StillChoice
<1>4. PICK semi \in StillTask : semi = Skip("Semi")
  BY StillTasks
<1>5. PICK first : first = Expect("Ident")
  OBVIOUS
<1>6. /\ Calm(t) /\ Bracket(t) \notin BracketToken /\ t[1] \in Declare
      /\ t[2].type = Leaf(pos + 1) /\ t[2].name = Leaf(pos + 2)
  <2>1. PICK do \in Declare : do = "declare type"
    BY DEF Declare
  <2>2. t[1] = do
    BY <1>1, <2>1 DEF Declarator, Task
  <2>3. t[2].type = Leaf(pos + 1) /\ t[2].name = Leaf(pos + 2)
    BY <1>1 DEF Declarator, Task
  <2>4. t = Declarator(do, arg, Leaf(pos + 1), Leaf(pos + 2))
    BY <1>1, <2>1
  <2>5. Calm(t)
    BY <2>4, DeclareCalm
  <2>6. Bracket(t) \notin BracketToken
    BY <2>1, <2>2 DEF Bracket, BracketToken
  <2>. QED  BY <2>2, <2>3, <2>5, <2>6
<1>7. /\ Calm(body) /\ Bracket(body) \notin BracketToken /\ body[1] \notin Declare
      /\ Calm(semi) /\ Bracket(semi) \notin BracketToken /\ semi[1] \notin Declare
  BY StillIsFlat, QuietIsCalm
<1>8. /\ Bracket(first) \notin BracketToken /\ first[1] \notin Declare
      /\ Bracket(base) \notin BracketToken /\ base[1] \notin Declare /\ base[1] = "base"
  BY <1>2, <1>5 DEF Expect, Task, Bracket, BracketToken, Declare
<1>9. Undemanding /\ peek(0) = "kType" /\ Go(1, <<first, base, body, semi, t>>)
  BY <1>1, <1>2, <1>3, <1>4, <1>5 DEF TypeDeclaration, At, Undemanding, Declare
<1>10. Reads(1) /\ tree' = tree /\ outcome' = "run"
       /\ agenda' = <<first, base, body, semi, t>> \o Tail(agenda)
  BY <1>9, AdvanceReads, PlainHead DEF IInv, LeafInv, Go, Then
<1>11. PICK seg \in Seq({first, base, body, semi, t}) :
           /\ agenda' = seg \o Tail(agenda) /\ DOMAIN seg = 1 .. 5
           /\ seg[1] = first /\ seg[2] = base /\ seg[3] = body /\ seg[4] = semi /\ seg[5] = t
  <2>1. <<first, base, body, semi, t>> \in Seq({first, base, body, semi, t})
    OBVIOUS
  <2>2. PICK s \in Seq({first, base, body, semi, t}) : s = <<first, base, body, semi, t>>
    BY <2>1
  <2>3. DOMAIN s = 1 .. 5 /\ s[1] = first /\ s[2] = base /\ s[3] = body /\ s[4] = semi /\ s[5] = t
    BY <2>2
  <2>. QED  BY <1>10, <2>2, <2>3
<1>12. \A k \in DOMAIN seg : k = 1 \/ k = 2 \/ k = 3 \/ k = 4 \/ k = 5
  BY <1>11
<1>13. seg \in Seq(AnyTask)
  BY <1>11, SegmentTyped
<1>14. /\ pos \in Nat /\ pos' = pos + 1 /\ pos + 2 \in DOMAIN input
       /\ \A p \in 1 .. pos + 2 : input'[p] = input[p]
  BY <1>10, Windows
<1>15. input'[pos'] = "kType"
  <2>1. TypeOf(input[pos + 1]) = "kType"
    BY <1>9, <1>14 DEF peek
  <2>2. pos + 1 \in 1 .. pos + 2
    BY <1>14
  <2>. QED  BY <1>14, <2>1, <2>2, TypeIsToken
<1>16. NewNames(seg)
  <2>1. pos' > 0
    BY <1>14
  <2>. QED  BY <1>5, <1>6, <1>7, <1>8, <1>11, <1>12, <1>15, <2>1 DEF NewNames
<1>17. Seen' = pos + 2
  <2>1. Head(agenda') = first
    <3>1. agenda \in Seq(AnyTask) /\ agenda # <<>>
      BY Agendas
    <3>2. Replaces(agenda', agenda, seg)
      BY <1>11, <1>13, <3>1, SpliceParts
    <3>3. 1 \in DOMAIN seg
      BY <1>11
    <3>. QED  BY <1>11, <3>2, <3>3, Agendas DEF Replaces
  <2>2. pos' > 0 /\ agenda' # <<>> /\ pos' + 1 = pos + 2
    BY <1>14, Agendas
  <2>. QED  BY <1>5, <1>15, <2>1, <2>2 DEF Seen, Naming
<1>18. /\ \A p \in Nat : LeafAt(Leaf(pos + 1), p) => p <= pos + 1 /\ (p = pos + 1 \/ ~Word(p)')
       /\ \A p \in Nat : LeafAt(Leaf(pos + 2), p) => p <= pos + 2 /\ (p = pos + 2 \/ ~Word(p)')
  BY <1>10, WindowLeaves
<1>19. ASSUME NEW p \in Nat, p \in {pos + 1, pos + 2}
       PROVE  /\ TypeOf(input'[p]) \in Operandlike => LeafAt(Leaf(p), p)
              /\ input[p] \in BracketToken => LeafAt(Leaf(p), p)
  BY <1>10, <1>19, WindowTaken
<1>20. PICK type, name : type = Leaf(pos + 1) /\ name = Leaf(pos + 2)
  OBVIOUS
<1>21. /\ \A p \in Nat : LeafAt(type, p) => p <= Seen' /\ (p > pos \/ ~Word(p)')
       /\ \A p \in Nat : LeafAt(name, p) => p <= Seen' /\ (p > pos \/ ~Word(p)')
       /\ \A p \in Nat : Word(p)' => ~(LeafAt(type, p) /\ LeafAt(name, p))
  <2>1. ASSUME NEW p \in Nat, LeafAt(type, p) PROVE p <= Seen' /\ (p > pos \/ ~Word(p)')
    <3>1. p <= pos + 1 /\ (p = pos + 1 \/ ~Word(p)')
      BY <1>18, <1>20, <2>1
    <3>. QED  BY <1>14, <1>17, <3>1
  <2>2. ASSUME NEW p \in Nat, LeafAt(name, p) PROVE p <= Seen' /\ (p > pos \/ ~Word(p)')
    <3>1. p <= pos + 2 /\ (p = pos + 2 \/ ~Word(p)')
      BY <1>18, <1>20, <2>2
    <3>. QED  BY <1>14, <1>17, <3>1
  <2>3. ASSUME NEW p \in Nat, Word(p)', LeafAt(type, p), LeafAt(name, p) PROVE FALSE
    <3>1. p = pos + 1 /\ p = pos + 2
      BY <1>18, <1>20, <2>3
    <3>. QED  BY <1>14, <3>1
  <2>. QED  BY <2>1, <2>2, <2>3
<1>22. ASSUME NEW p \in pos + 1 .. pos + 2
       PROVE  /\ TypeOf(input'[p]) \in Operandlike => LeafAt(type, p) \/ LeafAt(name, p)
              /\ input[p] \notin BracketToken \/ LeafAt(type, p) \/ LeafAt(name, p)
  <2>1. p \in Nat /\ p \in {pos + 1, pos + 2}
    BY <1>14
  <2>2. Leaf(p) = type \/ Leaf(p) = name
    BY <1>20, <2>1
  <2>. QED  BY <1>19, <2>1, <2>2
<1>23. \A p \in pos + 1 .. Seen' : TypeOf(input'[p]) \in Operandlike => LeafAt(type, p) \/ LeafAt(name, p)
  BY <1>17, <1>22
<1>24. PICK n \in {1, 2} : n = 1
  OBVIOUS
<1>25. \A p \in pos + 1 .. pos + n : input[p] \notin BracketToken \/ LeafAt(type, p) \/ LeafAt(name, p)
  BY <1>14, <1>22, <1>24
<1>26. PICK j \in DOMAIN seg : j = 5
  BY <1>11
<1>27. /\ \A k \in DOMAIN seg : Bracket(seg[k]) \notin BracketToken
       /\ \A k \in DOMAIN seg : seg[k][1] \in Declare <=> k = j
       /\ seg[j][2].type = type /\ seg[j][2].name = name /\ Reads(n)
  BY <1>6, <1>7, <1>8, <1>10, <1>11, <1>12, <1>20, <1>24, <1>26
<1>. QED  BY <1>9, <1>10, <1>11, <1>13, <1>16, <1>21, <1>23, <1>25, <1>27, DeclareNew

\* The base of a type; using is consumed in front of it.
LEMMA BaseTypeSound ==
    ASSUME IInv, IInv', LeafInv, BracketsOK, BaseType
    PROVE  LeafInv' /\ BracketsOK'
<1>1. Head(agenda)[1] = "base" /\ Undemanding
  BY DEF BaseType, At, Undemanding, Declare
<1>2. CASE GoNull(0)
  BY <1>1, <1>2, PlainHead, StillNull
<1>3. CASE peek(0) = "Equals" /\ Go(1, Expression(0))
  <2>1. Expression(0) \in Seq(StillTask)
    BY StillTasks
  <2>2. peek(0) \notin BracketToken \cup Operandlike
    BY <1>3 DEF BracketToken, Operandlike, Literal
  <2>. QED  BY <1>1, <1>3, <2>1, <2>2, PlainHead, StillGo
<1>4. PICK seg \in Seq(StillTask) : seg = <<Primary>>
  <2>1. <<Primary>> \in Seq(StillTask)
    BY StillTasks
  <2>. QED  BY <2>1
<1>5. CASE peek(0) = "Colon" /\ Go(1, seg)
  <2>1. peek(0) \notin BracketToken \cup Operandlike
    BY <1>5 DEF BracketToken, Operandlike, Literal
  <2>. QED  BY <1>1, <1>5, <2>1, PlainHead, StillGo
<1>6. CASE input[pos + 1] = "using" /\ Go(1, seg)
  <2>1. /\ Reads(1) /\ agenda' = seg \o Tail(agenda) /\ tree' = tree /\ outcome' = "run"
    BY <1>1, <1>6, AdvanceReads, PlainHead DEF IInv, LeafInv, Go, Then
  <2>2. PICK nodes \in Seq(AnyNode) : tree' = tree \o nodes /\ \A i \in DOMAIN nodes : Inner(nodes[i])
    <3>1. tree \in Seq(AnyNode)
      BY DEF IInv, Grown
    <3>2. tree' = tree \o <<>> /\ <<>> \in Seq(AnyNode) /\ DOMAIN <<>> = {}
      BY <2>1, <3>1
    <3>. QED  BY <3>2
  <2>3. PICK n \in {0, 1} : n = 1
    OBVIOUS
  <2>4. LeafFree(n)
    <3>1. pos > 1 /\ input[pos - 1] = "kType" /\ pos \in Nat
      BY <1>1, HeadNames, NameNotCalm, SeenSpan DEF Calm
    <3>2. Nameless(pos + 1)
      <4>1. pos + 1 > 2 /\ pos + 1 - 2 = pos - 1
        BY <3>1
      <4>. QED  BY <1>6, <3>1, <4>1 DEF Nameless
    <3>3. \A p \in pos + 1 .. pos + n : p = pos + 1
      BY <2>3, <3>1
    <3>. QED  BY <3>2, <3>3 DEF LeafFree
  <2>5. peek(0) \notin BracketToken
    <3>1. "using" \in Ident
      BY DEF Ident
    <3>2. peek(0) = "Ident"
      BY <1>6, <3>1, SeenSpan DEF peek, TypeOf
    <3>. QED  BY <3>2 DEF BracketToken
  <2>6. Reads(n) /\ Undeclared
    BY <2>1, <2>3, <1>1, PlainHead DEF Undeclared
  <2>. QED  BY <1>1, <2>1, <2>2, <2>4, <2>5, <2>6, PlainHead, StillStep
<1>. QED  BY <1>2, <1>3, <1>4, <1>5, <1>6 DEF BaseType

\* A function's body is a block, or there is none.
LEMMA FunctionBodySound ==
    ASSUME IInv, IInv', LeafInv, BracketsOK, FunctionBody
    PROVE  LeafInv' /\ BracketsOK'
<1>1. Undemanding
  BY DEF FunctionBody, At, Undemanding, Declare
<1>2. PICK seg \in Seq(StillTask) : seg = <<Statement>>
  <2>1. <<Statement>> \in Seq(StillTask)
    BY StillTasks
  <2>. QED  BY <2>1
<1>3. CASE Go(0, seg)
  BY <1>1, <1>3, PlainHead, StillGo
<1>4. CASE peek(0) = "Semi" /\ GoNull(1)
  <2>1. peek(0) \notin BracketToken \cup Operandlike
    BY <1>4 DEF BracketToken, Operandlike, Literal
  <2>. QED  BY <1>1, <1>4, <2>1, PlainHead, StillNull
<1>5. CASE raiseError
  BY <1>5, ErrorStep
<1>. QED  BY <1>2, <1>3, <1>4, <1>5 DEF FunctionBody

\* What the first task is, if it holds leaves.
LEMMA DeclareHead ==
    ASSUME IInv, Head(agenda)[1] \in Declare
    PROVE  /\ arg \in DeclArg /\ arg = Head(agenda)[2] /\ Head(agenda) # Expect("Ident") /\ Seen = pos
           /\ Bracket(Head(agenda)) \notin BracketToken
           /\ \A p : Holds(Head(agenda), p) <=> LeafAt(arg.type, p) \/ LeafAt(arg.name, p)
           /\ \A p : Holds(Head(agenda), p) => Taken(p)
           /\ \A a, c \in Stacks : Turns(Head(agenda), a, c) => a = c
<1>1. arg \in DeclArg /\ arg = Head(agenda)[2]
  BY HeadReady, HeadArg DEF arg
<1>2. Head(agenda)[1] \notin {"block", "expect"}
  BY DEF Declare
<1>3. Head(agenda) # Expect("Ident") /\ Bracket(Head(agenda)) \notin BracketToken
  BY <1>2, HeadPlain
<1>4. 1 \in DOMAIN agenda /\ Head(agenda) = agenda[1]
  <2>1. agenda \in Seq(AnyTask) /\ agenda # <<>>
    BY DEF IInv, Remains
  <2>. QED  BY <2>1
<1>5. \A p : Holds(Head(agenda), p) <=> LeafAt(arg.type, p) \/ LeafAt(arg.name, p)
  BY <1>1 DEF Holds
<1>6. \A p : Holds(Head(agenda), p) => Taken(p)
  BY <1>4 DEF Taken
<1>7. ASSUME NEW a \in Stacks, NEW c \in Stacks, Turns(Head(agenda), a, c) PROVE a = c
  BY <1>3, <1>7, TurnsFlat
<1>8. Seen = pos
  BY <1>3, SeenSpan
<1>. QED  BY <1>1, <1>3, <1>5, <1>6, <1>7, <1>8

\* The leaves a declaration holds are two.
LEMMA DeclareApart ==
    ASSUME IInv, LeafInv, Head(agenda)[1] \in Declare, NEW p \in Nat, Word(p)
    PROVE  ~(LeafAt(arg.type, p) /\ LeafAt(arg.name, p))
<1>1. 1 \in DOMAIN agenda /\ Head(agenda) = agenda[1]
  <2>1. agenda \in Seq(AnyTask) /\ agenda # <<>>
    BY DEF IInv, Remains
  <2>. QED  BY <2>1
<1>2. OnceIn(tree, agenda, p)
  BY DEF LeafInv, Once
<1>. QED  BY <1>1, <1>2 DEF OnceIn, arg

\* The leaves a task has held are created.
LEMMA DeclareDone ==
    ASSUME IInv, IInv', LeafInv, BracketsOK, Head(agenda)[1] \in Declare, outcome' = "run",
           Stay, Then(<<>>), NEW nodes \in Seq(AnyNode), tree' = tree \o nodes,
           NEW i \in DOMAIN nodes, NEW j \in DOMAIN nodes, i # j,
           nodes[i] = arg.type, nodes[j] = arg.name,
           \A k \in DOMAIN nodes : k # i /\ k # j => nodes[k].len = 0
    PROVE  LeafInv' /\ BracketsOK'
<1>1. Reads(0) /\ agenda' = <<>> \o Tail(agenda) /\ Splices(nodes, <<>>)
  BY AdvanceReads DEF IInv, LeafInv, Then, Splices
<1>2. PICK n : n = 0
  OBVIOUS
<1>3. NewNames(<<>>) /\ \A k \in DOMAIN <<>> : Calm(<<>>[k])
  BY DEF NewNames
<1>4. Seen' = pos' /\ pos' = pos /\ pos \in Nat /\ Seen = pos
  BY <1>1, <1>3, SeenNext, Windows, DeclareHead DEF LeafInv
<1>5. \A p : Has(nodes, <<>>, p) <=> LeafAt(arg.type, p) \/ LeafAt(arg.name, p)
  <2>1. DOMAIN <<>> = {}
    OBVIOUS
  <2>2. \A k \in DOMAIN nodes : \A p : LeafAt(nodes[k], p) => k = i \/ k = j
    BY DEF LeafAt
  <2>. QED  BY <2>1, <2>2 DEF Has
<1>6. \A p : Has(nodes, <<>>, p) <=> Holds(Head(agenda), p)
  BY <1>5, DeclareHead
<1>7. ASSUME NEW k \in DOMAIN nodes PROVE Kind(nodes[k])
  <2>1. CASE k = i \/ k = j
    <3>1. nodes[k] \in LeafNode
      BY <2>1, DeclareHead DEF DeclArg
    <3>2. nodes[k].kids = <<>> /\ nodes[k].kind = "IdentifierExpr"
      BY <3>1 DEF LeafNode
    <3>. QED  BY <3>2 DEF Kind, LeafKind
  <2>2. CASE k # i /\ k # j
    BY <2>2 DEF Kind
  <2>. QED  BY <2>1, <2>2
<1>8. ASSUME NEW p \in Nat, Word(p)' PROVE OnceIn(nodes, <<>>, p)
  <2>1. DOMAIN <<>> = {}
    OBVIOUS
  <2>2. Word(p)
    BY <1>8 DEF Word, Stay
  <2>3. ~(LeafAt(arg.type, p) /\ LeafAt(arg.name, p))
    BY <2>2, DeclareApart
  <2>4. \A k, l \in DOMAIN nodes : LeafAt(nodes[k], p) /\ LeafAt(nodes[l], p) => k = l
    <3>1. \A k \in DOMAIN nodes : LeafAt(nodes[k], p) => k = i \/ k = j
      BY DEF LeafAt
    <3>. QED  BY <2>3, <3>1
  <2>. QED  BY <2>1, <2>4 DEF OnceIn
<1>9. \A p \in Nat : Has(nodes, <<>>, p) =>
          p <= Seen' /\ (p > Seen \/ Holds(Head(agenda), p) \/ ~Word(p)')
  BY <1>4, <1>6, DeclareHead DEF LeafInv, Placed
<1>10. \A p \in Nat : Holds(Head(agenda), p) => Has(nodes, <<>>, p)
  BY <1>6
<1>11. \A p \in Seen + 1 .. Seen' : FALSE
  BY <1>4
<1>12. NewLeaves(nodes, <<>>)
  BY <1>7, <1>8, <1>9, <1>10, <1>11 DEF NewLeaves
<1>13. Seen <= Seen'
  BY <1>4
<1>14. LeafInv' /\ \A p \in 1 .. pos : Word(p) => (Taken(p)' <=> Taken(p))
  BY <1>1, <1>3, <1>12, <1>13, DeclareHead, LeafStep
<1>15. ASSUME NEW a \in Stacks PROVE Passes(0, a, a) /\ Closes(<<>>, a, a)
  <2>1. \A p \in pos + 1 .. pos + 0 : FALSE
    BY <1>4
  <2>2. Passes(0, a, a)
    BY <1>4, <2>1, PassFlat
  <2>3. <<>> \in Seq(StillTask) /\ DOMAIN <<>> = {}
    OBVIOUS
  <2>. QED  BY <2>2, <2>3, ClosesFlat
<1>16. \A a, c \in Stacks : Turns(Head(agenda), a, c) =>
           \E b \in Stacks : Passes(0, a, b) /\ Closes(<<>>, b, c)
  BY <1>15, DeclareHead
<1>17. BracketsOK'
  <2>1. <<>> \in Seq(AnyTask)
    OBVIOUS
  <2>. QED  BY <1>1, <1>14, <1>16, <2>1, BracketStep
<1>. QED  BY <1>14, <1>17

\* A declaration whose own node comes first.
LEMMA DeclareFirst ==
    ASSUME IInv, IInv', LeafInv, BracketsOK, Head(agenda)[1] \in Declare, outcome' = "run",
           Stay, Then(<<>>), NEW kind, NEW init,
           tree' = tree \o Declaration(kind, arg.type.off, arg.type, arg.name, init, arg.quals)
    PROVE  LeafInv' /\ BracketsOK'
<1>1. PICK node : /\ node.len = 0
                  /\ Declaration(kind, arg.type.off, arg.type, arg.name, init, arg.quals) =
                     <<node, arg.type, arg.name>>
  <2>1. PICK x : x = Node(kind, arg.type.off, 0, NoOp, <<Len(tree) + 1, Len(tree) + 2, init>>)
    OBVIOUS
  <2>2. [x EXCEPT !.quals = arg.quals].len = 0
    BY <2>1 DEF Node
  <2>. QED  BY <2>1, <2>2 DEF Declaration
<1>2. PICK s \in Seq({node, arg.type, arg.name}) :
          tree' = tree \o s /\ s = <<node, arg.type, arg.name>>
  <2>1. <<node, arg.type, arg.name>> \in Seq({node, arg.type, arg.name})
    OBVIOUS
  <2>. QED  BY <1>1, <2>1
<1>3. DOMAIN s = 1 .. 3 /\ s[1] = node /\ s[2] = arg.type /\ s[3] = arg.name
  BY <1>2
<1>4. s \in Seq(AnyNode)
  BY <1>2, NodesTyped
<1>5. 2 \in DOMAIN s /\ 3 \in DOMAIN s /\ \A k \in DOMAIN s : k = 1 \/ k = 2 \/ k = 3
  BY <1>3
<1>6. PICK i \in DOMAIN s, j \in DOMAIN s :
          /\ i # j /\ s[i] = arg.type /\ s[j] = arg.name
          /\ \A k \in DOMAIN s : k # i /\ k # j => s[k].len = 0
  <2>1. \A k \in DOMAIN s : k # 2 /\ k # 3 => s[k].len = 0
    BY <1>1, <1>3, <1>5
  <2>. QED  BY <1>3, <1>5, <2>1
<1>7. tree' = tree \o s
  BY <1>2
<1>. QED  BY <1>4, <1>6, <1>7, DeclareDone

\* The finished type, the finished variable.
LEMMA DeclareTypeSound ==
    ASSUME IInv, IInv', LeafInv, BracketsOK, DeclareType
    PROVE  LeafInv' /\ BracketsOK'
<1>1. Head(agenda)[1] \in Declare /\ outcome' = "run" /\ Stay /\ Then(<<>>)
  BY DEF DeclareType, At, Declare
<1>2. PICK init :
          tree' = tree \o Declaration("TypeDecl", arg.type.off, arg.type, arg.name, init, arg.quals)
  BY DEF DeclareType, Create
<1>. QED  BY <1>1, <1>2, DeclareFirst

\* A variable's declaration makes the leaves it held.
LEMMA DeclareVariableSound ==
    ASSUME IInv, IInv', LeafInv, BracketsOK, DeclareVariable
    PROVE  LeafInv' /\ BracketsOK'
<1>1. Head(agenda)[1] \in Declare /\ outcome' = "run" /\ Stay /\ Then(<<>>)
  BY DEF DeclareVariable, At, Declare
<1>2. tree' = tree \o Declaration("VarDecl", arg.type.off, arg.type, arg.name, Last(vals), arg.quals)
  BY DEF DeclareVariable, Create
<1>. QED  BY <1>1, <1>2, DeclareFirst

\* The finished function, behind its leaves.
LEMMA DeclareFunctionSound ==
    ASSUME IInv, IInv', LeafInv, BracketsOK, DeclareFunction
    PROVE  LeafInv' /\ BracketsOK'
<1>1. Head(agenda)[1] \in Declare /\ outcome' = "run" /\ Stay /\ Then(<<>>)
  BY DEF DeclareFunction, At, Declare
<1>2. PICK node : node.len = 0 /\ tree' = tree \o <<arg.type, arg.name, node>>
  <2>1. PICK x : x = Node("FunctionDecl", arg.name.off, 0, NoOp,
                          <<Len(tree), Len(tree) + 1, Last(vals)>>)
    OBVIOUS
  <2>2. [x EXCEPT !.quals = arg.quals].len = 0
    BY <2>1 DEF Node
  <2>. QED  BY <2>1, <2>2 DEF DeclareFunction, Create
<1>3. PICK s \in Seq({node, arg.type, arg.name}) :
          tree' = tree \o s /\ s = <<arg.type, arg.name, node>>
  <2>1. <<arg.type, arg.name, node>> \in Seq({node, arg.type, arg.name})
    OBVIOUS
  <2>. QED  BY <1>2, <2>1
<1>4. DOMAIN s = 1 .. 3 /\ s[3] = node /\ s[1] = arg.type /\ s[2] = arg.name
  BY <1>3
<1>5. s \in Seq(AnyNode)
  BY <1>3, NodesTyped
<1>6. 1 \in DOMAIN s /\ 2 \in DOMAIN s /\ \A k \in DOMAIN s : k = 1 \/ k = 2 \/ k = 3
  BY <1>4
<1>7. PICK i \in DOMAIN s, j \in DOMAIN s :
          /\ i # j /\ s[i] = arg.type /\ s[j] = arg.name
          /\ \A k \in DOMAIN s : k # i /\ k # j => s[k].len = 0
  <2>1. \A k \in DOMAIN s : k # 1 /\ k # 2 => s[k].len = 0
    BY <1>2, <1>4, <1>6
  <2>. QED  BY <1>4, <1>6, <2>1
<1>8. tree' = tree \o s
  BY <1>3
<1>. QED  BY <1>1, <1>5, <1>7, <1>8, DeclareDone

\* A task that holds leaves hands them on.
LEMMA DeclareMove ==
    ASSUME IInv, IInv', LeafInv, BracketsOK, Head(agenda)[1] \in Declare, outcome' = "run",
           NEW n \in {0, 1}, Reads(n), NEW seg \in Seq(AnyTask),
           tree' = tree, agenda' = seg \o Tail(agenda),
           \A k \in DOMAIN seg : Calm(seg[k]),
           NEW j \in DOMAIN seg, \A k \in DOMAIN seg : seg[k][1] \in Declare <=> k = j,
           seg[j][2] = arg, n = 1 => peek(0) \notin Operandlike
    PROVE  /\ LeafInv' /\ \A p \in Nat : Taken(p)' <=> Taken(p)
           /\ \A p \in 1 .. pos : Word(p) => (Taken(p)' <=> Taken(p))
<1>1. Splices(<<>>, seg)
  <2>1. tree \in Seq(AnyNode)
    BY DEF IInv, Grown
  <2>. QED  BY <2>1 DEF Splices
<1>2. NewNames(seg)
  BY DEF NewNames
<1>3. Seen' = pos' /\ pos' = pos + n /\ pos \in Nat /\ Seen = pos
  BY <1>1, SeenNext, Windows, DeclareHead DEF LeafInv
<1>4. \A p : Has(<<>>, seg, p) <=> LeafAt(arg.type, p) \/ LeafAt(arg.name, p)
  <2>1. DOMAIN <<>> = {}
    OBVIOUS
  <2>. QED  BY <2>1 DEF Has, Holds
<1>5. \A p : Has(<<>>, seg, p) <=> Holds(Head(agenda), p)
  BY <1>4, DeclareHead
<1>6. ASSUME NEW p \in Nat, Word(p)' PROVE OnceIn(<<>>, seg, p)
  <2>1. DOMAIN <<>> = {}
    OBVIOUS
  <2>2. \A i, k \in DOMAIN seg : Holds(seg[i], p) /\ Holds(seg[k], p) => i = k
    BY DEF Holds
  <2>3. ~(LeafAt(arg.type, p) /\ LeafAt(arg.name, p))
    <3>1. CASE Taken(p)
      <4>1. p <= pos /\ p \in Nat
        BY <1>3, <3>1 DEF LeafInv, Placed
      <4>2. p \in 1 .. Len(input')
        BY <1>6 DEF Word
      <4>3. p \in 1 .. pos + 2
        BY <1>3, <4>1, <4>2
      <4>4. Word(p)
        BY <1>6, <4>3, SameToken
      <4>. QED  BY <4>4, DeclareApart
    <3>2. CASE ~Taken(p)
      BY <3>2, DeclareHead
    <3>. QED  BY <3>1, <3>2
  <2>4. \A k \in DOMAIN seg : seg[k][1] \in Declare =>
            ~(LeafAt(seg[k][2].type, p) /\ LeafAt(seg[k][2].name, p))
    BY <2>3
  <2>. QED  BY <2>1, <2>2, <2>4 DEF OnceIn
<1>7. \A p \in Nat : Has(<<>>, seg, p) =>
          p <= Seen' /\ (p > Seen \/ Holds(Head(agenda), p) \/ ~Word(p)')
  <2>1. ASSUME NEW p \in Nat, Has(<<>>, seg, p) PROVE p <= Seen' /\ Holds(Head(agenda), p)
    <3>1. Holds(Head(agenda), p) /\ Taken(p)
      BY <1>5, <2>1, DeclareHead
    <3>2. p <= pos
      BY <1>3, <3>1 DEF LeafInv, Placed
    <3>. QED  BY <1>3, <3>1, <3>2
  <2>. QED  BY <2>1
<1>8. ASSUME NEW p \in Seen + 1 .. Seen', TypeOf(input'[p]) \in Operandlike PROVE FALSE
  <2>1. n = 1 /\ p = pos + 1
    BY <1>3, <1>8
  <2>2. pos + 1 \in 1 .. pos + 2
    BY <1>3
  <2>3. input'[p] = input[pos + 1]
    BY <2>1, <2>2, Windows
  <2>4. TypeOf(input[pos + 1]) \notin Operandlike
    BY <1>3, <2>1 DEF peek
  <2>. QED  BY <1>8, <2>3, <2>4
<1>9. \A i \in DOMAIN <<>> : Kind(<<>>[i])
  OBVIOUS
<1>10. NewLeaves(<<>>, seg)
  BY <1>5, <1>6, <1>7, <1>8, <1>9 DEF NewLeaves
<1>11. Seen <= Seen'
  BY <1>3
<1>12. /\ LeafInv' /\ \A p \in Nat : Taken(p)' <=> Taken(p) \/ Has(<<>>, seg, p)
       /\ \A p \in 1 .. pos : Word(p) => (Taken(p)' <=> Taken(p))
  BY <1>1, <1>2, <1>10, <1>11, DeclareHead, LeafStep
<1>. QED  BY <1>5, <1>12, DeclareHead

\* A function's parameters are in parentheses; a variable has none.
LEMMA DeclaratorTailSound ==
    ASSUME IInv, IInv', LeafInv, BracketsOK, DeclaratorTail
    PROVE  LeafInv' /\ BracketsOK'
<1>1. Head(agenda)[1] \in Declare /\ outcome = "run"
  BY DEF DeclaratorTail, At, Declare
<1>2. PICK first \in StillTask, init \in StillTask :
          first = Unless("Right", 0, <<Param>>) /\ init = When("Equals", 1, Expression(0))
  <2>1. <<Param>> \in Alternatives /\ Expression(0) \in Alternatives
    BY DEF Alternatives
  <2>. QED  BY <2>1, NamedTokens, StillChoice
<1>3. PICK more \in StillTask, body \in StillTask, semi \in StillTask :
          more = More(Param) /\ body = Task("body", 0) /\ semi = Expect("Semi")
  BY StillTasks
<1>4. PICK close : close = Expect("Right")
  OBVIOUS
<1>5. PICK fun, var : fun = Task("declare function", arg) /\ var = Task("declare variable", arg)
  OBVIOUS
<1>6. \A t \in {first, init, more, body, semi} :
          Calm(t) /\ Bracket(t) \notin BracketToken /\ t[1] \notin Declare
  BY StillIsFlat, QuietIsCalm
<1>7. /\ Calm(close) /\ close[1] \notin Declare /\ Bracket(close) = "Right"
  BY <1>4 DEF Expect, Task, Calm, Operandlike, Literal, Declare, Bracket
<1>8. /\ fun[1] = "declare function" /\ fun[2] = arg
      /\ var[1] = "declare variable" /\ var[2] = arg
  BY <1>5 DEF Task
<1>9. \A t \in {fun, var} : Calm(t) /\ Bracket(t) \notin BracketToken /\ t[1] \in Declare /\ t[2] = arg
  BY <1>8 DEF Calm, Bracket, BracketToken, Declare
<1>10. CASE peek(0) = "Left" /\ Go(1, <<first, more, close, body, fun>>)
  <2>1. /\ Reads(1) /\ tree' = tree /\ outcome' = "run"
        /\ agenda' = <<first, more, close, body, fun>> \o Tail(agenda)
    BY <1>1, <1>10, AdvanceReads DEF IInv, LeafInv, Go, Then
  <2>2. <<first, more, close, body, fun>> \in Seq({first, more, close, body, fun})
    OBVIOUS
  <2>3. PICK s \in Seq({first, more, close, body, fun}) : s = <<first, more, close, body, fun>>
    BY <2>2
  <2>4. DOMAIN s = 1 .. 5 /\ s[1] = first /\ s[2] = more /\ s[3] = close /\ s[4] = body /\ s[5] = fun
    BY <2>3
  <2>5. \A k \in DOMAIN s : k = 1 \/ k = 2 \/ k = 3 \/ k = 4 \/ k = 5
    BY <2>4
  <2>6. PICK seg : agenda' = seg \o Tail(agenda) /\ seg = s
    BY <2>1, <2>3
  <2>7. seg \in Seq(AnyTask)
    BY <2>6, SegmentTyped
  <2>8. PICK j \in DOMAIN seg : j = 5
    BY <2>4, <2>6
  <2>9. /\ \A k \in DOMAIN seg : Calm(seg[k])
        /\ \A k \in DOMAIN seg : seg[k][1] \in Declare <=> k = j
        /\ seg[j][2] = arg
    BY <1>6, <1>7, <1>9, <2>4, <2>5, <2>6, <2>8
  <2>10. PICK n \in {0, 1} : n = 1
    OBVIOUS
  <2>11. Reads(n) /\ (n = 1 => peek(0) \notin Operandlike)
    BY <1>10, <2>1, <2>10 DEF Operandlike, Literal
  <2>12. /\ LeafInv' /\ \A p \in Nat : Taken(p)' <=> Taken(p)
         /\ \A p \in 1 .. pos : Word(p) => (Taken(p)' <=> Taken(p))
    BY <1>1, <2>1, <2>6, <2>7, <2>9, <2>11, DeclareMove
  <2>13. ASSUME NEW a \in Stacks PROVE Closes(seg, Append(a, "Right"), a)
    <3>1. Turns(close, Append(a, "Right"), a)
      BY <1>4, ExpectTurns
    <3>2. \A k \in DOMAIN seg : k # 3 => Bracket(seg[k]) \notin BracketToken
      BY <1>6, <1>9, <2>4, <2>5, <2>6
    <3>3. 3 \in DOMAIN seg /\ seg[3] = close
      BY <2>4, <2>6
    <3>. QED  BY <2>7, <3>1, <3>2, <3>3, ClosesAt
  <2>14. pos \in Nat /\ input[pos + 1] = "Left" /\ \A q \in Nat : q = pos + 1 => ~Taken(q)'
    <3>1. pos \in Nat /\ Seen = pos
      BY <1>1, SeenSpan, DeclareHead
    <3>2. TypeOf(input[pos + 1]) = "Left"
      BY <1>10, <3>1 DEF peek
    <3>3. input[pos + 1] = "Left"
      BY <3>2, TypeIsToken
    <3>4. ASSUME NEW q \in Nat, q = pos + 1 PROVE ~Taken(q)'
      <4>1. ~Taken(q)
        BY <3>1, <3>4 DEF LeafInv, Placed
      <4>. QED  BY <2>12, <4>1
    <3>. QED  BY <3>1, <3>3, <3>4
  <2>15. ASSUME NEW a \in Stacks PROVE Append(a, "Right") \in Stacks /\ Passes(1, a, Append(a, "Right"))
    <3>1. Append(a, "Right") \in Stacks /\ Append(a, "Right") = Read(a, "Left", FALSE)
      BY ReadPair
    <3>2. PICK b : b = Append(a, "Right")
      OBVIOUS
    <3>3. \A p \in Nat : p = pos + 1 => ~Taken(p)' /\ b = Read(a, input[pos + 1], FALSE)
      BY <2>14, <3>1, <3>2
    <3>4. PICK m \in {1, 2} : m = 1
      OBVIOUS
    <3>5. \A p \in Nat : p = pos + 2 /\ m = 2 => input[p] \notin BracketToken
      BY <3>4
    <3>6. Passes(m, a, b)
      BY <2>14, <3>3, <3>5, PassToken
    <3>. QED  BY <3>1, <3>2, <3>4, <3>6
  <2>16. \A a, c \in Stacks : Turns(Head(agenda), a, c) =>
             \E b \in Stacks : Passes(1, a, b) /\ Closes(seg, b, c)
    BY <1>1, <2>13, <2>15, DeclareHead
  <2>17. BracketsOK'
    BY <2>1, <2>6, <2>7, <2>12, <2>16, BracketStep
  <2>. QED  BY <2>12, <2>17
<1>11. CASE Go(0, <<init, semi, var>>)
  <2>1. /\ Reads(0) /\ tree' = tree /\ outcome' = "run"
        /\ agenda' = <<init, semi, var>> \o Tail(agenda)
    BY <1>1, <1>11, AdvanceReads DEF IInv, LeafInv, Go, Then
  <2>2. <<init, semi, var>> \in Seq({init, semi, var})
    OBVIOUS
  <2>3. PICK s \in Seq({init, semi, var}) : s = <<init, semi, var>>
    BY <2>2
  <2>4. DOMAIN s = 1 .. 3 /\ s[1] = init /\ s[2] = semi /\ s[3] = var
    BY <2>3
  <2>5. \A k \in DOMAIN s : k = 1 \/ k = 2 \/ k = 3
    BY <2>4
  <2>6. PICK seg : agenda' = seg \o Tail(agenda) /\ seg = s
    BY <2>1, <2>3
  <2>7. seg \in Seq(AnyTask)
    BY <2>6, SegmentTyped
  <2>8. PICK j \in DOMAIN seg : j = 3
    BY <2>4, <2>6
  <2>9. /\ \A k \in DOMAIN seg : Calm(seg[k])
        /\ \A k \in DOMAIN seg : seg[k][1] \in Declare <=> k = j
        /\ seg[j][2] = arg
    BY <1>6, <1>9, <2>4, <2>5, <2>6, <2>8
  <2>10. PICK n \in {0, 1} : n = 0
    OBVIOUS
  <2>11. Reads(n) /\ (n = 1 => peek(0) \notin Operandlike)
    BY <2>1, <2>10
  <2>12. LeafInv' /\ \A p \in 1 .. pos : Word(p) => (Taken(p)' <=> Taken(p))
    BY <1>1, <2>1, <2>6, <2>7, <2>9, <2>11, DeclareMove
  <2>13. ASSUME NEW a \in Stacks PROVE Passes(0, a, a) /\ Closes(seg, a, a)
    <3>1. \A p \in pos + 1 .. pos + 0 : FALSE /\ pos \in Nat
      BY SeenSpan
    <3>2. Passes(0, a, a)
      BY <3>1, SeenSpan, PassFlat
    <3>3. \A k \in DOMAIN seg : Bracket(seg[k]) \notin BracketToken
      BY <1>6, <1>9, <2>4, <2>5, <2>6
    <3>. QED  BY <2>7, <3>2, <3>3, ClosesFlat
  <2>14. \A a, c \in Stacks : Turns(Head(agenda), a, c) =>
             \E b \in Stacks : Passes(0, a, b) /\ Closes(seg, b, c)
    BY <1>1, <2>13, DeclareHead
  <2>15. BracketsOK'
    BY <2>1, <2>6, <2>7, <2>12, <2>14, BracketStep
  <2>. QED  BY <2>12, <2>15
<1>. QED  BY <1>2, <1>3, <1>4, <1>5, <1>10, <1>11 DEF DeclaratorTail

\* Every step of a declaration.
LEMMA DeclarationStepSound ==
    ASSUME IInv, IInv', LeafInv, BracketsOK, DeclarationStep
    PROVE  LeafInv' /\ BracketsOK'
BY parseQualifiersSound, TypeDeclarationSound, BaseTypeSound, DeclareTypeSound,
   VarDeclarationSound, DeclaratorTailSound, DeclareVariableSound,
   ParamDeclarationSound, FunctionBodySound, DeclareFunctionSound
   DEF DeclarationStep

-----------------------------------------------------------------------------
(* Statements.                                                             *)

\* A statement's first token, with balanced tasks behind it.
LEMMA StatementGo ==
    ASSUME IInv, IInv', LeafInv, BracketsOK, NEW T, T \cap (BracketToken \cup Operandlike) = {},
           NEW seg \in Seq(QuietTask), StatementFrom(T, seg), \A a \in Stacks : Closes(seg, a, a)
    PROVE  LeafInv' /\ BracketsOK'
<1>1. Undemanding /\ Go(1, seg) /\ peek(0) \notin BracketToken \cup Operandlike
  BY DEF StatementFrom, At, Undemanding, Declare
<1>. QED  BY <1>1, KeywordGo

\* The same with tasks that have no bracket.
LEMMA StatementStill ==
    ASSUME IInv, IInv', LeafInv, BracketsOK, NEW T, T \cap (BracketToken \cup Operandlike) = {},
           NEW seg \in Seq(StillTask), StatementFrom(T, seg)
    PROVE  LeafInv' /\ BracketsOK'
<1>1. seg \in Seq(QuietTask) /\ \A a \in Stacks : Closes(seg, a, a)
  BY QuietTasks, StillCloses
<1>. QED  BY <1>1, StatementGo

\* if.
LEMMA parseIfStatementSound ==
    ASSUME IInv, IInv', LeafInv, BracketsOK, parseIfStatement
    PROVE  LeafInv' /\ BracketsOK'
<1>1. PICK s \in Seq(QuietTask) : s = Conditional(Offset(pos + 1)) /\ \A a \in Stacks : Closes(s, a, a)
  BY WindowTokens, ClosesConditional
<1>2. StatementFrom({"kIf"}, s)
  BY <1>1 DEF parseIfStatement
<1>3. {"kIf"} \cap (BracketToken \cup Operandlike) = {}
  BY DEF BracketToken, Operandlike, Literal
<1>. QED  BY <1>1, <1>2, <1>3, StatementGo

\* while.
LEMMA parseWhileStatementSound ==
    ASSUME IInv, IInv', LeafInv, BracketsOK, parseWhileStatement
    PROVE  LeafInv' /\ BracketsOK'
<1>1. PICK build \in StillTask : build = Build("CompileTimeJump", Offset(pos + 1), NoOp, 2, <<1, 2, 0>>)
  <2>1. "CompileTimeJump" \in NodeKind
    BY DEF NodeKind
  <2>. QED  BY <2>1, StillBuilds, WindowTokens
<1>2. PICK s \in Seq(StillTask) : s = <<Statement, build>>
  <2>1. <<Statement, build>> \in Seq(StillTask)
    BY StillTasks
  <2>. QED  BY <2>1
<1>3. <<Expect("Right")>> \o s = <<Expect("Right"), Statement, build>>
  BY <1>2, JoinTasks
<1>4. PICK r \in Seq(StillTask) : r = Expression(0)
  BY StillTasks
<1>5. PICK seg \in Seq(QuietTask) :
          /\ seg = <<Expect("Left")>> \o r \o (<<Expect("Right")>> \o s)
          /\ \A a \in Stacks : Closes(seg, a, a)
  <2>1. <<>> \in Stacks
    BY DEF Stacks
  <2>2. \A a \in Stacks : /\ <<Expect("Left")>> \o r \o (<<Expect("Right")>> \o s) \in Seq(QuietTask)
                          /\ Closes(<<Expect("Left")>> \o r \o (<<Expect("Right")>> \o s), a, a)
    BY ClosesParens
  <2>. QED  BY <2>1, <2>2
<1>6. StatementFrom({"kWhile"}, seg)
  BY <1>1, <1>3, <1>4, <1>5 DEF parseWhileStatement
<1>7. {"kWhile"} \cap (BracketToken \cup Operandlike) = {}
  BY DEF BracketToken, Operandlike, Literal
<1>. QED  BY <1>5, <1>6, <1>7, StatementGo

\* for: two brackets among tasks that have none.
LEMMA parseForStatementSound ==
    ASSUME IInv, IInv', LeafInv, BracketsOK, parseForStatement
    PROVE  LeafInv' /\ BracketsOK'
<1>1. PICK first \in StillTask, cond \in StillTask, incr \in StillTask :
          /\ first = Unless("Semi", 1, <<Statement>>) /\ cond = Unless("Semi", 0, Expression(0))
          /\ incr = Unless("Right", 0, Expression(0))
  <2>1. <<Statement>> \in Alternatives /\ Expression(0) \in Alternatives
    BY DEF Alternatives
  <2>. QED  BY <2>1, NamedTokens, StillChoice
<1>2. PICK build \in StillTask : build = Build("CompileTimeJump", Offset(pos + 1), NoOp, 4, <<2, 4, 1>>)
  <2>1. "CompileTimeJump" \in NodeKind
    BY DEF NodeKind
  <2>. QED  BY <2>1, StillBuilds, WindowTokens
<1>3. PICK body \in StillTask, semi \in StillTask : body = Statement /\ semi = Expect("Semi")
  BY StillTasks
<1>4. PICK open \in QuietTask, close \in QuietTask : open = Expect("Left") /\ close = Expect("Right")
  BY QuietTasks DEF BracketToken
<1>5. StatementFrom({"kFor"}, <<open, first, cond, semi, incr, close, body, build>>)
  BY <1>1, <1>2, <1>3, <1>4 DEF parseForStatement
<1>6. PICK S : S = {open, first, cond, semi, incr, close, body, build}
  OBVIOUS
<1>7. <<open, first, cond, semi, incr, close, body, build>> \in Seq(S)
  BY <1>6
<1>8. PICK seg \in Seq(S) : seg = <<open, first, cond, semi, incr, close, body, build>>
  BY <1>7
<1>9. /\ DOMAIN seg = 1 .. 8 /\ seg[1] = open /\ seg[2] = first /\ seg[3] = cond /\ seg[4] = semi
      /\ seg[5] = incr /\ seg[6] = close /\ seg[7] = body /\ seg[8] = build
  BY <1>8
<1>10. S \subseteq QuietTask
  BY <1>6, StillIsFlat
<1>11. seg \in Seq(QuietTask)
  BY <1>10
<1>12. \A t \in {first, cond, semi, incr, body, build} : Bracket(t) \notin BracketToken
  BY StillIsFlat
<1>13. ASSUME NEW k \in DOMAIN seg, k # 1, k # 6 PROVE Bracket(seg[k]) \notin BracketToken
  <2>1. k = 2 \/ k = 3 \/ k = 4 \/ k = 5 \/ k = 7 \/ k = 8
    BY <1>9, <1>13
  <2>. QED  BY <1>9, <1>12, <2>1
<1>14. ASSUME NEW a \in Stacks PROVE Closes(seg, a, a)
  <2>1. PICK b : /\ Turns(seg[1], a, b) /\ Turns(seg[6], b, a)
    BY <1>4, <1>9, ExpectOpens, ExpectTurns
  <2>2. 1 \in DOMAIN seg /\ 6 \in DOMAIN seg /\ 1 < 6
    BY <1>9
  <2>. QED  BY <1>13, <2>1, <2>2, ClosesTwo
<1>15. {"kFor"} \cap (BracketToken \cup Operandlike) = {}
  BY DEF BracketToken, Operandlike, Literal
<1>16. StatementFrom({"kFor"}, seg)
  BY <1>5, <1>8
<1>. QED  BY <1>11, <1>14, <1>15, <1>16, StatementGo

\* return.
LEMMA parseReturnStatementSound ==
    ASSUME IInv, IInv', LeafInv, BracketsOK, parseReturnStatement
    PROVE  LeafInv' /\ BracketsOK'
<1>1. PICK first \in StillTask : first = Unless("Semi", 0, Expression(0))
  <2>1. Expression(0) \in Alternatives
    BY DEF Alternatives
  <2>. QED  BY <2>1, NamedTokens, StillChoice
<1>2. PICK build \in StillTask : build = Build("UnaryExpr", Offset(pos + 1), "kReturn", 1, <<1>>)
  <2>1. "UnaryExpr" \in NodeKind /\ "kReturn" \in TokenType
    BY NamedTokens DEF NodeKind
  <2>. QED  BY <2>1, StillBuilds, WindowTokens
<1>3. PICK seg \in Seq(StillTask) : seg = <<first, Expect("Semi"), build>>
  <2>1. <<first, Expect("Semi"), build>> \in Seq(StillTask)
    BY StillTasks
  <2>. QED  BY <2>1
<1>4. StatementFrom({"kReturn"}, seg)
  BY <1>1, <1>2, <1>3 DEF parseReturnStatement
<1>5. {"kReturn"} \cap (BracketToken \cup Operandlike) = {}
  BY DEF BracketToken, Operandlike, Literal
<1>. QED  BY <1>4, <1>5, StatementStill

\* break and continue.
LEMMA JumpStatementSound ==
    ASSUME IInv, IInv', LeafInv, BracketsOK, JumpStatement
    PROVE  LeafInv' /\ BracketsOK'
<1>1. PICK build \in StillTask : build = Build("CompileTimeJump", Offset(pos + 1), peek(0), 0, <<0>>)
  <2>1. "CompileTimeJump" \in NodeKind
    BY DEF NodeKind
  <2>. QED  BY <2>1, StillBuilds, WindowTokens
<1>2. PICK seg \in Seq(StillTask) : seg = <<Expect("Semi"), build>>
  <2>1. <<Expect("Semi"), build>> \in Seq(StillTask)
    BY StillTasks
  <2>. QED  BY <2>1
<1>3. StatementFrom(Jump, seg)
  BY <1>1, <1>2 DEF JumpStatement
<1>4. Jump \cap (BracketToken \cup Operandlike) = {}
  BY DEF Jump, BracketToken, Operandlike, Literal
<1>. QED  BY <1>3, <1>4, StatementStill

\* delete as a statement, and requires.
LEMMA DeleteStatementSound ==
    ASSUME IInv, IInv', LeafInv, BracketsOK, DeleteStatement
    PROVE  LeafInv' /\ BracketsOK'
<1>1. PICK seg \in Seq(StillTask) : seg = Delete(Offset(pos + 1)) \o <<Skip("Semi")>>
  <2>1. <<Skip("Semi")>> \in Seq(StillTask) /\ Delete(Offset(pos + 1)) \in Seq(StillTask)
    BY StillTasks, StillDelete, WindowTokens
  <2>2. Delete(Offset(pos + 1)) \o <<Skip("Semi")>> \in Seq(StillTask)
    BY <2>1, ConcatProperties
  <2>. QED  BY <2>2
<1>2. StatementFrom({"kDelete"}, seg)
  BY <1>1 DEF DeleteStatement
<1>3. {"kDelete"} \cap (BracketToken \cup Operandlike) = {}
  BY DEF BracketToken, Operandlike, Literal
<1>. QED  BY <1>2, <1>3, StatementStill

\* requires.
LEMMA RequiresClauseSound ==
    ASSUME IInv, IInv', LeafInv, BracketsOK, RequiresClause
    PROVE  LeafInv' /\ BracketsOK'
<1>1. PICK seg \in Seq(StillTask) : seg = <<Expect("Colon")>> \o Expression(0) \o <<Skip("Semi")>>
  <2>1. /\ <<Skip("Semi")>> \in Seq(StillTask) /\ <<Expect("Colon")>> \in Seq(StillTask)
        /\ Expression(0) \in Seq(StillTask)
    BY StillTasks
  <2>2. <<Expect("Colon")>> \o Expression(0) \in Seq(StillTask)
    BY <2>1, ConcatProperties
  <2>3. <<Expect("Colon")>> \o Expression(0) \o <<Skip("Semi")>> \in Seq(StillTask)
    BY <2>1, <2>2, ConcatProperties
  <2>. QED  BY <2>3
<1>2. StatementFrom({"kRequires"}, seg)
  BY <1>1 DEF RequiresClause
<1>3. {"kRequires"} \cap (BracketToken \cup Operandlike) = {}
  BY DEF BracketToken, Operandlike, Literal
<1>. QED  BY <1>2, <1>3, StatementStill

\* An expression as a statement.
LEMMA ExpressionStatementSound ==
    ASSUME IInv, IInv', LeafInv, BracketsOK, ExpressionStatement
    PROVE  LeafInv' /\ BracketsOK'
<1>1. Undemanding
  BY DEF ExpressionStatement, At, Undemanding, Declare
<1>2. PICK seg \in Seq(StillTask) : seg = Expression(0) \o <<Skip("Semi")>>
  <2>1. <<Skip("Semi")>> \in Seq(StillTask) /\ Expression(0) \in Seq(StillTask)
    BY StillTasks
  <2>2. Expression(0) \o <<Skip("Semi")>> \in Seq(StillTask)
    BY <2>1, ConcatProperties
  <2>. QED  BY <2>2
<1>3. Go(0, seg)
  BY <1>2 DEF ExpressionStatement
<1>. QED  BY <1>1, <1>3, PlainHead, StillGo

\* A keyword in front of a name that is kept by offset only.
LEMMA NameGo ==
    ASSUME IInv, IInv', LeafInv, BracketsOK, Undemanding, NEW t \in {"kStruct", "kNamespace"}, peek(0) = t,
           NEW S, NEW seg \in Seq(S), Go(1, seg), 1 \in DOMAIN seg, seg[1] = Expect("Ident"),
           \A k \in DOMAIN seg : k # 1 => seg[k] \in StillTask
    PROVE  LeafInv' /\ BracketsOK'
<1>1. Reads(1) /\ tree' = tree /\ outcome' = "run" /\ agenda' = seg \o Tail(agenda)
  BY AdvanceReads, PlainHead DEF IInv, LeafInv, Go, Then
<1>2. seg \in Seq(AnyTask)
  BY <1>1, SegmentTyped
<1>3. Splices(<<>>, seg)
  <2>1. tree \in Seq(AnyNode)
    BY DEF IInv, Grown
  <2>. QED  BY <1>1, <1>2, <2>1 DEF Splices
<1>4. /\ pos \in Nat /\ pos' = pos + 1
      /\ \A p \in 1 .. pos + 2 : input'[p] = input[p]
  BY <1>1, Windows
<1>5. input[pos + 1] = t /\ input'[pos'] = t
  <2>1. TypeOf(input[pos + 1]) = t
    BY <1>4 DEF peek
  <2>2. input[pos + 1] = t /\ pos + 1 \in 1 .. pos + 2
    BY <1>4, <2>1, TypeIsToken
  <2>. QED  BY <1>4, <2>2
<1>6. \A k \in DOMAIN seg : k # 1 =>
          Calm(seg[k]) /\ Bracket(seg[k]) \notin BracketToken /\ seg[k][1] \notin Declare
  BY StillIsFlat, QuietIsCalm
<1>7. Bracket(seg[1]) \notin BracketToken /\ seg[1][1] \notin Declare
  BY NameNotCalm DEF Bracket, BracketToken, Declare
<1>8. NewNames(seg)
  <2>1. pos' > 0
    BY <1>4
  <2>. QED  BY <1>5, <1>6, <2>1 DEF NewNames
<1>9. Seen' = pos'
  BY <1>5 DEF Seen, Naming
<1>10. \A k \in DOMAIN seg : seg[k][1] \notin Declare /\ Bracket(seg[k]) \notin BracketToken
  BY <1>6, <1>7
<1>11. \A p \in pos + 1 .. pos + 1 :
           /\ TypeOf(input[p]) \in Operandlike => Nameless(p)
           /\ input[p] \notin BracketToken
  <2>1. \A p \in pos + 1 .. pos + 1 : p = pos + 1
    BY <1>4
  <2>2. TypeOf(input[pos + 1]) \notin Operandlike /\ input[pos + 1] \notin BracketToken
    <3>1. TypeOf(input[pos + 1]) = t
      BY <1>4 DEF peek
    <3>. QED  BY <1>5, <3>1 DEF Operandlike, Literal, BracketToken
  <2>. QED  BY <2>1, <2>2
<1>12. \A i \in DOMAIN <<>> : Inner(<<>>[i])
  OBVIOUS
<1>13. LeafInv' /\ (\A p \in Nat : Taken(p)' <=> Taken(p))
  BY <1>1, <1>3, <1>8, <1>9, <1>10, <1>11, <1>12, PlainHead, NoLeaves
<1>14. ASSUME NEW a \in Stacks PROVE Passes(1, a, a) /\ Closes(seg, a, a)
  <2>1. PICK n \in {0, 1, 2} : n = 1
    OBVIOUS
  <2>2. \A p \in pos + 1 .. pos + n : Taken(p)' \/ input[p] \notin BracketToken
    BY <1>11, <2>1
  <2>3. Passes(n, a, a)
    BY <1>4, <2>2, PassFlat
  <2>. QED  BY <1>10, <2>1, <2>3, ClosesFlat
<1>15. \A a, c \in Stacks : Turns(Head(agenda), a, c) =>
           \E b \in Stacks : Passes(1, a, b) /\ Closes(seg, b, c)
  BY <1>14, PlainHead
<1>16. \A p \in 1 .. pos : Word(p) => (Taken(p)' <=> Taken(p))
  BY <1>4, <1>13
<1>17. BracketsOK'
  BY <1>1, <1>2, <1>15, <1>16, BracketStep
<1>. QED  BY <1>13, <1>17

\* struct and namespace.
LEMMA parseStructDeclSound ==
    ASSUME IInv, IInv', LeafInv, BracketsOK, parseStructDecl
    PROVE  LeafInv' /\ BracketsOK'
<1>1. PICK body \in StillTask : body = When("BrLeft", 0, <<Statement>>)
  <2>1. <<Statement>> \in Alternatives
    BY DEF Alternatives
  <2>. QED  BY <2>1, NamedTokens, StillChoice
<1>2. PICK build \in StillTask : build = Build("StructDecl", Offset(pos + 1), NoOp, 1, <<1>>)
  <2>1. "StructDecl" \in NodeKind
    BY DEF NodeKind
  <2>. QED  BY <2>1, StillBuilds, WindowTokens
<1>3. PICK semi, name : semi \in StillTask /\ semi = Skip("Semi") /\ name = Expect("Ident")
  BY StillTasks
<1>4. <<name, body, semi, build>> \in Seq({name, body, semi, build})
  OBVIOUS
<1>5. PICK seg \in Seq({name, body, semi, build}) : seg = <<name, body, semi, build>>
  BY <1>4
<1>6. DOMAIN seg = 1 .. 4 /\ seg[1] = name /\ seg[2] = body /\ seg[3] = semi /\ seg[4] = build
  BY <1>5
<1>7. \A k \in DOMAIN seg : k # 1 => seg[k] \in StillTask
  <2>1. \A k \in DOMAIN seg : k = 1 \/ k = 2 \/ k = 3 \/ k = 4
    BY <1>6
  <2>. QED  BY <1>3, <1>6, <2>1
<1>8. Undemanding /\ Go(1, seg) /\ peek(0) = "kStruct"
  BY <1>1, <1>2, <1>3, <1>5 DEF parseStructDecl, StatementFrom, At, Undemanding, Declare
<1>9. 1 \in DOMAIN seg /\ seg[1] = Expect("Ident")
  BY <1>3, <1>6
<1>10. PICK t \in {"kStruct", "kNamespace"} : peek(0) = t
  BY <1>8
<1>. QED  BY <1>7, <1>8, <1>9, <1>10, NameGo

\* namespace.
LEMMA parseNamespaceDeclSound ==
    ASSUME IInv, IInv', LeafInv, BracketsOK, parseNamespaceDecl
    PROVE  LeafInv' /\ BracketsOK'
<1>1. PICK build \in StillTask : build = Build("NamespaceDecl", Offset(pos + 1), NoOp, 1, <<1>>)
  <2>1. "NamespaceDecl" \in NodeKind
    BY DEF NodeKind
  <2>. QED  BY <2>1, StillBuilds, WindowTokens
<1>2. PICK body, name : body \in StillTask /\ body = Statement /\ name = Expect("Ident")
  BY StillTasks
<1>3. <<name, body, build>> \in Seq({name, body, build})
  OBVIOUS
<1>4. PICK seg \in Seq({name, body, build}) : seg = <<name, body, build>>
  BY <1>3
<1>5. DOMAIN seg = 1 .. 3 /\ seg[1] = name /\ seg[2] = body /\ seg[3] = build
  BY <1>4
<1>6. \A k \in DOMAIN seg : k # 1 => seg[k] \in StillTask
  <2>1. \A k \in DOMAIN seg : k = 1 \/ k = 2 \/ k = 3
    BY <1>5
  <2>. QED  BY <1>2, <1>5, <2>1
<1>7. Undemanding /\ Go(1, seg) /\ peek(0) = "kNamespace"
  BY <1>1, <1>2, <1>4 DEF parseNamespaceDecl, StatementFrom, At, Undemanding, Declare
<1>8. 1 \in DOMAIN seg /\ seg[1] = Expect("Ident")
  BY <1>2, <1>5
<1>9. PICK t \in {"kStruct", "kNamespace"} : peek(0) = t
  BY <1>7
<1>. QED  BY <1>6, <1>7, <1>8, <1>9, NameGo

\* The unit's loop goes on, or is what remains at the end.
LEMMA UnitLoopSound ==
    ASSUME IInv, IInv', LeafInv, BracketsOK, UnitLoop
    PROVE  LeafInv' /\ BracketsOK'
<1>1. Head(agenda)[1] = "unit" /\ Undemanding
  BY DEF UnitLoop, At, Undemanding, Declare
<1>2. CASE peek(0) = "Eof"
  <2>1. Stay /\ UNCHANGED <<tree, agenda>> /\ agenda = <<Task("unit", 0)>>
    BY <1>1, <1>2, UnitAlone DEF UnitLoop
  <2>2. LeafInv'
    BY <2>1, StandLeaves
  <2>3. BracketsOK'
    BY <2>1 DEF Stay, BracketsOK, Taken
  <2>. QED  BY <2>2, <2>3
<1>3. CASE peek(0) # "Eof"
  <2>1. PICK seg \in Seq(StillTask) :
            seg = <<Statement, Drop, Task("guardrail", Offset(pos + 1)), Task("unit", 0)>>
    <3>1. PICK g \in StillTask : g = Task("guardrail", Offset(pos + 1))
      BY WindowTokens, StillTasks
    <3>2. <<Statement, Drop, g, Task("unit", 0)>> \in Seq(StillTask)
      BY StillTasks
    <3>. QED  BY <3>1, <3>2
  <2>2. Go(0, seg)
    BY <1>3, <2>1 DEF UnitLoop
  <2>. QED  BY <1>1, <2>2, PlainHead, StillGo
<1>. QED  BY <1>2, <1>3

\* The guardrail.
LEMMA GuardrailSound ==
    ASSUME IInv, IInv', LeafInv, BracketsOK, Guardrail
    PROVE  LeafInv' /\ BracketsOK'
<1>1. Undemanding
  BY DEF Guardrail, At, Undemanding, Declare
<1>2. ~Stuck
  BY GuardrailFree DEF GuardrailIdle, Guardrail
<1>3. Go(0, <<>>)
  BY <1>2 DEF Guardrail
<1>. QED  BY <1>1, <1>3, PlainHead, StillEnd

\* Every step of a statement or of the unit.
LEMMA StatementStepSound ==
    ASSUME IInv, IInv', LeafInv, BracketsOK, StatementStep
    PROVE  LeafInv' /\ BracketsOK'
BY parseIfStatementSound, parseWhileStatementSound, parseForStatementSound,
   parseReturnStatementSound, JumpStatementSound, parseStructDeclSound,
   parseNamespaceDeclSound, DeleteStatementSound, RequiresClauseSound,
   ExpressionStatementSound, UnitLoopSound, GuardrailSound
   DEF StatementStep

-----------------------------------------------------------------------------
(* Every behaviour.                                                        *)

\* At the start nothing has been read.
LEMMA InitSound ==
    ASSUME Init
    PROVE  LeafInv /\ BracketsOK
<1>. PICK root, unit : root = Node("TranslationUnit", 0, 0, NoOp, <<>>) /\ unit = Task("unit", 0)
  OBVIOUS
<1>1. tree = <<root>> /\ agenda = <<unit>> /\ pos = 0 /\ outcome = "run"
  BY DEF Init
<1>2. root.len = 0 /\ unit[1] = "unit" /\ Calm(unit) /\ Bracket(unit) = "none"
  BY DEF Node, Task, Calm, Bracket
<1>3. DOMAIN tree = {1} /\ tree[1] = root /\ DOMAIN agenda = {1} /\ agenda[1] = unit
  BY <1>1
<1>4. EofLast
  <2>1. IInv
    BY InitIInv
  <2>2. PICK t \in Follow(<<>>) : \E u \in Follow(<<t>>) : input = <<t, u>>
    BY DEF Init
  <2>3. PICK u \in Follow(<<t>>) : input = <<t, u>>
    BY <2>2
  <2>4. t \in Token /\ u \in Token
    BY <2>1, <2>3 DEF IInv, WindowOK
  <2>5. PICK s \in Seq(Token) : s = <<t>>
    <3>1. <<t>> \in Seq(Token)
      BY <2>4
    <3>. QED  BY <3>1
  <2>6. Len(s) = 1 /\ input = Append(s, u) /\ DOMAIN input = 1 .. 1 + 1
    BY <2>3, <2>4, <2>5
  <2>7. \A p, q \in 1 .. 1 : p <= q /\ s[p] = "Eof" => s[q] = "Eof"
    OBVIOUS
  <2>8. u \in Follow(s)
    BY <2>3, <2>5
  <2>9. \A p, q \in 1 .. 1 + 1 : p <= q /\ Append(s, u)[p] = "Eof" => Append(s, u)[q] = "Eof"
    BY <2>4, <2>6, <2>7, <2>8, FollowEof
  <2>. QED  BY <2>6, <2>9 DEF EofLast
<1>5. \A p \in Nat : ~Taken(p)
  <2>1. unit[1] \notin Declare
    BY <1>2 DEF Declare
  <2>2. \A p : ~LeafAt(root, p) /\ ~Holds(unit, p)
    BY <1>2, <2>1 DEF LeafAt, Holds
  <2>. QED  BY <1>3, <2>2 DEF Taken
<1>6. ~Naming /\ Seen = 0
  BY <1>1 DEF Naming, Seen
<1>7. Once
  BY <1>2, <1>3 DEF Once, OnceIn, LeafAt, Holds, Declare
<1>8. Kept
  BY <1>6 DEF Kept
<1>9. LeafInv
  BY <1>1, <1>2, <1>3, <1>4, <1>5, <1>7, <1>8 DEF LeafInv, Placed, Kinds, Kind, NamesFollow
<1>10. BracketsOK
  <2>1. PICK f : f = [p \in 0 .. 0 |-> <<>>]
    OBVIOUS
  <2>2. f[0] = <<>> /\ <<>> \in Stacks /\ 1 .. 0 = {}
    BY <2>1 DEF Stacks
  <2>3. <<unit>> \in Seq({unit}) /\ \A k \in DOMAIN <<unit>> : <<unit>>[k] = unit
    OBVIOUS
  <2>4. Bracket(unit) \notin BracketToken
    BY <1>2 DEF BracketToken
  <2>5. Closes(<<unit>>, <<>>, <<>>)
    BY <2>2, <2>3, <2>4, ClosesFlat
  <2>. QED  BY <1>1, <2>2, <2>5 DEF BracketsOK
<1>. QED  BY <1>9, <1>10

\* Where the leaves are and what is open, always.
THEOREM LeavesAndBrackets == Spec => [](IInv /\ LeafInv /\ BracketsOK)
<1>1. Init => LeafInv /\ BracketsOK
  BY InitSound
<1>2. IInv /\ IInv' /\ LeafInv /\ BracketsOK /\ [Next]_vars => LeafInv' /\ BracketsOK'
  <2>. SUFFICES ASSUME IInv, IInv', LeafInv, BracketsOK, [Next]_vars
                PROVE  LeafInv' /\ BracketsOK'
    OBVIOUS
  <2>1. CASE Helper
    BY <2>1, HelperSound
  <2>2. CASE ExpressionStep
    BY <2>2, ExpressionStepSound
  <2>3. CASE DeclarationStep
    BY <2>3, DeclarationStepSound
  <2>4. CASE StatementStep
    BY <2>4, StatementStepSound
  <2>5. CASE UNCHANGED vars
    <3>1. LeafInv'
      BY <2>5, StandLeaves DEF vars, Stay, LeafInv
    <3>2. BracketsOK'
      BY <2>5 DEF vars, BracketsOK, Taken
    <3>. QED  BY <3>1, <3>2
  <2>. QED  BY <2>1, <2>2, <2>3, <2>4, <2>5 DEF Next
<1>. QED  BY <1>1, <1>2, Invariance, PTL DEF Spec

\* At the end only the tree holds tokens.
LEMMA TakenAtEnd ==
    ASSUME LeafInv, outcome = "done"
    PROVE  /\ agenda = <<Task("unit", 0)>> /\ Seen = pos
           /\ \A p : Taken(p) <=> \E i \in DOMAIN tree : LeafAt(tree[i], p)
<1>. PICK unit : unit = Task("unit", 0)
  OBVIOUS
<1>1. agenda = <<unit>> /\ unit[1] = "unit"
  BY DEF LeafInv, Task
<1>2. DOMAIN agenda = {1} /\ agenda[1] = unit /\ Head(agenda) = unit
  BY <1>1
<1>3. ~Naming
  <2>1. Expect("Ident")[1] = "expect"
    BY DEF Expect, Task
  <2>. QED  BY <1>1, <1>2, <2>1 DEF Naming
<1>4. \A p : \A j \in DOMAIN agenda : ~Holds(agenda[j], p)
  BY <1>1, <1>2 DEF Holds, Declare
<1>. QED  BY <1>1, <1>3, <1>4 DEF Seen, Taken

\* A parse that succeeds has skipped no identifier and no literal.
THEOREM NoOperandSkipped == Spec => []NothingSkipped
<1>1. IInv /\ LeafInv => NothingSkipped
  <2>. SUFFICES ASSUME IInv, LeafInv, outcome = "done", NEW p \in Consumed,
                       TypeOf(input[p]) \in Operandlike, ~Nameless(p)
                PROVE  Cardinality({i \in DOMAIN tree :
                           /\ tree[i].off = p - 1
                           /\ tree[i].len = 1
                           /\ tree[i].kind \in {"LiteralExpr", "IdentifierExpr"}}) = 1
    BY DEF NothingSkipped, Operandlike
  <2> DEFINE Leaves == {i \in DOMAIN tree :
                           /\ tree[i].off = p - 1
                           /\ tree[i].len = 1
                           /\ tree[i].kind \in {"LiteralExpr", "IdentifierExpr"}}
  <2>1. p \in 1 .. pos /\ input[p] # "Eof" /\ pos \in Nat /\ Len(input) = pos + 2
    BY DEF Consumed, IInv, WindowOK
  <2>2. p \in Nat /\ p \in 1 .. Len(input)
    BY <2>1
  <2>3. \E i \in DOMAIN tree : LeafAt(tree[i], p)
    BY <2>1, TakenAtEnd DEF LeafInv, Kept
  <2>4. PICK i \in DOMAIN tree : LeafAt(tree[i], p)
    BY <2>3
  <2>5. \A j \in DOMAIN tree : LeafAt(tree[j], p) => j = i
    BY <2>1, <2>2, <2>4 DEF LeafInv, Once, Word, OnceIn
  <2>6. \A j \in DOMAIN tree : LeafAt(tree[j], p) <=> j \in Leaves
    BY DEF LeafInv, Kinds, Kind, LeafKind, LeafAt
  <2>7. Leaves = {i}
    BY <2>4, <2>5, <2>6
  <2>. HIDE DEF Leaves
  <2>8. Cardinality(Leaves) = 1
    BY <2>7, FS_Singleton
  <2>. QED  BY <2>8 DEF Leaves
<1>. QED  BY <1>1, LeavesAndBrackets, PTL

\* A function that reads the brackets token by token is Open.
LEMMA OpenIs ==
    ASSUME pos \in Nat, NEW f, f[0] = <<>>,
           \A p \in 1 .. pos : f[p] = Read(f[p - 1], input[p], IsLeaf(p))
    PROVE  Open[pos] = f[pos]
<1> DEFINE Opens(g) ==
               g = [p \in 0 .. pos |-> IF p = 0 THEN <<>> ELSE Read(g[p - 1], input[p], IsLeaf(p))]
<1>1. PICK g : g = [p \in 0 .. pos |-> f[p]]
  OBVIOUS
<1>2. \A p \in 0 .. pos : g[p] = f[p] /\ (p # 0 => p \in 1 .. pos /\ g[p - 1] = f[p - 1])
  BY <1>1
<1>3. \A p \in 0 .. pos : f[p] = IF p = 0 THEN <<>> ELSE Read(g[p - 1], input[p], IsLeaf(p))
  BY <1>2
<1>4. Opens(g)
  BY <1>1, <1>3
<1>5. Open = CHOOSE h : Opens(h)
  BY DEF Open
<1>6. Opens(Open)
  BY <1>4, <1>5, Zenon
<1>7. \A p \in 0 .. pos : Open[p] = IF p = 0 THEN <<>> ELSE Read(Open[p - 1], input[p], IsLeaf(p))
  BY <1>6
<1> DEFINE Differ == {p \in 0 .. pos : Open[p] # f[p]}
<1>8. Differ = {}
  <2>. SUFFICES ASSUME Differ # {} PROVE FALSE
    OBVIOUS
  <2>1. Differ \subseteq Nat
    OBVIOUS
  <2>2. PICK p : p \in Differ /\ \A q \in Differ : p <= q
    <3>. HIDE DEF Differ
    <3>. QED  BY <2>1, MinNat
  <2>3. p # 0
    BY <1>7, <2>2
  <2>4. p \in 1 .. pos /\ p - 1 \in 0 .. pos /\ ~(p <= p - 1)
    BY <2>2, <2>3
  <2>5. Open[p - 1] = f[p - 1]
    BY <2>2, <2>4
  <2>6. Open[p] = Read(f[p - 1], input[p], IsLeaf(p))
    BY <1>7, <2>2, <2>3, <2>5
  <2>. QED  BY <2>2, <2>4, <2>6
<1>9. pos \in 0 .. pos
  OBVIOUS
<1>. QED  BY <1>8, <1>9

\* A parse that succeeds has closed every bracket it has opened.
THEOREM BracketsAreMatched == Spec => []BracketsMatch
<1>1. IInv /\ LeafInv /\ BracketsOK => BracketsMatch
  <2>. SUFFICES ASSUME IInv, LeafInv, BracketsOK, outcome = "done" PROVE Open[pos] = <<>>
    BY DEF BracketsMatch
  <2>1. PICK f : /\ f[0] = <<>>
                 /\ \A p \in 1 .. pos : f[p] = Read(f[p - 1], input[p], Taken(p))
                 /\ f[pos] \in Stacks
                 /\ Closes(agenda, f[pos], <<>>)
    BY DEF BracketsOK
  <2>2. \A p : Taken(p) = IsLeaf(p)
    BY TakenAtEnd DEF IsLeaf, LeafAt, Taken
  <2>3. Open[pos] = f[pos]
    <3>1. pos \in Nat
      BY DEF IInv, WindowOK
    <3>2. \A p \in 1 .. pos : f[p] = Read(f[p - 1], input[p], IsLeaf(p))
      BY <2>1, <2>2
    <3>. QED  BY <2>1, <3>1, <3>2, OpenIs
  <2>4. f[pos] = <<>>
    <3>. PICK unit : unit = Task("unit", 0)
      OBVIOUS
    <3>1. agenda = <<unit>> /\ Bracket(unit) = "none"
      BY TakenAtEnd DEF Bracket, Task
    <3>2. Len(agenda) = 1 /\ agenda[1] = unit
      BY <3>1
    <3>3. PICK h : h[0] = f[pos] /\ h[1] = <<>> /\ \A k \in 1 .. 1 : Turns(agenda[k], h[k - 1], h[k])
      BY <2>1, <3>2 DEF Closes
    <3>4. 1 \in 1 .. 1 /\ 1 - 1 = 0
      OBVIOUS
    <3>5. Turns(unit, f[pos], <<>>)
      BY <3>2, <3>3, <3>4
    <3>6. Bracket(unit) \notin BracketToken
      BY <3>1 DEF BracketToken
    <3>. QED  BY <3>5, <3>6, TurnsFlat
  <2>. QED  BY <2>3, <2>4
<1>. QED  BY <1>1, LeavesAndBrackets, PTL
=============================================================================
