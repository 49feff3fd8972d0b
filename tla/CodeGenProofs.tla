--------------------------- MODULE CodeGenProofs ---------------------------
(***************************************************************************)
(* Theorems about CodeGen, for every text and every set of names: the walk *)
(* leaves what the parser has built alone, the scopes it has open are those*)
(* of the visits that have not returned, its variables have their types, a *)
(* tree that compiles has its identifiers declared, and one with a body in *)
(* braces does not compile.  The last two rest on the order of the nodes   *)
(* (ParserProofs): one on how far the walk has come through the tree, the  *)
(* other on a task of the agenda that always comes back to such a body.    *)
(***************************************************************************)
EXTENDS CodeGen, ParserProofs, OrderProofs, FunctionTheorems

-----------------------------------------------------------------------------
(* Counting the tasks that will close a scope.                             *)

ScopeTask == {"rest", "function"}

Closers(s) == {i \in DOMAIN s : s[i][1] \in ScopeTask}

IsSeq(s) == s \in Seq(Range(s))

\* A sequence over some set is one over the set of its elements.
LEMMA SeqIsSeq == ASSUME NEW S, NEW s \in Seq(S) PROVE IsSeq(s)
<1>1. \A i \in 1 .. Len(s) : s[i] \in Range(s)
  BY DEF Range
<1>. QED
  BY <1>1 DEF IsSeq

\* The closers of a sequence are finitely many.
LEMMA ClosersFinite ==
    ASSUME NEW S, NEW s \in Seq(S)
    PROVE  IsFiniteSet(Closers(s)) /\ Cardinality(Closers(s)) \in Nat
<1>1. IsFiniteSet(1 .. Len(s))
  BY FS_Interval
<1>2. Closers(s) \in SUBSET (1 .. Len(s))
  BY DEF Closers
<1>. QED
  BY <1>1, <1>2, FS_Subset, FS_CardinalityType

\* The closers of two sequences, one appended to the other, are those of
\* both.
LEMMA ClosersOfConcat ==
    ASSUME NEW S, NEW s \in Seq(S), NEW t \in Seq(S), NEW u \in Seq(S), u = s \o t
    PROVE  Cardinality(Closers(u)) = Cardinality(Closers(s)) + Cardinality(Closers(t))
<1>1. PICK m \in Nat, n \in Nat : m = Len(s) /\ n = Len(t)
  OBVIOUS
<1>2. /\ Len(u) = m + n
      /\ \A i \in 1 .. m + n : u[i] = IF i <= m THEN s[i] ELSE t[i - m]
  BY <1>1
<1> DEFINE A == Closers(s)
           B == {i \in m + 1 .. m + n : u[i][1] \in ScopeTask}
           f == [i \in Closers(t) |-> m + i]
<1>3. IsFiniteSet(A) /\ IsFiniteSet(Closers(t)) /\ IsFiniteSet(Closers(u))
  BY ClosersFinite
<1>4. f \in Bijection(Closers(t), B)
  <2>1. \A i \in 1 .. n : m + i \in m + 1 .. m + n /\ m + i \in 1 .. m + n
                          /\ ~(m + i <= m) /\ (m + i) - m = i
    OBVIOUS
  <2>2. \A i \in 1 .. n : u[m + i] = t[i]
    BY <1>2, <2>1
  <2>3. Closers(t) = {i \in 1 .. n : t[i][1] \in ScopeTask}
    BY <1>1 DEF Closers
  <2>4. f \in [Closers(t) -> B]
    BY <2>1, <2>2, <2>3
  <2>5. \A i, j \in Closers(t) : f[i] = f[j] => i = j
    BY <2>3
  <2>6. \A k \in B : \E i \in Closers(t) : f[i] = k
    <3>. TAKE k \in B
    <3>1. k - m \in 1 .. n /\ m + (k - m) = k
      OBVIOUS
    <3>2. k - m \in Closers(t)
      BY <2>2, <2>3, <3>1
    <3>. QED  BY <3>1, <3>2
  <2>. HIDE DEF f, B
  <2>. QED  BY <2>4, <2>5, <2>6, Fun_IsBij
<1>5. IsFiniteSet(B) /\ Cardinality(B) = Cardinality(Closers(t))
  <2>. HIDE DEF f, B
  <2>. QED  BY <1>3, <1>4, FS_Bijection DEF ExistsBijection
<1>6. Closers(u) = A \cup B /\ A \cap B = {}
  <2>1. A = {i \in 1 .. m : s[i][1] \in ScopeTask}
    BY <1>1 DEF Closers
  <2>2. Closers(u) = {i \in 1 .. m + n : u[i][1] \in ScopeTask}
    BY <1>2 DEF Closers
  <2>3. \A i \in 1 .. m : u[i] = s[i] /\ i \in 1 .. m + n /\ i \notin m + 1 .. m + n
    BY <1>2
  <2>4. \A i \in 1 .. m + n : i \in 1 .. m \/ i \in m + 1 .. m + n
    OBVIOUS
  <2>5. \A i \in m + 1 .. m + n : i \in 1 .. m + n
    OBVIOUS
  <2>. HIDE DEF A
  <2>. QED  BY <2>1, <2>2, <2>3, <2>4, <2>5
<1>7. Cardinality(A \cup B) = Cardinality(A) + Cardinality(B) - Cardinality(A \cap B)
  <2>. HIDE DEF A, B
  <2>. QED  BY <1>3, <1>5, FS_Union
<1>8. Cardinality({}) = 0
  BY FS_EmptySet
<1>9. Cardinality(A) \in Nat /\ Cardinality(B) \in Nat
  <2>. HIDE DEF A, B
  <2>. QED  BY <1>3, <1>5, FS_CardinalityType
<1>. HIDE DEF A, B
<1>10. Cardinality(A \cup B) = Cardinality(A) + Cardinality(B)
  <2>1. Cardinality(A \cap B) = 0
    BY Zenon, <1>6, <1>8
  <2>. QED  BY <1>7, <1>9, <2>1
<1>. QED
  BY <1>5, <1>6, <1>10 DEF A

\* The closers of the sequences the visits put before the remaining tasks.
LEMMA ClosersOfFew ==
    ASSUME NEW a, NEW b, NEW c
    PROVE  /\ Cardinality(Closers(<<>>)) = 0
           /\ a[1] \notin ScopeTask => Cardinality(Closers(<<a>>)) = 0
           /\ a[1] \in ScopeTask => Cardinality(Closers(<<a>>)) = 1
           /\ a[1] \notin ScopeTask /\ b[1] \notin ScopeTask
                 => Cardinality(Closers(<<a, b>>)) = 0
           /\ a[1] \notin ScopeTask /\ b[1] \in ScopeTask
                 => Cardinality(Closers(<<a, b>>)) = 1
           /\ a[1] \notin ScopeTask /\ b[1] \notin ScopeTask /\ c[1] \notin ScopeTask
                 => Cardinality(Closers(<<a, b, c>>)) = 0
<1>1. Closers(<<>>) = {}
  BY DEF Closers
<1>2. /\ a[1] \notin ScopeTask => Closers(<<a>>) = {}
      /\ a[1] \in ScopeTask => Closers(<<a>>) = {1}
  BY DEF Closers
<1>3. /\ a[1] \notin ScopeTask /\ b[1] \notin ScopeTask => Closers(<<a, b>>) = {}
      /\ a[1] \notin ScopeTask /\ b[1] \in ScopeTask => Closers(<<a, b>>) = {2}
  <2>1. DOMAIN <<a, b>> = {1, 2}
    OBVIOUS
  <2>. QED  BY <2>1 DEF Closers
<1>4. a[1] \notin ScopeTask /\ b[1] \notin ScopeTask /\ c[1] \notin ScopeTask
         => Closers(<<a, b, c>>) = {}
  <2>1. DOMAIN <<a, b, c>> = {1, 2, 3}
    OBVIOUS
  <2>. QED  BY <2>1 DEF Closers
<1>. QED
  BY <1>1, <1>2, <1>3, <1>4, FS_EmptySet, FS_Singleton

-----------------------------------------------------------------------------
(* The invariant.                                                          *)

\* Both stacks are sequences, and before compile() there is no task.
StacksOK ==
    /\ IsSeq(todo)
    /\ IsSeq(scopes)
    /\ status = "parse" => todo = <<>> /\ Len(scopes) = 1

GInv == /\ StacksOK
        /\ status \in {"run", "ok"} => Len(scopes) = 1 + Cardinality(Closers(todo))

\* What the step of a visit does to both stacks: it replaces the first task
\* by others and opens and closes scopes as it adds and takes closers.
LEMMA VisitKeeps ==
    ASSUME GInv, status = "run", todo # <<>>, NEW tasks, IsSeq(tasks), Do(tasks),
           status' = status, IsSeq(scopes'),
           Len(scopes') + (IF todo[1][1] \in ScopeTask THEN 1 ELSE 0)
              = Len(scopes) + Cardinality(Closers(tasks))
    PROVE  GInv'
<1> DEFINE S == Range(todo) \cup Range(tasks)
<1>1. todo \in Seq(S) /\ tasks \in Seq(S)
  <2>1. Range(todo) \subseteq S /\ Range(tasks) \subseteq S
    OBVIOUS
  <2>. HIDE DEF S
  <2>. QED  BY <2>1, SeqMonotonic DEF GInv, StacksOK, IsSeq
<1>. HIDE DEF S
<1>2. PICK h : h = Head(todo)
  OBVIOUS
<1>3. PICK t \in Seq(S) : t = Tail(todo)
  BY <1>1, HeadTailProperties
<1>4. h \in S /\ h = todo[1] /\ <<h>> \in Seq(S)
  BY <1>1, <1>2, HeadTailProperties
<1>5. todo = <<h>> \o t
  <2>1. PICK n \in Nat : n + 1 = Len(todo)
    <3>1. Len(todo) \in Nat /\ Len(todo) # 0
      BY <1>1, EmptySeq
    <3>2. Len(todo) - 1 \in Nat /\ Len(todo) - 1 + 1 = Len(todo)
      BY <3>1
    <3>. QED  BY <3>2
  <2>2. Len(t) = n /\ \A i \in 1 .. n : t[i] = todo[i + 1]
    BY <1>1, <1>3, <2>1, HeadTailProperties
  <2>3. PICK u \in Seq(S) : u = <<h>> \o t
    BY <1>4, ConcatProperties
  <2>4. Len(u) = n + 1 /\ \A i \in 1 .. n + 1 : u[i] = IF i = 1 THEN h ELSE t[i - 1]
    BY <1>4, <2>2, <2>3
  <2>5. \A i \in 1 .. n + 1 : i = 1 \/ (i - 1 \in 1 .. n /\ i - 1 + 1 = i)
    OBVIOUS
  <2>6. \A i \in 1 .. n + 1 : u[i] = todo[i]
    BY <1>4, <2>2, <2>4, <2>5
  <2>7. u = todo
    BY <1>1, <2>1, <2>4, <2>6
  <2>. QED  BY <2>3, <2>7
<1>6. PICK u \in Seq(S) : u = tasks \o t
  BY <1>1, ConcatProperties
<1>7. todo' = u
  BY <1>3, <1>6 DEF Do
<1>8. Cardinality(Closers(todo)) = Cardinality(Closers(<<h>>)) + Cardinality(Closers(t))
  BY <1>1, <1>4, <1>5, ClosersOfConcat
<1>9. Cardinality(Closers(u)) = Cardinality(Closers(tasks)) + Cardinality(Closers(t))
  BY ZenonT(40), <1>1, <1>6, ClosersOfConcat
<1>10. Cardinality(Closers(<<h>>)) = IF todo[1][1] \in ScopeTask THEN 1 ELSE 0
  BY <1>4, ClosersOfFew
<1>11. /\ Cardinality(Closers(t)) \in Nat /\ Cardinality(Closers(tasks)) \in Nat
  BY <1>1, ClosersFinite
<1>12. Len(scopes) = 1 + Cardinality(Closers(todo)) /\ Len(scopes) \in Nat /\ Len(scopes') \in Nat
  BY DEF GInv, StacksOK, IsSeq
<1>13. Len(scopes') = 1 + Cardinality(Closers(u))
  BY <1>8, <1>9, <1>10, <1>11, <1>12
<1>14. IsSeq(u)
  BY SeqIsSeq
<1>. QED
  BY <1>7, <1>13, <1>14 DEF GInv, StacksOK, Closers, IsSeq

\* A step that leaves both stacks alone.
LEMMA StacksStay ==
    ASSUME GInv, status' = "parse" => status = "parse", UNCHANGED <<todo, scopes>>,
           status' \in {"run", "ok"} => status \in {"run", "ok"}
    PROVE  GInv'
<1>1. Closers(todo)' = Closers(todo)
  BY DEF Closers
<1>2. StacksOK'
  BY DEF GInv, StacksOK, IsSeq
<1>. QED
  BY <1>1, <1>2 DEF GInv

\* A step that ends the walk early.
LEMMA EndKeeps ==
    ASSUME GInv, UNCHANGED <<todo, scopes>>, status = "run",
           status' \in {"failed", "undefined", "overflow"}
    PROVE  GInv'
BY StacksStay

\* No task, and up to three tasks.
LEMMA FewTasks ==
    ASSUME NEW a, NEW b, NEW c
    PROVE  IsSeq(<<>>) /\ IsSeq(<<a>>) /\ IsSeq(<<a, b>>) /\ IsSeq(<<a, b, c>>)
<1>1. /\ <<>> \in Seq({a, b, c}) /\ <<a>> \in Seq({a, b, c}) /\ <<a, b>> \in Seq({a, b, c})
      /\ <<a, b, c>> \in Seq({a, b, c})
  OBVIOUS
<1>. QED
  BY <1>1, SeqIsSeq

\* What a visit may do to the scopes: nothing, write into the innermost one,
\* open one, or close one.
LEMMA ScopeMoves ==
    ASSUME GInv, status = "run"
    PROVE  /\ UNCHANGED scopes => IsSeq(scopes') /\ Len(scopes') = Len(scopes)
           /\ \A e : scopes' = [scopes EXCEPT ![Len(scopes)] = e]
                        => IsSeq(scopes') /\ Len(scopes') = Len(scopes)
           /\ \A e : scopes' = Append(scopes, e)
                        => IsSeq(scopes') /\ Len(scopes') = Len(scopes) + 1
           /\ \A e, f : scopes' = Append([scopes EXCEPT ![Len(scopes)] = e], f)
                        => IsSeq(scopes') /\ Len(scopes') = Len(scopes) + 1
           /\ scopes' = Front(scopes) /\ todo # <<>> /\ todo[1][1] \in ScopeTask
                        => IsSeq(scopes') /\ Len(scopes') = Len(scopes) - 1
<1>1. PICK S : scopes \in Seq(S)
  BY DEF GInv, StacksOK, IsSeq
<1>2. \A e : /\ [scopes EXCEPT ![Len(scopes)] = e] \in Seq(S \cup {e})
             /\ Len([scopes EXCEPT ![Len(scopes)] = e]) = Len(scopes)
  <2>. TAKE e
  <2>1. PICK n \in Nat : n = Len(scopes)
    BY <1>1
  <2>2. PICK s : s = [scopes EXCEPT ![n] = e]
    OBVIOUS
  <2>3. scopes \in [1 .. n -> S]
    BY <1>1, <2>1
  <2>4. s \in [1 .. n -> S \cup {e}]
    BY <2>2, <2>3
  <2>5. s \in Seq(S \cup {e}) /\ Len(s) = n
    BY <2>4
  <2>. QED  BY <2>1, <2>2, <2>5
<1>3. \A e : /\ Append(scopes, e) \in Seq(S \cup {e})
             /\ Len(Append(scopes, e)) = Len(scopes) + 1
  BY <1>1
<1>4. \A e, f : /\ Append([scopes EXCEPT ![Len(scopes)] = e], f) \in Seq(S \cup {e, f})
                /\ Len(Append([scopes EXCEPT ![Len(scopes)] = e], f)) = Len(scopes) + 1
  <2>. TAKE e, f
  <2>1. PICK s : s = [scopes EXCEPT ![Len(scopes)] = e]
    OBVIOUS
  <2>2. s \in Seq(S \cup {e}) /\ Len(s) = Len(scopes)
    BY <1>2, <2>1
  <2>3. Append(s, f) \in Seq(S \cup {e, f}) /\ Len(Append(s, f)) = Len(s) + 1
    BY <2>2
  <2>. QED  BY <2>1, <2>2, <2>3
<1>5. todo # <<>> /\ todo[1][1] \in ScopeTask
         => Front(scopes) \in Seq(S) /\ Len(Front(scopes)) = Len(scopes) - 1
  <2>. SUFFICES ASSUME todo # <<>>, todo[1][1] \in ScopeTask
                PROVE  Front(scopes) \in Seq(S) /\ Len(Front(scopes)) = Len(scopes) - 1
    OBVIOUS
  <2>1. 1 \in Closers(todo)
    BY DEF Closers, GInv, StacksOK, IsSeq
  <2>2. Cardinality(Closers(todo)) \in Nat /\ Cardinality(Closers(todo)) # 0
    BY <2>1, ClosersFinite, FS_EmptySet DEF GInv, StacksOK, IsSeq
  <2>3. Len(scopes) = 1 + Cardinality(Closers(todo))
    BY DEF GInv
  <2>4. Len(scopes) - 1 \in 0 .. Len(scopes)
    BY <2>2, <2>3
  <2>5. \A k \in 0 .. Len(scopes) : /\ SubSeq(scopes, 1, k) \in Seq(S)
                                   /\ Len(SubSeq(scopes, 1, k)) = k
    BY <1>1
  <2>. QED  BY <2>4, <2>5 DEF Front
<1>6. UNCHANGED scopes => IsSeq(scopes') /\ Len(scopes') = Len(scopes)
  BY DEF GInv, StacksOK, IsSeq
<1>. QED
  BY <1>2, <1>3, <1>4, <1>5, <1>6, SeqIsSeq

-----------------------------------------------------------------------------
(* The visits.                                                             *)

\* The tasks of a visit that opens no scope.
Plain(tasks) ==
    \/ tasks = <<>>
    \/ \E a : a[1] \notin ScopeTask /\ tasks = <<a>>
    \/ \E a, b : a[1] \notin ScopeTask /\ b[1] \notin ScopeTask /\ tasks = <<a, b>>
    \/ \E a, b, c : /\ a[1] \notin ScopeTask /\ b[1] \notin ScopeTask /\ c[1] \notin ScopeTask
                    /\ tasks = <<a, b, c>>

\* They are a sequence without a closer.
LEMMA PlainTasks ==
    ASSUME NEW tasks, Plain(tasks)
    PROVE  IsSeq(tasks) /\ Cardinality(Closers(tasks)) = 0
<1>1. CASE tasks = <<>>
  BY <1>1, FewTasks, ClosersOfFew
<1>2. CASE \E a : a[1] \notin ScopeTask /\ tasks = <<a>>
  BY <1>2, FewTasks, ClosersOfFew
<1>3. CASE \E a, b : a[1] \notin ScopeTask /\ b[1] \notin ScopeTask /\ tasks = <<a, b>>
  BY <1>3, FewTasks, ClosersOfFew
<1>4. CASE \E a, b, c : /\ a[1] \notin ScopeTask /\ b[1] \notin ScopeTask
                        /\ c[1] \notin ScopeTask /\ tasks = <<a, b, c>>
  BY <1>4, FewTasks, ClosersOfFew
<1>. QED
  BY <1>1, <1>2, <1>3, <1>4 DEF Plain

\* A visit that opens and closes no scope.
LEMMA SteadyVisit ==
    ASSUME GInv, NEW do, Doing(do), do \notin ScopeTask, NEW tasks, Plain(tasks),
           Do(tasks), status' = status,
           \/ UNCHANGED scopes
           \/ \E e : scopes' = [scopes EXCEPT ![Len(scopes)] = e]
    PROVE  GInv'
<1>1. status = "run" /\ todo # <<>> /\ todo[1][1] \notin ScopeTask
  BY DEF Doing
<1>2. IsSeq(scopes') /\ Len(scopes') = Len(scopes)
  BY <1>1, ScopeMoves
<1>3. IsSeq(tasks) /\ Cardinality(Closers(tasks)) = 0
  BY PlainTasks
<1>4. Len(scopes) \in Nat
  BY DEF GInv, StacksOK, IsSeq
<1>5. Len(scopes') + (IF todo[1][1] \in ScopeTask THEN 1 ELSE 0)
         = Len(scopes) + Cardinality(Closers(tasks))
  BY <1>1, <1>2, <1>3, <1>4
<1>. QED
  BY <1>1, <1>2, <1>3, <1>5, VisitKeeps

\* The tasks the visits add are no closers but for those of a block and of a
\* function.
LEMMA PlainSteps ==
    ASSUME NEW i, NEW j, NEW k
    PROVE  /\ Plain(<<>>)
           /\ \A do : do \notin ScopeTask => /\ Plain(<<On(do, i)>>)
                                           /\ Plain(<<Gen(i), On(do, j)>>)
                                           /\ Plain(<<Gen(i), Gen(j), On(do, k)>>)
<1>1. \A x : Gen(x)[1] \notin ScopeTask
  BY DEF Gen, ScopeTask
<1>2. \A do, x : do \notin ScopeTask => On(do, x)[1] \notin ScopeTask
  BY DEF On
<1>. QED
  BY <1>1, <1>2 DEF Plain

\* compile() and its return.
LEMMA CompileKeeps == ASSUME GInv, compile \/ CompileReturns PROVE GInv'
<1>1. CASE compile
  <2>1. todo' = <<Gen(0)>> /\ scopes' = scopes /\ Len(scopes) = 1 /\ status' = "run"
    BY <1>1 DEF compile, GInv, StacksOK
  <2>2. IsSeq(<<Gen(0)>>) /\ Cardinality(Closers(<<Gen(0)>>)) = 0
    BY FewTasks, ClosersOfFew DEF Gen, ScopeTask
  <2>3. Cardinality(Closers(todo')) = 0 /\ IsSeq(todo') /\ IsSeq(scopes')
    BY <2>1, <2>2 DEF GInv, StacksOK
  <2>4. Len(scopes') = 1 + Cardinality(Closers(todo'))
    BY <2>1, <2>3
  <2>. QED
    BY <2>1, <2>3, <2>4 DEF GInv, StacksOK, IsSeq, Closers
<1>2. CASE CompileReturns
  BY <1>2, StacksStay DEF CompileReturns
<1>. QED
  BY <1>1, <1>2

\* A visit that ends the walk.
LEMMA Ends ==
    ASSUME GInv, NEW do, Doing(do), Throw \/ Undefined
    PROVE  GInv'
BY EndKeeps DEF Throw, Undefined, Doing

\* A visit that goes on with other tasks and touches no scope.
LEMMA Goes ==
    ASSUME GInv, NEW do, Doing(do), do \notin ScopeTask, NEW tasks, Plain(tasks),
           Continue(tasks)
    PROVE  GInv'
BY SteadyVisit DEF Continue

\* A visit that returns a value.
LEMMA Returns ==
    ASSUME GInv, NEW do, Doing(do), do \notin ScopeTask, NEW n, NEW v, Return(n, v),
           status' = status,
           \/ UNCHANGED scopes
           \/ \E e : scopes' = [scopes EXCEPT ![Len(scopes)] = e]
    PROVE  GInv'
BY SteadyVisit, PlainSteps DEF Return

\* A visit that returns a value at once.
LEMMA Answers ==
    ASSUME GInv, NEW do, Doing(do), do \notin ScopeTask, NEW n, NEW v, Answer(n, v)
    PROVE  GInv'
BY Returns DEF Answer

\* Binding a name writes into the innermost scope.
LEMMA BindMoves ==
    ASSUME NEW name, NEW value, NEW known, Bind(name, value, known)
    PROVE  \E e : scopes' = [scopes EXCEPT ![Len(scopes)] = e]
<1>1. scopes' = [scopes EXCEPT ![Len(scopes)] =
                   [scopes[Len(scopes)] EXCEPT !.symbols =
                       [n \in DOMAIN scopes[Len(scopes)].symbols \cup {name} |->
                           IF n = name THEN [value |-> value, isCompileTime |-> known]
                           ELSE scopes[Len(scopes)].symbols[n]]]]
  BY DEF Bind
<1>. QED
  BY Zenon, <1>1

\* The kinds of tasks that are visits.
LEMMA VisitTask ==
    ASSUME NEW kind, Visiting(kind)
    PROVE  Doing("codegen") /\ "codegen" \notin ScopeTask
BY DEF Visiting, ScopeTask

\* A visit before the task that will close a scope.
LEMMA OneCloser ==
    ASSUME NEW i, NEW j, NEW do \in ScopeTask
    PROVE  /\ IsSeq(<<Gen(i), On(do, j)>>)
           /\ Cardinality(Closers(<<Gen(i), On(do, j)>>)) = 1
<1>1. Gen(i)[1] \notin ScopeTask /\ On(do, j)[1] \in ScopeTask
  BY DEF Gen, On, ScopeTask
<1>. QED
  BY <1>1, FewTasks, ClosersOfFew

\* The walk of a block opens a scope, visits node after node, and closes it.
LEMMA BlockKeeps == ASSUME GInv, codegenTranslationUnit \/ VisitRest PROVE GInv'
<1>1. CASE codegenTranslationUnit
  <2>1. /\ status = "run" /\ todo # <<>> /\ todo[1][1] \notin ScopeTask
        /\ status' = status
    BY <1>1, VisitTask DEF codegenTranslationUnit, Doing
  <2>2. PICK t : t = <<On("rest", it + 1)>> /\ Do(t)
    BY <1>1 DEF codegenTranslationUnit
  <2>3. IsSeq(t) /\ Cardinality(Closers(t)) = 1
    BY <2>2, FewTasks, ClosersOfFew DEF On, ScopeTask
  <2>4. IsSeq(scopes') /\ Len(scopes') = Len(scopes) + 1 /\ Len(scopes) \in Nat
    BY <1>1, <2>1, ScopeMoves DEF codegenTranslationUnit, GInv, StacksOK, IsSeq
  <2>. QED
    BY <2>1, <2>2, <2>3, <2>4, VisitKeeps
<1>2. CASE VisitRest
  <2>1. /\ status = "run" /\ todo # <<>> /\ todo[1][1] \in ScopeTask
        /\ status' = status
    BY <1>2 DEF VisitRest, Doing, ScopeTask
  <2>2. Len(scopes) \in Nat
    BY DEF GInv, StacksOK, IsSeq
  <2>3. CASE it < Len(tree)
    <3>1. PICK t : t = <<Gen(it), On("rest", it + 1)>> /\ Do(t)
      BY <1>2, <2>3 DEF VisitRest
    <3>2. IsSeq(t) /\ Cardinality(Closers(t)) = 1
      BY <3>1, OneCloser DEF ScopeTask
    <3>3. IsSeq(scopes') /\ Len(scopes') = Len(scopes)
      BY <1>2, <2>1, <2>3, ScopeMoves DEF VisitRest
    <3>. QED
      BY <2>1, <2>2, <3>1, <3>2, <3>3, VisitKeeps
  <2>4. CASE ~(it < Len(tree))
    <3>1. Do(<<>>)
      BY <1>2, <2>4 DEF VisitRest
    <3>2. IsSeq(<<>>) /\ Cardinality(Closers(<<>>)) = 0
      BY FewTasks, ClosersOfFew
    <3>3. IsSeq(scopes') /\ Len(scopes') = Len(scopes) - 1
      BY <1>2, <2>1, <2>4, ScopeMoves DEF VisitRest
    <3>4. Len(scopes') + 1 = Len(scopes) + 0
      BY <2>2, <3>3
    <3>. QED
      BY <2>1, <3>1, <3>2, <3>3, <3>4, VisitKeeps
  <2>. QED  BY <2>3, <2>4
<1>. QED
  BY <1>1, <1>2

\* A function's declaration opens its scope, and its end closes it.
LEMMA FunctionKeeps == ASSUME GInv, codegenFunctionDecl \/ EndFunction PROVE GInv'
<1>1. CASE codegenFunctionDecl
  <2>1. /\ status = "run" /\ todo # <<>> /\ todo[1][1] \notin ScopeTask
        /\ Doing("codegen")
    BY <1>1, VisitTask DEF codegenFunctionDecl, Doing
  <2>2. CASE Throw
    BY <2>1, <2>2, Ends
  <2>3. CASE ~Throw
    <3> DEFINE kids == node(it).kids
    <3>1. /\ status' = status /\ Do(<<Gen(kids[3]), On("function", it)>>)
          /\ \E name : scopes' = Append([scopes EXCEPT ![Len(scopes)].functions =
                                            @ \cup {name}], Scope)
      BY <1>1, <2>3 DEF codegenFunctionDecl
    <3>2. PICK t : t = <<Gen(kids[3]), On("function", it)>> /\ Do(t)
      BY <3>1
    <3>3. IsSeq(t) /\ Cardinality(Closers(t)) = 1
      <4>. HIDE DEF kids
      <4>. QED  BY <3>2, OneCloser DEF ScopeTask
    <3>4. \E e : scopes' = Append([scopes EXCEPT ![Len(scopes)] = e], Scope)
      <4>1. PICK name : scopes' = Append([scopes EXCEPT ![Len(scopes)].functions =
                                            @ \cup {name}], Scope)
        BY <3>1
      <4>2. scopes' = Append([scopes EXCEPT ![Len(scopes)] =
                                [scopes[Len(scopes)] EXCEPT !.functions =
                                    scopes[Len(scopes)].functions \cup {name}]], Scope)
        BY <4>1
      <4>. QED  BY Zenon, <4>2
    <3>5. IsSeq(scopes') /\ Len(scopes') = Len(scopes) + 1
      BY <2>1, <3>4, ScopeMoves
    <3>6. Len(scopes) \in Nat
      BY DEF GInv, StacksOK, IsSeq
    <3>7. Len(scopes') + 0 = Len(scopes) + 1
      BY <3>5, <3>6
    <3>. QED
      BY <2>1, <3>1, <3>2, <3>3, <3>5, <3>7, VisitKeeps
  <2>. QED  BY <2>2, <2>3
<1>2. CASE EndFunction
  <2>1. /\ status = "run" /\ todo # <<>> /\ todo[1][1] \in ScopeTask
        /\ status' = status /\ Do(<<>>)
    BY <1>2 DEF EndFunction, Return, Doing, ScopeTask
  <2>2. IsSeq(<<>>) /\ Cardinality(Closers(<<>>)) = 0
    BY FewTasks, ClosersOfFew
  <2>3. IsSeq(scopes') /\ Len(scopes') = Len(scopes) - 1 /\ Len(scopes) \in Nat
    BY <1>2, <2>1, ScopeMoves DEF EndFunction, GInv, StacksOK, IsSeq
  <2>4. Len(scopes') + 1 = Len(scopes) + 0
    BY <2>3
  <2>. QED
    BY <2>1, <2>2, <2>3, <2>4, VisitKeeps
<1>. QED
  BY <1>1, <1>2

\* The declarations that open no scope.
LEMMA DeclarationKeeps ==
    ASSUME GInv, codegenVarDecl \/ DefineVariable \/ codegenTypeDecl
    PROVE  GInv'
<1>1. CASE codegenVarDecl
  <2>1. Doing("codegen") /\ "codegen" \notin ScopeTask
    BY <1>1, VisitTask DEF codegenVarDecl
  <2> DEFINE kids == node(it).kids
             value == Constant[kids[3]]
             name == Text(kids[2])
             tasks == <<Gen(kids[3]), On("variable", it)>>
             rest == <<On("variable", it)>>
  <2>2. \/ Throw \/ Undefined \/ Continue(tasks)
        \/ (\E n, v : Bind(n, v, TRUE)) /\ (\E v : Return(0, v)) /\ status' = status
        \/ Do(rest) /\ UNCHANGED <<scopes, status>>
    BY <1>1 DEF codegenVarDecl
  <2>3. "variable" \notin ScopeTask
    BY DEF ScopeTask
  <2>4. Plain(tasks) /\ Plain(rest)
    BY <2>3, PlainSteps
  <2>5. CASE (\E n, v : Bind(n, v, TRUE)) /\ (\E v : Return(0, v)) /\ status' = status
    <3>1. \E e : scopes' = [scopes EXCEPT ![Len(scopes)] = e]
      BY <2>5, BindMoves
    <3>2. PICK v : Return(0, v)
      BY <2>5
    <3>. QED  BY <2>1, <2>5, <3>1, <3>2, Returns
  <2>6. CASE Do(rest) /\ UNCHANGED <<scopes, status>>
    <3>. HIDE DEF rest
    <3>. QED  BY <2>1, <2>4, <2>6, SteadyVisit
  <2>7. CASE Continue(tasks)
    <3>. HIDE DEF tasks
    <3>. QED  BY <2>1, <2>4, <2>7, Goes
  <2>. HIDE DEF tasks, rest
  <2>. QED  BY <2>1, <2>2, <2>5, <2>6, <2>7, Ends
<1>2. CASE DefineVariable
  <2>1. Doing("variable") /\ "variable" \notin ScopeTask
    BY <1>2 DEF DefineVariable, ScopeTask
  <2>2. \/ Undefined
        \/ (\E n, v : Bind(n, v, FALSE)) /\ (\E v : Return(1, v)) /\ status' = status
    BY <1>2 DEF DefineVariable
  <2>3. CASE (\E n, v : Bind(n, v, FALSE)) /\ (\E v : Return(1, v)) /\ status' = status
    <3>1. \E e : scopes' = [scopes EXCEPT ![Len(scopes)] = e]
      BY <2>3, BindMoves
    <3>2. PICK v : Return(1, v)
      BY <2>3
    <3>. QED  BY <2>1, <2>3, <3>1, <3>2, Returns
  <2>. QED  BY <2>1, <2>2, <2>3, Ends
<1>3. CASE codegenTypeDecl
  <2>1. Doing("codegen") /\ "codegen" \notin ScopeTask
    BY <1>3, VisitTask DEF codegenTypeDecl
  <2>2. \/ Throw
        \/ /\ \E name : scopes' = [scopes EXCEPT ![Len(scopes)].customTypes = @ \cup {name}]
           /\ Return(0, "null") /\ status' = status
    BY <1>3 DEF codegenTypeDecl
  <2>3. CASE /\ \E name : scopes' = [scopes EXCEPT ![Len(scopes)].customTypes = @ \cup {name}]
             /\ Return(0, "null") /\ status' = status
    <3>1. PICK name : scopes' = [scopes EXCEPT ![Len(scopes)].customTypes = @ \cup {name}]
      BY <2>3
    <3>2. scopes' = [scopes EXCEPT ![Len(scopes)] =
                       [scopes[Len(scopes)] EXCEPT !.customTypes =
                           scopes[Len(scopes)].customTypes \cup {name}]]
      BY <3>1
    <3>3. \E e : scopes' = [scopes EXCEPT ![Len(scopes)] = e]
      BY Zenon, <3>2
    <3>. QED  BY <2>1, <2>3, <3>3, Returns
  <2>. QED  BY <2>1, <2>2, <2>3, Ends
<1>. QED
  BY <1>1, <1>2, <1>3

\* Literals, names and what generates nothing return at once; the operands
\* of an operator are visited before it.
LEMMA OperandVisitKeeps ==
    ASSUME GInv,
           \/ CodegenNothing \/ codegenLiteralExpr \/ codegenIdentifierExpr
           \/ codegenBinaryExpr \/ codegenUnaryExpr \/ codegenCallExpr \/ codegenEvalExpr
    PROVE  GInv'
<1>1. Doing("codegen") /\ "codegen" \notin ScopeTask
  BY VisitTask DEF CodegenNothing, codegenLiteralExpr, codegenIdentifierExpr,
     codegenBinaryExpr, codegenUnaryExpr, codegenCallExpr, codegenEvalExpr, ScopeTask
<1>2. CASE CodegenNothing \/ codegenLiteralExpr
  <2>1. \E n, v : Answer(n, v)
    BY <1>2 DEF CodegenNothing, codegenLiteralExpr
  <2>. QED  BY <1>1, <2>1, Answers
<1>3. CASE codegenIdentifierExpr
  <2>1. \/ Throw \/ Undefined \/ (\E n, v : Answer(n, v))
        \/ (\E n, v : Return(n, v)) /\ UNCHANGED <<scopes, module, status>>
    BY <1>3 DEF codegenIdentifierExpr
  <2>2. CASE \E n, v : Answer(n, v)
    BY <1>1, <2>2, Answers
  <2>3. CASE (\E n, v : Return(n, v)) /\ UNCHANGED <<scopes, module, status>>
    BY <1>1, <2>3, Returns
  <2>. QED  BY <1>1, <2>1, <2>2, <2>3, Ends
<1>4. CASE codegenBinaryExpr \/ codegenUnaryExpr \/ codegenEvalExpr
  <2>1. \/ \E i, j, k : Continue(<<Gen(i), Gen(j), On("binary", k)>>)
        \/ \E i, j : Continue(<<Gen(i), On("unary", j)>>)
        \/ \E i, j : Continue(<<Gen(i), On("then", j)>>)
    BY <1>4 DEF codegenBinaryExpr, codegenUnaryExpr, codegenEvalExpr
  <2>2. "binary" \notin ScopeTask /\ "unary" \notin ScopeTask /\ "then" \notin ScopeTask
    BY DEF ScopeTask
  <2>. QED  BY <1>1, <2>1, <2>2, PlainSteps, Goes
<1>5. CASE codegenCallExpr
  <2>1. Throw \/ (\E i, j : Continue(<<Gen(i), On("call", j)>>))
    BY <1>5 DEF codegenCallExpr
  <2>2. "call" \notin ScopeTask
    BY DEF ScopeTask
  <2>. QED  BY <1>1, <2>1, <2>2, PlainSteps, Goes, Ends
<1>. QED
  BY <1>2, <1>3, <1>4, <1>5

\* What is emitted once the operands have been visited.
LEMMA EmitKeeps ==
    ASSUME GInv, EmitBinary \/ EmitUnary \/ EmitCall \/ Join
    PROVE  GInv'
<1>1. PICK do \in {"binary", "unary", "call", "join"} : Doing(do)
  BY DEF EmitBinary, EmitUnary, EmitCall, Join
<1>2. do \notin ScopeTask
  BY DEF ScopeTask
<1>3. \/ Throw \/ Undefined \/ (\E n, v : Answer(n, v))
      \/ (\E n, v : Return(n, v)) /\ UNCHANGED <<scopes, module, status>>
  BY DEF EmitBinary, EmitUnary, EmitCall, Join
<1>4. CASE \E n, v : Answer(n, v)
  BY <1>1, <1>2, <1>4, Answers
<1>5. CASE (\E n, v : Return(n, v)) /\ UNCHANGED <<scopes, module, status>>
  BY <1>1, <1>2, <1>5, Returns
<1>. QED
  BY <1>1, <1>3, <1>4, <1>5, Ends

\* Branches and loops open blocks of the function, and no scope.
LEMMA BranchKeeps ==
    ASSUME GInv, Branch("then") \/ Branch("else") \/ codegenCompileTimeJump \/ LoopBody
    PROVE  GInv'
<1>1. PICK do \in {"codegen", "then", "else", "loop"} : Doing(do)
  BY DEF Branch, codegenCompileTimeJump, LoopBody, Visiting
<1>2. do \notin ScopeTask /\ "else" \notin ScopeTask /\ "join" \notin ScopeTask
      /\ "loop" \notin ScopeTask
  BY DEF ScopeTask
<1>3. \/ Undefined \/ (\E n, v : Answer(n, v))
      \/ \E i, j : \/ Do(<<Gen(i), On("else", j)>>) /\ UNCHANGED <<scopes, status>>
                   \/ Do(<<Gen(i), On("join", j)>>) /\ UNCHANGED <<scopes, status>>
                   \/ Do(<<Gen(i), On("loop", j)>>) /\ UNCHANGED <<scopes, status>>
  BY DEF Branch, codegenCompileTimeJump, LoopBody
<1>4. CASE \E n, v : Answer(n, v)
  BY <1>1, <1>2, <1>4, Answers
<1>5. ASSUME NEW i, NEW j, NEW next \in {"else", "join", "loop"},
             Do(<<Gen(i), On(next, j)>>), UNCHANGED <<scopes, status>>
      PROVE  GInv'
  <2>1. Plain(<<Gen(i), On(next, j)>>)
    BY <1>2, PlainSteps
  <2>. QED  BY <1>1, <1>2, <1>5, <2>1, SteadyVisit
<1>. QED
  BY <1>1, <1>3, <1>4, <1>5, Ends

-----------------------------------------------------------------------------
(* The theorems.                                                           *)

\* One scope and no task before compile().
LEMMA InitGInv == GenInit => GInv
<1>. SUFFICES ASSUME GenInit PROVE GInv
  OBVIOUS
<1>1. todo = <<>> /\ scopes = <<Scope>> /\ status = "parse"
  BY DEF GenInit
<1>2. IsSeq(<<>>) /\ IsSeq(<<Scope>>) /\ Len(<<Scope>>) = 1
  BY FewTasks
<1>. QED
  BY <1>1, <1>2 DEF GInv, StacksOK

\* Every step keeps the invariant.
LEMMA NextGInv == ASSUME GInv, [GenNext]_<<vars, genVars>> PROVE GInv'
<1>1. CASE UNCHANGED genVars
  BY <1>1, StacksStay DEF genVars
<1>2. CASE Generate
  <2>1. CASE StackOverflow
    BY <2>1, EndKeeps DEF StackOverflow, Doing
  <2>. QED
    BY <1>2, <2>1, CompileKeeps, BlockKeeps, FunctionKeeps, DeclarationKeeps,
       OperandVisitKeeps, EmitKeeps, BranchKeeps DEF Generate
<1>. QED
  BY <1>1, <1>2 DEF GenNext

\* Until compile() fails, the scopes that are open are the global one and
\* one for each block and each function whose visit has not returned,
\* whatever the text: pushScope and popScope are balanced on every path that
\* throws nothing.
THEOREM ScopesBalanced == GenSpec => []ScopesMatchVisits
<1>1. GInv /\ [GenNext]_<<vars, genVars>> => GInv'
  BY NextGInv
<1>2. GInv => ScopesMatchVisits
  BY DEF GInv, ScopesMatchVisits, Closers, ScopeTask
<1>. QED
  BY InitGInv, <1>1, <1>2, PTL DEF GenSpec

\* To the parser the walk is a stutter by its form, so the theorems about the
\* parser can be used here.
LEMMA WalkLeavesTheTree == GenSpec => Spec
<1>1. GenInit => Init
  BY DEF GenInit
<1>2. [GenNext]_<<vars, genVars>> => [Next]_vars
  BY DEF GenNext
<1>. QED
  BY <1>1, <1>2, PTL DEF GenSpec, Spec

-----------------------------------------------------------------------------
(* How far the walk has come.                                              *)

\* Node d declares a variable of this name.
Declares(d, name) == node(d).kind = "VarDecl" /\ Text(node(d).kids[2]) = name

Declared(i) == \E d \in 0 .. i : Declares(d, Text(i))

\* A scope's names are those of declarations among the first m nodes.
Entry(e, m) ==
    /\ "symbols" \in DOMAIN e
    /\ \A name \in DOMAIN e.symbols : \E d \in 0 .. m - 1 : Declares(d, name)

Bound(m) == \A k \in DOMAIN scopes : Entry(scopes[k], m)

\* A task that is about the first m nodes, and about a node of its kind.
TaskOK(t, m) ==
    /\ IF t[1] = "rest" THEN t[2] \in 1 .. m ELSE t[2] \in -1 .. m - 1
    /\ t[1] = "variable" => t[2] # Null /\ node(t[2]).kind = "VarDecl"
    /\ t[1] \in {"then", "else"} => t[2] # Null /\ node(t[2]).kind = "EvalExpr"
    /\ t[1] = "loop" => /\ t[2] # Null /\ node(t[2]).kind = "CompileTimeJump"
                        /\ Len(node(t[2]).kids) = 3

\* The first m nodes have been reached: each identifier among them is
\* declared, unless its visit is the next to come, and as long as nodes
\* remain some block will go on to them.
Frontier(m) ==
    /\ \A k \in DOMAIN todo : TaskOK(todo[k], m)
    /\ Bound(m)
    /\ \A i \in 0 .. m - 1 : node(i).kind = "IdentifierExpr" =>
          Declared(i) \/ (i = m - 1 /\ todo # <<>> /\ todo[1] = Gen(i))
    /\ m < Len(tree) => \/ \E k \in DOMAIN todo : todo[k][1] = "rest"
                        \/ todo # <<>> /\ todo[1] = Gen(0)

WInv ==
    /\ status \in {"run", "ok"} => \E m \in 1 .. Len(tree) : Frontier(m)
    /\ status = "ok" => todo = <<>>
    /\ status # "parse" => outcome = "done"
    /\ status = "parse" => scopes = <<Scope>>

\* What the walk relies on.
Ready == IInv /\ Ordered /\ GInv /\ WInv

\* The nodes a visit goes to come before the one it visits.
LEMMA Kids ==
    ASSUME Ready, NEW i \in 0 .. Len(tree) - 1
    PROVE  /\ node(i).kind \in {"BinaryExpr", "CallExpr"}
                => node(i).kids[1] \in -1 .. i - 1 /\ node(i).kids[2] \in -1 .. i - 1
           /\ node(i).kind = "UnaryExpr" => node(i).kids[1] \in -1 .. i - 1
           /\ node(i).kind = "EvalExpr" => /\ node(i).kids[1] \in -1 .. i - 1
                                           /\ node(i).kids[2] \in -1 .. i - 1
                                           /\ node(i).kids[3] \in -1 .. i - 1
           /\ node(i).kind \in {"VarDecl", "FunctionDecl"} => node(i).kids[3] \in -1 .. i - 1
           /\ node(i).kind = "CompileTimeJump" /\ ~IsJump(node(i)) => Len(node(i).kids) = 3
           /\ node(i).kind = "CompileTimeJump" /\ Len(node(i).kids) = 3
                => node(i).kids[1] \in -1 .. i - 1 /\ node(i).kids[2] \in -1 .. i - 1
<1>1. tree \in Seq(AnyNode) /\ Grown(tree, vals) /\ Ordered
  BY DEF Ready, IInv, Grown
<1>2. PICK x : x = tree[i + 1]
  OBVIOUS
<1>3. node(i) = x
  BY <1>2 DEF node
<1>4. i + 1 \in DOMAIN tree /\ (i + 1) - 1 = i
  BY <1>1
<1>5. x.kids \in Seq(Int)
  <2>1. x \in AnyNode
    BY <1>1, <1>2, <1>4, ElementOfSeq
  <2>. QED  BY <2>1 DEF AnyNode
<1>6. /\ Arity(x.kind, x.op, Len(x.kids))
      /\ \A k \in DOMAIN x.kids :
            x.kids[k] < i \/ (x.kind \in {"VarDecl", "TypeDecl"} /\ k < 3)
  BY <1>1, <1>2, <1>4 DEF Ordered, Shaped
<1>7. \A k \in DOMAIN x.kids : x.kids[k] \in -1 .. Len(tree) - 1
  BY <1>1, <1>2, <1>4 DEF Grown
<1>8. \A k \in DOMAIN x.kids :
         x.kids[k] \in -1 .. i - 1 \/ (x.kind \in {"VarDecl", "TypeDecl"} /\ k < 3)
  BY <1>6, <1>7
<1>9. /\ Len(x.kids) = 1 => DOMAIN x.kids = 1 .. 1
      /\ Len(x.kids) = 2 => DOMAIN x.kids = 1 .. 2
      /\ Len(x.kids) = 3 => DOMAIN x.kids = 1 .. 3
  BY <1>5
<1>10. x.op \in Jump => IsJump(x)
  BY DEF Jump, IsJump, FirstByte
<1>. QED
  BY <1>3, <1>6, <1>8, <1>9, <1>10 DEF Arity

\* The first node is the unit's.
LEMMA Root ==
    ASSUME Ready
    PROVE  /\ node(0).kind = "TranslationUnit"
           /\ Len(tree) \in Nat /\ Len(tree) > 0
<1>1. tree \in Seq(AnyNode) /\ tree # <<>> /\ tree[1].kind = "TranslationUnit"
  BY DEF Ready, IInv, Grown, Ordered
<1>2. Len(tree) \in Nat /\ Len(tree) # 0
  BY <1>1, EmptySeq
<1>. QED
  BY <1>1, <1>2 DEF node

\* What Do makes of the tasks.
LEMMA DoParts ==
    ASSUME GInv, todo # <<>>, NEW tasks, IsSeq(tasks), Do(tasks)
    PROVE  /\ \A k \in DOMAIN todo' :
                  \/ k \in DOMAIN tasks /\ todo'[k] = tasks[k]
                  \/ \E j \in DOMAIN todo : j > 1 /\ todo'[k] = todo[j]
           /\ \A j \in DOMAIN todo : j > 1 => \E k \in DOMAIN todo' : todo'[k] = todo[j]
           /\ \A k \in DOMAIN tasks : k \in DOMAIN todo' /\ todo'[k] = tasks[k]
<1> DEFINE S == Range(todo) \cup Range(tasks)
<1>1. todo \in Seq(S) /\ tasks \in Seq(S)
  <2>1. Range(todo) \subseteq S /\ Range(tasks) \subseteq S
    OBVIOUS
  <2>. HIDE DEF S
  <2>. QED  BY <2>1, SeqMonotonic DEF GInv, StacksOK, IsSeq
<1>. HIDE DEF S
<1>2. PICK n \in Nat, l \in Nat : l + 1 = Len(todo) /\ n = Len(tasks)
  <2>1. Len(todo) \in Nat /\ Len(todo) # 0 /\ Len(tasks) \in Nat
    BY <1>1, EmptySeq
  <2>2. Len(todo) - 1 \in Nat /\ Len(todo) - 1 + 1 = Len(todo)
    BY <2>1
  <2>. QED  BY <2>1, <2>2
<1>3. PICK t \in Seq(S) : t = Tail(todo)
  BY <1>1, HeadTailProperties
<1>4. Len(t) = l /\ \A i \in 1 .. l : t[i] = todo[i + 1]
  BY <1>1, <1>2, <1>3, HeadTailProperties
<1>. PICK u : u = tasks \o t
  OBVIOUS
<1>5. /\ u \in Seq(S)
      /\ Len(u) = Len(tasks) + Len(t)
      /\ \A i \in 1 .. Len(tasks) + Len(t) :
            u[i] = IF i <= Len(tasks) THEN tasks[i] ELSE t[i - Len(tasks)]
  BY <1>1, ConcatProperties
<1>6. DOMAIN u = 1 .. n + l /\ \A k \in 1 .. n + l : u[k] = IF k <= n THEN tasks[k] ELSE t[k - n]
  <2>1. /\ Len(u) = n + l
        /\ \A k \in 1 .. n + l : u[k] = IF k <= n THEN tasks[k] ELSE t[k - n]
    BY <1>2, <1>4, <1>5
  <2>. QED  BY <1>5, <2>1
<1>7. todo' = u
  BY <1>3 DEF Do
<1>8. ASSUME NEW k \in 1 .. n + l
      PROVE  \/ k \in DOMAIN tasks /\ u[k] = tasks[k]
             \/ \E j \in DOMAIN todo : j > 1 /\ u[k] = todo[j]
  <2>1. CASE k <= n
    BY <1>1, <1>2, <1>6, <2>1
  <2>2. CASE ~(k <= n)
    <3>1. k - n \in 1 .. l /\ k - n + 1 \in 1 .. l + 1 /\ k - n + 1 > 1
      BY <2>2
    <3>2. u[k] = todo[k - n + 1]
      BY <1>4, <1>6, <2>2, <3>1
    <3>3. k - n + 1 \in DOMAIN todo
      BY <1>1, <1>2, <3>1
    <3>. QED  BY <3>1, <3>2, <3>3
  <2>. QED  BY <2>1, <2>2
<1>9. ASSUME NEW j \in DOMAIN todo, j > 1
      PROVE  \E k \in 1 .. n + l : u[k] = todo[j]
  <2>1. PICK i \in 1 .. l : i + 1 = j
    <3>1. j \in 1 .. l + 1
      BY <1>1, <1>2
    <3>2. j - 1 \in 1 .. l /\ j - 1 + 1 = j
      BY <1>9, <3>1
    <3>. QED  BY <3>2
  <2>2. n + i \in 1 .. n + l /\ ~(n + i <= n) /\ n + i - n = i
    OBVIOUS
  <2>3. PICK k \in 1 .. n + l : k = n + i /\ ~(k <= n) /\ k - n = i
    BY <2>2
  <2>4. u[k] = t[i]
    BY <1>6, <2>3
  <2>. QED  BY <1>4, <2>1, <2>4
<1>10. \A k \in DOMAIN tasks : k \in 1 .. n + l /\ u[k] = tasks[k]
  <2>1. \A k \in 1 .. n : k \in 1 .. n + l /\ k <= n
    OBVIOUS
  <2>. QED  BY <1>1, <1>2, <1>6, <2>1
<1>11. DOMAIN todo' = 1 .. n + l
  BY <1>6, <1>7
<1>12. \A k \in DOMAIN todo' :
           \/ k \in DOMAIN tasks /\ todo'[k] = tasks[k]
           \/ \E j \in DOMAIN todo : j > 1 /\ todo'[k] = todo[j]
  BY <1>7, <1>8, <1>11
<1>13. \A j \in DOMAIN todo : j > 1 => \E k \in DOMAIN todo' : todo'[k] = todo[j]
  BY <1>7, <1>9, <1>11
<1>14. \A k \in DOMAIN tasks : k \in DOMAIN todo' /\ todo'[k] = tasks[k]
  BY <1>7, <1>10, <1>11
<1>. QED
  BY <1>12, <1>13, <1>14

\* A step of the walk: it replaces the first task by others, and goes on to
\* one more node at most.
LEMMA StepWalks ==
    ASSUME Ready, UNCHANGED vars, todo # <<>>,
           NEW m \in 1 .. Len(tree), Frontier(m),
           NEW tasks, IsSeq(tasks), Do(tasks),
           NEW n \in {m, m + 1}, n <= Len(tree),
           n = m + 1 => 1 \in DOMAIN tasks /\ tasks[1] = Gen(m),
           \A k \in DOMAIN tasks : TaskOK(tasks[k], n), Bound(n)',
           todo[1][1] = "codegen" /\ it # Null /\ node(it).kind = "IdentifierExpr" => Declared(it),
           \/ todo[1][1] # "rest" /\ todo[1] # Gen(0)
           \/ n = Len(tree)
           \/ \E k \in DOMAIN tasks : tasks[k][1] = "rest"
    PROVE  Frontier(n)'
<1>1. tree' = tree /\ input' = input /\ n \in Nat /\ m \in Nat
  BY Root DEF vars
<1>2. /\ \A i : node(i)' = node(i) /\ Text(i)' = Text(i)
  BY <1>1 DEF node, Text
<1>4. \A i : Declared(i)' <=> Declared(i)
  BY <1>2 DEF Declared, Declares
<1>5. \A t : TaskOK(t, m) => TaskOK(t, n)
  <2>1. 1 .. m \subseteq 1 .. n /\ -1 .. m - 1 \subseteq -1 .. n - 1
    BY <1>1
  <2>. QED  BY <2>1 DEF TaskOK
<1>6. (\A k \in DOMAIN todo : TaskOK(todo[k], n))'
  <2>1. \A j \in DOMAIN todo : TaskOK(todo[j], n)
    BY <1>5 DEF Frontier
  <2>2. \A k \in DOMAIN todo' : TaskOK(todo'[k], n)
    BY <2>1, DoParts DEF Ready
  <2>. QED  BY <1>1, <2>2 DEF TaskOK, node
<1>7. ASSUME NEW i \in 0 .. n - 1, node(i).kind = "IdentifierExpr"
      PROVE  Declared(i) \/ (i = n - 1 /\ todo' # <<>> /\ todo'[1] = Gen(i))
  <2>1. CASE i = m
    <3>1. n = m + 1
      BY <2>1, <1>1
    <3>2. 1 \in DOMAIN todo' /\ todo'[1] = Gen(m)
      BY <3>1, DoParts DEF Ready
    <3>3. todo' # <<>>
      BY <3>2
    <3>. QED  BY <1>1, <2>1, <3>1, <3>2, <3>3
  <2>2. CASE i # m
    <3>1. i \in 0 .. m - 1
      BY <1>1, <2>2
    <3>2. Declared(i) \/ todo[1] = Gen(i)
      BY <1>7, <3>1 DEF Frontier
    <3>3. CASE todo[1] = Gen(i)
      <4>1. todo[1][1] = "codegen" /\ it = i /\ i # Null
        BY <3>3, <3>1 DEF Gen, it, Null
      <4>. QED  BY <1>7, <4>1
    <3>. QED  BY <3>2, <3>3
  <2>. QED  BY <2>1, <2>2
<1>8. ASSUME n < Len(tree)
      PROVE  \E k \in DOMAIN todo' : todo'[k][1] = "rest"
  <2>1. CASE \E k \in DOMAIN tasks : tasks[k][1] = "rest"
    BY <2>1, DoParts DEF Ready
  <2>2. CASE todo[1][1] # "rest" /\ todo[1] # Gen(0)
    <3>1. m < Len(tree)
      BY <1>1, <1>8, Root
    <3>2. PICK j \in DOMAIN todo : todo[j][1] = "rest"
      BY <2>2, <3>1 DEF Frontier
    <3>3. j > 1
      <4>1. j \in Nat /\ j > 0 /\ j # 1
        BY <2>2, <3>2 DEF Ready, GInv, StacksOK, IsSeq
      <4>. QED  BY <4>1
    <3>. QED  BY <3>2, <3>3, DoParts DEF Ready
  <2>. QED  BY <1>1, <1>8, <2>1, <2>2, Root
<1>9. \A i \in 0 .. n - 1 : node(i)'.kind = "IdentifierExpr" =>
          Declared(i)' \/ (i = n - 1 /\ todo' # <<>> /\ todo'[1] = Gen(i))
  BY <1>2, <1>4, <1>7
<1>. QED
  BY <1>1, <1>6, <1>8, <1>9 DEF Frontier, Gen

\* What declares a name does so as long as the tree stays.
LEMMA BoundNext ==
    ASSUME tree' = tree, input' = input, NEW m, \A k \in DOMAIN scopes' : Entry(scopes'[k], m)
    PROVE  Bound(m)'
BY DEF Bound, Entry, Declares, node, Text

\* What a visit may make of the scopes, where e is what it makes of the last.
Chain(s, e) ==
    s \in {scopes, Append(scopes, Scope), Front(scopes), [scopes EXCEPT ![Len(scopes)] = e],
           Append([scopes EXCEPT ![Len(scopes)] = e], Scope)}

\* All but the last stay as they are.
LEMMA ScopesAfter ==
    ASSUME GInv, status = "run", NEW e, NEW s, Chain(s, e)
    PROVE  \A k \in DOMAIN s : (\E j \in DOMAIN scopes : s[k] = scopes[j]) \/ s[k] \in {Scope, e}
<1>1. PICK S : scopes \in Seq(S)
  BY DEF GInv, StacksOK, IsSeq
<1>2. PICK n \in Nat : n = Len(scopes) /\ DOMAIN scopes = 1 .. n
  BY <1>1
<1>3. PICK u : u = [scopes EXCEPT ![n] = e]
  OBVIOUS
<1>4. u \in Seq(S \cup {e}) /\ Len(u) = n /\ (\A k \in 1 .. n : u[k] \in {scopes[k], e})
  <2>1. scopes \in [1 .. n -> S]
    BY <1>1, <1>2
  <2>2. u \in [1 .. n -> S \cup {e}]
    BY <1>3, <2>1
  <2>3. u \in Seq(S \cup {e})
    BY <2>2
  <2>4. DOMAIN u = 1 .. n
    BY <2>2
  <2>. QED  BY <1>2, <1>3, <2>3, <2>4
<1>5. CASE s = scopes
  BY <1>5
<1>6. CASE s = Append(scopes, Scope)
  <2>1. DOMAIN s = 1 .. n + 1 /\ \A k \in 1 .. n + 1 : s[k] = IF k = n + 1 THEN Scope ELSE scopes[k]
    BY <1>1, <1>2, <1>6
  <2>2. \A k \in 1 .. n + 1 : k = n + 1 \/ k \in 1 .. n
    OBVIOUS
  <2>. QED  BY <1>2, <2>1, <2>2
<1>7. CASE s = u
  <2>1. DOMAIN u = 1 .. n
    BY <1>4
  <2>. QED  BY <1>2, <1>4, <1>7, <2>1
<1>8. CASE s = Append(u, Scope)
  <2>1. DOMAIN s = 1 .. n + 1 /\ \A k \in 1 .. n + 1 : s[k] = IF k = n + 1 THEN Scope ELSE u[k]
    BY <1>4, <1>8
  <2>2. \A k \in 1 .. n + 1 : k = n + 1 \/ k \in 1 .. n
    OBVIOUS
  <2>. QED  BY <1>2, <1>4, <2>1, <2>2
<1>9. CASE s = Front(scopes)
  <2>1. Len(scopes) = 1 + Cardinality(Closers(todo)) /\ Cardinality(Closers(todo)) \in Nat
    BY ClosersFinite DEF GInv, StacksOK, IsSeq
  <2>2. PICK l \in Nat : l + 1 = n
    BY <1>2, <2>1
  <2>3. s = SubSeq(scopes, 1, l)
    BY <1>2, <1>9, <2>2 DEF Front
  <2>4. l \in 0 .. Len(scopes)
    BY <1>2, <2>2
  <2>5. DOMAIN s = 1 .. l /\ \A k \in 1 .. l : s[k] = scopes[k]
    BY <1>1, <2>3, <2>4
  <2>6. 1 .. l \subseteq 1 .. n
    BY <2>2
  <2>. QED  BY <1>2, <2>5, <2>6
<1>. QED
  BY <1>2, <1>3, <1>5, <1>6, <1>7, <1>8, <1>9 DEF Chain

\* What a visit may do to the scopes leaves every name in them declared.
LEMMA BoundMoves ==
    ASSUME Ready, status = "run", UNCHANGED vars, NEW m, Bound(m)
    PROVE  /\ UNCHANGED scopes => Bound(m)'
           /\ scopes' = Append(scopes, Scope) => Bound(m)'
           /\ scopes' = Front(scopes) /\ todo # <<>> /\ todo[1][1] \in ScopeTask => Bound(m)'
           /\ \A e : Entry(e, m) /\ scopes' = [scopes EXCEPT ![Len(scopes)] = e] => Bound(m)'
           /\ \A e : /\ Entry(e, m)
                     /\ scopes' = Append([scopes EXCEPT ![Len(scopes)] = e], Scope)
                     => Bound(m)'
<1>1. Entry(Scope, m) /\ \A k \in DOMAIN scopes : Entry(scopes[k], m)
  BY DEF Entry, Scope, Bound
<1>2. ASSUME NEW e, Entry(e, m), NEW s, Chain(s, e)
      PROVE  \A k \in DOMAIN s : Entry(s[k], m)
  <2>1. \A k \in DOMAIN s : (\E j \in DOMAIN scopes : s[k] = scopes[j]) \/ s[k] \in {Scope, e}
    BY <1>2, ScopesAfter DEF Ready
  <2>. QED  BY <1>1, <1>2, <2>1
<1>3. (\A k \in DOMAIN scopes' : Entry(scopes'[k], m)) => Bound(m)'
  BY BoundNext DEF vars
<1>4. PICK s : s = scopes'
  OBVIOUS
<1>5. \A e : Entry(e, m) /\ Chain(s, e) => Bound(m)'
  BY <1>2, <1>3, <1>4
<1>. QED
  BY <1>1, <1>4, <1>5 DEF Chain

\* There is an innermost scope.
LEMMA TopEntry ==
    ASSUME Ready, status = "run", NEW m, Bound(m)
    PROVE  Entry(scopes[Len(scopes)], m)
<1>1. Len(scopes) = 1 + Cardinality(Closers(todo)) /\ Cardinality(Closers(todo)) \in Nat
  BY ClosersFinite DEF Ready, GInv, StacksOK, IsSeq
<1>2. Len(scopes) \in DOMAIN scopes
  BY <1>1 DEF Ready, GInv, StacksOK, IsSeq
<1>. QED
  BY <1>2 DEF Bound

\* A scope in which a declared name is bound.
LEMMA BindEntry ==
    ASSUME NEW m, NEW top, Entry(top, m), NEW name, NEW entry,
           NEW d \in 0 .. m - 1, Declares(d, name),
           NEW s, s = [n \in DOMAIN top.symbols \cup {name} |->
                          IF n = name THEN entry ELSE top.symbols[n]]
    PROVE  Entry([top EXCEPT !.symbols = s], m)
<1>1. DOMAIN s = DOMAIN top.symbols \cup {name}
  OBVIOUS
<1>2. DOMAIN [top EXCEPT !.symbols = s] = DOMAIN top
  OBVIOUS
<1>3. [top EXCEPT !.symbols = s].symbols = s
  BY DEF Entry
<1>. QED
  BY <1>1, <1>2, <1>3 DEF Entry

-----------------------------------------------------------------------------
(* The visits go on.                                                       *)

\* A visit that puts tasks about earlier nodes in the place of its own.
LEMMA VisitWalks ==
    ASSUME Ready, UNCHANGED vars, NEW do, Doing(do), do # "rest", status' = status,
           do = "codegen" => \/ it = Null
                             \/ node(it).kind # "TranslationUnit"
                                /\ (node(it).kind = "IdentifierExpr" => Holding(Text(it)) # {}),
           NEW tasks, IsSeq(tasks), Do(tasks),
           \A m \in 1 .. Len(tree) : Frontier(m) =>
               Bound(m)' /\ \A k \in DOMAIN tasks : TaskOK(tasks[k], m)
    PROVE  WInv'
<1>1. status = "run" /\ todo # <<>> /\ todo[1][1] = do /\ outcome' = outcome
  BY DEF Doing, vars
<1>2. PICK m \in 1 .. Len(tree) : Frontier(m)
  BY <1>1 DEF Ready, WInv
<1>3. todo[1] # Gen(0)
  <2>. SUFFICES ASSUME todo[1] = Gen(0) PROVE FALSE
    OBVIOUS
  <2>1. do = "codegen" /\ it = 0
    BY <1>1 DEF Gen, it
  <2>. QED  BY <2>1, Root DEF Null
<1>4. ASSUME do = "codegen", it # Null, node(it).kind = "IdentifierExpr"
      PROVE  Declared(it)
  <2>1. 1 \in DOMAIN todo
    BY <1>1, EmptySeq DEF Ready, GInv, StacksOK, IsSeq
  <2>2. it \in 0 .. m - 1
    <3>1. TaskOK(todo[1], m)
      BY <1>2, <2>1 DEF Frontier
    <3>. QED  BY <1>1, <1>4, <3>1 DEF TaskOK, it, Null
  <2>3. PICK k \in DOMAIN scopes : Text(it) \in DOMAIN scopes[k].symbols
    BY <1>4 DEF Holding
  <2>4. PICK d \in 0 .. m - 1 : Declares(d, Text(it))
    BY <1>2, <2>3 DEF Frontier, Bound, Entry
  <2>5. CASE it = m - 1
    BY <2>4, <2>5 DEF Declared
  <2>6. CASE it # m - 1
    BY <1>2, <1>4, <2>2, <2>6 DEF Frontier
  <2>. QED  BY <2>5, <2>6
<1>5. m \in {m, m + 1} /\ m <= Len(tree) /\ m # m + 1
  BY Root
<1>6. Frontier(m)'
  BY <1>1, <1>2, <1>3, <1>4, <1>5, StepWalks
<1>7. m \in 1 .. Len(tree')
  BY DEF vars
<1>. QED
  BY <1>1, <1>6, <1>7 DEF Ready, WInv

\* The tasks behind the first one are not looked at by a visit that returns.
LEMMA ReturnWalks ==
    ASSUME Ready, UNCHANGED vars, NEW do, Doing(do), do # "rest", status' = status,
           do = "codegen" => \/ it = Null
                             \/ node(it).kind # "TranslationUnit"
                                /\ (node(it).kind = "IdentifierExpr" => Holding(Text(it)) # {}),
           Do(<<>>),
           \A m \in 1 .. Len(tree) : Frontier(m) => Bound(m)'
    PROVE  WInv'
<1>1. IsSeq(<<>>)
  BY FewTasks
<1>2. DOMAIN <<>> = {}
  OBVIOUS
<1>. QED
  BY <1>1, <1>2, VisitWalks

\* A visit that returns and leaves the scopes alone.
LEMMA AnswerWalks ==
    ASSUME Ready, UNCHANGED vars, NEW do, Doing(do), do # "rest", status' = status,
           do = "codegen" => \/ it = Null
                             \/ node(it).kind # "TranslationUnit"
                                /\ (node(it).kind = "IdentifierExpr" => Holding(Text(it)) # {}),
           Do(<<>>), UNCHANGED scopes
    PROVE  WInv'
<1>1. \A m : Bound(m) => Bound(m)'
  BY BoundMoves DEF Doing
<1>. QED
  BY <1>1, ReturnWalks DEF Frontier

\* An error or a null pointer ends the walk.
LEMMA EndWalks ==
    ASSUME Ready, UNCHANGED vars, status = "run",
           status' \in {"failed", "undefined", "overflow"}
    PROVE  WInv'
BY DEF Ready, WInv, vars

\* A visit that goes on to one task and leaves the scopes alone.
LEMMA OneTask ==
    ASSUME Ready, UNCHANGED vars, NEW do, Doing(do), do # "rest", status' = status,
           do = "codegen" => it # Null /\ node(it).kind \notin {"TranslationUnit", "IdentifierExpr"},
           NEW a, Do(<<a>>), UNCHANGED scopes,
           \A m \in 1 .. Len(tree) : Frontier(m) => TaskOK(a, m)
    PROVE  WInv'
<1>1. PICK tasks : tasks = <<a>>
  OBVIOUS
<1>2. IsSeq(tasks) /\ \A k \in DOMAIN tasks : tasks[k] = a
  <2>1. IsSeq(tasks)
    BY <1>1, FewTasks
  <2>. QED  BY <1>1, <2>1
<1>3. \A m : Bound(m) => Bound(m)'
  BY BoundMoves DEF Doing
<1>. QED
  BY <1>1, <1>2, <1>3, VisitWalks DEF Frontier

\* The same with two tasks.
LEMMA TwoTasks ==
    ASSUME Ready, UNCHANGED vars, NEW do, Doing(do), do # "rest", status' = status,
           do = "codegen" => it # Null /\ node(it).kind \notin {"TranslationUnit", "IdentifierExpr"},
           NEW a, NEW b, Do(<<a, b>>), UNCHANGED scopes,
           \A m \in 1 .. Len(tree) : Frontier(m) => TaskOK(a, m) /\ TaskOK(b, m)
    PROVE  WInv'
<1>1. PICK tasks : tasks = <<a, b>>
  OBVIOUS
<1>2. IsSeq(tasks) /\ \A k \in DOMAIN tasks : tasks[k] \in {a, b}
  <2>1. IsSeq(tasks)
    BY <1>1, FewTasks
  <2>2. DOMAIN <<a, b>> = {1, 2}
    OBVIOUS
  <2>. QED  BY <1>1, <2>1, <2>2
<1>3. \A m : Bound(m) => Bound(m)'
  BY BoundMoves DEF Doing
<1>4. \A m \in 1 .. Len(tree) : Frontier(m) => \A k \in DOMAIN tasks : TaskOK(tasks[k], m)
  BY <1>2
<1>. QED
  BY <1>1, <1>2, <1>3, <1>4, VisitWalks DEF Frontier

\* The node of the first task is among those reached.
LEMMA Reached ==
    ASSUME Ready, NEW do, Doing(do), do # "rest", NEW m \in 1 .. Len(tree), Frontier(m)
    PROVE  /\ it \in -1 .. m - 1
           /\ it # Null => it \in 0 .. m - 1 /\ it \in 0 .. Len(tree) - 1
           /\ TaskOK(todo[1], m)
<1>1. 1 \in DOMAIN todo /\ todo[1][1] = do
  BY EmptySeq DEF Doing, Ready, GInv, StacksOK, IsSeq
<1>2. TaskOK(todo[1], m)
  BY <1>1 DEF Frontier
<1>. QED
  BY <1>1, <1>2, Root DEF TaskOK, it, Null

\* Tasks about the node that is visited and about nodes before it.
LEMMA TasksOK ==
    ASSUME NEW m \in Nat, NEW i \in 0 .. m - 1
    PROVE  /\ TaskOK(Gen(Null), m)
           /\ \A j \in -1 .. i - 1 : TaskOK(Gen(j), m)
           /\ \A do \in {"binary", "unary", "call", "join", "function"} : TaskOK(On(do, i), m)
           /\ node(i).kind = "VarDecl" => TaskOK(On("variable", i), m)
           /\ node(i).kind = "EvalExpr" => TaskOK(On("then", i), m) /\ TaskOK(On("else", i), m)
           /\ node(i).kind = "CompileTimeJump" /\ Len(node(i).kids) = 3 => TaskOK(On("loop", i), m)
BY DEF TaskOK, Gen, On, Null

\* A block's walk goes on, node after node, to the last.
LEMMA BlockWalks ==
    ASSUME Ready, UNCHANGED vars, codegenTranslationUnit \/ VisitRest
    PROVE  WInv'
<1>1. PICK do \in {"codegen", "rest"} : Doing(do)
  BY DEF codegenTranslationUnit, VisitRest, Visiting
<1>2. status = "run" /\ todo # <<>> /\ todo[1][1] = do /\ outcome' = outcome /\ status' = status
  BY <1>1 DEF Doing, vars, codegenTranslationUnit, VisitRest
<1>3. PICK m \in 1 .. Len(tree) : Frontier(m)
  BY <1>2 DEF Ready, WInv
<1>4. Len(tree) \in Nat /\ m \in Nat
  BY Root
<1>5. \A n \in 1 .. Len(tree) : Frontier(n)' => WInv'
  <2>1. tree' = tree
    BY DEF vars
  <2>. QED  BY <1>2, <2>1 DEF Ready, WInv
<1>6. CASE codegenTranslationUnit
  <2>1. it # Null /\ Doing("codegen") /\ node(it).kind = "TranslationUnit"
    BY <1>6 DEF codegenTranslationUnit, Visiting
  <2>2. it \in 0 .. m - 1
    BY <1>3, <2>1, Reached
  <2>3. PICK tasks : tasks = <<On("rest", it + 1)>>
    OBVIOUS
  <2>4. Do(tasks) /\ scopes' = Append(scopes, Scope)
    BY <1>6, <2>3 DEF codegenTranslationUnit
  <2>5. IsSeq(tasks)
    BY <2>3, FewTasks
  <2>6. /\ \A k \in DOMAIN tasks : TaskOK(tasks[k], m)
        /\ 1 \in DOMAIN tasks /\ tasks[1][1] = "rest"
    <3>1. it + 1 \in 1 .. m
      BY <2>2
    <3>2. TaskOK(On("rest", it + 1), m)
      BY <3>1 DEF TaskOK, On
    <3>. QED  BY <2>3, <3>2 DEF On
  <2>7. Bound(m)'
    BY <1>2, <1>3, <2>4, BoundMoves DEF Frontier
  <2>8. m \in {m, m + 1} /\ m # m + 1 /\ m <= Len(tree)
    BY <1>4
  <2>9. Frontier(m)'
    BY <1>2, <1>3, <2>1, <2>4, <2>5, <2>6, <2>7, <2>8, StepWalks
  <2>. QED  BY <1>5, <2>9
<1>7. CASE VisitRest
  <2>1. todo[1][1] = "rest" /\ todo[1][1] \in ScopeTask
    BY <1>7 DEF VisitRest, Doing, ScopeTask
  <2>2. it \in 1 .. m
    <3>1. 1 \in DOMAIN todo
      BY <1>2, EmptySeq DEF Ready, GInv, StacksOK, IsSeq
    <3>2. TaskOK(todo[1], m)
      BY <1>3, <3>1 DEF Frontier
    <3>. QED  BY <2>1, <3>2 DEF TaskOK, it
  <2>3. CASE it < Len(tree)
    <3>1. PICK i \in Nat : i = it
      BY <2>2
    <3>2. PICK tasks : tasks = <<Gen(i), On("rest", i + 1)>>
      OBVIOUS
    <3>3. Do(tasks) /\ UNCHANGED scopes
      BY <1>7, <2>3, <3>1, <3>2 DEF VisitRest
    <3>4. IsSeq(tasks)
      BY <3>2, FewTasks
    <3>5. DOMAIN tasks = {1, 2} /\ tasks[1] = Gen(i) /\ tasks[2] = On("rest", i + 1)
      BY <3>2
    <3>6. PICK n \in {m, m + 1} : n <= Len(tree) /\ i + 1 <= n /\ (n = m + 1 => i = m)
      <4>1. CASE i = m
        <5>1. m + 1 <= Len(tree)
          BY <1>4, <2>3, <3>1, <4>1
        <5>. QED  BY <4>1, <5>1
      <4>2. CASE i # m
        <5>1. i + 1 <= m /\ m <= Len(tree) /\ m # m + 1
          BY <1>4, <2>2, <3>1, <4>2
        <5>. QED  BY <5>1
      <4>. QED  BY <4>1, <4>2
    <3>7. i \in 0 .. n - 1 /\ i + 1 \in 1 .. n /\ n \in Nat
      BY <1>4, <3>6
    <3>8. TaskOK(Gen(i), n) /\ TaskOK(On("rest", i + 1), n)
      BY <3>7 DEF TaskOK, Gen, On
    <3>9. \A k \in DOMAIN tasks : TaskOK(tasks[k], n)
      BY <3>5, <3>8
    <3>10. Bound(n)'
      <4>1. Bound(m)
        BY <1>3 DEF Frontier
      <4>2. 0 .. m - 1 \subseteq 0 .. n - 1
        BY <1>4, <3>6
      <4>3. Bound(n)
        BY <4>1, <4>2 DEF Bound, Entry
      <4>. QED  BY <1>2, <3>3, <4>3, BoundMoves
    <3>11. tasks[2][1] = "rest"
      BY <3>5 DEF On
    <3>12. n = m + 1 => 1 \in DOMAIN tasks /\ tasks[1] = Gen(m)
      BY <3>5, <3>6
    <3>13. Frontier(n)'
      <4>1. \E k \in DOMAIN tasks : tasks[k][1] = "rest"
        BY <3>5, <3>11
      <4>2. todo[1][1] # "codegen"
        BY <2>1
      <4>. QED  BY <1>2, <1>3, <3>3, <3>4, <3>6, <3>9, <3>10, <3>12, <4>1, <4>2, StepWalks
    <3>14. n \in 1 .. Len(tree)
      BY <1>4, <3>6, <3>7
    <3>. QED  BY <1>5, <3>13, <3>14
  <2>4. CASE ~(it < Len(tree))
    <3>1. m = Len(tree)
      BY <1>4, <2>2, <2>4
    <3>2. Do(<<>>) /\ scopes' = Front(scopes)
      BY <1>7, <2>4 DEF VisitRest
    <3>3. Bound(m)'
      BY <1>2, <1>3, <2>1, <3>2, BoundMoves DEF Frontier
    <3>4. IsSeq(<<>>)
      BY FewTasks
    <3>5. DOMAIN <<>> = {}
      OBVIOUS
    <3>6. m \in {m, m + 1} /\ m # m + 1 /\ m <= Len(tree)
      BY <1>4
    <3>7. todo[1][1] # "codegen"
      BY <2>1
    <3>8. PICK tasks : tasks = <<>>
      OBVIOUS
    <3>9. /\ IsSeq(tasks) /\ Do(tasks) /\ \A k \in DOMAIN tasks : TaskOK(tasks[k], m)
      BY <3>2, <3>4, <3>5, <3>8
    <3>10. Frontier(m)'
      BY <1>2, <1>3, <3>1, <3>3, <3>6, <3>7, <3>9, StepWalks
    <3>. QED  BY <1>5, <3>10
  <2>. QED  BY <2>3, <2>4
<1>. QED
  BY <1>6, <1>7

\* A bound name is that of the declaration that is visited.
LEMMA BindWalks ==
    ASSUME Ready, UNCHANGED vars, NEW do, Doing(do), do # "rest", it # Null,
           node(it).kind = "VarDecl", NEW value, NEW known,
           Bind(Text(node(it).kids[2]), value, known),
           NEW m \in 1 .. Len(tree), Frontier(m)
    PROVE  Bound(m)'
<1>1. PICK top : top = scopes[Len(scopes)]
  OBVIOUS
<1>2. PICK name : name = Text(node(it).kids[2])
  OBVIOUS
<1>3. it \in 0 .. m - 1 /\ Declares(it, name)
  BY <1>2, Reached DEF Declares
<1>4. status = "run" /\ Bound(m)
  BY DEF Doing, Frontier
<1>5. PICK entry : entry = [value |-> value, isCompileTime |-> known]
  OBVIOUS
<1>6. PICK s : s = [n \in DOMAIN top.symbols \cup {name} |->
                       IF n = name THEN entry ELSE top.symbols[n]]
  OBVIOUS
<1>7. Entry([top EXCEPT !.symbols = s], m)
  <2>1. Entry(top, m)
    BY <1>1, <1>4, TopEntry
  <2>. QED  BY <1>3, <1>6, <2>1, BindEntry
<1>8. scopes' = [scopes EXCEPT ![Len(scopes)] = [top EXCEPT !.symbols = s]]
  BY <1>1, <1>2, <1>5, <1>6 DEF Bind
<1>. QED
  BY <1>4, <1>7, <1>8, BoundMoves

\* The declarations of variables.
LEMMA VariableWalks ==
    ASSUME Ready, UNCHANGED vars, codegenVarDecl \/ DefineVariable
    PROVE  WInv'
<1>1. CASE codegenVarDecl
  <2>1. Doing("codegen") /\ it # Null /\ node(it).kind = "VarDecl" /\ status = "run"
    BY <1>1 DEF codegenVarDecl, Visiting, Doing
  <2> DEFINE kids == node(it).kids
             value == Constant[kids[3]]
  <2>2. \/ Throw \/ Undefined
        \/ Bind(Text(kids[2]), value, TRUE) /\ (\E v : Return(0, v)) /\ status' = status
        \/ Continue(<<Gen(kids[3]), On("variable", it)>>)
        \/ Do(<<On("variable", it)>>) /\ UNCHANGED <<scopes, status>>
    BY <1>1 DEF codegenVarDecl
  <2>3. ASSUME NEW m \in 1 .. Len(tree), Frontier(m)
        PROVE  TaskOK(Gen(kids[3]), m) /\ TaskOK(On("variable", it), m)
    <3>1. PICK i : i = it
      OBVIOUS
    <3>2. i \in 0 .. m - 1 /\ i \in 0 .. Len(tree) - 1 /\ m \in Nat
      BY <2>1, <2>3, <3>1, Reached
    <3>3. node(i).kids[3] \in -1 .. i - 1
      BY <2>1, <3>1, <3>2, Kids
    <3>. QED  BY <2>1, <3>1, <3>2, <3>3, TasksOK
  <2>4. CASE Throw \/ Undefined
    BY <2>1, <2>4, EndWalks DEF Throw, Undefined
  <2>5. CASE Bind(Text(kids[2]), value, TRUE) /\ (\E v : Return(0, v)) /\ status' = status
    <3>1. \A m \in 1 .. Len(tree) : Frontier(m) => Bound(m)'
      BY <2>1, <2>5, BindWalks
    <3>2. Do(<<>>)
      BY <2>5 DEF Return
    <3>. QED  BY <2>1, <2>5, <3>1, <3>2, ReturnWalks
  <2>6. CASE Continue(<<Gen(kids[3]), On("variable", it)>>)
    <3>. HIDE DEF kids
    <3>. QED  BY <2>1, <2>3, <2>6, TwoTasks DEF Continue
  <2>7. CASE Do(<<On("variable", it)>>) /\ UNCHANGED <<scopes, status>>
    BY <2>1, <2>3, <2>7, OneTask
  <2>. QED  BY <2>2, <2>4, <2>5, <2>6, <2>7
<1>2. CASE DefineVariable
  <2>1. Doing("variable") /\ status = "run"
    BY <1>2 DEF DefineVariable, Doing
  <2>2. it # Null /\ node(it).kind = "VarDecl"
    <3>1. PICK m \in 1 .. Len(tree) : Frontier(m)
      BY <2>1 DEF Ready, WInv
    <3>2. TaskOK(todo[1], m)
      BY <2>1, <3>1, Reached
    <3>. QED  BY <2>1, <3>2 DEF TaskOK, Doing, it
  <2>3. \/ Undefined
        \/ \E v, w : Bind(Text(node(it).kids[2]), v, FALSE) /\ Return(1, w) /\ status' = status
    BY <1>2 DEF DefineVariable
  <2>4. CASE Undefined
    BY <2>1, <2>4, EndWalks DEF Undefined
  <2>5. CASE \E v, w : Bind(Text(node(it).kids[2]), v, FALSE) /\ Return(1, w) /\ status' = status
    <3>1. PICK v, w : Bind(Text(node(it).kids[2]), v, FALSE) /\ Return(1, w) /\ status' = status
      BY <2>5
    <3>2. \A m \in 1 .. Len(tree) : Frontier(m) => Bound(m)'
      BY <2>1, <2>2, <3>1, BindWalks
    <3>3. Do(<<>>)
      BY <3>1 DEF Return
    <3>. QED  BY <2>1, <3>1, <3>2, <3>3, ReturnWalks
  <2>. QED  BY <2>3, <2>4, <2>5
<1>. QED
  BY <1>1, <1>2

\* The declaration of a type leaves the names of the scope as they are.
LEMMA TypeWalks ==
    ASSUME Ready, UNCHANGED vars, codegenTypeDecl
    PROVE  WInv'
<1>1. Doing("codegen") /\ it # Null /\ node(it).kind = "TypeDecl" /\ status = "run"
  BY DEF codegenTypeDecl, Visiting, Doing
<1>2. PICK top : top = scopes[Len(scopes)]
  OBVIOUS
<1>3. \/ Throw
      \/ /\ \E c : scopes' = [scopes EXCEPT ![Len(scopes)] = [top EXCEPT !.customTypes = c]]
         /\ Do(<<>>) /\ status' = status
  <2>1. \/ Throw
        \/ /\ \E name : scopes' = [scopes EXCEPT ![Len(scopes)].customTypes = @ \cup {name}]
           /\ Return(0, "null") /\ status' = status
    BY DEF codegenTypeDecl
  <2>2. CASE Throw
    BY <2>2
  <2>3. CASE /\ \E name : scopes' = [scopes EXCEPT ![Len(scopes)].customTypes = @ \cup {name}]
             /\ Return(0, "null") /\ status' = status
    <3>1. PICK name : scopes' = [scopes EXCEPT ![Len(scopes)].customTypes = @ \cup {name}]
      BY <2>3
    <3>2. scopes' = [scopes EXCEPT ![Len(scopes)] =
                        [top EXCEPT !.customTypes = top.customTypes \cup {name}]]
      BY <1>2, <3>1
    <3>. QED  BY Zenon, <2>3, <3>2 DEF Return
  <2>. QED  BY <2>1, <2>2, <2>3
<1>4. CASE Throw
  BY <1>1, <1>4, EndWalks DEF Throw
<1>5. CASE /\ \E c : scopes' = [scopes EXCEPT ![Len(scopes)] = [top EXCEPT !.customTypes = c]]
           /\ Do(<<>>) /\ status' = status
  <2>1. PICK c : scopes' = [scopes EXCEPT ![Len(scopes)] = [top EXCEPT !.customTypes = c]]
    BY <1>5
  <2>2. ASSUME NEW m \in 1 .. Len(tree), Frontier(m) PROVE Bound(m)'
    <3>1. Bound(m) /\ Entry(top, m)
      BY <1>1, <1>2, <2>2, TopEntry DEF Frontier
    <3>2. PICK e : e = [top EXCEPT !.customTypes = c]
      OBVIOUS
    <3>3. Entry(e, m)
      BY <3>1, <3>2 DEF Entry
    <3>. QED  BY <1>1, <2>1, <3>1, <3>2, <3>3, BoundMoves
  <2>. QED  BY <1>1, <1>5, <2>2, ReturnWalks
<1>. QED
  BY <1>3, <1>4, <1>5

\* A function opens a scope without names.
LEMMA FunctionWalks ==
    ASSUME Ready, UNCHANGED vars, codegenFunctionDecl \/ EndFunction
    PROVE  WInv'
<1>1. CASE codegenFunctionDecl
  <2>1. Doing("codegen") /\ it # Null /\ node(it).kind = "FunctionDecl" /\ status = "run"
    BY <1>1 DEF codegenFunctionDecl, Visiting, Doing
  <2>2. CASE Throw
    BY <2>1, <2>2, EndWalks DEF Throw
  <2>3. CASE ~Throw
    <3>1. PICK top : top = scopes[Len(scopes)]
      OBVIOUS
    <3>2. PICK a : a = Gen(node(it).kids[3])
      OBVIOUS
    <3>3. PICK b : b = On("function", it)
      OBVIOUS
    <3>4. PICK tasks : tasks = <<a, b>>
      OBVIOUS
    <3>5. status' = status /\ Do(tasks)
      BY <1>1, <2>3, <3>2, <3>3, <3>4 DEF codegenFunctionDecl
    <3>6. PICK f : scopes' = Append([scopes EXCEPT ![Len(scopes)] = [top EXCEPT !.functions = f]], Scope)
      <4>1. PICK name : scopes' = Append([scopes EXCEPT ![Len(scopes)].functions = @ \cup {name}], Scope)
        BY <1>1, <2>3 DEF codegenFunctionDecl
      <4>2. scopes' = Append([scopes EXCEPT ![Len(scopes)] =
                                [top EXCEPT !.functions = top.functions \cup {name}]], Scope)
        BY <3>1, <4>1
      <4>. QED  BY Zenon, <4>2
    <3>7. IsSeq(tasks)
      BY <3>4, FewTasks
    <3>8. \A k \in DOMAIN tasks : tasks[k] \in {a, b}
      <4>1. DOMAIN <<a, b>> = {1, 2}
        OBVIOUS
      <4>. QED  BY <3>4, <4>1
    <3>9. ASSUME NEW m \in 1 .. Len(tree), Frontier(m)
          PROVE  Bound(m)' /\ \A k \in DOMAIN tasks : TaskOK(tasks[k], m)
      <4>1. Bound(m) /\ Entry(top, m)
        BY <2>1, <3>1, <3>9, TopEntry DEF Frontier
      <4>2. PICK e : e = [top EXCEPT !.functions = f]
        OBVIOUS
      <4>3. Entry(e, m)
        BY <4>1, <4>2 DEF Entry
      <4>4. Bound(m)'
        BY <2>1, <3>6, <4>1, <4>2, <4>3, BoundMoves
      <4>5. PICK i : i = it
        OBVIOUS
      <4>6. i \in 0 .. m - 1 /\ i \in 0 .. Len(tree) - 1 /\ m \in Nat
        BY <2>1, <3>9, <4>5, Reached
      <4>7. node(i).kids[3] \in -1 .. i - 1
        BY <2>1, <4>5, <4>6, Kids
      <4>8. TaskOK(a, m) /\ TaskOK(b, m)
        BY <3>2, <3>3, <4>5, <4>6, <4>7, TasksOK
      <4>. QED  BY <3>8, <4>4, <4>8
    <3>. QED  BY <2>1, <3>5, <3>7, <3>9, VisitWalks
  <2>. QED  BY <2>2, <2>3
<1>2. CASE EndFunction
  <2>1. Doing("function") /\ status = "run" /\ todo # <<>> /\ todo[1][1] \in ScopeTask
    BY <1>2 DEF EndFunction, Doing, ScopeTask
  <2>2. scopes' = Front(scopes) /\ Do(<<>>) /\ status' = status
    BY <1>2 DEF EndFunction, Return
  <2>3. \A m \in 1 .. Len(tree) : Frontier(m) => Bound(m)'
    BY <2>1, <2>2, BoundMoves DEF Frontier
  <2>. QED  BY <2>1, <2>2, <2>3, ReturnWalks
<1>. QED
  BY <1>1, <1>2

\* Literals, names and what generates nothing return at once; operands are
\* nodes before their operator.
LEMMA OperandWalks ==
    ASSUME Ready, UNCHANGED vars,
           \/ CodegenNothing \/ codegenLiteralExpr \/ codegenIdentifierExpr
           \/ codegenBinaryExpr \/ codegenUnaryExpr \/ codegenCallExpr \/ codegenEvalExpr
    PROVE  WInv'
<1>1. Doing("codegen") /\ status = "run"
  BY DEF CodegenNothing, codegenLiteralExpr, codegenIdentifierExpr, codegenBinaryExpr,
     codegenUnaryExpr, codegenCallExpr, codegenEvalExpr, Visiting, Doing
<1>2. CASE CodegenNothing \/ codegenLiteralExpr
  <2>1. Do(<<>>) /\ UNCHANGED <<scopes, status>>
    BY <1>2 DEF CodegenNothing, codegenLiteralExpr, Answer, Return
  <2>2. it = Null \/ node(it).kind \notin {"TranslationUnit", "IdentifierExpr"}
    BY <1>2 DEF CodegenNothing, codegenLiteralExpr, Visiting
  <2>. QED  BY <1>1, <2>1, <2>2, AnswerWalks
<1>3. CASE codegenIdentifierExpr
  <2>1. node(it).kind = "IdentifierExpr"
    BY <1>3 DEF codegenIdentifierExpr, Visiting
  <2>2. CASE Throw \/ Undefined
    BY <1>1, <2>2, EndWalks DEF Throw, Undefined
  <2>3. CASE ~(Throw \/ Undefined)
    <3>1. Holding(Text(it)) # {} /\ Do(<<>>) /\ UNCHANGED <<scopes, status>>
      BY <1>3, <2>3 DEF codegenIdentifierExpr, Answer, Return
    <3>. QED  BY <1>1, <2>1, <3>1, AnswerWalks
  <2>. QED  BY <2>2, <2>3
<1>4. ASSUME NEW kind \in {"BinaryExpr", "UnaryExpr", "CallExpr", "EvalExpr"}, Visiting(kind)
      PROVE  /\ it # Null /\ node(it).kind = kind
             /\ \A m \in 1 .. Len(tree) : Frontier(m) =>
                   /\ TaskOK(Gen(Null), m)
                   /\ TaskOK(Gen(node(it).kids[1]), m)
                   /\ kind \in {"BinaryExpr", "CallExpr"} => TaskOK(Gen(node(it).kids[2]), m)
                   /\ TaskOK(On("binary", it), m) /\ TaskOK(On("unary", it), m)
                   /\ TaskOK(On("call", it), m)
                   /\ kind = "EvalExpr" => TaskOK(On("then", it), m)
  <2>1. it # Null /\ node(it).kind = kind
    BY <1>4 DEF Visiting
  <2>2. ASSUME NEW m \in 1 .. Len(tree), Frontier(m)
        PROVE  /\ TaskOK(Gen(Null), m)
               /\ TaskOK(Gen(node(it).kids[1]), m)
               /\ kind \in {"BinaryExpr", "CallExpr"} => TaskOK(Gen(node(it).kids[2]), m)
               /\ TaskOK(On("binary", it), m) /\ TaskOK(On("unary", it), m)
               /\ TaskOK(On("call", it), m)
               /\ kind = "EvalExpr" => TaskOK(On("then", it), m)
    <3>1. PICK i : i = it
      OBVIOUS
    <3>2. i \in 0 .. m - 1 /\ i \in 0 .. Len(tree) - 1 /\ m \in Nat
      BY <1>1, <2>1, <2>2, <3>1, Reached
    <3>3. /\ node(i).kids[1] \in -1 .. i - 1
          /\ kind \in {"BinaryExpr", "CallExpr"} => node(i).kids[2] \in -1 .. i - 1
      BY <2>1, <3>1, <3>2, Kids
    <3>. QED  BY <2>1, <3>1, <3>2, <3>3, TasksOK
  <2>. QED  BY <2>1, <2>2
<1>5. CASE codegenBinaryExpr
  <2>1. Visiting("BinaryExpr") /\ status' = status /\ UNCHANGED scopes
    BY <1>5 DEF codegenBinaryExpr, Continue
  <2>2. PICK a : a = Gen(node(it).kids[1])
    OBVIOUS
  <2>3. PICK b : b = Gen(node(it).kids[2])
    OBVIOUS
  <2>4. PICK c : c = On("binary", it)
    OBVIOUS
  <2>5. PICK tasks : tasks = <<a, b, c>>
    OBVIOUS
  <2>6. Do(tasks)
    BY <1>5, <2>2, <2>3, <2>4, <2>5 DEF codegenBinaryExpr, Continue
  <2>7. IsSeq(tasks)
    BY <2>5, FewTasks
  <2>8. \A k \in DOMAIN tasks : tasks[k] \in {a, b, c}
    <3>1. DOMAIN <<a, b, c>> = {1, 2, 3}
      OBVIOUS
    <3>. QED  BY <2>5, <3>1
  <2>9. \A m \in 1 .. Len(tree) : Frontier(m) => TaskOK(a, m) /\ TaskOK(b, m) /\ TaskOK(c, m)
    BY <1>4, <2>1, <2>2, <2>3, <2>4
  <2>10. \A m \in 1 .. Len(tree) : Frontier(m) => \A k \in DOMAIN tasks : TaskOK(tasks[k], m)
    BY <2>8, <2>9
  <2>11. \A m \in 1 .. Len(tree) : Frontier(m) => Bound(m)'
    BY <1>1, <2>1, BoundMoves DEF Frontier
  <2>12. it # Null /\ node(it).kind = "BinaryExpr"
    BY <2>1 DEF Visiting
  <2>. QED  BY <1>1, <2>1, <2>6, <2>7, <2>10, <2>11, <2>12, VisitWalks
<1>6. CASE codegenUnaryExpr
  <2>1. /\ Visiting("UnaryExpr") /\ status' = status /\ UNCHANGED scopes
        /\ Do(<<Gen(node(it).kids[1]), On("unary", it)>>)
    BY <1>6 DEF codegenUnaryExpr, Continue
  <2>. QED  BY <1>1, <1>4, <2>1, TwoTasks
<1>7. CASE codegenEvalExpr
  <2>1. /\ Visiting("EvalExpr") /\ status' = status /\ UNCHANGED scopes
        /\ Do(<<Gen(node(it).kids[1]), On("then", it)>>)
    BY <1>7 DEF codegenEvalExpr, Continue
  <2>. QED  BY <1>1, <1>4, <2>1, TwoTasks
<1>8. CASE codegenCallExpr
  <2>1. Visiting("CallExpr")
    BY <1>8 DEF codegenCallExpr
  <2>2. CASE Throw
    BY <1>1, <2>2, EndWalks DEF Throw
  <2>3. CASE Continue(<<Gen(Null), On("call", it)>>)
    BY <1>1, <1>4, <2>1, <2>3, TwoTasks DEF Continue
  <2>4. CASE Continue(<<Gen(node(it).kids[2]), On("call", it)>>)
    BY <1>1, <1>4, <2>1, <2>4, TwoTasks DEF Continue
  <2>. QED  BY <1>8, <2>2, <2>3, <2>4 DEF codegenCallExpr
<1>. QED
  BY <1>2, <1>3, <1>5, <1>6, <1>7, <1>8

\* What is emitted once the operands have been visited.
LEMMA EmitWalks ==
    ASSUME Ready, UNCHANGED vars, EmitBinary \/ EmitUnary \/ EmitCall \/ Join
    PROVE  WInv'
<1>1. PICK do \in {"binary", "unary", "call", "join"} : Doing(do)
  BY DEF EmitBinary, EmitUnary, EmitCall, Join
<1>2. do # "rest" /\ do # "codegen" /\ status = "run"
  BY <1>1 DEF Doing
<1>3. \/ Throw \/ Undefined
      \/ Do(<<>>) /\ UNCHANGED <<scopes, status>>
  BY DEF EmitBinary, EmitUnary, EmitCall, Join, Answer, Return
<1>4. CASE Throw \/ Undefined
  BY <1>2, <1>4, EndWalks DEF Throw, Undefined
<1>5. CASE Do(<<>>) /\ UNCHANGED <<scopes, status>>
  BY <1>1, <1>2, <1>5, AnswerWalks
<1>. QED
  BY <1>3, <1>4, <1>5

\* The blocks of a branch or a loop are nodes before it.
LEMMA BranchWalks ==
    ASSUME Ready, UNCHANGED vars,
           Branch("then") \/ Branch("else") \/ codegenCompileTimeJump \/ LoopBody
    PROVE  WInv'
<1>1. PICK do \in {"codegen", "then", "else", "loop"} : Doing(do)
  BY DEF Branch, codegenCompileTimeJump, LoopBody, Visiting
<1>2. status = "run" /\ todo # <<>> /\ todo[1][1] = do
  BY <1>1 DEF Doing
<1>3. PICK m \in 1 .. Len(tree) : Frontier(m)
  BY <1>2 DEF Ready, WInv
<1>4. TaskOK(todo[1], m)
  BY <1>1, <1>3, Reached
<1>5. ASSUME it # Null, node(it).kind \in {"EvalExpr", "CompileTimeJump"},
             NEW i, i = it, NEW n \in 1 .. Len(tree), Frontier(n)
      PROVE  i \in 0 .. n - 1 /\ i \in 0 .. Len(tree) - 1 /\ n \in Nat
  BY <1>1, <1>5, Reached
<1>6. CASE Branch("then") \/ Branch("else")
  <2>1. it # Null /\ node(it).kind = "EvalExpr" /\ do # "codegen"
    BY <1>2, <1>4, <1>6 DEF TaskOK, it, Branch, Doing
  <2>2. \/ Undefined
        \/ /\ \/ Do(<<Gen(node(it).kids[2]), On("else", it)>>)
              \/ Do(<<Gen(node(it).kids[3]), On("join", it)>>)
           /\ UNCHANGED <<scopes, status>>
    BY <1>6 DEF Branch
  <2>3. ASSUME NEW n \in 1 .. Len(tree), Frontier(n)
        PROVE  /\ TaskOK(Gen(node(it).kids[2]), n) /\ TaskOK(Gen(node(it).kids[3]), n)
               /\ TaskOK(On("else", it), n) /\ TaskOK(On("join", it), n)
    <3>1. PICK i : i = it
      OBVIOUS
    <3>2. i \in 0 .. n - 1 /\ i \in 0 .. Len(tree) - 1 /\ n \in Nat
      BY <1>5, <2>1, <2>3, <3>1
    <3>3. node(i).kids[2] \in -1 .. i - 1 /\ node(i).kids[3] \in -1 .. i - 1
      BY <2>1, <3>1, <3>2, Kids
    <3>. QED  BY <2>1, <3>1, <3>2, <3>3, TasksOK
  <2>4. CASE Undefined
    BY <1>2, <2>4, EndWalks DEF Undefined
  <2>5. CASE Do(<<Gen(node(it).kids[2]), On("else", it)>>) /\ UNCHANGED <<scopes, status>>
    BY <1>1, <2>1, <2>3, <2>5, TwoTasks
  <2>6. CASE Do(<<Gen(node(it).kids[3]), On("join", it)>>) /\ UNCHANGED <<scopes, status>>
    BY <1>1, <2>1, <2>3, <2>6, TwoTasks
  <2>. QED  BY <2>2, <2>4, <2>5, <2>6
<1>7. CASE codegenCompileTimeJump
  <2>1. it # Null /\ node(it).kind = "CompileTimeJump" /\ Doing("codegen")
    BY <1>7 DEF codegenCompileTimeJump, Visiting
  <2>2. \/ Undefined
        \/ Do(<<>>) /\ UNCHANGED <<scopes, status>>
        \/ /\ ~IsJump(node(it))
           /\ Do(<<Gen(node(it).kids[1]), On("loop", it)>>)
           /\ UNCHANGED <<scopes, status>>
    BY <1>7 DEF codegenCompileTimeJump, Answer, Return
  <2>3. CASE Undefined
    BY <1>2, <2>3, EndWalks DEF Undefined
  <2>4. CASE Do(<<>>) /\ UNCHANGED <<scopes, status>>
    BY <2>1, <2>4, AnswerWalks
  <2>5. CASE /\ ~IsJump(node(it))
             /\ Do(<<Gen(node(it).kids[1]), On("loop", it)>>)
             /\ UNCHANGED <<scopes, status>>
    <3>1. ASSUME NEW n \in 1 .. Len(tree), Frontier(n)
          PROVE  TaskOK(Gen(node(it).kids[1]), n) /\ TaskOK(On("loop", it), n)
      <4>1. PICK i : i = it
        OBVIOUS
      <4>2. i \in 0 .. n - 1 /\ i \in 0 .. Len(tree) - 1 /\ n \in Nat
        BY <1>5, <2>1, <3>1, <4>1
      <4>3. Len(node(i).kids) = 3
        BY <2>1, <2>5, <4>1, <4>2, Kids
      <4>4. node(i).kids[1] \in -1 .. i - 1
        BY <2>1, <4>1, <4>2, <4>3, Kids
      <4>. QED  BY <2>1, <4>1, <4>2, <4>3, <4>4, TasksOK
    <3>. QED  BY <2>1, <2>5, <3>1, TwoTasks
  <2>. QED  BY <2>2, <2>3, <2>4, <2>5
<1>8. CASE LoopBody
  <2>1. /\ it # Null /\ node(it).kind = "CompileTimeJump" /\ do # "codegen"
        /\ Len(node(it).kids) = 3
    BY <1>2, <1>4, <1>8 DEF TaskOK, it, LoopBody, Doing
  <2>2. Do(<<Gen(node(it).kids[2]), On("join", it)>>) /\ UNCHANGED <<scopes, status>>
    BY <1>8 DEF LoopBody
  <2>3. ASSUME NEW n \in 1 .. Len(tree), Frontier(n)
        PROVE  TaskOK(Gen(node(it).kids[2]), n) /\ TaskOK(On("join", it), n)
    <3>1. PICK i : i = it
      OBVIOUS
    <3>2. i \in 0 .. n - 1 /\ i \in 0 .. Len(tree) - 1 /\ n \in Nat
      BY <1>5, <2>1, <2>3, <3>1
    <3>3. node(i).kids[2] \in -1 .. i - 1
      BY <2>1, <3>1, <3>2, Kids
    <3>. QED  BY <2>1, <3>1, <3>2, <3>3, TasksOK
  <2>. QED  BY <1>1, <2>1, <2>2, <2>3, TwoTasks
<1>. QED
  BY <1>6, <1>7, <1>8

\* Where neither tree nor tasks nor scopes change, the frontier stays.
LEMMA FrontierStays ==
    ASSUME UNCHANGED <<todo, scopes, tree, input>>, NEW m, Frontier(m)
    PROVE  Frontier(m)'
<1>1. /\ \A i : node(i)' = node(i) /\ Text(i)' = Text(i)
      /\ todo' = todo /\ scopes' = scopes /\ tree' = tree /\ input' = input
  BY DEF node, Text
<1>2. \A i : Declared(i)' <=> Declared(i)
  BY <1>1 DEF Declared, Declares
<1>3. (\A k \in DOMAIN todo : TaskOK(todo[k], m))'
  BY <1>1 DEF Frontier, TaskOK, node
<1>4. Bound(m)'
  BY <1>1, BoundNext DEF Frontier, Bound
<1>5. \A i \in 0 .. m - 1 : node(i)'.kind = "IdentifierExpr" =>
          Declared(i)' \/ (i = m - 1 /\ todo' # <<>> /\ todo'[1] = Gen(i))
  BY <1>1, <1>2 DEF Frontier
<1>. QED
  BY <1>1, <1>3, <1>4, <1>5 DEF Frontier, Gen

\* compile() begins with the unit, and returns when no visit is left.
LEMMA CompileWalks ==
    ASSUME Ready, UNCHANGED vars, compile \/ CompileReturns
    PROVE  WInv'
<1>1. CASE compile
  <2>1. /\ status = "parse" /\ status' = "run" /\ outcome' = "done" /\ scopes = <<Scope>>
        /\ UNCHANGED scopes
    BY <1>1 DEF compile, vars, Ready, WInv
  <2>2. PICK task : task = Gen(0)
    OBVIOUS
  <2>3. todo' = <<task>>
    BY <1>1, <2>2 DEF compile
  <2>4. tree' = tree /\ input' = input
    BY DEF vars
  <2>5. 1 \in 1 .. Len(tree)
    BY Root
  <2>6. (\A k \in DOMAIN todo : TaskOK(todo[k], 1))'
    <3>1. \A k \in DOMAIN todo' : todo'[k] = task
      BY <2>3
    <3>2. task[1] = "codegen" /\ task[2] = 0
      BY <2>2 DEF Gen
    <3>. QED  BY <3>1, <3>2 DEF TaskOK
  <2>7. Bound(1)'
    <3>1. \A k \in DOMAIN scopes' : scopes'[k] = Scope
      BY <2>1
    <3>2. "symbols" \in DOMAIN Scope /\ DOMAIN Scope.symbols = {}
      BY DEF Scope
    <3>. QED  BY <3>1, <3>2 DEF Bound, Entry
  <2>8. \A i \in 0 .. 1 - 1 : node(i)'.kind # "IdentifierExpr"
    <3>1. node(0)'.kind = "TranslationUnit"
      BY <2>4, Root DEF node
    <3>2. \A i \in 0 .. 1 - 1 : i = 0
      OBVIOUS
    <3>. QED  BY <3>1, <3>2
  <2>9. todo' # <<>> /\ todo'[1] = Gen(0)
    BY <2>2, <2>3
  <2>10. Frontier(1)'
    BY <2>6, <2>7, <2>8, <2>9 DEF Frontier, Gen
  <2>. QED  BY <2>1, <2>4, <2>5, <2>10 DEF WInv
<1>2. CASE CompileReturns
  <2>1. /\ status = "run" /\ status' = "ok" /\ todo' = <<>> /\ UNCHANGED <<todo, scopes>>
        /\ outcome' = outcome /\ tree' = tree /\ input' = input
    BY <1>2 DEF CompileReturns, vars
  <2>2. PICK m \in 1 .. Len(tree) : Frontier(m)
    BY <2>1 DEF Ready, WInv
  <2>3. Frontier(m)'
    BY <2>1, <2>2, FrontierStays
  <2>. QED  BY <2>1, <2>2, <2>3 DEF Ready, WInv
<1>. QED
  BY <1>1, <1>2

\* The parser takes steps before the walk only.
LEMMA ParsingFirst == ASSUME Next PROVE outcome = "run"
<1>1. CASE Helper
  BY <1>1 DEF Helper, ExpectToken, SkipToken, DropId, Choose, MoreItems, BuildNode, At
<1>2. CASE ExpressionStep
  BY <1>2 DEF ExpressionStep, BinaryOperator, PrefixOperator, Operand, parseEvalExpression,
     DeleteInParentheses, Parenthesized, OpenBlock, BlockLoop, NoPrimary, Call, MoreArguments,
     MemberAccess, Subscript, PostfixOperator, EndPostfix, PrimaryFrom, At
<1>3. CASE DeclarationStep
  BY <1>3 DEF DeclarationStep, parseQualifiers, TypeDeclaration, BaseType, DeclareType,
     VarDeclaration, DeclaratorTail, DeclareVariable, ParamDeclaration, FunctionBody,
     DeclareFunction, At
<1>4. CASE StatementStep
  BY <1>4 DEF StatementStep, parseIfStatement, parseWhileStatement, parseForStatement,
     parseReturnStatement, JumpStatement, parseStructDecl, parseNamespaceDecl, DeleteStatement,
     RequiresClause, ExpressionStatement, UnitLoop, Guardrail, StatementFrom, At
<1>. QED
  BY <1>1, <1>2, <1>3, <1>4 DEF Next

\* Every step keeps the frontier.
LEMMA NextWInv == ASSUME Ready, [GenNext]_<<vars, genVars>> PROVE WInv'
<1>1. CASE UNCHANGED <<vars, genVars>>
  <2>1. UNCHANGED <<todo, scopes, status, tree, input, outcome>>
    BY <1>1 DEF vars, genVars
  <2>2. \A m : Frontier(m) => Frontier(m)'
    BY <2>1, FrontierStays
  <2>. QED
    BY <2>1, <2>2 DEF Ready, WInv, Scope
<1>2. CASE Next /\ UNCHANGED genVars
  <2>1. outcome = "run" /\ UNCHANGED <<scopes, status>>
    BY <1>2, ParsingFirst DEF genVars
  <2>2. status = "parse" /\ scopes = <<Scope>>
    BY <2>1 DEF Ready, WInv
  <2>. QED  BY <2>1, <2>2 DEF WInv, Scope
<1>3. CASE Generate /\ UNCHANGED vars
  <2>1. CASE StackOverflow
    BY <1>3, <2>1, EndWalks DEF StackOverflow, Doing
  <2>. QED
    BY <1>3, <2>1, CompileWalks, BlockWalks, VariableWalks, TypeWalks, FunctionWalks,
       OperandWalks, EmitWalks, BranchWalks DEF Generate
<1>. QED
  BY <1>1, <1>2, <1>3 DEF GenNext

\* What the walk relies on always holds.
THEOREM WalkIsReady == GenSpec => []Ready
<1>1. GenInit => WInv
  BY DEF GenInit, WInv
<1>2. IInv /\ Ordered /\ GInv /\ WInv /\ [GenNext]_<<vars, genVars>> => WInv'
  BY NextWInv DEF Ready
<1>3. GInv /\ [GenNext]_<<vars, genVars>> => GInv'
  BY NextGInv
<1>4. IInv /\ Ordered /\ GInv /\ WInv => Ready
  BY DEF Ready
<1>. QED
  BY <1>1, <1>2, <1>3, <1>4, InitGInv, WalkLeavesTheTree, Invariance, OperandsComeFirst, PTL
  DEF GenSpec

\* A tree that compiles has every identifier declared as a variable by a
\* node before it, or by the declaration it names: the walk of the outermost
\* block reaches the nodes one after the other, a name that no open scope
\* holds ends the walk, and a scope holds only names of declarations the
\* walk has reached.
THEOREM SuccessfulTreesDeclare == GenSpec => []SuccessMeansDeclared
<1>1. Ready => SuccessMeansDeclared
  <2>. SUFFICES ASSUME Ready, status = "ok", NEW i \in 0 .. Len(tree) - 1,
                       node(i).kind = "IdentifierExpr"
                PROVE  Declared(i)
    BY DEF SuccessMeansDeclared, Declared, Declares, Ready
  <2>1. PICK m \in 1 .. Len(tree) : Frontier(m)
    BY DEF Ready, WInv
  <2>2. todo = <<>>
    BY DEF Ready, WInv
  <2>3. DOMAIN todo = {}
    BY <2>2
  <2>4. m = Len(tree)
    BY <2>1, <2>2, <2>3, Root DEF Frontier
  <2>. QED  BY <2>1, <2>2, <2>4 DEF Frontier
<1>. QED
  BY <1>1, WalkIsReady, PTL

-----------------------------------------------------------------------------
(* Constant expressions.                                                   *)

\* What Constant says of a node, where f is what it says of its operands.
ConstantRule(f, id) ==
    IF id # Null /\ node(id).kind = "BinaryExpr"
    THEN ConstantBinary(node(id).op, f[node(id).kids[1]], f[node(id).kids[2]])
    ELSE ConstantLeaf(id)

\* Constant is the function its definition asks for: the operands of an
\* operator come before it, so the least node that had no value would have
\* one.
LEMMA ConstantValues ==
    ASSUME Ready
    PROVE  Constant = [id \in -1 .. Len(tree) - 1 |-> ConstantRule(Constant, id)]
<1> DEFINE Rules(f, n) == f = [id \in -1 .. n - 1 |-> ConstantRule(f, id)]
           Lacking == {n \in Nat : n <= Len(tree) /\ ~\E f : Rules(f, n)}
<1>1. Len(tree) \in Nat
  BY Root
<1>2. \A id : id \in 0 .. Len(tree) - 1 /\ node(id).kind = "BinaryExpr" =>
          node(id).kids[1] \in -1 .. id - 1 /\ node(id).kids[2] \in -1 .. id - 1
  BY Kids
<1>3. Rules([id \in {-1} |-> "null"], 0)
  <2>1. ConstantRule([id \in {-1} |-> "null"], -1) = "null"
    BY DEF ConstantRule, ConstantLeaf, Null
  <2>2. -1 .. 0 - 1 = {-1}
    OBVIOUS
  <2>3. [id \in -1 .. 0 - 1 |-> ConstantRule([i \in {-1} |-> "null"], id)] = [id \in {-1} |-> "null"]
    BY <2>1, <2>2
  <2>. QED  BY <2>3
<1>4. ASSUME NEW n \in Nat, n + 1 <= Len(tree), NEW f, Rules(f, n)
      PROVE  \E g : Rules(g, n + 1)
  <2>1. PICK g : g = [id \in -1 .. n |-> IF id = n THEN ConstantRule(f, n) ELSE f[id]]
    OBVIOUS
  <2>2. \A id \in -1 .. n - 1 : g[id] = f[id]
    <3>1. \A id \in -1 .. n - 1 : id \in -1 .. n /\ id # n
      OBVIOUS
    <3>. QED  BY <2>1, <3>1
  <2>3. ASSUME NEW id \in -1 .. n
        PROVE  ConstantRule(g, id) = ConstantRule(f, id)
    <3>1. CASE id # Null /\ node(id).kind = "BinaryExpr"
      <4>1. id \in 0 .. Len(tree) - 1
        BY <1>1, <1>4, <3>1 DEF Null
      <4>2. node(id).kids[1] \in -1 .. id - 1 /\ node(id).kids[2] \in -1 .. id - 1
        BY <1>2, <3>1, <4>1
      <4>3. -1 .. id - 1 \subseteq -1 .. n - 1
        OBVIOUS
      <4>4. g[node(id).kids[1]] = f[node(id).kids[1]] /\ g[node(id).kids[2]] = f[node(id).kids[2]]
        BY <2>2, <4>2, <4>3
      <4>. QED  BY <4>4 DEF ConstantRule
    <3>2. CASE ~(id # Null /\ node(id).kind = "BinaryExpr")
      BY <3>2 DEF ConstantRule
    <3>. QED  BY <3>1, <3>2
  <2>4. \A id \in -1 .. n : g[id] = ConstantRule(f, id)
    <3>1. \A id \in -1 .. n : id = n \/ id \in -1 .. n - 1
      OBVIOUS
    <3>2. \A id \in -1 .. n - 1 : f[id] = ConstantRule(f, id)
      BY <1>4
    <3>3. n \in -1 .. n /\ g[n] = ConstantRule(f, n)
      BY <2>1
    <3>. QED  BY <2>2, <3>1, <3>2, <3>3
  <2>5. \A id \in -1 .. n : g[id] = ConstantRule(g, id)
    BY <2>3, <2>4
  <2>6. g = [id \in -1 .. n |-> g[id]]
    BY <2>1
  <2>7. n + 1 - 1 = n
    OBVIOUS
  <2>8. Rules(g, n + 1)
    BY <2>5, <2>6, <2>7
  <2>. QED  BY <2>8
<1>. HIDE DEF Rules
<1>5. Lacking = {}
  <2>. SUFFICES ASSUME Lacking # {} PROVE FALSE
    OBVIOUS
  <2>1. PICK n : n = Min(Lacking)
    OBVIOUS
  <2>2. n \in Lacking /\ \A y \in Lacking : n <= y
    BY <2>1, MinNat
  <2>3. n # 0
    BY <1>3, <2>2
  <2>4. n - 1 \in Nat /\ n - 1 + 1 = n /\ n - 1 <= Len(tree)
    BY <1>1, <2>2, <2>3
  <2>5. n - 1 \notin Lacking
    BY <2>2, <2>4
  <2>6. PICK f : Rules(f, n - 1)
    BY <2>4, <2>5
  <2>7. \E g : Rules(g, n - 1 + 1)
    BY <1>4, <2>2, <2>4, <2>6
  <2>. QED  BY <2>2, <2>4, <2>7
<1>6. \E f : Rules(f, Len(tree))
  BY <1>1, <1>5
<1>7. Constant = CHOOSE f : Rules(f, Len(tree))
  BY DEF Constant, Rules, ConstantRule
<1>8. Rules(Constant, Len(tree))
  BY <1>6, <1>7, Zenon
<1>. QED
  BY <1>8 DEF Rules

-----------------------------------------------------------------------------
(* Bodies in braces.                                                       *)

IsBlock(id) == id # Null /\ node(id).kind = "TranslationUnit"

\* Declarations, branches and operators with a block for an operand.
Braced(i) ==
    /\ node(i).kind \in {"VarDecl", "FunctionDecl", "EvalExpr", "BinaryExpr", "UnaryExpr"}
    /\ \E k \in DOMAIN node(i).kids : IsBlock(node(i).kids[k])

\* The task will come to node i: it is a visit to it or to a block before
\* it, a block's walk that has not passed it, or a branch that has yet to
\* visit its block.
Approaches(t, i) ==
    \/ t[1] = "rest" /\ t[2] \in 0 .. i
    \/ t[1] = "codegen" /\ (t[2] = i \/ (t[2] \in 0 .. i - 1 /\ IsBlock(t[2])))
    \/ /\ t[1] \in {"then", "else"} /\ t[2] = i /\ node(i).kind = "EvalExpr"
       /\ IsBlock(node(i).kids[3]) \/ (t[1] = "then" /\ IsBlock(node(i).kids[2]))

\* The walk never gets past such a node.
Circling ==
    status \in {"run", "ok"} =>
        \A i \in 0 .. Len(tree) - 1 : Braced(i) => \E k \in DOMAIN todo : Approaches(todo[k], i)

\* Which of its links lead to a block.
LEMMA BracedKids ==
    ASSUME Ready, NEW i \in 0 .. Len(tree) - 1, Braced(i)
    PROVE  /\ node(i).kind = "EvalExpr" =>
                 \E k \in 1 .. 3 : IsBlock(node(i).kids[k]) /\ node(i).kids[k] \in 0 .. i - 1
           /\ node(i).kind = "BinaryExpr" =>
                 \E k \in 1 .. 2 : IsBlock(node(i).kids[k]) /\ node(i).kids[k] \in 0 .. i - 1
           /\ node(i).kind = "UnaryExpr" =>
                 IsBlock(node(i).kids[1]) /\ node(i).kids[1] \in 0 .. i - 1
           /\ node(i).kind \in {"VarDecl", "FunctionDecl"} =>
                 IsBlock(node(i).kids[3]) /\ node(i).kids[3] \in 0 .. i - 1
<1>1. tree \in Seq(AnyNode) /\ Ordered
  BY DEF Ready, IInv, Grown
<1>2. PICK x : x = tree[i + 1]
  OBVIOUS
<1>3. node(i) = x /\ i + 1 \in DOMAIN tree
  BY <1>1, <1>2 DEF node
<1>4. x.kids \in Seq(Int)
  <2>1. x \in AnyNode
    BY <1>1, <1>2, <1>3, ElementOfSeq
  <2>. QED  BY <2>1 DEF AnyNode
<1>5. Arity(x.kind, x.op, Len(x.kids)) /\ LeavesOf(x, tree)
  BY <1>1, <1>2, <1>3 DEF Ordered, Shaped
<1>6. PICK k \in DOMAIN x.kids : IsBlock(x.kids[k])
  BY <1>3 DEF Braced
<1>7. /\ Len(x.kids) = 1 => k = 1
      /\ Len(x.kids) = 2 => k \in 1 .. 2
      /\ Len(x.kids) = 3 => k \in 1 .. 3
  BY <1>4
<1>8. x.kind \in {"VarDecl", "FunctionDecl"} => k \notin 1 .. 2
  BY <1>5, <1>6 DEF LeavesOf, IsBlock, node
<1>9. \A j \in -1 .. i - 1 : j # Null => j \in 0 .. i - 1
  BY DEF Null
<1>10. IsBlock(x.kids[k]) /\ (x.kids[k] \in -1 .. i - 1 => x.kids[k] \in 0 .. i - 1)
  BY <1>6, <1>9 DEF IsBlock
<1>11. CASE x.kind = "EvalExpr"
  BY <1>3, <1>5, <1>7, <1>10, <1>11, Kids DEF Arity
<1>12. CASE x.kind = "BinaryExpr"
  BY <1>3, <1>5, <1>7, <1>10, <1>12, Kids DEF Arity
<1>13. CASE x.kind = "UnaryExpr"
  BY <1>3, <1>5, <1>7, <1>10, <1>13, Kids DEF Arity
<1>14. CASE x.kind \in {"VarDecl", "FunctionDecl"}
  <2>1. k = 3
    BY <1>5, <1>7, <1>8, <1>14 DEF Arity
  <2>. QED  BY <1>3, <1>10, <1>14, <2>1, Kids
<1>. QED
  BY <1>3, <1>11, <1>12, <1>13, <1>14

\* A step of the walk: where its task approaches a node, so does one that
\* takes its place.
LEMMA StepCircles ==
    ASSUME Ready, Circling, UNCHANGED vars, status = "run", todo # <<>>,
           NEW tasks, IsSeq(tasks), Do(tasks),
           \A i \in 0 .. Len(tree) - 1 : Braced(i) /\ Approaches(todo[1], i) =>
               \E k \in DOMAIN tasks : Approaches(tasks[k], i)
    PROVE  Circling'
<1>1. tree' = tree /\ (\A i : node(i)' = node(i))
  BY DEF vars, node
<1>2. /\ \A i : Braced(i)' <=> Braced(i)
      /\ \A t, i : Approaches(t, i) => Approaches(t, i)'
  BY <1>1 DEF Braced, Approaches, IsBlock
<1>3. ASSUME NEW i \in 0 .. Len(tree) - 1, Braced(i)
      PROVE  \E k \in DOMAIN todo' : Approaches(todo'[k], i)
  <2>1. PICK j \in DOMAIN todo : Approaches(todo[j], i)
    BY <1>3 DEF Circling
  <2>2. CASE j = 1
    <3>1. PICK k \in DOMAIN tasks : Approaches(tasks[k], i)
      BY <1>3, <2>1, <2>2
    <3>. QED  BY <3>1, DoParts DEF Ready
  <2>3. CASE j # 1
    <3>1. j \in Nat /\ j > 0
      BY DEF Ready, GInv, StacksOK, IsSeq
    <3>. QED  BY <2>1, <2>3, <3>1, DoParts DEF Ready
  <2>. QED  BY <2>2, <2>3
<1>4. ASSUME NEW i \in 0 .. Len(tree) - 1, Braced(i)
      PROVE  (\E k \in DOMAIN todo : Approaches(todo[k], i))'
  BY <1>1, <1>3, <1>4 DEF Approaches, IsBlock, node
<1>. QED
  BY <1>1, <1>2, <1>4 DEF Circling

\* A visit that returns was not the one to keep the walk from its end.
LEMMA ReturnCircles ==
    ASSUME Ready, Circling, UNCHANGED vars, NEW do, Doing(do), Do(<<>>),
           do \notin {"rest", "then", "else"},
           do = "codegen" => it = Null \/ (~IsBlock(it) /\ ~Braced(it))
    PROVE  Circling'
<1>1. status = "run" /\ todo # <<>> /\ todo[1][1] = do
  BY DEF Doing
<1>2. IsSeq(<<>>)
  BY FewTasks
<1>3. \A i \in 0 .. Len(tree) - 1 : Braced(i) => ~Approaches(todo[1], i)
  BY <1>1 DEF Approaches, it, Null
<1>. QED
  BY <1>1, <1>2, <1>3, StepCircles

\* An error or a null pointer ends the walk.
LEMMA EndCircles ==
    ASSUME status' \in {"failed", "undefined", "overflow"}
    PROVE  Circling'
BY DEF Circling

\* One task in the place of another, and two.
LEMMA TwoCircle ==
    ASSUME Ready, Circling, UNCHANGED vars, status = "run", todo # <<>>, NEW a, NEW b,
           Do(<<a>>) \/ Do(<<a, b>>) \/ Do(<<b, a>>),
           \A i \in 0 .. Len(tree) - 1 : Braced(i) /\ Approaches(todo[1], i) => Approaches(a, i)
    PROVE  Circling'
<1>1. PICK tasks : tasks \in {<<a>>, <<a, b>>, <<b, a>>} /\ Do(tasks)
  OBVIOUS
<1>2. IsSeq(tasks)
  BY <1>1, FewTasks
<1>3. \E k \in DOMAIN tasks : tasks[k] = a
  <2>1. 1 \in DOMAIN <<a>> /\ 1 \in DOMAIN <<a, b>> /\ 2 \in DOMAIN <<b, a>>
    OBVIOUS
  <2>. QED  BY <1>1, <2>1
<1>. QED
  BY <1>1, <1>2, <1>3, StepCircles

\* A visit to a node that has no block for an operand and is none.
LEMMA OtherCircles ==
    ASSUME Ready, Circling, UNCHANGED vars, Doing("codegen"),
           it = Null \/ (~IsBlock(it) /\ ~Braced(it)),
           NEW tasks, IsSeq(tasks), Do(tasks)
    PROVE  Circling'
<1>1. status = "run" /\ todo # <<>> /\ todo[1][1] = "codegen"
  BY DEF Doing
<1>2. \A i \in 0 .. Len(tree) - 1 : Braced(i) => ~Approaches(todo[1], i)
  BY <1>1 DEF Approaches, it, Null
<1>. QED
  BY <1>1, <1>2, StepCircles

\* A block's walk comes to every node behind it.
LEMMA BlockCircles ==
    ASSUME Ready, Circling, UNCHANGED vars, codegenTranslationUnit \/ VisitRest
    PROVE  Circling'
<1>1. CASE codegenTranslationUnit
  <2>1. status = "run" /\ todo # <<>> /\ todo[1][1] = "codegen" /\ IsBlock(it)
    BY <1>1 DEF codegenTranslationUnit, Visiting, Doing, IsBlock
  <2>2. PICK p : p = it
    OBVIOUS
  <2>3. Do(<<On("rest", p + 1)>>)
    BY <1>1, <2>2 DEF codegenTranslationUnit
  <2>4. ASSUME NEW i \in 0 .. Len(tree) - 1, Braced(i), Approaches(todo[1], i)
        PROVE  Approaches(On("rest", p + 1), i)
    <3>1. p # i
      BY <2>1, <2>2, <2>4 DEF Braced, IsBlock
    <3>2. p \in 0 .. i - 1
      BY <2>1, <2>2, <2>4, <3>1 DEF Approaches, it
    <3>3. p + 1 \in 0 .. i
      BY <3>2
    <3>. QED  BY <3>3 DEF Approaches, On
  <2>. QED  BY <2>1, <2>3, <2>4, TwoCircle
<1>2. CASE VisitRest
  <2>1. status = "run" /\ todo # <<>> /\ todo[1][1] = "rest"
    BY <1>2 DEF VisitRest, Doing
  <2>2. PICK p : p = it
    OBVIOUS
  <2>3. \A i \in 0 .. Len(tree) - 1 : Approaches(todo[1], i) => p \in 0 .. i
    BY <2>1, <2>2 DEF Approaches, it
  <2>4. CASE p < Len(tree)
    <3>1. PICK tasks : tasks = <<Gen(p), On("rest", p + 1)>>
      OBVIOUS
    <3>2. Do(tasks)
      BY <1>2, <2>2, <2>4, <3>1 DEF VisitRest
    <3>3. DOMAIN tasks = {1, 2} /\ tasks[1] = Gen(p) /\ tasks[2] = On("rest", p + 1)
      BY <3>1
    <3>5. IsSeq(tasks)
      BY <3>1, FewTasks
    <3>4. ASSUME NEW i \in 0 .. Len(tree) - 1, Approaches(todo[1], i)
          PROVE  Approaches(Gen(p), i) \/ Approaches(On("rest", p + 1), i)
      <4>1. p \in 0 .. i
        BY <2>3, <3>4
      <4>2. p = i \/ p + 1 \in 0 .. i
        BY <4>1
      <4>. QED  BY <4>2 DEF Approaches, Gen, On
    <3>. QED  BY <2>1, <3>2, <3>3, <3>4, <3>5, StepCircles
  <2>5. CASE ~(p < Len(tree))
    <3>1. Do(<<>>)
      BY <1>2, <2>2, <2>5 DEF VisitRest
    <3>2. IsSeq(<<>>)
      BY FewTasks
    <3>3. \A i \in 0 .. Len(tree) - 1 : ~Approaches(todo[1], i)
      BY <2>3, <2>5, Root
    <3>. QED  BY <2>1, <3>1, <3>2, <3>3, StepCircles
  <2>. QED  BY <2>4, <2>5
<1>. QED  BY <1>1, <1>2

\* A visit to a node of another kind than a block's approaches itself only.
LEMMA VisitSelf ==
    ASSUME Ready, NEW kind, kind # "TranslationUnit", Visiting(kind)
    PROVE  /\ status = "run" /\ todo # <<>> /\ Doing("codegen")
           /\ node(it).kind = kind /\ ~IsBlock(it)
           /\ \A i : Approaches(todo[1], i) => it = i
BY DEF Visiting, Doing, Approaches, IsBlock, it

\* A visit to a block before node i approaches it.
LEMMA BlockApproaches ==
    ASSUME NEW i, NEW b \in 0 .. i - 1, IsBlock(b)
    PROVE  Approaches(Gen(b), i)
BY DEF Approaches, Gen

\* A declaration whose initialiser or body is a block goes to it, or fails.
LEMMA DeclarationCircles ==
    ASSUME Ready, Circling, UNCHANGED vars,
           \/ codegenVarDecl \/ DefineVariable \/ codegenTypeDecl
           \/ codegenFunctionDecl \/ EndFunction
    PROVE  Circling'
<1>1. CASE codegenVarDecl
  <2>1. Visiting("VarDecl")
    BY <1>1 DEF codegenVarDecl
  <2>2. PICK b : b = node(it).kids[3]
    OBVIOUS
  <2>3. ASSUME NEW i \in 0 .. Len(tree) - 1, Braced(i), i = it
        PROVE  IsBlock(b) /\ b \in 0 .. i - 1 /\ Constant[b] = "throw"
    <3>1. IsBlock(b) /\ b \in 0 .. i - 1
      BY <2>1, <2>2, <2>3, VisitSelf, BracedKids
    <3>2. b \in -1 .. Len(tree) - 1
      BY <3>1, Root
    <3>3. Constant[b] = ConstantRule(Constant, b)
      BY <3>2, ConstantValues
    <3>. QED  BY <3>1, <3>3 DEF ConstantRule, ConstantLeaf, IsBlock
  <2>4. CASE Throw \/ Undefined
    BY <2>4, EndCircles DEF Throw, Undefined
  <2>5. CASE ~(Throw \/ Undefined)
    <3>1. \/ Constant[b] # "throw" /\ Do(<<>>)
          \/ Do(<<Gen(b), On("variable", it)>>)
          \/ b = Null /\ Do(<<On("variable", it)>>)
      BY <1>1, <2>2, <2>5 DEF codegenVarDecl, Continue, Return
    <3>2. CASE Do(<<Gen(b), On("variable", it)>>)
      <4>1. \A i \in 0 .. Len(tree) - 1 : Braced(i) /\ Approaches(todo[1], i) =>
                Approaches(Gen(b), i)
        BY <2>1, <2>3, VisitSelf, BlockApproaches
      <4>. QED  BY <2>1, <3>2, <4>1, VisitSelf, TwoCircle
    <3>3. CASE ~Do(<<Gen(b), On("variable", it)>>)
      <4>1. PICK tasks \in {<<>>, <<On("variable", it)>>} : Do(tasks)
        BY <3>1, <3>3
      <4>2. IsSeq(tasks)
        BY <4>1, FewTasks
      <4>3. \A i \in 0 .. Len(tree) - 1 : Braced(i) => ~Approaches(todo[1], i)
        BY <2>1, <2>3, <3>1, <3>3, VisitSelf DEF IsBlock
      <4>. QED  BY <2>1, <4>1, <4>2, <4>3, VisitSelf, StepCircles
    <3>. QED  BY <3>2, <3>3
  <2>. QED  BY <2>4, <2>5
<1>2. CASE DefineVariable
  <2>1. Doing("variable")
    BY <1>2 DEF DefineVariable
  <2>2. Undefined \/ Do(<<>>)
    BY <1>2 DEF DefineVariable, Return
  <2>3. CASE Undefined
    BY <2>3, EndCircles DEF Undefined
  <2>4. CASE Do(<<>>)
    BY <2>1, <2>4, ReturnCircles
  <2>. QED  BY <2>2, <2>3, <2>4
<1>3. CASE codegenTypeDecl
  <2>1. Visiting("TypeDecl")
    BY <1>3 DEF codegenTypeDecl
  <2>2. Throw \/ Do(<<>>)
    BY <1>3 DEF codegenTypeDecl, Return
  <2>3. CASE Throw
    BY <2>3, EndCircles DEF Throw
  <2>4. CASE Do(<<>>)
    <3>1. ~Braced(it) /\ ~IsBlock(it) /\ Doing("codegen")
      BY <2>1, VisitSelf DEF Braced
    <3>. QED  BY <2>4, <3>1, ReturnCircles
  <2>. QED  BY <2>2, <2>3, <2>4
<1>4. CASE codegenFunctionDecl
  <2>1. Visiting("FunctionDecl")
    BY <1>4 DEF codegenFunctionDecl
  <2>2. PICK b : b = node(it).kids[3]
    OBVIOUS
  <2>3. Throw \/ Do(<<Gen(b), On("function", it)>>)
    BY <1>4, <2>2 DEF codegenFunctionDecl
  <2>4. CASE Throw
    BY <2>4, EndCircles DEF Throw
  <2>5. CASE Do(<<Gen(b), On("function", it)>>)
    <3>1. \A i \in 0 .. Len(tree) - 1 : Braced(i) /\ Approaches(todo[1], i) =>
              Approaches(Gen(b), i)
      BY <2>1, <2>2, VisitSelf, BracedKids, BlockApproaches
    <3>. QED  BY <2>1, <2>5, <3>1, VisitSelf, TwoCircle
  <2>. QED  BY <2>3, <2>4, <2>5
<1>5. CASE EndFunction
  BY <1>5, ReturnCircles DEF EndFunction, Return
<1>. QED  BY <1>1, <1>2, <1>3, <1>4, <1>5

\* Operators and branches visit each of their operands.
LEMMA OperandCircles ==
    ASSUME Ready, Circling, UNCHANGED vars,
           \/ codegenBinaryExpr \/ codegenUnaryExpr \/ codegenEvalExpr
           \/ Branch("then") \/ Branch("else")
    PROVE  Circling'
<1>1. CASE codegenBinaryExpr
  <2>1. Visiting("BinaryExpr")
    BY <1>1 DEF codegenBinaryExpr
  <2>2. PICK a, b, c : /\ a = Gen(node(it).kids[1]) /\ b = Gen(node(it).kids[2])
                       /\ c = On("binary", it)
    OBVIOUS
  <2>3. PICK tasks : tasks = <<a, b, c>>
    OBVIOUS
  <2>4. Do(tasks)
    BY <1>1, <2>2, <2>3 DEF codegenBinaryExpr, Continue
  <2>5. IsSeq(tasks)
    BY <2>3, FewTasks
  <2>6. 1 \in DOMAIN tasks /\ 2 \in DOMAIN tasks /\ tasks[1] = a /\ tasks[2] = b
    BY <2>3
  <2>7. ASSUME NEW i \in 0 .. Len(tree) - 1, Braced(i), Approaches(todo[1], i)
        PROVE  Approaches(a, i) \/ Approaches(b, i)
    <3>1. i = it /\ node(i).kind = "BinaryExpr"
      BY <2>1, <2>7, VisitSelf
    <3>2. PICK k \in 1 .. 2 : IsBlock(node(i).kids[k]) /\ node(i).kids[k] \in 0 .. i - 1
      BY <2>7, <3>1, BracedKids
    <3>3. Approaches(Gen(node(i).kids[k]), i)
      BY <3>2, BlockApproaches
    <3>. QED  BY <2>2, <3>1, <3>2, <3>3
  <2>. QED  BY <2>1, <2>4, <2>5, <2>6, <2>7, VisitSelf, StepCircles
<1>2. CASE codegenUnaryExpr
  <2>1. Visiting("UnaryExpr")
    BY <1>2 DEF codegenUnaryExpr
  <2>2. PICK b : b = node(it).kids[1]
    OBVIOUS
  <2>3. Do(<<Gen(b), On("unary", it)>>)
    BY <1>2, <2>2 DEF codegenUnaryExpr, Continue
  <2>4. \A i \in 0 .. Len(tree) - 1 : Braced(i) /\ Approaches(todo[1], i) =>
            Approaches(Gen(b), i)
    BY <2>1, <2>2, VisitSelf, BracedKids, BlockApproaches
  <2>. QED  BY <2>1, <2>3, <2>4, VisitSelf, TwoCircle
<1>3. CASE codegenEvalExpr
  <2>1. Visiting("EvalExpr")
    BY <1>3 DEF codegenEvalExpr
  <2>2. PICK a, b : a = Gen(node(it).kids[1]) /\ b = On("then", it)
    OBVIOUS
  <2>3. PICK tasks : tasks = <<a, b>>
    OBVIOUS
  <2>4. Do(tasks) /\ IsSeq(tasks)
    BY <1>3, <2>2, <2>3, FewTasks DEF codegenEvalExpr, Continue
  <2>5. 1 \in DOMAIN tasks /\ 2 \in DOMAIN tasks /\ tasks[1] = a /\ tasks[2] = b
    BY <2>3
  <2>6. ASSUME NEW i \in 0 .. Len(tree) - 1, Braced(i), Approaches(todo[1], i)
        PROVE  Approaches(a, i) \/ Approaches(b, i)
    <3>1. i = it /\ node(i).kind = "EvalExpr"
      BY <2>1, <2>6, VisitSelf
    <3>2. PICK k \in 1 .. 3 : IsBlock(node(i).kids[k]) /\ node(i).kids[k] \in 0 .. i - 1
      BY <2>6, <3>1, BracedKids
    <3>3. CASE k = 1
      <4>1. Approaches(Gen(node(i).kids[k]), i)
        BY <3>2, BlockApproaches
      <4>. QED  BY <2>2, <3>1, <3>3, <4>1
    <3>4. CASE k # 1
      <4>1. k = 2 \/ k = 3
        BY <3>4
      <4>. QED  BY <2>2, <3>1, <3>2, <4>1 DEF Approaches, On
    <3>. QED  BY <3>3, <3>4
  <2>. QED  BY <2>1, <2>4, <2>5, <2>6, VisitSelf, StepCircles
<1>4. ASSUME NEW do \in {"then", "else"}, Branch(do)
      PROVE  Circling'
  <2>1. status = "run" /\ todo # <<>> /\ todo[1][1] = do
    BY <1>4 DEF Branch, Doing
  <2>2. PICK i : i = it
    OBVIOUS
  <2>3. CASE Undefined
    BY <2>3, EndCircles DEF Undefined
  <2>4. CASE ~Undefined
    <3>1. PICK a, b : /\ a = Gen(node(i).kids[IF do = "then" THEN 2 ELSE 3])
                      /\ b = On(IF do = "then" THEN "else" ELSE "join", i)
      OBVIOUS
    <3>2. PICK tasks : tasks = <<a, b>>
      OBVIOUS
    <3>3. Do(tasks) /\ IsSeq(tasks)
      BY <1>4, <2>2, <2>4, <3>1, <3>2, FewTasks DEF Branch
    <3>4. 1 \in DOMAIN tasks /\ 2 \in DOMAIN tasks /\ tasks[1] = a /\ tasks[2] = b
      BY <3>2
    <3>5. ASSUME NEW n \in 0 .. Len(tree) - 1, Braced(n), Approaches(todo[1], n)
          PROVE  Approaches(a, n) \/ Approaches(b, n)
      <4>1. /\ n = i /\ node(i).kind = "EvalExpr"
            /\ IsBlock(node(i).kids[3]) \/ (do = "then" /\ IsBlock(node(i).kids[2]))
        BY <2>1, <2>2, <3>5 DEF Approaches, it
      <4>2. /\ node(i).kids[2] \in -1 .. i - 1 /\ node(i).kids[3] \in -1 .. i - 1
        BY <3>5, <4>1, Kids
      <4>3. \A k \in {2, 3} : IsBlock(node(i).kids[k]) => Approaches(Gen(node(i).kids[k]), i)
        <5>1. \A j \in -1 .. i - 1 : IsBlock(j) => j \in 0 .. i - 1
          BY DEF IsBlock, Null
        <5>. QED  BY <4>2, <5>1, BlockApproaches
      <4>4. CASE do = "then" /\ IsBlock(node(i).kids[2])
        BY <3>1, <4>1, <4>3, <4>4
      <4>5. CASE do = "then" /\ IsBlock(node(i).kids[3])
        BY <3>1, <4>1, <4>5 DEF Approaches, On
      <4>6. CASE do = "else" /\ IsBlock(node(i).kids[3])
        BY <3>1, <4>1, <4>3, <4>6
      <4>. QED  BY <4>1, <4>4, <4>5, <4>6
    <3>. QED  BY <2>1, <3>3, <3>4, <3>5, StepCircles
  <2>. QED  BY <2>3, <2>4
<1>. QED  BY <1>1, <1>2, <1>3, <1>4

\* The other visits are to nodes of other kinds.
LEMMA OtherVisits ==
    ASSUME Ready, Circling, UNCHANGED vars,
           \/ CodegenNothing \/ codegenLiteralExpr \/ codegenIdentifierExpr
           \/ codegenCallExpr \/ codegenCompileTimeJump
           \/ EmitBinary \/ EmitUnary \/ EmitCall \/ Join \/ LoopBody
    PROVE  Circling'
<1>1. CASE CodegenNothing
  <2>1. Doing("codegen") /\ Do(<<>>) /\ (it = Null \/ (~IsBlock(it) /\ ~Braced(it)))
    BY <1>1 DEF CodegenNothing, Answer, Return, IsBlock, Braced
  <2>. QED  BY <2>1, ReturnCircles
<1>2. CASE codegenLiteralExpr \/ codegenIdentifierExpr \/ codegenCallExpr \/ codegenCompileTimeJump
  <2>1. Doing("codegen") /\ ~IsBlock(it) /\ ~Braced(it)
    BY <1>2 DEF codegenLiteralExpr, codegenIdentifierExpr, codegenCallExpr,
       codegenCompileTimeJump, Visiting, IsBlock, Braced
  <2>2. \/ Throw \/ Undefined
        \/ \E tasks \in {<<>>, <<Gen(Null), On("call", it)>>,
                         <<Gen(node(it).kids[2]), On("call", it)>>,
                         <<Gen(node(it).kids[1]), On("loop", it)>>} : Do(tasks)
    BY <1>2 DEF codegenLiteralExpr, codegenIdentifierExpr, codegenCallExpr,
       codegenCompileTimeJump, Answer, Return, Continue
  <2>3. CASE Throw \/ Undefined
    BY <2>3, EndCircles DEF Throw, Undefined
  <2>4. CASE \E tasks \in {<<>>, <<Gen(Null), On("call", it)>>,
                           <<Gen(node(it).kids[2]), On("call", it)>>,
                           <<Gen(node(it).kids[1]), On("loop", it)>>} : Do(tasks)
    BY <2>1, <2>4, FewTasks, OtherCircles
  <2>. QED  BY <2>2, <2>3, <2>4
<1>3. CASE EmitBinary \/ EmitUnary \/ EmitCall \/ Join
  <2>1. PICK do \in {"binary", "unary", "call", "join"} : Doing(do)
    BY <1>3 DEF EmitBinary, EmitUnary, EmitCall, Join
  <2>2. Throw \/ Undefined \/ Do(<<>>)
    BY <1>3 DEF EmitBinary, EmitUnary, EmitCall, Join, Answer, Return
  <2>3. CASE Throw \/ Undefined
    BY <2>3, EndCircles DEF Throw, Undefined
  <2>4. CASE Do(<<>>)
    BY <2>1, <2>4, ReturnCircles
  <2>. QED  BY <2>2, <2>3, <2>4
<1>4. CASE LoopBody
  <2>1. status = "run" /\ todo # <<>> /\ todo[1][1] = "loop"
    BY <1>4 DEF LoopBody, Doing
  <2>2. PICK tasks : tasks = <<Gen(node(it).kids[2]), On("join", it)>>
    OBVIOUS
  <2>3. Do(tasks) /\ IsSeq(tasks)
    BY <1>4, <2>2, FewTasks DEF LoopBody
  <2>4. \A i : ~Approaches(todo[1], i)
    BY <2>1 DEF Approaches
  <2>. QED  BY <2>1, <2>3, <2>4, StepCircles
<1>. QED  BY <1>1, <1>2, <1>3, <1>4

\* compile() begins before every node but the unit, and has nothing left to
\* visit when it returns.
LEMMA CompileCircles ==
    ASSUME Ready, Circling, UNCHANGED vars, compile \/ CompileReturns
    PROVE  Circling'
<1>1. tree' = tree
  BY DEF vars
<1>2. CASE compile
  <2>1. PICK task : task = Gen(0)
    OBVIOUS
  <2>2. todo' = <<task>>
    BY <1>2, <2>1 DEF compile
  <2>3. 1 \in DOMAIN todo' /\ todo'[1] = task
    BY <2>2
  <2>4. ASSUME NEW i \in 0 .. Len(tree) - 1, Braced(i)'
        PROVE  (\E k \in DOMAIN todo : Approaches(todo[k], i))'
    <3>1. i # 0
      BY <1>1, <2>4, Root DEF Braced, node
    <3>2. node(0)' = node(0) /\ 0 \in 0 .. i - 1
      BY <1>1, <3>1 DEF node
    <3>3. task[1] = "codegen" /\ task[2] = 0
      BY <2>1 DEF Gen
    <3>. QED  BY <2>3, <3>2, <3>3, Root DEF Approaches, IsBlock, Null
  <2>. QED  BY <1>1, <2>4 DEF Circling
<1>3. CASE CompileReturns
  <2>1. status = "run" /\ todo = <<>>
    BY <1>3 DEF CompileReturns
  <2>2. \A i \in 0 .. Len(tree) - 1 : ~Braced(i)
    <3>1. DOMAIN todo = {}
      BY <2>1
    <3>. QED  BY <2>1, <3>1 DEF Circling
  <2>. QED  BY <1>1, <2>2 DEF Circling, Braced, IsBlock, node
<1>. QED  BY <1>2, <1>3

\* Every step keeps the walk from getting past such a node.
LEMMA NextCircles ==
    ASSUME Ready, Circling, [GenNext]_<<vars, genVars>>
    PROVE  Circling'
<1>1. CASE UNCHANGED <<vars, genVars>>
  <2>1. UNCHANGED <<todo, status, tree>>
    BY <1>1 DEF vars, genVars
  <2>2. \A i : node(i)' = node(i)
    BY <2>1 DEF node
  <2>3. \A i : /\ Braced(i)' <=> Braced(i)
               /\ (\E k \in DOMAIN todo : Approaches(todo[k], i)) =>
                  (\E k \in DOMAIN todo : Approaches(todo[k], i))'
    BY <2>1, <2>2 DEF Braced, Approaches, IsBlock
  <2>. QED  BY <2>1, <2>3 DEF Circling
<1>2. CASE Next /\ UNCHANGED genVars
  <2>1. outcome = "run" /\ UNCHANGED status
    BY <1>2, ParsingFirst DEF genVars
  <2>2. status = "parse"
    BY <2>1 DEF Ready, WInv
  <2>. QED  BY <2>1, <2>2 DEF Circling
<1>3. CASE Generate /\ UNCHANGED vars
  <2>1. CASE StackOverflow
    BY <2>1, EndCircles DEF StackOverflow
  <2>. QED
    BY <1>3, <2>1, CompileCircles, BlockCircles, DeclarationCircles, OperandCircles,
       OtherVisits DEF Generate
<1>. QED
  BY <1>1, <1>2, <1>3 DEF GenNext

\* A block that a declaration, a function, an if or an operator owns is a node
\* before its owner and visits every node behind it, the owner included, which
\* visits the block again; no constant expression can be a block.
THEOREM BlockOwnersFail == GenSpec => []BlockOwnersNeverCompile
<1>1. GenInit => Circling
  BY DEF GenInit, Circling
<1>2. Ready /\ Circling /\ [GenNext]_<<vars, genVars>> => Circling'
  BY NextCircles
<1>3. Ready /\ Circling => BlockOwnersNeverCompile
  <2>. SUFFICES ASSUME Ready, Circling, status = "ok", NEW i \in 0 .. Len(tree) - 1
                PROVE  ~Braced(i)
    BY DEF BlockOwnersNeverCompile, Braced, IsBlock
  <2>1. todo = <<>>
    BY DEF Ready, WInv
  <2>2. DOMAIN todo = {}
    BY <2>1
  <2>. QED  BY <2>2 DEF Circling
<1>. QED
  BY <1>1, <1>2, <1>3, WalkIsReady, PTL DEF GenSpec

-----------------------------------------------------------------------------
(* The types of the walk.                                                  *)

\* The symbols of a scope have values.
Valued(e) == \A n \in DOMAIN e.symbols : e.symbols[n].value \in Value

ScopesOK == scopes # <<>> /\ \A i \in DOMAIN scopes : Valued(scopes[i])

\* Between two visits there is a value: what the last visit returned, or the
\* null a block begins with.
ValuesOK == /\ values \in Seq(Value)
            /\ todo # <<>> /\ todo[1][1] # "codegen" => values # <<>>

OutputOK == /\ block \in {"none", "open", "ended"}
            /\ Range(module) \subseteq {"variable", "function"}
            /\ status \in Status

TasksInTree == \A i \in DOMAIN todo : todo[i][2] \in -1 .. Len(tree)

TypesOK == ScopesOK /\ ValuesOK /\ OutputOK /\ TasksInTree

\* The block, the module's names and the status.
LEMMA OutputNext ==
    ASSUME OutputOK, Generate
    PROVE  OutputOK'
<1>1. \A name, what : what \in {"variable", "function"} /\ AddToModule(name, what)
          => Range(module') \subseteq {"variable", "function"}
  BY DEF AddToModule, Range, OutputOK
<1>2. \A t \in BOOLEAN : Emit(t) => block' \in {"none", "open", "ended"}
  BY DEF Emit
<1>3. CASE compile \/ CompileReturns \/ StackOverflow \/ CodegenNothing
  BY <1>3 DEF compile, CompileReturns, StackOverflow, CodegenNothing, Answer, OutputOK, Status, Doing
<1>4. CASE codegenTranslationUnit \/ VisitRest \/ codegenTypeDecl \/ codegenFunctionDecl \/ EndFunction
  BY <1>1, <1>4 DEF codegenTranslationUnit, VisitRest, codegenTypeDecl, codegenFunctionDecl,
     EndFunction, Throw, OutputOK, Status
<1>5. CASE codegenVarDecl
  BY <1>5 DEF codegenVarDecl, Throw, Undefined, Continue, OutputOK, Status
<1>6. CASE DefineVariable
  BY <1>1, <1>2, <1>6 DEF DefineVariable, Undefined, OutputOK, Status
<1>7. CASE codegenBinaryExpr \/ EmitBinary \/ codegenUnaryExpr \/ EmitUnary
  BY <1>2, <1>7 DEF codegenBinaryExpr, EmitBinary, codegenUnaryExpr, EmitUnary, Throw, Undefined,
     Continue, Answer, OutputOK, Status
<1>8. CASE codegenLiteralExpr \/ codegenIdentifierExpr \/ codegenCallExpr \/ EmitCall
  BY <1>2, <1>8 DEF codegenLiteralExpr, codegenIdentifierExpr, codegenCallExpr, EmitCall, Throw,
     Undefined, Continue, Answer, OutputOK, Status
<1>9. CASE \/ codegenEvalExpr \/ Branch("then") \/ Branch("else") \/ Join
           \/ codegenCompileTimeJump \/ LoopBody
  BY <1>9 DEF codegenEvalExpr, Branch, Join, codegenCompileTimeJump, LoopBody, Undefined,
     Continue, Answer, OutputOK, Status
<1>. QED
  BY <1>3, <1>4, <1>5, <1>6, <1>7, <1>8, <1>9 DEF Generate

\* How the sequence of values changes.
LEMMA ValuesMove ==
    ASSUME values \in Seq(Value)
    PROVE  /\ \A v \in Value : \A n \in 0 .. 2 :
                  Append(SubSeq(values, 1, Len(values) - n), v) \in Seq(Value) \ {<<>>}
           /\ \A v \in Value : Append(values, v) \in Seq(Value) \ {<<>>}
           /\ Front(values) \in Seq(Value)
           /\ values # <<>> => Value1 \in Value
<1>1. PICK l \in Nat : l = Len(values)
  OBVIOUS
<1>2. \A n \in 0 .. 2 : SubSeq(values, 1, l - n) \in Seq(Value)
  <2>. TAKE n \in 0 .. 2
  <2>1. CASE n <= l
    <3>1. l - n \in 0 .. l
      BY <2>1
    <3>. QED  BY <1>1, <3>1
  <2>2. CASE ~(n <= l)
    <3>1. l - n < 1
      BY <2>2
    <3>2. SubSeq(values, 1, l - n) = <<>>
      BY <1>1, <3>1
    <3>3. <<>> \in Seq(Value)
      OBVIOUS
    <3>. QED  BY <3>2, <3>3
  <2>. QED  BY <2>1, <2>2
<1>3. \A s \in Seq(Value) : \A v \in Value : Append(s, v) \in Seq(Value) \ {<<>>}
  OBVIOUS
<1>4. values # <<>> => Value1 \in Value
  <2>1. values # <<>> => l \in 1 .. l
    BY <1>1, EmptySeq
  <2>. QED  BY <1>1, <2>1 DEF Value1, Last
<1>5. \A v \in Value : \A n \in 0 .. 2 :
         Append(SubSeq(values, 1, Len(values) - n), v) \in Seq(Value) \ {<<>>}
  BY <1>1, <1>2, <1>3
<1>6. Front(values) \in Seq(Value)
  BY <1>1, <1>2 DEF Front
<1>7. \A v \in Value : Append(values, v) \in Seq(Value) \ {<<>>}
  BY <1>3
<1>. QED
  BY <1>4, <1>5, <1>6, <1>7

\* A name that a scope holds has a value.
LEMMA LookupTyped ==
    ASSUME GInv, ScopesOK, NEW name, Holding(name) # {}
    PROVE  lookupVar(name).value \in Value
<1>1. PICK n \in Nat : n = Len(scopes) /\ DOMAIN scopes = 1 .. n
  BY DEF GInv, StacksOK, IsSeq
<1>2. Holding(name) \subseteq 0 .. n
  BY <1>1 DEF Holding
<1>3. Max(Holding(name)) \in Holding(name)
  BY <1>1, <1>2, MaxNat
<1>. QED
  BY <1>3 DEF Holding, lookupVar, ScopesOK, Valued

\* What a constant expression comes to.
LEMMA ConstantTyped ==
    ASSUME Ready, NEW id \in -1 .. Len(tree) - 1
    PROVE  Constant[id] \in Value \cup {"throw", "undefined"}
<1>1. Constant[id] = ConstantRule(Constant, id)
  BY ConstantValues
<1>2. \A op, lhs, rhs : ConstantBinary(op, lhs, rhs) \in {"constant", "throw", "undefined"}
  BY DEF ConstantBinary
<1>3. ConstantLeaf(id) \in {"null", "constant", "throw", "undefined"}
  BY DEF ConstantLeaf
<1>. QED
  BY <1>1, <1>2, <1>3 DEF ConstantRule, Value

\* An error leaves the values, a visit returns one, and a visit that goes on
\* begins another.
LEMMA ValuesKept ==
    ASSUME GInv, ValuesOK, Doing(todo[1][1]),
           \/ UNCHANGED <<todo, values>>
           \/ values' \in Seq(Value) \ {<<>>}
           \/ /\ values' \in Seq(Value)
              /\ \E id, b, c : Do(<<Gen(id), b>>) \/ Do(<<Gen(id), b, c>>)
    PROVE  ValuesOK'
<1>1. CASE UNCHANGED <<todo, values>>
  BY <1>1 DEF ValuesOK
<1>2. CASE values' \in Seq(Value) \ {<<>>}
  BY <1>2 DEF ValuesOK
<1>3. CASE /\ values' \in Seq(Value)
           /\ \E id, b, c : Do(<<Gen(id), b>>) \/ Do(<<Gen(id), b, c>>)
  <2>1. PICK id, b, c : Do(<<Gen(id), b>>) \/ Do(<<Gen(id), b, c>>)
    BY <1>3
  <2>2. PICK a : a = Gen(id)
    OBVIOUS
  <2>3. PICK tasks : tasks \in {<<a, b>>, <<a, b, c>>} /\ Do(tasks)
    BY <2>1, <2>2
  <2>4. IsSeq(tasks)
    BY <2>3, FewTasks
  <2>5. 1 \in DOMAIN tasks /\ tasks[1] = a
    BY <2>3
  <2>6. todo'[1][1] = "codegen"
    BY <2>2, <2>4, <2>3, <2>5, DoParts DEF Doing, Gen
  <2>. QED  BY <1>3, <2>6 DEF ValuesOK
<1>. QED
  BY <1>1, <1>2, <1>3

\* Each visit's part in the values.
LEMMA ValuesNext ==
    ASSUME Ready, ScopesOK, ValuesOK, Generate, UNCHANGED vars
    PROVE  ValuesOK'
<1>1. GInv /\ values \in Seq(Value)
  BY DEF Ready, ValuesOK
<1>2. \A n \in 0 .. 2 : \A v \in Value : Return(n, v) => values' \in Seq(Value) \ {<<>>}
  BY <1>1, ValuesMove DEF Return
<1>3. \A v \in Value : values' = Append(values, v) => values' \in Seq(Value) \ {<<>>}
  BY <1>1, ValuesMove
<1>4. Front(values) \in Seq(Value)
  BY <1>1, ValuesMove
<1>5. Throw \/ Undefined => UNCHANGED <<todo, values>>
  BY DEF Throw, Undefined
<1>6. \A do : Doing(do) => Doing(todo[1][1])
  BY DEF Doing
<1>7. "null" \in Value /\ "constant" \in Value /\ "slot" \in Value /\ "result" \in Value
  BY DEF Value
<1>8. CASE compile \/ CompileReturns
  <2>1. CASE compile
    <3>1. PICK task : task = Gen(0)
      OBVIOUS
    <3>2. task[1] = "codegen" /\ todo' = <<task>> /\ UNCHANGED values
      BY <2>1, <3>1 DEF compile, Gen
    <3>. QED  BY <1>1, <3>2 DEF ValuesOK
  <2>2. CASE CompileReturns
    BY <2>2 DEF CompileReturns, ValuesOK
  <2>. QED  BY <1>8, <2>1, <2>2
<1>9. CASE StackOverflow
  BY <1>9 DEF StackOverflow, ValuesOK
<1>10. CASE CodegenNothing \/ codegenLiteralExpr
  <2>1. Doing("codegen") /\ \E v \in {"null", "constant"} : Return(0, v)
    BY <1>10 DEF CodegenNothing, codegenLiteralExpr, Visiting, Answer
  <2>. QED  BY <1>1, <1>2, <1>6, <1>7, <2>1, ValuesKept
<1>11. CASE codegenTranslationUnit
  BY <1>1, <1>3, <1>6, <1>7, <1>11, ValuesKept DEF codegenTranslationUnit, Visiting
<1>12. CASE VisitRest
  <2>1. Doing("rest") /\ values # <<>>
    BY <1>12 DEF VisitRest, Doing, ValuesOK
  <2>2. CASE it < Len(tree)
    <3>1. values' = Front(values) /\ Do(<<Gen(it), On("rest", it + 1)>>)
      BY <1>12, <2>2 DEF VisitRest
    <3>. QED  BY <1>1, <1>4, <1>6, <2>1, <3>1, ValuesKept
  <2>3. CASE ~(it < Len(tree))
    <3>1. UNCHANGED values
      BY <1>12, <2>3 DEF VisitRest
    <3>. QED  BY <1>1, <1>6, <2>1, <3>1, ValuesKept
  <2>. QED  BY <2>2, <2>3
<1>13. CASE codegenVarDecl
  <2>1. Doing("codegen") /\ it # Null /\ node(it).kind = "VarDecl"
    BY <1>13 DEF codegenVarDecl, Visiting
  <2>2. PICK c : c = node(it).kids[3]
    OBVIOUS
  <2>3. \/ Throw \/ Undefined
        \/ Constant[c] \notin {"throw", "undefined"} /\ Return(0, Constant[c])
        \/ Do(<<Gen(c), On("variable", it)>>) /\ UNCHANGED values
        \/ values' = Append(values, "constant")
    BY <1>13, <2>2 DEF codegenVarDecl, Continue
  <2>4. Constant[c] \in Value \cup {"throw", "undefined"}
    <3>1. PICK m \in 1 .. Len(tree) : Frontier(m)
      BY <2>1 DEF Ready, WInv, Doing
    <3>2. it \in 0 .. Len(tree) - 1
      BY <2>1, <3>1, Reached
    <3>3. c \in -1 .. it - 1
      BY <2>1, <2>2, <3>2, Kids
    <3>4. c \in -1 .. Len(tree) - 1
      BY <3>2, <3>3, Root
    <3>. QED  BY <3>4, ConstantTyped
  <2>5. CASE Throw \/ Undefined
    BY <1>1, <1>5, <1>6, <2>1, <2>5, ValuesKept
  <2>6. CASE Constant[c] \notin {"throw", "undefined"} /\ Return(0, Constant[c])
    BY <1>1, <1>2, <1>6, <2>1, <2>4, <2>6, ValuesKept
  <2>7. CASE Do(<<Gen(c), On("variable", it)>>) /\ UNCHANGED values
    BY <1>1, <1>6, <2>1, <2>7, ValuesKept
  <2>8. CASE values' = Append(values, "constant")
    BY <1>1, <1>3, <1>6, <1>7, <2>1, <2>8, ValuesKept
  <2>. QED  BY <2>3, <2>5, <2>6, <2>7, <2>8
<1>14. CASE DefineVariable \/ codegenTypeDecl \/ EndFunction \/ EmitUnary \/ EmitCall \/ Join
  <2>1. PICK do : Doing(do)
    BY <1>14 DEF DefineVariable, codegenTypeDecl, EndFunction, EmitUnary, EmitCall, Join, Visiting
  <2>2. Throw \/ Undefined \/ \E n \in 0 .. 2 : \E v \in {"null", "constant", "slot", "result"} : Return(n, v)
    <3>1. \A n \in 0 .. 2 : \A v \in {"null", "constant", "slot", "result"} :
              Return(n, v) => \E l \in 0 .. 2 : \E w \in {"null", "constant", "slot", "result"} : Return(l, w)
      OBVIOUS
    <3>2. CASE DefineVariable
      <4>1. Undefined \/ Return(1, "slot") \/ Return(1, "constant")
        BY <3>2 DEF DefineVariable
      <4>. QED  BY <3>1, <4>1
    <3>3. CASE codegenTypeDecl
      <4>1. Throw \/ Return(0, "null")
        BY <3>3 DEF codegenTypeDecl
      <4>. QED  BY <3>1, <4>1
    <3>4. CASE EmitUnary
      <4>1. \/ Undefined
            \/ Return(1, "result") \/ Return(1, "null") \/ Return(1, "constant")
        BY <3>4 DEF EmitUnary, Answer
      <4>. QED  BY <3>1, <4>1
    <3>5. CASE EndFunction \/ EmitCall \/ Join
      <4>1. Undefined \/ Return(1, "constant") \/ Return(1, "result") \/ Return(1, "null")
        BY <3>5 DEF EndFunction, EmitCall, Join
      <4>. QED  BY <3>1, <4>1
    <3>. QED  BY <1>14, <3>2, <3>3, <3>4, <3>5
  <2>3. CASE Throw \/ Undefined
    BY <1>1, <1>5, <1>6, <2>1, <2>3, ValuesKept
  <2>4. CASE \E n \in 0 .. 2 : \E v \in {"null", "constant", "slot", "result"} : Return(n, v)
    BY <1>1, <1>2, <1>6, <1>7, <2>1, <2>4, ValuesKept
  <2>. QED  BY <2>2, <2>3, <2>4
<1>15. CASE EmitBinary
  <2>1. Doing("binary") /\ values # <<>>
    BY <1>15 DEF EmitBinary, Doing, ValuesOK
  <2>2. Value1 \in Value
    BY <1>1, <2>1, ValuesMove
  <2>3. Throw \/ \E v \in {"null", "constant", "result", Value1} : Return(2, v)
    BY <1>15 DEF EmitBinary, Answer
  <2>. QED  BY <1>1, <1>2, <1>5, <1>6, <1>7, <2>1, <2>2, <2>3, ValuesKept
<1>16. CASE codegenIdentifierExpr
  <2>1. Doing("codegen")
    BY <1>16 DEF codegenIdentifierExpr, Visiting
  <2>2. PICK v : v = lookupVar(Text(it)).value
    OBVIOUS
  <2>3. \/ Throw \/ Undefined
        \/ Holding(Text(it)) # {} /\ \E u \in {"result", v} : Return(0, u)
    BY <1>16, <2>2 DEF codegenIdentifierExpr, Answer
  <2>4. Holding(Text(it)) # {} => v \in Value
    BY <1>1, <2>2, LookupTyped
  <2>. QED  BY <1>1, <1>2, <1>5, <1>6, <1>7, <2>1, <2>3, <2>4, ValuesKept
<1>17. CASE codegenFunctionDecl \/ codegenUnaryExpr \/ codegenEvalExpr \/ codegenCallExpr
  <2>1. Doing("codegen")
    BY <1>17 DEF codegenFunctionDecl, codegenUnaryExpr, codegenEvalExpr, codegenCallExpr, Visiting
  <2>2. Throw \/ (UNCHANGED values /\ \E id, b : Do(<<Gen(id), b>>))
    BY <1>17 DEF codegenFunctionDecl, codegenUnaryExpr, codegenEvalExpr, codegenCallExpr, Continue
  <2>. QED  BY <1>1, <1>5, <1>6, <2>1, <2>2, ValuesKept
<1>18. CASE codegenBinaryExpr
  <2>1. Doing("codegen") /\ UNCHANGED values /\ \E id, b, c : Do(<<Gen(id), b, c>>)
    BY <1>18 DEF codegenBinaryExpr, Visiting, Continue
  <2>. QED  BY <1>1, <1>6, <2>1, ValuesKept
<1>19. CASE Branch("then") \/ Branch("else") \/ LoopBody
  <2>1. PICK do : Doing(do)
    BY <1>19 DEF Branch, LoopBody
  <2>2. Undefined \/ (values' = Front(values) /\ \E id, b : Do(<<Gen(id), b>>))
    BY <1>19 DEF Branch, LoopBody
  <2>. QED  BY <1>1, <1>4, <1>5, <1>6, <2>1, <2>2, ValuesKept
<1>20. CASE codegenCompileTimeJump
  <2>1. Doing("codegen")
    BY <1>20 DEF codegenCompileTimeJump, Visiting
  <2>2. \/ Undefined \/ Return(0, "null")
        \/ (UNCHANGED values /\ \E id, b : Do(<<Gen(id), b>>))
    BY <1>20 DEF codegenCompileTimeJump, Answer
  <2>3. CASE Undefined \/ Return(0, "null")
    BY <1>1, <1>2, <1>5, <1>6, <1>7, <2>1, <2>3, ValuesKept
  <2>4. CASE UNCHANGED values /\ \E id, b : Do(<<Gen(id), b>>)
    BY <1>1, <1>6, <2>1, <2>4, ValuesKept
  <2>. QED  BY <2>2, <2>3, <2>4
<1>. QED
  BY <1>8, <1>9, <1>10, <1>11, <1>12, <1>13, <1>14, <1>15, <1>16, <1>17, <1>18, <1>19, <1>20
  DEF Generate

\* A scope that gets names with values.
LEMMA ScopesKept ==
    ASSUME Ready, status = "run", ScopesOK,
           GInv', status' = "run",
           NEW e, Valued(e), NEW s, s = scopes', Chain(s, e)
    PROVE  ScopesOK'
<1>4. \A k \in DOMAIN s : (\E j \in DOMAIN scopes : s[k] = scopes[j]) \/ s[k] \in {Scope, e}
  BY ScopesAfter DEF Ready
<1>5. Valued(Scope)
  BY DEF Valued, Scope
<1>6. \A k \in DOMAIN scopes' : Valued(scopes'[k])
  BY <1>4, <1>5 DEF ScopesOK
<1>7. scopes' # <<>>
  <2>1. PICK t : t = todo' /\ IsSeq(t)
    BY DEF GInv, StacksOK
  <2>2. Cardinality(Closers(t)) \in Nat
    BY <2>1, ClosersFinite DEF IsSeq
  <2>3. Len(s) = 1 + Cardinality(Closers(t))
    BY <2>1 DEF GInv
  <2>4. Len(<<>>) = 0
    OBVIOUS
  <2>. QED  BY <2>2, <2>3, <2>4
<1>. QED
  BY <1>6, <1>7 DEF ScopesOK, Valued

\* The current scope, and what it is when a name is bound in it.
LEMMA CurrentScope ==
    ASSUME Ready, status = "run", ScopesOK, NEW top, top = scopes[Len(scopes)]
    PROVE  Valued(top) /\ "symbols" \in DOMAIN top
<1>1. PICK m \in 1 .. Len(tree) : Frontier(m)
  BY DEF Ready, WInv
<1>2. Entry(top, m)
  BY <1>1, TopEntry DEF Frontier
<1>3. Len(scopes) \in DOMAIN scopes
  BY DEF Ready, GInv, StacksOK, IsSeq, ScopesOK
<1>. QED
  BY <1>2, <1>3 DEF Entry, ScopesOK

\* Binding a name to a value.
LEMMA BindTyped ==
    ASSUME Ready, GInv', status = "run", status' = "run", ScopesOK,
           NEW name, NEW value \in Value, NEW known, Bind(name, value, known)
    PROVE  ScopesOK'
<1>1. PICK top : top = scopes[Len(scopes)]
  OBVIOUS
<1>2. PICK entry : entry = [value |-> value, isCompileTime |-> known]
  OBVIOUS
<1>3. PICK s : s = [n \in DOMAIN top.symbols \cup {name} |->
                       IF n = name THEN entry ELSE top.symbols[n]]
  OBVIOUS
<1>4. PICK e : e = [top EXCEPT !.symbols = s]
  OBVIOUS
<1>5. Valued(top) /\ e.symbols = s
  BY <1>1, <1>4, CurrentScope
<1>6. Valued(e)
  <2>1. \A n \in DOMAIN s : s[n].value \in Value
    BY <1>2, <1>3, <1>5 DEF Valued
  <2>. QED  BY <1>5, <2>1 DEF Valued
<1>7. PICK chain : chain = scopes'
  OBVIOUS
<1>8. Chain(chain, e)
  BY <1>1, <1>2, <1>3, <1>4, <1>7 DEF Bind, Chain
<1>. QED
  BY <1>6, <1>7, <1>8, ScopesKept

\* Each visit's part in the scopes.
LEMMA ScopesNext ==
    ASSUME Ready, GInv', ScopesOK, Generate, UNCHANGED vars
    PROVE  ScopesOK'
<1>1. UNCHANGED scopes => ScopesOK'
  BY DEF ScopesOK, Valued
<1>2. Valued(Scope)
  BY DEF Valued, Scope
<1>3. Throw \/ Undefined => UNCHANGED scopes
  BY DEF Throw, Undefined
<1>4. CASE codegenTranslationUnit \/ VisitRest \/ EndFunction
  <2>1. /\ status = "run" /\ status' = "run"
        /\ scopes' \in {scopes, Append(scopes, Scope), Front(scopes)}
    BY <1>4 DEF codegenTranslationUnit, VisitRest, EndFunction, Visiting, Doing
  <2>2. PICK s : s = scopes'
    OBVIOUS
  <2>3. Chain(s, Scope)
    BY <2>1, <2>2 DEF Chain
  <2>. QED  BY <1>2, <2>1, <2>2, <2>3, ScopesKept
<1>5. CASE codegenVarDecl
  <2>1. Doing("codegen") /\ it # Null /\ node(it).kind = "VarDecl" /\ status = "run"
    BY <1>5 DEF codegenVarDecl, Visiting, Doing
  <2>2. PICK c : c = node(it).kids[3]
    OBVIOUS
  <2>3. \/ UNCHANGED scopes
        \/ /\ Constant[c] \notin {"throw", "undefined"} /\ status' = status
           /\ Bind(Text(node(it).kids[2]), Constant[c], TRUE)
    BY <1>5, <2>2 DEF codegenVarDecl, Continue, Throw, Undefined
  <2>4. Constant[c] \in Value \cup {"throw", "undefined"}
    <3>1. PICK m \in 1 .. Len(tree) : Frontier(m)
      BY <2>1 DEF Ready, WInv
    <3>2. it \in 0 .. Len(tree) - 1
      BY <2>1, <3>1, Reached
    <3>3. c \in -1 .. it - 1
      BY <2>1, <2>2, <3>2, Kids
    <3>4. c \in -1 .. Len(tree) - 1
      BY <3>2, <3>3, Root
    <3>. QED  BY <3>4, ConstantTyped
  <2>. QED  BY <1>1, <2>1, <2>3, <2>4, BindTyped
<1>6. CASE DefineVariable
  <2>1. status = "run"
    BY <1>6 DEF DefineVariable, Doing
  <2>2. \/ UNCHANGED scopes
        \/ /\ status' = status
           /\ \E v \in {"slot", "constant"} : Bind(Text(node(it).kids[2]), v, FALSE)
    BY <1>6 DEF DefineVariable, Undefined
  <2>3. "slot" \in Value /\ "constant" \in Value
    BY DEF Value
  <2>. QED  BY <1>1, <2>1, <2>2, <2>3, BindTyped
<1>7. CASE codegenTypeDecl \/ codegenFunctionDecl
  <2>1. status = "run"
    BY <1>7 DEF codegenTypeDecl, codegenFunctionDecl, Visiting, Doing
  <2>2. PICK top : top = scopes[Len(scopes)]
    OBVIOUS
  <2>3. Valued(top) /\ "symbols" \in DOMAIN top
    BY <2>1, <2>2, CurrentScope
  <2>4. \A c : /\ Valued([top EXCEPT !.customTypes = c])
               /\ Valued([top EXCEPT !.functions = c])
    BY <2>3 DEF Valued
  <2>5. CASE UNCHANGED scopes
    BY <1>1, <2>5
  <2>6. CASE codegenTypeDecl /\ ~UNCHANGED scopes
    <3>1. PICK name : /\ scopes' = [scopes EXCEPT ![Len(scopes)].customTypes = @ \cup {name}]
                      /\ status' = status
      BY <2>6 DEF codegenTypeDecl, Throw
    <3>2. PICK e : e = [top EXCEPT !.customTypes = top.customTypes \cup {name}]
      OBVIOUS
    <3>3. scopes' = [scopes EXCEPT ![Len(scopes)] = e]
      BY <2>2, <3>1, <3>2
    <3>4. Valued(e)
      BY <2>4, <3>2
    <3>5. PICK s : s = scopes'
      OBVIOUS
    <3>6. Chain(s, e)
      BY <3>3, <3>5 DEF Chain
    <3>. QED  BY <2>1, <3>1, <3>4, <3>5, <3>6, ScopesKept
  <2>7. CASE codegenFunctionDecl /\ ~UNCHANGED scopes
    <3>1. PICK name : /\ scopes' = Append([scopes EXCEPT ![Len(scopes)].functions = @ \cup {name}],
                                          Scope)
                      /\ status' = status
      BY <2>7 DEF codegenFunctionDecl, Throw
    <3>2. PICK e : e = [top EXCEPT !.functions = top.functions \cup {name}]
      OBVIOUS
    <3>3. scopes' = Append([scopes EXCEPT ![Len(scopes)] = e], Scope)
      BY <2>2, <3>1, <3>2
    <3>4. Valued(e)
      BY <2>4, <3>2
    <3>5. PICK s : s = scopes'
      OBVIOUS
    <3>6. Chain(s, e)
      BY <3>3, <3>5 DEF Chain
    <3>. QED  BY <2>1, <3>1, <3>4, <3>5, <3>6, ScopesKept
  <2>. QED  BY <1>7, <2>5, <2>6, <2>7
<1>8. CASE compile \/ CompileReturns \/ StackOverflow \/ CodegenNothing \/ codegenLiteralExpr
  BY <1>1, <1>8 DEF compile, CompileReturns, StackOverflow, CodegenNothing, codegenLiteralExpr, Answer
<1>9. CASE codegenBinaryExpr \/ EmitBinary \/ codegenUnaryExpr \/ EmitUnary \/ codegenIdentifierExpr
  BY <1>1, <1>3, <1>9 DEF codegenBinaryExpr, EmitBinary, codegenUnaryExpr, EmitUnary,
     codegenIdentifierExpr, Answer, Continue
<1>10. CASE \/ codegenCallExpr \/ EmitCall \/ codegenEvalExpr \/ Branch("then") \/ Branch("else")
            \/ Join \/ codegenCompileTimeJump \/ LoopBody
  BY <1>1, <1>3, <1>10 DEF codegenCallExpr, EmitCall, codegenEvalExpr, Branch, Join,
     codegenCompileTimeJump, LoopBody, Answer, Continue
<1>. QED
  BY <1>4, <1>5, <1>6, <1>7, <1>8, <1>9, <1>10 DEF Generate

\* An error leaves the tasks alone.
LEMMA EndsQuietly ==
    ASSUME Generate
    PROVE  status' \in {"run", "ok"} \/ UNCHANGED todo
<1>1. Throw \/ Undefined => UNCHANGED todo
  BY DEF Throw, Undefined
<1>2. Doing(todo[1][1]) /\ status' = status => status' = "run"
  BY DEF Doing
<1>3. CASE compile \/ CompileReturns \/ StackOverflow
  BY <1>3 DEF compile, CompileReturns, StackOverflow
<1>4. CASE codegenTranslationUnit \/ VisitRest \/ EndFunction \/ CodegenNothing \/ codegenLiteralExpr
  BY <1>4 DEF codegenTranslationUnit, VisitRest, EndFunction, CodegenNothing, codegenLiteralExpr,
     Visiting, Doing, Answer
<1>5. CASE codegenVarDecl
  BY <1>1, <1>5 DEF codegenVarDecl, Visiting, Doing, Continue
<1>6. CASE DefineVariable \/ codegenTypeDecl \/ codegenFunctionDecl
  BY <1>1, <1>6 DEF DefineVariable, codegenTypeDecl, codegenFunctionDecl, Visiting, Doing
<1>7. CASE codegenBinaryExpr \/ EmitBinary \/ codegenUnaryExpr \/ EmitUnary \/ codegenIdentifierExpr
  BY <1>1, <1>7 DEF codegenBinaryExpr, EmitBinary, codegenUnaryExpr, EmitUnary,
     codegenIdentifierExpr, Visiting, Doing, Answer, Continue
<1>8. CASE \/ codegenCallExpr \/ EmitCall \/ codegenEvalExpr \/ Branch("then") \/ Branch("else")
           \/ Join \/ codegenCompileTimeJump \/ LoopBody
  BY <1>1, <1>8 DEF codegenCallExpr, EmitCall, codegenEvalExpr, Branch, Join,
     codegenCompileTimeJump, LoopBody, Visiting, Doing, Answer, Continue
<1>. QED
  BY <1>3, <1>4, <1>5, <1>6, <1>7, <1>8 DEF Generate

\* Every step keeps the types.
LEMMA NextTypesOK ==
    ASSUME Ready, WInv', GInv', TypesOK, [GenNext]_<<vars, genVars>>
    PROVE  TypesOK'
<1>1. CASE UNCHANGED <<vars, genVars>>
  <2>1. UNCHANGED <<todo, values, scopes, block, module, status, tree>>
    BY <1>1 DEF vars, genVars
  <2>. QED
    BY <2>1 DEF TypesOK, ScopesOK, Valued, ValuesOK, OutputOK, TasksInTree
<1>2. CASE Next /\ UNCHANGED genVars
  <2>1. outcome = "run" /\ UNCHANGED <<todo, values, scopes, block, module, status>>
    BY <1>2, ParsingFirst DEF genVars
  <2>2. todo = <<>>
    BY <2>1 DEF Ready, WInv, GInv, StacksOK
  <2>3. DOMAIN todo' = {}
    BY <2>1, <2>2
  <2>. QED
    BY <2>1, <2>3 DEF TypesOK, ScopesOK, Valued, ValuesOK, OutputOK, TasksInTree
<1>3. CASE Generate /\ UNCHANGED vars
  <2>1. ScopesOK' /\ ValuesOK' /\ OutputOK'
    BY <1>3, ScopesNext, ValuesNext, OutputNext DEF TypesOK
  <2>2. tree' = tree
    BY <1>3 DEF vars
  <2>3. CASE UNCHANGED todo
    BY <2>1, <2>2, <2>3 DEF TypesOK, TasksInTree
  <2>4. CASE status' \in {"run", "ok"}
    <3>1. PICK m \in 1 .. Len(tree) : Frontier(m)'
      BY <2>2, <2>4 DEF WInv
    <3>2. PICK u : u = todo'
      OBVIOUS
    <3>3. \A k \in DOMAIN u : IF u[k][1] = "rest" THEN u[k][2] \in 1 .. m ELSE u[k][2] \in -1 .. m - 1
      BY <3>1, <3>2 DEF Frontier, TaskOK
    <3>4. 1 .. m \subseteq -1 .. Len(tree) /\ -1 .. m - 1 \subseteq -1 .. Len(tree)
      BY Root
    <3>5. \A k \in DOMAIN u : u[k][2] \in -1 .. Len(tree)
      BY <3>3, <3>4
    <3>. QED  BY <2>1, <2>2, <3>2, <3>5 DEF TypesOK, TasksInTree
  <2>. QED  BY <1>3, <2>3, <2>4, EndsQuietly
<1>. QED
  BY <1>1, <1>2, <1>3 DEF GenNext

\* The walk's variables have their types, after an error as well: a visit
\* finds the values it takes, every symbol has one, and every task is about
\* a node.
THEOREM WalkTypes == GenSpec => []GenTypeOK
<1>1. GenInit => TypesOK
  <2>. SUFFICES ASSUME GenInit PROVE TypesOK
    OBVIOUS
  <2>1. todo = <<>> /\ values = <<>> /\ scopes = <<Scope>> /\ module = <<>>
    BY DEF GenInit
  <2>2. ScopesOK
    <3>1. scopes # <<>> /\ \A i \in DOMAIN scopes : scopes[i] = Scope
      BY <2>1
    <3>. QED  BY <3>1 DEF ScopesOK, Valued, Scope
  <2>3. ValuesOK /\ TasksInTree
    <3>1. <<>> \in Seq(Value) /\ DOMAIN todo = {}
      BY <2>1
    <3>. QED  BY <2>1, <3>1 DEF ValuesOK, TasksInTree
  <2>4. OutputOK
    <3>1. Range(module) = {}
      BY <2>1 DEF Range
    <3>. QED  BY <3>1 DEF GenInit, OutputOK, Status
  <2>. QED  BY <2>2, <2>3, <2>4 DEF TypesOK
<1>2. Ready /\ Ready' /\ TypesOK /\ [GenNext]_<<vars, genVars>> => TypesOK'
  BY NextTypesOK DEF Ready
<1>3. TypesOK => GenTypeOK
  BY DEF TypesOK, ScopesOK, Valued, ValuesOK, OutputOK, TasksInTree, GenTypeOK
<1>. QED
  BY <1>1, <1>2, <1>3, WalkIsReady, PTL DEF GenSpec
=============================================================================
