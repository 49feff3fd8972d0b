---------------------------- MODULE AstFileProofs ----------------------------
(***************************************************************************)
(* Theorems about AstFile, for trees of any size: a load answers true only *)
(* with the tree of the last save, and the calls implement AstStore.       *)
(***************************************************************************)
EXTENDS AstFile, TLAPS

\* What is on the disk is the beginning of the last save's image.
DiskOK ==
    /\ Len(disk) <= Len(of) + 1
    /\ \A k \in 1 .. Len(disk) : disk[k] = Image(of)[k]

\* What is buffered continues it.
BufferOK ==
    /\ buffer # <<>> => pc \in {"save", "close"} /\ good
    /\ \A k \in 1 .. Len(buffer) : buffer[k] = Image(of)[Len(disk) + k]

\* A failed stream has lost a unit, and the answer says so unless it failed
\* after the answer was made up.
WriteOK ==
    pc \in {"save", "close"} =>
        /\ tree = of /\ i <= Len(of)
        /\ good => Len(disk) + Len(buffer) = i + 1
        /\ ~good => Len(disk) <= Len(of)
        /\ pc = "close" => i = Len(of) /\ (good => ok) /\ (ok /\ ~lost => good)

\* The nodes read so far are the first of that tree.
LoadOK ==
    pc = "load" =>
        /\ disk # <<>>
        /\ i = Len(tree) /\ i <= Len(disk) - 1
        /\ \A k \in 1 .. i : tree[k] = of[k]

AnswerOK ==
    /\ answer # "none" => pc = "idle"
    /\ answer = "saved" => lost \/ Len(disk) = Len(of) + 1
    /\ answer = "loaded" => tree = of /\ Len(disk) = Len(of) + 1

IInv == TypeOK /\ DiskOK /\ BufferOK /\ WriteOK /\ LoadOK /\ AnswerOK

-----------------------------------------------------------------------------

\* The image of a tree: its length and its units.
LEMMA ImageProperties ==
    ASSUME NEW t \in Seq(Node)
    PROVE  /\ Image(t) \in Seq(Node \cup Nat) /\ Len(Image(t)) = Len(t) + 1
           /\ Image(t)[1] = Len(t)
           /\ \A k \in 1 .. Len(t) : Image(t)[k + 1] = t[k]
<1>1. Len(t) \in Nat /\ \A k \in 1 .. Len(t) : t[k] \in Node
  OBVIOUS
<1>2. \A k \in 1 .. Len(t) + 1 : (IF k = 1 THEN Len(t) ELSE t[k - 1]) \in Node \cup Nat
  BY <1>1
<1>3. Image(t) \in [1 .. Len(t) + 1 -> Node \cup Nat]
  BY <1>2 DEF Image
<1>. QED
  BY <1>1, <1>3 DEF Image

\* The count on the disk is the saved tree's.
LEMMA CountRead ==
    ASSUME TypeOK, DiskOK, disk # <<>>
    PROVE  nodeCount = Len(of) /\ Len(disk) \in Nat \ {0}
<1>1. disk \in Seq(Node \cup Nat) /\ Len(disk) \in Nat \ {0}
  BY DEF TypeOK
<1>2. disk[1] = Image(of)[1]
  BY <1>1 DEF DiskOK
<1>. QED
  BY <1>1, <1>2, ImageProperties DEF TypeOK, nodeCount

\* A whole file is the image of the tree.
LEMMA WholeFile ==
    ASSUME TypeOK, DiskOK, Len(disk) = Len(of) + 1
    PROVE  disk = Image(of)
<1>1. /\ disk \in Seq(Node \cup Nat)
      /\ Image(of) \in Seq(Node \cup Nat) /\ Len(Image(of)) = Len(disk)
  BY ImageProperties DEF TypeOK
<1>2. \A k \in 1 .. Len(disk) : disk[k] = Image(of)[k]
  BY DEF DiskOK
<1>. QED
  BY <1>1, <1>2

\* A sequence is a beginning of another if it has its elements.
LEMMA BeginningOf ==
    ASSUME NEW S, NEW s \in Seq(S), NEW t \in Seq(S), Len(s) <= Len(t),
           \A k \in 1 .. Len(s) : s[k] = t[k]
    PROVE  s = SubSeq(t, 1, Len(s))
<1>1. /\ SubSeq(t, 1, Len(s)) \in Seq(S) /\ Len(SubSeq(t, 1, Len(s))) = Len(s)
      /\ \A k \in 1 .. Len(s) : SubSeq(t, 1, Len(s))[k] = t[k]
  OBVIOUS
<1>. QED
  BY <1>1

-----------------------------------------------------------------------------

\* The missing file and the empty tree satisfy the invariant.
LEMMA InitIInv == Init => IInv
<1>. SUFFICES ASSUME Init PROVE IInv
  OBVIOUS
<1>1. TypeOK
  <2>1. good \in BOOLEAN /\ ok \in BOOLEAN /\ lost \in BOOLEAN
    BY DEF Init
  <2>2. <<>> \in Seq(Node) /\ <<>> \in Seq(Node \cup Nat)
    OBVIOUS
  <2>. QED  BY <2>1, <2>2, Zenon DEF Init, TypeOK
<1>2. Len(disk) = 0 /\ Len(buffer) = 0 /\ Len(of) = 0
  BY DEF Init
<1>. QED
  BY <1>1, <1>2 DEF Init, IInv, DiskOK, BufferOK, WriteOK, LoadOK, AnswerOK

\* A tree built in memory touches nothing else.
LEMMA EditKeeps == IInv /\ Edit => IInv'
<1>. SUFFICES ASSUME IInv, Edit PROVE IInv'
  OBVIOUS
<1>1. tree' \in Seq(Node)
  BY TreeAssumption DEF Edit
<1>. QED
  BY <1>1 DEF Edit, IInv, TypeOK, DiskOK, BufferOK, WriteOK, LoadOK, AnswerOK

\* A refused call changes its answer only.
LEMMA OpenFailsKeeps == IInv /\ OpenFails => IInv'
BY DEF OpenFails, Return, IInv, TypeOK, DiskOK, BufferOK, WriteOK, LoadOK, AnswerOK

\* The count is the first unit of the image.
LEMMA SaveOpenKeeps == IInv /\ SaveOpen => IInv'
<1>. SUFFICES ASSUME IInv, SaveOpen PROVE IInv'
  OBVIOUS
<1>. USE DEF SaveOpen
<1>1. tree \in Seq(Node) /\ Len(tree) \in Nat
  BY DEF IInv, TypeOK
<1>2. TypeOK'
  <2>1. good' \in BOOLEAN /\ ok' \in BOOLEAN /\ lost' \in BOOLEAN
    BY DEF IInv, TypeOK
  <2>2. <<>> \in Seq(Node \cup Nat) /\ <<Len(tree)>> \in Seq(Node \cup Nat)
    BY <1>1
  <2>. QED  BY <1>1, <2>1, <2>2 DEF IInv, TypeOK
<1>3. Len(disk') = 0 /\ Len(buffer') = 1 /\ buffer'[1] = Image(tree)[1]
  BY <1>1, ImageProperties
<1>4. DiskOK'
  BY <1>1, <1>3 DEF DiskOK
<1>5. BufferOK'
  <2>1. \A k \in 1 .. Len(buffer') : k = 1 /\ Len(disk') + k = 1
    BY <1>3
  <2>. QED  BY <1>3, <2>1 DEF BufferOK
<1>6. WriteOK' /\ LoadOK' /\ AnswerOK'
  BY <1>1, <1>3 DEF WriteOK, LoadOK, AnswerOK
<1>. QED
  BY <1>2, <1>4, <1>5, <1>6 DEF IInv

\* Node i is unit i + 2 of the image.
LEMMA WriteNodeKeeps == IInv /\ WriteNode => IInv'
<1>. SUFFICES ASSUME IInv, WriteNode PROVE IInv'
  OBVIOUS
<1>. USE DEF WriteNode
<1>1. /\ tree \in Seq(Node) /\ tree = of /\ i \in Nat /\ i + 1 \in 1 .. Len(of)
      /\ buffer \in Seq(Node \cup Nat) /\ disk \in Seq(Node \cup Nat)
  BY DEF IInv, TypeOK, WriteOK
<1>2. tree[i + 1] \in Node /\ tree[i + 1] = Image(of)[i + 2]
  BY <1>1, ImageProperties
<1>3. TypeOK'
  BY <1>1, <1>2 DEF IInv, TypeOK
<1>4. DiskOK' /\ LoadOK' /\ AnswerOK'
  BY DEF IInv, DiskOK, LoadOK, AnswerOK
<1>5. CASE good
  <2>1. /\ buffer' \in Seq(Node \cup Nat) /\ Len(buffer') = Len(buffer) + 1
        /\ buffer'[Len(buffer) + 1] = tree[i + 1]
        /\ \A k \in 1 .. Len(buffer) : buffer'[k] = buffer[k]
    BY <1>1, <1>2, <1>5
  <2>2. Len(disk) + Len(buffer) = i + 1
    BY <1>5 DEF IInv, WriteOK
  <2>3. Len(disk) + (Len(buffer) + 1) = i + 2
    BY <1>1, <2>2
  <2>4. BufferOK'
    BY <1>1, <1>2, <1>5, <2>1, <2>3 DEF IInv, BufferOK
  <2>5. WriteOK'
    BY <1>1, <1>5, <2>1, <2>2 DEF IInv, WriteOK
  <2>. QED  BY <1>3, <1>4, <2>4, <2>5 DEF IInv
<1>6. CASE ~good
  BY <1>1, <1>3, <1>4, <1>6 DEF IInv, BufferOK, WriteOK
<1>. QED
  BY <1>5, <1>6 DEF IInv, TypeOK

\* The answer to come is the state of the stream.
LEMMA SaveResultKeeps == IInv /\ SaveResult => IInv'
BY DEF SaveResult, IInv, TypeOK, DiskOK, BufferOK, WriteOK, LoadOK, AnswerOK

\* With nothing buffered, a stream that never failed has written all.
LEMMA CloseKeeps == IInv /\ Close => IInv'
<1>. SUFFICES ASSUME IInv, Close PROVE IInv'
  OBVIOUS
<1>. USE DEF Close, Return
<1>1. ok /\ ~lost => Len(disk) = Len(of) + 1
  <2>1. buffer = <<>> => Len(buffer) = 0
    OBVIOUS
  <2>. QED  BY <2>1 DEF IInv, TypeOK, WriteOK
<1>. QED
  BY <1>1 DEF IInv, TypeOK, DiskOK, BufferOK, WriteOK, LoadOK, AnswerOK

\* The first buffered unit is the next of the file.
LEMMA FlushKeeps == IInv /\ Flush => IInv'
<1>. SUFFICES ASSUME IInv, Flush PROVE IInv'
  OBVIOUS
<1>. USE DEF Flush
<1>1. /\ buffer \in Seq(Node \cup Nat) /\ disk \in Seq(Node \cup Nat)
      /\ buffer # <<>> /\ Len(buffer) \in Nat \ {0} /\ Len(disk) \in Nat
      /\ pc \in {"save", "close"} /\ good
      /\ i \in Nat /\ of \in Seq(Node) /\ Len(of) \in Nat
  BY DEF IInv, TypeOK, BufferOK
<1>2. /\ disk' \in Seq(Node \cup Nat) /\ Len(disk') = Len(disk) + 1
      /\ disk'[Len(disk) + 1] = buffer[1]
      /\ \A k \in 1 .. Len(disk) : disk'[k] = disk[k]
  BY <1>1
<1>3. /\ buffer' \in Seq(Node \cup Nat) /\ Len(buffer') = Len(buffer) - 1
      /\ \A k \in 1 .. Len(buffer) - 1 : buffer'[k] = buffer[k + 1]
  BY <1>1
<1>4. Len(disk) + Len(buffer) = i + 1 /\ i <= Len(of)
  BY <1>1 DEF IInv, WriteOK
<1>5. TypeOK'
  BY <1>1, <1>2, <1>3 DEF IInv, TypeOK
<1>6. DiskOK'
  <2>1. buffer[1] = Image(of)[Len(disk) + 1]
    BY <1>1 DEF IInv, BufferOK
  <2>. QED  BY <1>1, <1>2, <1>4, <2>1 DEF IInv, DiskOK
<1>7. BufferOK'
  <2>1. \A k \in 1 .. Len(buffer') : buffer'[k] = Image(of)[Len(disk) + (k + 1)]
    BY <1>1, <1>3 DEF IInv, BufferOK
  <2>2. \A k \in 1 .. Len(buffer') : Len(disk) + (k + 1) = Len(disk') + k
    BY <1>1, <1>2, <1>3
  <2>. QED  BY <1>1, <2>1, <2>2 DEF BufferOK
<1>8. WriteOK'
  BY <1>1, <1>2, <1>3, <1>4 DEF IInv, WriteOK
<1>9. LoadOK' /\ AnswerOK'
  BY <1>1 DEF IInv, LoadOK, AnswerOK
<1>. QED
  BY <1>5, <1>6, <1>7, <1>8, <1>9 DEF IInv

\* A failing stream had a unit left to write.
LEMMA FlushFailsKeeps == IInv /\ FlushFails => IInv'
<1>. SUFFICES ASSUME IInv, FlushFails PROVE IInv'
  OBVIOUS
<1>. USE DEF FlushFails
<1>1. /\ buffer \in Seq(Node \cup Nat) /\ disk \in Seq(Node \cup Nat)
      /\ Len(buffer) \in Nat \ {0} /\ Len(disk) \in Nat
      /\ pc \in {"save", "close"} /\ good
      /\ i \in Nat /\ Len(of) \in Nat
  BY DEF IInv, TypeOK, BufferOK
<1>2. Len(disk) <= Len(of)
  BY <1>1 DEF IInv, WriteOK
<1>3. TypeOK'
  <2>1. good' \in BOOLEAN /\ ok' \in BOOLEAN /\ lost' \in BOOLEAN
    BY DEF IInv, TypeOK
  <2>2. <<>> \in Seq(Node \cup Nat)
    OBVIOUS
  <2>. QED  BY <2>1, <2>2 DEF IInv, TypeOK
<1>4. DiskOK' /\ BufferOK'
  <2>1. buffer' = <<>> /\ disk' = disk /\ of' = of
    OBVIOUS
  <2>2. DiskOK'
    BY <2>1 DEF IInv, DiskOK
  <2>3. Len(buffer') = 0
    BY <2>1
  <2>. QED  BY <2>1, <2>2, <2>3 DEF BufferOK
<1>5. WriteOK'
  BY <1>1, <1>2 DEF IInv, WriteOK
<1>6. LoadOK' /\ AnswerOK'
  BY <1>1 DEF IInv, LoadOK, AnswerOK
<1>. QED
  BY <1>3, <1>4, <1>5, <1>6 DEF IInv

\* A load begins with no node.
LEMMA LoadCountKeeps == IInv /\ LoadCount => IInv'
BY DEF LoadCount, Return, IInv, TypeOK, DiskOK, BufferOK, WriteOK, LoadOK, AnswerOK

\* Unit i + 2 of the file is node i of the saved tree.
LEMMA LoadNodeKeeps == IInv /\ LoadNode => IInv'
<1>. SUFFICES ASSUME IInv, LoadNode PROVE IInv'
  OBVIOUS
<1>. USE DEF LoadNode
<1>1. /\ disk \in Seq(Node \cup Nat) /\ tree \in Seq(Node) /\ of \in Seq(Node)
      /\ disk # <<>> /\ i = Len(tree) /\ i \in Nat /\ Len(disk) \in Nat /\ Len(of) \in Nat
      /\ pc = "load"
  BY DEF IInv, TypeOK, LoadOK
<1>2. buffer = <<>>
  BY <1>1 DEF IInv, BufferOK
<1>3. CASE i + 2 <= Len(disk)
  <2>1. i + 1 \in 1 .. Len(of) /\ disk[i + 2] = Image(of)[i + 2]
    BY <1>1, <1>3 DEF IInv, DiskOK
  <2>2. disk[i + 2] = of[i + 1] /\ of[i + 1] \in Node
    <3>1. Image(of)[(i + 1) + 1] = of[i + 1] /\ (i + 1) + 1 = i + 2
      BY <1>1, <2>1, ImageProperties
    <3>2. of[i + 1] \in Node
      BY <1>1, <2>1
    <3>. QED  BY <2>1, <3>1, <3>2
  <2>3. tree' = Append(tree, of[i + 1])
    BY <1>3, <2>2
  <2>4. /\ tree' \in Seq(Node) /\ Len(tree') = i + 1 /\ tree'[i + 1] = of[i + 1]
        /\ \A k \in 1 .. i : tree'[k] = tree[k]
    BY <1>1, <2>2, <2>3
  <2>5. TypeOK'
    BY <1>1, <1>3, <2>4 DEF IInv, TypeOK
  <2>6. LoadOK'
    <3>1. \A k \in 1 .. i + 1 : k \in 1 .. i \/ k = i + 1
      BY <1>1
    <3>2. i' = i + 1 /\ pc' = "load" /\ i + 1 <= Len(disk) - 1
      BY <1>1, <1>3
    <3>. QED  BY <1>1, <2>4, <3>1, <3>2 DEF IInv, LoadOK
  <2>7. DiskOK' /\ BufferOK' /\ WriteOK' /\ AnswerOK'
    BY <1>1, <1>2, <1>3 DEF IInv, DiskOK, BufferOK, WriteOK, AnswerOK
  <2>. QED  BY <2>5, <2>6, <2>7 DEF IInv
<1>4. CASE ~(i + 2 <= Len(disk))
  BY <1>1, <1>2, <1>4
  DEF Return, IInv, TypeOK, DiskOK, BufferOK, WriteOK, LoadOK, AnswerOK
<1>. QED
  BY <1>3, <1>4

\* The tree that has been read when the loop ends is the saved one.
LEMMA AllRead ==
    ASSUME IInv, pc = "load", i = nodeCount
    PROVE  tree = of /\ Len(disk) = Len(of) + 1
<1>1. /\ tree \in Seq(Node) /\ of \in Seq(Node) /\ i = Len(tree) /\ i = Len(of)
      /\ Len(disk) \in Nat /\ Len(of) \in Nat
      /\ \A k \in 1 .. i : tree[k] = of[k]
  BY CountRead DEF IInv, TypeOK, LoadOK
<1>2. tree = of
  <2>1. Len(tree) = Len(of) /\ \A k \in 1 .. Len(of) : tree[k] = of[k]
    BY <1>1
  <2>. QED  BY <1>1, <2>1
<1>3. Len(disk) = Len(of) + 1
  BY <1>1 DEF IInv, LoadOK, DiskOK
<1>. QED
  BY <1>2, <1>3

\* A load that answers true has read the saved tree.
LEMMA LoadDoneKeeps == IInv /\ LoadDone => IInv'
<1>. SUFFICES ASSUME IInv, LoadDone PROVE IInv'
  OBVIOUS
<1>1. tree = of /\ Len(disk) = Len(of) + 1
  BY AllRead DEF LoadDone
<1>. QED
  BY <1>1 DEF LoadDone, Return, IInv, TypeOK, DiskOK, BufferOK, WriteOK, LoadOK, AnswerOK

\* A crash loses the buffer; the file stays a beginning of the image.
LEMMA CrashKeeps == IInv /\ Crash => IInv'
<1>. SUFFICES ASSUME IInv, Crash PROVE IInv'
  OBVIOUS
<1>. USE DEF Crash, Return
<1>1. TypeOK'
  <2>1. good' \in BOOLEAN /\ ok' \in BOOLEAN /\ lost' \in BOOLEAN
    BY DEF IInv, TypeOK
  <2>2. <<>> \in Seq(Node \cup Nat) /\ <<>> \in Seq(Node)
    OBVIOUS
  <2>. QED  BY <2>1, <2>2 DEF IInv, TypeOK
<1>2. Len(buffer') = 0 /\ buffer' = <<>>
  OBVIOUS
<1>. QED
  BY <1>1, <1>2 DEF IInv, DiskOK, BufferOK, WriteOK, LoadOK, AnswerOK

\* Every step keeps the invariant.
LEMMA NextKeeps == IInv /\ [Next]_vars => IInv'
<1>. SUFFICES ASSUME IInv, [Next]_vars PROVE IInv'
  OBVIOUS
<1>1. CASE UNCHANGED vars
  BY <1>1 DEF vars, IInv, TypeOK, DiskOK, BufferOK, WriteOK, LoadOK, AnswerOK, nodeCount
<1>2. CASE Next
  BY <1>2, EditKeeps, OpenFailsKeeps, SaveOpenKeeps, WriteNodeKeeps, SaveResultKeeps,
     CloseKeeps, FlushKeeps, FlushFailsKeeps, LoadCountKeeps, LoadNodeKeeps,
     LoadDoneKeeps, CrashKeeps
  DEF Next, Save, Load
<1>. QED
  BY <1>1, <1>2

\* The inductive invariant: disk and buffer continue one another to a
\* beginning of the last save's image, and what was read begins its tree.
THEOREM Invariance == Spec => []IInv
<1>. QED
  BY InitIInv, NextKeeps, PTL DEF Spec

\* The file holds a count and nodes, and the locals keep their types
\* (AST_manager.cpp:27-60).
THEOREM TypeCorrect == Spec => []TypeOK
<1>1. IInv => TypeOK
  BY DEF IInv
<1>. QED
  BY Invariance, <1>1, PTL

\* loadFromFile answers true only with the tree the last save was given.
THEOREM NeverATornTree == Spec => []LoadedIsSaved
<1>1. IInv => LoadedIsSaved
  BY WholeFile DEF IInv, AnswerOK, LoadedIsSaved
<1>. QED
  BY Invariance, <1>1, PTL

\* saveToFile answers true only with a whole file, or after the stream has
\* failed in its destructor.
THEOREM SavesAreWhole == Spec => []SavedIsWhole
<1>1. IInv => SavedIsWhole
  BY WholeFile DEF IInv, AnswerOK, SavedIsWhole
<1>. QED
  BY Invariance, <1>1, PTL

-----------------------------------------------------------------------------
(* The refinement.  Reaching the disk is Flush; a load happens when its    *)
(* count is read, for nothing changes the file until it returns.           *)

\* What a load has promised once its count is read.
Promised == SubSeq(of, 1, Len(disk) - 1)

\* The missing file is the one of which nothing is on the disk.
LEMMA InitRefines == Init => Store!Init
<1>. SUFFICES ASSUME Init PROVE Store!Init
  OBVIOUS
<1>1. Len(disk) - 1 = -1
  BY DEF Init
<1>. QED
  BY <1>1 DEF Init, Loading, Store!Init

\* An action outside loads that leaves disk, tree and answer alone.
LEMMA Invisible ==
    ASSUME ~Loading, ~Loading',
           UNCHANGED <<disk, tree, answer, of>>,
           (pc \in {"save", "close"}) = (pc' \in {"save", "close"})
    PROVE  UNCHANGED Store!vars
BY DEF Store!vars

\* A unit that reaches the disk is one of the tree being saved.
LEMMA FlushRefines == IInv /\ Flush => Store!Reach
<1>. SUFFICES ASSUME IInv, Flush PROVE Store!Reach
  OBVIOUS
<1>1. /\ Len(buffer) \in Nat \ {0} /\ Len(disk) \in Nat /\ Len(of) \in Nat
      /\ pc \in {"save", "close"} /\ good /\ i \in Nat
      /\ Len(disk') = Len(disk) + 1
  BY DEF IInv, TypeOK, BufferOK, Flush
<1>2. Len(disk) - 1 # Len(of) /\ Len(disk') - 1 = (Len(disk) - 1) + 1
  BY <1>1 DEF IInv, WriteOK
<1>. QED
  BY <1>1, <1>2 DEF Flush, Loading, Store!Reach, Store!Whole

\* A save that answers false has not written a whole file.
LEMMA CloseRefines == IInv /\ Close => Store!SaveEnd
<1>. SUFFICES ASSUME IInv, Close PROVE Store!SaveEnd
  OBVIOUS
<1>1. ~ok => Len(disk) - 1 # Len(of)
  BY DEF IInv, TypeOK, WriteOK, Close
<1>. QED
  BY <1>1 DEF Close, Return, Loading, Store!SaveEnd, Store!Whole

\* Reading the count decides what the load delivers.
LEMMA LoadCountRefines == IInv /\ LoadCount => Store!Load
<1>. SUFFICES ASSUME IInv, LoadCount PROVE Store!Load
  OBVIOUS
<1>. USE DEF LoadCount
<1>1. CASE disk = <<>>
  <2>1. Len(disk) - 1 = -1 /\ Len(of) \in Nat
    BY <1>1 DEF IInv, TypeOK
  <2>2. Len(disk) - 1 # Len(of)
    BY <2>1
  <2>. QED
    BY <1>1, <2>1, <2>2 DEF Return, Loading, Store!Load, Store!Whole
<1>2. CASE disk # <<>>
  <2>1. nodeCount = Len(of) /\ Len(disk) - 1 # -1
    BY <1>2, CountRead DEF IInv
  <2>. QED
    BY <1>2, <2>1 DEF Loading, nodeCount, Store!Load, Store!Whole
<1>. QED
  BY <1>1, <1>2

\* A load that comes to its end delivers what it has promised.
LEMMA LoadNodeRefines == IInv /\ LoadNode => UNCHANGED Store!vars
<1>. SUFFICES ASSUME IInv, LoadNode PROVE UNCHANGED Store!vars
  OBVIOUS
<1>. USE DEF LoadNode
<1>1. CASE i + 2 <= Len(disk)
  BY <1>1 DEF Loading, nodeCount, Store!vars
<1>2. CASE ~(i + 2 <= Len(disk))
  <2>1. /\ tree \in Seq(Node) /\ of \in Seq(Node) /\ Len(disk) \in Nat /\ Len(of) \in Nat
        /\ i = Len(tree) /\ i \in Nat /\ i <= Len(disk) - 1
        /\ \A k \in 1 .. i : tree[k] = of[k]
        /\ nodeCount = Len(of) /\ i < nodeCount
    BY CountRead DEF IInv, TypeOK, LoadOK
  <2>2. i = Len(disk) - 1
    BY <1>2, <2>1
  <2>3. tree = Promised
    <3>1. Len(tree) <= Len(of) /\ \A k \in 1 .. Len(tree) : tree[k] = of[k]
      BY <2>1
    <3>2. tree = SubSeq(of, 1, Len(tree))
      BY <2>1, <3>1, BeginningOf
    <3>. QED  BY <2>1, <2>2, <3>2 DEF Promised
  <2>4. Len(disk) - 1 # nodeCount
    BY <2>1, <2>2
  <2>. QED
    BY <1>2, <2>3, <2>4 DEF Return, Loading, Promised, Store!vars
<1>. QED
  BY <1>1, <1>2 DEF IInv, TypeOK

\* A load that has read all nodes delivers what it promised.
LEMMA LoadDoneRefines == IInv /\ LoadDone => UNCHANGED Store!vars
<1>. SUFFICES ASSUME IInv, LoadDone PROVE UNCHANGED Store!vars
  OBVIOUS
<1>. USE DEF LoadDone
<1>1. tree = of /\ Len(disk) = Len(of) + 1 /\ nodeCount = Len(of)
  BY AllRead, CountRead DEF IInv, LoadOK
<1>2. of \in Seq(Node) /\ Len(of) \in Nat
  BY DEF IInv, TypeOK
<1>3. Len(disk) - 1 = Len(of)
  BY <1>1, <1>2
<1>4. tree = Promised
  BY <1>1, <1>2, <1>3, BeginningOf DEF Promised
<1>. QED
  BY <1>1, <1>3, <1>4 DEF Return, Loading, Promised, Store!vars

\* Every step is a step of AstStore or changes nothing in it.
LEMMA NextRefines == IInv /\ [Next]_vars => [Store!Next]_Store!vars
<1>. SUFFICES ASSUME IInv, [Next]_vars PROVE [Store!Next]_Store!vars
  OBVIOUS
<1>1. CASE UNCHANGED vars
  BY <1>1 DEF vars, Loading, nodeCount, Store!vars
<1>2. CASE Edit
  BY <1>2 DEF Edit, Loading, Store!Next, Store!Edit
<1>3. CASE OpenFails
  BY <1>3 DEF OpenFails, Return, Loading, Store!Next, Store!Refused
<1>4. CASE SaveOpen
  <2>1. Len(disk') - 1 = -1
    BY <1>4 DEF SaveOpen
  <2>. QED  BY <1>4, <2>1 DEF SaveOpen, Loading, Store!Next, Store!SaveBegin
<1>5. CASE WriteNode
  BY <1>5, Invisible DEF WriteNode, Loading
<1>6. CASE SaveResult
  BY <1>6, Invisible DEF SaveResult, Loading
<1>7. CASE Close
  BY <1>7, CloseRefines DEF Store!Next
<1>8. CASE Flush
  BY <1>8, FlushRefines DEF Store!Next
<1>9. CASE FlushFails
  <2>1. pc \in {"save", "close"}
    BY <1>9 DEF FlushFails, IInv, BufferOK
  <2>. QED  BY <1>9, <2>1, Invisible DEF FlushFails, Loading
<1>10. CASE LoadCount
  BY <1>10, LoadCountRefines DEF Store!Next
<1>11. CASE LoadNode
  BY <1>11, LoadNodeRefines
<1>12. CASE LoadDone
  BY <1>12, LoadDoneRefines
<1>13. CASE Crash
  BY <1>13 DEF Crash, Return, Loading, Store!Next, Store!Crash
<1>. QED
  BY <1>1, <1>2, <1>3, <1>4, <1>5, <1>6, <1>7, <1>8, <1>9, <1>10, <1>11, <1>12, <1>13
  DEF Next, Save, Load

\* saveToFile and loadFromFile implement AstStore: a load gives what reached
\* the disk of the last save, and says whether that is the whole tree.
THEOREM Refinement == Spec => ImplementsAstStore
<1>. QED
  BY Invariance, InitRefines, NextRefines, PTL DEF Spec, ImplementsAstStore, Store!Spec
=============================================================================
