------------------------------- MODULE AstFile -------------------------------
(***************************************************************************)
(* ASTManager::saveToFile and loadFromFile: the number of nodes, then the  *)
(* nodes, through a buffered stream into one file.                         *)
(*                                                                         *)
(* The file is a sequence of units, the count and the nodes.  A unit of    *)
(* which only some bytes are there reads as the end of the file, so it is  *)
(* not on the disk; a missing file reads as an empty one.  The stream and  *)
(* the disk are external: buffered units reach the disk in order, one at a *)
(* time, until the stream fails, after which it takes nothing.             *)
(***************************************************************************)
EXTENDS Integers, Sequences

CONSTANTS
    Node,   \* the contents of nodes
    Tree    \* the trees the program builds

ASSUME TreeAssumption == Tree \subseteq Seq(Node)

VARIABLES
    disk,     \* the file
    buffer,   \* written and not yet on the disk
    good,     \* the stream has not failed
    tree,     \* the tree in memory: argument of a save, outTree of a load
    i,        \* the loop's index
    ok,       \* what saveToFile is about to return
    pc,       \* "idle", "save", "close" (the stream's destructor) or "load"
    answer,   \* what the last call returned
    of,       \* history: the tree whose save began last
    lost      \* history: its stream failed in the destructor

vars == <<disk, buffer, good, tree, i, ok, pc, answer, of, lost>>

\* The file of tree t.
Image(t) == [k \in 1 .. Len(t) + 1 |-> IF k = 1 THEN Len(t) ELSE t[k - 1]]

nodeCount == disk[1]

\* Answer a and be idle.
Return(a) == pc' = "idle" /\ answer' = a

-----------------------------------------------------------------------------

Init ==
    /\ disk = <<>> /\ buffer = <<>> /\ good = TRUE
    /\ tree = <<>> /\ i = 0 /\ ok = FALSE
    /\ pc = "idle" /\ answer = "none" /\ of = <<>> /\ lost = FALSE

\* The program builds another tree.
Edit ==
    /\ pc = "idle"
    /\ tree' \in Tree
    /\ answer' = "none"
    /\ UNCHANGED <<disk, buffer, good, i, ok, pc, of, lost>>

OpenFails ==
    /\ pc = "idle"
    /\ \E a \in {"unsaved", "unloaded"} : Return(a)
    /\ UNCHANGED <<disk, buffer, good, tree, i, ok, of, lost>>

\* Opening truncates the file; the count is written first.
SaveOpen ==
    /\ pc = "idle"
    /\ pc' = "save" /\ answer' = "none"
    /\ disk' = <<>> /\ buffer' = <<Len(tree)>> /\ good' = TRUE
    /\ i' = 0
    /\ of' = tree /\ lost' = FALSE
    /\ UNCHANGED <<tree, ok>>

\* A failed stream takes nothing.
WriteNode ==
    /\ pc = "save" /\ i < Len(tree)
    /\ buffer' = IF good THEN Append(buffer, tree[i + 1]) ELSE buffer
    /\ i' = i + 1
    /\ UNCHANGED <<disk, good, tree, ok, pc, answer, of, lost>>

\* A fault: the stream's state is not asked.
SaveResultAlways ==
    /\ pc = "save" /\ i = Len(tree)
    /\ ok' = TRUE
    /\ pc' = "close"
    /\ UNCHANGED <<disk, buffer, good, tree, i, answer, of, lost>>

\* return file.good(), which comes before the destructor flushes the rest.
SaveResult ==
    /\ pc = "save" /\ i = Len(tree)
    /\ ok' = good
    /\ pc' = "close"
    /\ UNCHANGED <<disk, buffer, good, tree, i, answer, of, lost>>

Close ==
    /\ pc = "close" /\ buffer = <<>>
    /\ Return(IF ok THEN "saved" ELSE "unsaved")
    /\ UNCHANGED <<disk, buffer, good, tree, i, ok, of, lost>>

\* The stream, while it is open.
Flush ==
    /\ buffer # <<>>
    /\ disk' = Append(disk, Head(buffer))
    /\ buffer' = Tail(buffer)
    /\ UNCHANGED <<good, tree, i, ok, pc, answer, of, lost>>

FlushFails ==
    /\ buffer # <<>>
    /\ buffer' = <<>> /\ good' = FALSE
    /\ lost' = (pc = "close")
    /\ UNCHANGED <<disk, tree, i, ok, pc, answer, of>>

\* A fault: the tree is cleared before the count is known.
LoadCountClearing ==
    /\ pc = "idle"
    /\ tree' = <<>>
    /\ IF disk = <<>>
       THEN /\ Return("unloaded")
            /\ UNCHANGED i
       ELSE /\ pc' = "load" /\ answer' = "none"
            /\ i' = 0
    /\ UNCHANGED <<disk, buffer, good, ok, of, lost>>

\* A fault: the tree is not cleared.
LoadCountKeeping ==
    /\ pc = "idle"
    /\ IF disk = <<>>
       THEN /\ Return("unloaded")
            /\ UNCHANGED i
       ELSE /\ pc' = "load" /\ answer' = "none"
            /\ i' = 0
    /\ UNCHANGED <<disk, buffer, good, tree, ok, of, lost>>

\* Read the count; only then is outTree cleared.
LoadCount ==
    /\ pc = "idle"
    /\ IF disk = <<>>
       THEN /\ Return("unloaded")
            /\ UNCHANGED <<tree, i>>
       ELSE /\ pc' = "load" /\ answer' = "none"
            /\ tree' = <<>> /\ i' = 0
    /\ UNCHANGED <<disk, buffer, good, ok, of, lost>>

\* A fault: the first node is read where the count is.
LoadNodeEarly ==
    /\ pc = "load" /\ i < nodeCount
    /\ IF i + 1 <= Len(disk)
       THEN /\ tree' = Append(tree, disk[i + 1])
            /\ i' = i + 1
            /\ UNCHANGED <<pc, answer>>
       ELSE /\ Return("unloaded")
            /\ UNCHANGED <<tree, i>>
    /\ UNCHANGED <<disk, buffer, good, ok, of, lost>>

\* A short read leaves what was read so far in outTree.
LoadNode ==
    /\ pc = "load" /\ i < nodeCount
    /\ IF i + 2 <= Len(disk)
       THEN /\ tree' = Append(tree, disk[i + 2])
            /\ i' = i + 1
            /\ UNCHANGED <<pc, answer>>
       ELSE /\ Return("unloaded")
            /\ UNCHANGED <<tree, i>>
    /\ UNCHANGED <<disk, buffer, good, ok, of, lost>>

LoadDone ==
    /\ pc = "load" /\ i = nodeCount
    /\ Return("loaded")
    /\ UNCHANGED <<disk, buffer, good, tree, i, ok, of, lost>>

\* The process dies; what the stream still buffered is gone.
Crash ==
    /\ Return("none")
    /\ tree' = <<>> /\ buffer' = <<>> /\ i' = 0
    /\ good' = FALSE /\ ok' = FALSE
    /\ UNCHANGED <<disk, of, lost>>

Save == SaveOpen \/ WriteNode \/ SaveResult \/ Close
Load == LoadCount \/ LoadNode \/ LoadDone

Next == Edit \/ OpenFails \/ Save \/ Flush \/ FlushFails \/ Load \/ Crash

Spec == Init /\ [][Next]_vars

-----------------------------------------------------------------------------
(* Properties.                                                             *)

\* Every variable has its type.
TypeOK ==
    /\ disk \in Seq(Node \cup Nat)
    /\ buffer \in Seq(Node \cup Nat)
    /\ good \in BOOLEAN /\ ok \in BOOLEAN /\ lost \in BOOLEAN
    /\ tree \in Seq(Node) /\ of \in Seq(Node)
    /\ i \in Nat
    /\ pc \in {"idle", "save", "close", "load"}
    /\ answer \in {"none", "saved", "unsaved", "loaded", "unloaded"}

\* loadFromFile answers true only with the tree the last save was given:
\* never a part of one, never two trees mixed, whatever crash or failing
\* write cut that save short.  (AST_manager.cpp:41-60.)
LoadedIsSaved == answer = "loaded" => tree = of /\ disk = Image(of)

\* saveToFile answers true only if the file is whole, unless the stream
\* failed while it was closed, which no call reports.  (AST_manager.cpp:38.)
SavedIsWhole == answer = "saved" => lost \/ disk = Image(of)

\* During a load the abstract load has happened: disk and count decide it.
Loading == pc = "load"

Store == INSTANCE AstStore WITH
    have   <- Len(disk) - 1,
    saving <- pc \in {"save", "close"},
    tree   <- IF Loading THEN SubSeq(of, 1, Len(disk) - 1) ELSE tree,
    answer <- IF ~Loading THEN answer
              ELSE IF Len(disk) - 1 = nodeCount THEN "loaded" ELSE "unloaded"

\* Saving and loading keep the promise of AstStore.
ImplementsAstStore == Store!Spec
=============================================================================
