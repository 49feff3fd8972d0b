------------------------------- MODULE AstStore -------------------------------
(***************************************************************************)
(* What saving and loading an AST promises.  A save replaces the file; of  *)
(* the tree it was given, some first nodes reach the disk.  A load gives   *)
(* exactly those nodes, and says whether they are the whole tree.          *)
(***************************************************************************)
EXTENDS Integers, Sequences

CONSTANTS
    Node,   \* the contents of nodes
    Tree    \* the trees the program builds

VARIABLES
    of,      \* the tree whose save began last
    have,    \* how many of its nodes are on the disk; -1 if not even their number
    saving,  \* a save is going on
    tree,    \* the tree in memory
    answer   \* what the last call returned

vars == <<of, have, saving, tree, answer>>

Whole == have = Len(of)

Init ==
    /\ of = <<>> /\ have = -1 /\ saving = FALSE
    /\ tree = <<>> /\ answer = "none"

\* The program builds another tree.
Edit ==
    /\ ~saving
    /\ tree' \in Tree
    /\ answer' = "none"
    /\ UNCHANGED <<of, have, saving>>

SaveBegin ==
    /\ ~saving
    /\ of' = tree /\ have' = -1 /\ saving' = TRUE
    /\ answer' = "none"
    /\ UNCHANGED tree

Reach ==
    /\ saving /\ ~Whole
    /\ have' = have + 1
    /\ UNCHANGED <<of, saving, tree, answer>>

\* A whole tree is never reported as not saved.
SaveEnd ==
    /\ saving
    /\ saving' = FALSE
    /\ answer' \in {"saved", "unsaved"}
    /\ Whole => answer' = "saved"
    /\ UNCHANGED <<of, have, tree>>

\* The file cannot be opened: nothing happens to it or to the tree.
Refused ==
    /\ ~saving
    /\ answer' \in {"unsaved", "unloaded"}
    /\ UNCHANGED <<of, have, saving, tree>>

Load ==
    /\ ~saving
    /\ tree' = IF have = -1 THEN tree ELSE SubSeq(of, 1, have)
    /\ answer' = IF Whole THEN "loaded" ELSE "unloaded"
    /\ UNCHANGED <<of, have, saving>>

\* The process dies and another one begins.
Crash ==
    /\ tree' = <<>> /\ answer' = "none" /\ saving' = FALSE
    /\ UNCHANGED <<of, have>>

Next == Edit \/ SaveBegin \/ Reach \/ SaveEnd \/ Refused \/ Load \/ Crash

Spec == Init /\ [][Next]_vars
=============================================================================
