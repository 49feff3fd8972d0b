------------------------------ MODULE FileStore ------------------------------
(***************************************************************************)
(* What FileManager promises its callers: a stack of files, each under its *)
(* name and loaded once, whose contents have Unix line ends and do not     *)
(* change while they are loaded.                                           *)
(***************************************************************************)
EXTENDS Integers, SequencesExt

CONSTANTS
    Name,       \* names files are loaded under
    Raw,        \* contents files can have on disk, any line ends
    View,       \* contents a caller can register from memory
    MaxEntries  \* bound of the instance: files loaded at a time

VARIABLES
    files,   \* the directory: name -> raw content, partial; others write it
    store,   \* the loaded files, oldest first
    result   \* what the last call returned

NoFile == [name |-> <<>>, content |-> <<>>]

\* Each \r\n and each \r alone is one \n.
UnixLines(raw) ==
    LET kept  == {i \in DOMAIN raw : ~(i > 1 /\ raw[i-1] = "CR" /\ raw[i] = "LF")}
        rank  == [i \in kept |-> Cardinality({j \in kept : j <= i})]
    IN  [k \in 1 .. Cardinality(kept) |->
            LET i == CHOOSE j \in kept : rank[j] = k
            IN  IF raw[i] = "CR" THEN "LF" ELSE raw[i]]

Directory == UNION {[S -> Raw] : S \in SUBSET Name}

Cached(n) == {i \in DOMAIN store : store[i].name = n}

\* Return file e, loading it if it is new.
Obtain(n, content) ==
    IF Cached(n) # {}
    THEN /\ result' \in {store[i] : i \in Cached(n)}
         /\ UNCHANGED store
    ELSE /\ result' = [name |-> n, content |-> content]
         /\ store' = Append(store, result')

Load(n) ==
    /\ IF Cached(n) = {} /\ n \notin DOMAIN files
       THEN result' = NoFile /\ UNCHANGED store
       ELSE Obtain(n, IF Cached(n) = {} THEN UnixLines(files[n]) ELSE <<>>)
    /\ UNCHANGED files

Register(n, view) == Obtain(n, view) /\ UNCHANGED files

Drop ==
    /\ store' = IF store = <<>> THEN <<>> ELSE Front(store)
    /\ result' = NoFile
    /\ UNCHANGED files

\* Somebody else writes the directory.
Rewrite ==
    /\ files' \in Directory
    /\ UNCHANGED <<store, result>>

Init == files \in Directory /\ store = <<>> /\ result = NoFile

Next == \/ \E n \in Name : Load(n) \/ \E view \in View : Register(n, view)
        \/ Drop
        \/ Rewrite

Spec == Init /\ [][Next]_<<files, store, result>>
=============================================================================
