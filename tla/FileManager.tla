----------------------------- MODULE FileManager -----------------------------
(***************************************************************************)
(* FileManager: every loaded file lies in one buffer, as its name, a NUL   *)
(* and its content; callers hold offsets into that buffer.                 *)
(*                                                                         *)
(* loadFile reads a file to the end of the buffer and brings its line ends *)
(* to \n in place, with a read and a write index in the same bytes, before *)
(* it shrinks the buffer.  Each iteration of that loop is one action.      *)
(***************************************************************************)
EXTENDS Integers, SequencesExt

CONSTANTS
    Name,        \* names passed to loadFile and loadFromView, as bytes
    EmptyName,   \* _EMPTY_SV, the one name _findFile refuses to look up
    Raw,         \* contents of files on disk, as bytes
    View,        \* contents passed to loadFromView
    MaxEntries   \* bound of the instance: files loaded at a time

Byte == (UNION {ToSet(s) : s \in Name \cup Raw \cup View}) \cup {"NUL", "LF"}

ASSUME NameAssumption ==
    /\ Name \subseteq Seq(Byte) \ {<<>>}
    /\ \A n \in Name : "NUL" \notin ToSet(n)
ASSUME ContentAssumption == Raw \cup View \subseteq Seq(Byte)
ASSUME BoundAssumption   == MaxEntries \in Nat

VARIABLES
    files,    \* the directory below src_path; other programs write it
    data,     \* the buffer
    loaded,   \* the index: one FileInfo per loaded file
    result,   \* the FileInfo the last call returned
    pc,       \* "idle" between calls, "normalise" inside loadFile's loop
    load      \* locals of loadFile: name, current_offset, r, sanitized_len

vars == <<files, data, loaded, result, pc, load>>

\* FileInfo: where the entry begins, and the sizes of its name and content.
Info == [offset_begin : Nat, name_size : Nat, file_size : Nat]

NotFound == [offset_begin |-> 0, name_size |-> 0, file_size |-> 0]

Idle == [name |-> <<>>, offset |-> 0, r |-> 0, sanitized |-> 0]

\* Bytes are counted from 0 in the code.
Bytes(from, size) == SubSeq(data, from + 1, from + size)

cOffset(f)  == f.offset_begin + f.name_size + 1
getName(f)  == Bytes(f.offset_begin, f.name_size)
Content(f)  == Bytes(cOffset(f), f.file_size)
EntryEnd(f) == cOffset(f) + f.file_size

\* A fault: only the newest entry is looked at.
findNewest(n) ==
    IF loaded # <<>> /\ getName(Last(loaded)) = n THEN Last(loaded) ELSE NotFound

\* The first entry of that name.
findFile(n) ==
    LET found == {i \in DOMAIN loaded : getName(loaded[i]) = n}
    IN  IF n = EmptyName \/ found = {} THEN NotFound ELSE loaded[Min(found)]

Entry(n, content) == n \o <<"NUL">> \o content

Directory == UNION {[S -> Raw] : S \in SUBSET Name}

-----------------------------------------------------------------------------

\* The file is in the index: nothing is read, even if the disk has changed.
ReturnCached(n) ==
    /\ pc = "idle"
    /\ findFile(n) # NotFound
    /\ result' = findFile(n)
    /\ UNCHANGED <<files, data, loaded, pc, load>>

LoadMissing(n) ==
    /\ pc = "idle"
    /\ findFile(n) = NotFound
    /\ n \notin DOMAIN files
    /\ result' = NotFound
    /\ UNCHANGED <<files, data, loaded, pc, load>>

\* Grow the buffer to the upper bound and read the raw bytes into it.
LoadBegin(n) ==
    /\ pc = "idle"
    /\ findFile(n) = NotFound
    /\ n \in DOMAIN files
    /\ Len(loaded) < MaxEntries
    /\ data' = data \o Entry(n, files[n])
    /\ load' = [name |-> n, offset |-> Len(data), r |-> 0, sanitized |-> 0]
    /\ pc' = "normalise"
    /\ UNCHANGED <<files, loaded, result>>

\* content_dest and raw_content_len of the load in progress.
dest   == load.offset + Len(load.name) + 1
rawLen == Len(data) - dest
Src(r) == data[dest + r + 1]

\* Faults: every \r is taken for the first half of \r\n, and a lone \r is
\* kept.
NormaliseBlindly ==
    /\ pc = "normalise"
    /\ load.r < rawLen
    /\ LET isCR == Src(load.r) = "CR"
       IN  /\ data' = [data EXCEPT ![dest + load.sanitized + 1] =
                          IF isCR THEN "LF" ELSE Src(load.r)]
           /\ load' = [load EXCEPT !.r = load.r + (IF isCR THEN 2 ELSE 1),
                                   !.sanitized = load.sanitized + 1]
    /\ UNCHANGED <<files, loaded, result, pc>>

NormalisePairs ==
    /\ pc = "normalise"
    /\ load.r < rawLen
    /\ LET pair == /\ Src(load.r) = "CR"
                   /\ load.r + 1 < rawLen
                   /\ Src(load.r + 1) = "LF"
       IN  /\ data' = [data EXCEPT ![dest + load.sanitized + 1] =
                          IF pair THEN "LF" ELSE Src(load.r)]
           /\ load' = [load EXCEPT !.r = load.r + (IF pair THEN 2 ELSE 1),
                                   !.sanitized = load.sanitized + 1]
    /\ UNCHANGED <<files, loaded, result, pc>>

NormaliseByte ==
    /\ pc = "normalise"
    /\ load.r < rawLen
    /\ LET isCR == Src(load.r) = "CR"
           pair == isCR /\ load.r + 1 < rawLen /\ Src(load.r + 1) = "LF"
       IN  /\ data' = [data EXCEPT ![dest + load.sanitized + 1] =
                          IF isCR THEN "LF" ELSE Src(load.r)]
           /\ load' = [load EXCEPT !.r = load.r + (IF pair THEN 2 ELSE 1),
                                   !.sanitized = load.sanitized + 1]
    /\ UNCHANGED <<files, loaded, result, pc>>

\* A fault: the entry is indexed without its last byte.
LoadEndShort ==
    /\ pc = "normalise"
    /\ load.r >= rawLen
    /\ data' = SubSeq(data, 1, dest + load.sanitized)
    /\ result' = [offset_begin |-> load.offset, name_size |-> Len(load.name),
                  file_size |-> load.sanitized - 1]
    /\ loaded' = Append(loaded, result')
    /\ pc' = "idle"
    /\ load' = Idle
    /\ UNCHANGED files

\* Shrink the buffer to what was written and index the entry.
LoadEnd ==
    /\ pc = "normalise"
    /\ load.r >= rawLen
    /\ data' = SubSeq(data, 1, dest + load.sanitized)
    /\ result' = [offset_begin |-> load.offset, name_size |-> Len(load.name),
                  file_size |-> load.sanitized]
    /\ loaded' = Append(loaded, result')
    /\ pc' = "idle"
    /\ load' = Idle
    /\ UNCHANGED files

\* Text from memory is stored as it is, line ends included.
LoadFromView(n, view) ==
    /\ pc = "idle"
    /\ findFile(n) = NotFound
    /\ Len(loaded) < MaxEntries
    /\ data' = data \o Entry(n, view)
    /\ result' = [offset_begin |-> Len(data), name_size |-> Len(n),
                  file_size |-> Len(view)]
    /\ loaded' = Append(loaded, result')
    /\ UNCHANGED <<files, pc, load>>

\* A fault: the name stays in the buffer.
PopContent ==
    /\ pc = "idle"
    /\ IF loaded = <<>>
       THEN UNCHANGED <<data, loaded>>
       ELSE /\ loaded' = Front(loaded)
            /\ data' = SubSeq(data, 1, cOffset(Last(loaded)))
    /\ result' = NotFound
    /\ UNCHANGED <<files, pc, load>>

\* Forget the newest file and release its bytes; returns nothing.
Pop ==
    /\ pc = "idle"
    /\ IF loaded = <<>>
       THEN UNCHANGED <<data, loaded>>
       ELSE /\ loaded' = Front(loaded)
            /\ data' = SubSeq(data, 1, Last(loaded).offset_begin)
    /\ result' = NotFound
    /\ UNCHANGED <<files, pc, load>>

\* Another program writes one file or removes it.  Reading a file is one
\* step, so this happens between calls.
Rewrite ==
    /\ pc = "idle"
    /\ \E n \in Name :
          \/ \E raw \in Raw :
                files' = [m \in DOMAIN files \cup {n} |-> IF m = n THEN raw ELSE files[m]]
          \/ files' = Restrict(files, DOMAIN files \ {n})
    /\ UNCHANGED <<data, loaded, result, pc, load>>

Init ==
    /\ files \in Directory
    /\ data = <<>>
    /\ loaded = <<>>
    /\ result = NotFound
    /\ pc = "idle"
    /\ load = Idle

Next ==
    \/ \E n \in Name : \/ ReturnCached(n)
                       \/ LoadMissing(n)
                       \/ LoadBegin(n)
                       \/ \E view \in View : LoadFromView(n, view)
    \/ NormaliseByte
    \/ LoadEnd
    \/ Pop
    \/ Rewrite

Spec == Init /\ [][Next]_vars

-----------------------------------------------------------------------------
(* Properties.                                                             *)

TypeOK ==
    /\ files \in Directory
    /\ data \in Seq(Byte)
    /\ loaded \in Seq(Info)
    /\ result \in Info
    /\ pc \in {"idle", "normalise"}
    /\ load \in [name : Name \cup {<<>>}, offset : Nat, r : Nat, sanitized : Nat]

\* Where the bytes of the indexed entries end.
IndexedEnd == IF loaded = <<>> THEN 0 ELSE EntryEnd(Last(loaded))

\* The entries tile the buffer: the first begins at 0, each begins where the
\* one before it ends, and between calls the last ends with the buffer.  So
\* no offset a caller holds can reach into another file, and pop, which cuts
\* the buffer at the last entry's begin, releases that entry and no other.
EntriesTile ==
    /\ \A i \in DOMAIN loaded :
          loaded[i].offset_begin = IF i = 1 THEN 0 ELSE EntryEnd(loaded[i-1])
    /\ pc = "idle" => IndexedEnd = Len(data)
    /\ pc = "normalise" => load.offset = IndexedEnd /\ dest <= Len(data)

\* In-place normalisation never overtakes itself: the write index stays at
\* or behind the read index, which stays inside the raw bytes.
WriteBehindRead ==
    pc = "normalise" => load.sanitized <= load.r /\ load.r <= rawLen

\* A name is loaded once, however often it is asked for and whatever happens
\* to the file on disk; its entry carries it.
LoadedOnce ==
    \A i, j \in DOMAIN loaded :
        getName(loaded[i]) = getName(loaded[j]) => i = j

\* FileManager implements FileStore.
Store == INSTANCE FileStore WITH
    store  <- [i \in DOMAIN loaded |->
                  [name |-> getName(loaded[i]), content |-> Content(loaded[i])]],
    result <- IF result = NotFound THEN [name |-> <<>>, content |-> <<>>]
              ELSE [name |-> getName(result), content |-> Content(result)]

ImplementsFileStore == Store!Spec
=============================================================================
