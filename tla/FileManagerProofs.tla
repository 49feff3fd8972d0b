-------------------------- MODULE FileManagerProofs --------------------------
(***************************************************************************)
(* Theorems about FileManager, for all names, contents and numbers of      *)
(* files: its entries tile the buffer, normalising line ends in place      *)
(* never overwrites a byte it has not read, a name is loaded once, and it  *)
(* implements FileStore.                                                   *)
(***************************************************************************)
EXTENDS FileManager, OrderProofs, SequenceTheorems

IInv == TypeOK /\ EntriesTile /\ WriteBehindRead

\* The bytes of a name, a file on disk and a text from memory.
LEMMA Contents ==
    /\ \A n \in Name : n \in Seq(Byte)
    /\ \A raw \in Raw : raw \in Seq(Byte)
    /\ \A view \in View : view \in Seq(Byte)
    /\ "NUL" \in Byte /\ "LF" \in Byte
<1>1. "NUL" \in Byte /\ "LF" \in Byte
  BY DEF Byte
<1>2. \A n \in Name : n \in Seq(Byte)
  BY NameAssumption
<1>3. \A c \in Raw \cup View : c \in Seq(Byte)
  BY ContentAssumption
<1>. QED
  BY <1>1, <1>2, <1>3

\* A file of the directory has one of the contents considered.
LEMMA FileContent ==
    ASSUME TypeOK, NEW n \in DOMAIN files
    PROVE  files[n] \in Seq(Byte)
<1>1. PICK S \in SUBSET Name : files \in [S -> Raw]
  BY DEF TypeOK, Directory
<1>2. files[n] \in Raw
  BY <1>1
<1>. QED
  BY <1>2, Contents

\* findFile returns an entry of the index or NotFound.
LEMMA FoundInfo ==
    ASSUME TypeOK, NEW n
    PROVE  findFile(n) \in Info
<1> DEFINE found == {i \in DOMAIN loaded : getName(loaded[i]) = n}
<1>1. NotFound \in Info
  BY DEF NotFound, Info
<1>2. loaded \in Seq(Info) /\ found \subseteq DOMAIN loaded /\ found \subseteq Nat
  BY DEF TypeOK
<1>3. CASE n = EmptyName \/ found = {}
  BY <1>1, <1>3 DEF findFile
<1>4. CASE ~(n = EmptyName \/ found = {})
  <2>1. Min(found) \in found
    <3>. HIDE DEF found
    <3>. QED  BY <1>2, <1>4, MinNat
  <2>2. loaded[Min(found)] \in Info
    <3>. HIDE DEF found
    <3>. QED  BY <1>2, <2>1
  <2>3. findFile(n) = loaded[Min(found)]
    BY <1>4 DEF findFile
  <2>. QED  BY <2>2, <2>3
<1>. QED
  BY <1>3, <1>4

\* Where the entries end is an index of the buffer.
LEMMA LastEntry ==
    ASSUME TypeOK, loaded # <<>>
    PROVE  /\ Last(loaded) \in Info /\ Last(loaded) = loaded[Len(loaded)]
           /\ Len(loaded) \in Nat \ {0} /\ DOMAIN loaded = 1 .. Len(loaded)
           /\ EntryEnd(Last(loaded)) \in Nat
           /\ Last(loaded).offset_begin \in Nat
           /\ Last(loaded).offset_begin <= EntryEnd(Last(loaded))
<1>1. /\ loaded \in Seq(Info) /\ Len(loaded) \in Nat \ {0}
      /\ DOMAIN loaded = 1 .. Len(loaded) /\ Len(loaded) \in DOMAIN loaded
  BY DEF TypeOK
<1>2. Last(loaded) \in Info /\ Last(loaded) = loaded[Len(loaded)]
  BY <1>1 DEF Last
<1>. QED
  BY <1>1, <1>2 DEF Info, EntryEnd, cOffset

\* Appending an entry behind the last keeps the tiling.
LEMMA AppendEntry ==
    ASSUME TypeOK, EntriesTile, NEW e \in Info, e.offset_begin = IndexedEnd,
           loaded' = Append(loaded, e), pc' = "idle",
           data' \in Seq(Byte), Len(data') = EntryEnd(e)
    PROVE  EntriesTile' /\ loaded' \in Seq(Info)
<1> DEFINE n == Len(loaded)
<1>1. loaded \in Seq(Info) /\ n \in Nat /\ DOMAIN loaded = 1 .. n
  BY DEF TypeOK
<1>2. /\ loaded' \in Seq(Info) /\ Len(loaded') = n + 1 /\ DOMAIN loaded' = 1 .. n + 1
      /\ loaded'[n + 1] = e
      /\ \A i \in 1 .. n : loaded'[i] = loaded[i]
  BY <1>1
<1>3. \A i \in 1 .. n :
         loaded[i].offset_begin = IF i = 1 THEN 0 ELSE EntryEnd(loaded[i-1])
  BY <1>1 DEF EntriesTile
<1>4. \A i \in 1 .. n : i # 1 => i - 1 \in 1 .. n
  BY <1>1
<1>5. \A i \in 1 .. n :
         loaded'[i].offset_begin = IF i = 1 THEN 0 ELSE EntryEnd(loaded'[i-1])
  BY <1>2, <1>3, <1>4
<1>6. loaded'[n + 1].offset_begin = IF n + 1 = 1 THEN 0 ELSE EntryEnd(loaded'[n])
  <2>1. CASE n = 0
    <3>1. IndexedEnd = 0
      BY <1>1, <2>1 DEF IndexedEnd
    <3>. QED  BY <1>2, <2>1, <3>1
  <2>2. CASE n # 0
    <3>1. IndexedEnd = EntryEnd(loaded[n]) /\ n \in 1 .. n
      BY <1>1, <2>2 DEF IndexedEnd, Last
    <3>2. loaded'[n] = loaded[n]
      BY <1>2, <3>1
    <3>. HIDE DEF n
    <3>. QED  BY <1>1, <1>2, <2>2, <3>1, <3>2
  <2>. QED  BY <2>1, <2>2
<1>7. \A i \in DOMAIN loaded' :
         loaded'[i].offset_begin = IF i = 1 THEN 0 ELSE EntryEnd(loaded'[i-1])
  <2>1. \A i \in DOMAIN loaded' : i \in 1 .. n \/ i = n + 1
    BY <1>1, <1>2
  <2>2. (n + 1) - 1 = n
    BY <1>1
  <2>. HIDE DEF n
  <2>. QED  BY <1>5, <1>6, <2>1, <2>2
<1>8. IndexedEnd' = EntryEnd(e)
  <2>1. loaded' # <<>> /\ Last(loaded') = e
    BY <1>1, <1>2 DEF Last
  <2>. QED  BY <2>1 DEF IndexedEnd, EntryEnd, cOffset
<1>. QED
  BY <1>2, <1>7, <1>8 DEF EntriesTile, EntryEnd, cOffset

-----------------------------------------------------------------------------

\* The empty buffer and index satisfy the invariant.
LEMMA InitIInv == Init => IInv
<1>. SUFFICES ASSUME Init PROVE IInv
  OBVIOUS
<1>1. TypeOK
  <2>1. data \in Seq(Byte) /\ loaded \in Seq(Info)
    BY DEF Init
  <2>2. result \in Info /\ load \in [name : Name \cup {<<>>}, offset : Nat, r : Nat, sanitized : Nat]
    BY DEF Init, NotFound, Info, Idle
  <2>. QED  BY <2>1, <2>2 DEF Init, TypeOK
<1>2. EntriesTile
  BY DEF Init, EntriesTile, IndexedEnd
<1>3. WriteBehindRead
  BY DEF Init, WriteBehindRead
<1>. QED
  BY <1>1, <1>2, <1>3 DEF IInv

\* A call that leaves the buffer and the index alone.
LEMMA CallKeeps ==
    ASSUME IInv, pc = "idle", UNCHANGED <<data, loaded, pc, load>>,
           files' \in Directory, result' \in Info
    PROVE  IInv'
<1>1. TypeOK'
  BY DEF IInv, TypeOK
<1>2. EntriesTile'
  BY DEF IInv, EntriesTile, IndexedEnd, EntryEnd, cOffset
<1>3. WriteBehindRead'
  BY DEF WriteBehindRead
<1>. QED
  BY <1>1, <1>2, <1>3 DEF IInv

\* Another program writing the directory disturbs nothing loaded.
LEMMA RewriteKeeps == ASSUME IInv, Rewrite PROVE IInv'
<1>1. pc = "idle" /\ UNCHANGED <<data, loaded, result, pc, load>>
  BY DEF Rewrite
<1>2. PICK S \in SUBSET Name : files \in [S -> Raw]
  BY DEF IInv, TypeOK, Directory
<1>3. PICK n \in Name : \/ \E raw \in Raw :
                              files' = [m \in DOMAIN files \cup {n} |->
                                           IF m = n THEN raw ELSE files[m]]
                        \/ files' = Restrict(files, DOMAIN files \ {n})
  BY DEF Rewrite
<1>4. files' \in Directory
  <2>1. CASE files' = Restrict(files, DOMAIN files \ {n})
    <3>1. files' \in [S \ {n} -> Raw]
      BY <1>2, <2>1 DEF Restrict
    <3>2. S \ {n} \in SUBSET Name
      BY <1>2
    <3>. QED  BY <3>1, <3>2 DEF Directory
  <2>2. CASE \E raw \in Raw : files' = [m \in DOMAIN files \cup {n} |->
                                           IF m = n THEN raw ELSE files[m]]
    <3>1. files' \in [S \cup {n} -> Raw]
      BY <1>2, <2>2
    <3>2. S \cup {n} \in SUBSET Name
      BY <1>2, <1>3
    <3>. QED  BY <3>1, <3>2 DEF Directory
  <2>. QED  BY <1>3, <2>1, <2>2
<1>5. result' \in Info
  BY <1>1 DEF IInv, TypeOK
<1>. QED
  BY <1>1, <1>4, <1>5, CallKeeps

\* The buffer with one more entry.
LEMMA MoreBytes ==
    ASSUME NEW d \in Seq(Byte), NEW n \in Seq(Byte), NEW c \in Seq(Byte)
    PROVE  /\ d \o Entry(n, c) \in Seq(Byte)
           /\ Len(d \o Entry(n, c)) = Len(d) + Len(n) + 1 + Len(c)
<1>1. <<"NUL">> \in Seq(Byte) /\ Len(<<"NUL">>) = 1
  BY Contents
<1>2. n \o <<"NUL">> \in Seq(Byte) /\ Len(n \o <<"NUL">>) = Len(n) + 1
  BY <1>1
<1>3. /\ Entry(n, c) \in Seq(Byte)
      /\ Len(Entry(n, c)) = Len(n) + 1 + Len(c)
  BY <1>2 DEF Entry
<1>4. PICK e \in Seq(Byte) : e = Entry(n, c)
  BY <1>3
<1>5. d \o e \in Seq(Byte) /\ Len(d \o e) = Len(d) + Len(e)
  OBVIOUS
<1>. QED
  BY <1>3, <1>4, <1>5

\* The buffer cut to its first m bytes.
LEMMA FewerBytes ==
    ASSUME NEW d \in Seq(Byte), NEW m \in 0 .. Len(d)
    PROVE  SubSeq(d, 1, m) \in Seq(Byte) /\ Len(SubSeq(d, 1, m)) = m
OBVIOUS

\* Growing the buffer for a new file leaves the indexed entries in place and
\* starts both indices at 0.
LEMMA LoadBeginKeeps ==
    ASSUME IInv, NEW n \in Name, LoadBegin(n)
    PROVE  IInv'
<1>1. /\ pc = "idle" /\ n \in DOMAIN files /\ pc' = "normalise"
      /\ data' = data \o Entry(n, files[n])
      /\ load' = [name |-> n, offset |-> Len(data), r |-> 0, sanitized |-> 0]
      /\ UNCHANGED <<files, loaded, result>>
  BY DEF LoadBegin
<1>2. /\ data \in Seq(Byte) /\ Len(data) \in Nat /\ n \in Seq(Byte) /\ Len(n) \in Nat
      /\ files[n] \in Seq(Byte) /\ Len(files[n]) \in Nat
  BY <1>1, FileContent, Contents DEF IInv, TypeOK
<1>3. /\ data' \in Seq(Byte)
      /\ Len(data') = Len(data) + Len(n) + 1 + Len(files[n])
  BY <1>1, <1>2, MoreBytes
<1>4. TypeOK'
  BY <1>1, <1>2, <1>3 DEF IInv, TypeOK
<1>5. dest' = Len(data) + Len(n) + 1 /\ load'.offset = Len(data)
  BY <1>1 DEF dest
<1>6. EntriesTile'
  <2>1. IndexedEnd' = IndexedEnd /\ IndexedEnd = Len(data)
    BY <1>1 DEF IInv, EntriesTile, IndexedEnd, EntryEnd, cOffset
  <2>2. dest' <= Len(data')
    <3> DEFINE a == Len(data)
               b == Len(n)
               c == Len(files[n])
    <3>1. /\ a \in Nat /\ b \in Nat /\ c \in Nat
          /\ dest' = a + b + 1 /\ Len(data') = a + b + 1 + c
      BY <1>2, <1>3, <1>5
    <3>. HIDE DEF a, b, c
    <3>. QED  BY <3>1
  <2>3. \A i \in DOMAIN loaded' :
           loaded'[i].offset_begin = IF i = 1 THEN 0 ELSE EntryEnd(loaded'[i-1])
    BY <1>1 DEF IInv, EntriesTile
  <2>. QED
    BY <1>1, <1>5, <2>1, <2>2, <2>3 DEF EntriesTile, EntryEnd, cOffset
<1>7. WriteBehindRead'
  <2>1. rawLen' = Len(files[n])
    BY <1>2, <1>3, <1>5 DEF rawLen
  <2>2. load'.sanitized <= load'.r /\ load'.r <= rawLen'
    BY <1>1, <1>2, <2>1
  <2>. QED  BY <2>2 DEF WriteBehindRead
<1>. QED
  BY <1>4, <1>6, <1>7 DEF IInv

\* The load in progress, in numbers.
LEMMA Loading ==
    ASSUME IInv, pc = "normalise"
    PROVE  /\ load.name \in Seq(Byte) /\ load.offset \in Nat
           /\ load.r \in Nat /\ load.sanitized \in Nat
           /\ dest \in Nat /\ dest <= Len(data) /\ Len(data) \in Nat
           /\ rawLen = Len(data) - dest /\ rawLen \in Nat
           /\ load.sanitized <= load.r /\ load.r <= rawLen
           /\ load.offset = IndexedEnd
           /\ dest = load.offset + Len(load.name) + 1 /\ Len(load.name) \in Nat
<1>1. /\ load.name \in Name \cup {<<>>} /\ load.offset \in Nat
      /\ load.r \in Nat /\ load.sanitized \in Nat /\ data \in Seq(Byte)
  BY DEF IInv, TypeOK
<1>2. load.name \in Seq(Byte) /\ Len(load.name) \in Nat /\ Len(data) \in Nat
  <2>1. load.name \in Seq(Byte)
    <3>1. CASE load.name \in Name
      BY <3>1, Contents
    <3>2. CASE load.name = <<>>
      BY <3>2
    <3>. QED  BY <1>1, <3>1, <3>2
  <2>. QED  BY <1>1, <2>1
<1>3. /\ dest \in Nat /\ dest <= Len(data) /\ load.offset = IndexedEnd
      /\ dest = load.offset + Len(load.name) + 1
  BY <1>1, <1>2 DEF dest, IInv, EntriesTile
<1>4. rawLen = Len(data) - dest /\ rawLen \in Nat
  BY <1>2, <1>3 DEF rawLen
<1>5. load.sanitized <= load.r /\ load.r <= rawLen
  BY DEF IInv, WriteBehindRead
<1>. QED
  BY <1>1, <1>2, <1>3, <1>4, <1>5

\* One byte or one \r\n read and one byte written, at or behind it.
LEMMA NormaliseKeeps == ASSUME IInv, NormaliseByte PROVE IInv'
<1> DEFINE isCR == Src(load.r) = "CR"
           pair == isCR /\ load.r + 1 < rawLen /\ Src(load.r + 1) = "LF"
           at   == dest + load.sanitized + 1
           byte == IF isCR THEN "LF" ELSE Src(load.r)
           r1   == load.r + (IF pair THEN 2 ELSE 1)
<1>1. /\ pc = "normalise" /\ load.r < rawLen
      /\ data' = [data EXCEPT ![at] = byte]
      /\ load' = [load EXCEPT !.r = r1, !.sanitized = load.sanitized + 1]
      /\ UNCHANGED <<files, loaded, result, pc>>
  BY DEF NormaliseByte
<1>2. /\ load.r \in Nat /\ load.sanitized \in Nat /\ load.sanitized <= load.r
      /\ dest \in Nat /\ Len(data) \in Nat /\ rawLen = Len(data) - dest
      /\ dest <= Len(data) /\ data \in Seq(Byte)
  BY <1>1, Loading DEF IInv, TypeOK
<1>3. byte \in Byte
  <2>1. dest + load.r + 1 \in 1 .. Len(data)
    BY <1>1, <1>2
  <2>2. Src(load.r) \in Byte
    BY <1>2, <2>1 DEF Src
  <2>. QED  BY <2>2, Contents
<1>4. r1 \in Nat /\ load.r + 1 <= r1 /\ r1 <= rawLen
  <2>. HIDE DEF isCR
  <2>. QED  BY <1>1, <1>2
<1>5. at \in 1 .. Len(data)
  BY <1>1, <1>2
<1>. HIDE DEF byte, r1, at
<1>6. data' \in Seq(Byte) /\ Len(data') = Len(data)
  BY <1>1, <1>2, <1>3, <1>5
<1>7. /\ load \in [name : Name \cup {<<>>}, offset : Nat, r : Nat, sanitized : Nat]
      /\ load' = [name |-> load.name, offset |-> load.offset, r |-> r1,
                  sanitized |-> load.sanitized + 1]
  BY <1>1 DEF IInv, TypeOK
<1>8. /\ load'.name = load.name /\ load'.offset = load.offset /\ load'.r = r1
      /\ load'.sanitized = load.sanitized + 1
  BY <1>7
<1>9. TypeOK'
  <2>1. load' \in [name : Name \cup {<<>>}, offset : Nat, r : Nat, sanitized : Nat]
    BY <1>2, <1>4, <1>7
  <2>. QED  BY <1>1, <1>6, <2>1 DEF IInv, TypeOK
<1>10. dest' = dest /\ rawLen' = rawLen
  <2>1. dest' = dest
    BY <1>8 DEF dest
  <2>. QED  BY <1>6, <2>1 DEF rawLen
<1>11. EntriesTile'
  <2>1. IndexedEnd' = IndexedEnd
    BY <1>1 DEF IndexedEnd, EntryEnd, cOffset
  <2>2. load'.offset = IndexedEnd' /\ dest' <= Len(data')
    BY <1>1, <1>2, <1>6, <1>8, <1>10, <2>1, Loading
  <2>3. \A i \in DOMAIN loaded' :
           loaded'[i].offset_begin = IF i = 1 THEN 0 ELSE EntryEnd(loaded'[i-1])
    BY <1>1 DEF IInv, EntriesTile
  <2>. QED
    BY <1>1, <2>2, <2>3 DEF EntriesTile, EntryEnd, cOffset
<1>12. WriteBehindRead'
  <2>1. load'.sanitized <= load'.r /\ load'.r <= rawLen'
    BY <1>2, <1>4, <1>8, <1>10
  <2>. QED  BY <2>1 DEF WriteBehindRead
<1>. QED
  BY <1>9, <1>11, <1>12 DEF IInv

\* Shrinking the buffer to what was written makes the new entry its last.
LEMMA LoadEndKeeps == ASSUME IInv, LoadEnd PROVE IInv'
<1> DEFINE e == [offset_begin |-> load.offset, name_size |-> Len(load.name),
                 file_size |-> load.sanitized]
<1>1. /\ pc = "normalise" /\ pc' = "idle" /\ load' = Idle /\ UNCHANGED files
      /\ data' = SubSeq(data, 1, dest + load.sanitized)
      /\ result' = e /\ loaded' = Append(loaded, e)
  BY DEF LoadEnd
<1>2. /\ load.offset \in Nat /\ load.sanitized \in Nat /\ load.r \in Nat
      /\ Len(load.name) \in Nat
      /\ dest \in Nat /\ Len(data) \in Nat /\ data \in Seq(Byte)
      /\ dest + load.sanitized <= Len(data)
      /\ load.offset = IndexedEnd /\ dest = load.offset + Len(load.name) + 1
  <2>1. data \in Seq(Byte)
    BY DEF IInv, TypeOK
  <2>. QED  BY <1>1, <2>1, Loading
<1>3. data' \in Seq(Byte) /\ Len(data') = dest + load.sanitized
  <2>1. dest + load.sanitized \in 0 .. Len(data)
    BY <1>2
  <2>. QED  BY <1>1, <1>2, <2>1, FewerBytes
<1>4. e \in Info /\ e.offset_begin = IndexedEnd /\ EntryEnd(e) = dest + load.sanitized
  BY <1>2 DEF Info, EntryEnd, cOffset
<1>. HIDE DEF e
<1>5. EntriesTile' /\ loaded' \in Seq(Info)
  BY <1>1, <1>3, <1>4, AppendEntry DEF IInv
<1>6. Idle \in [name : Name \cup {<<>>}, offset : Nat, r : Nat, sanitized : Nat]
  BY DEF Idle
<1>7. TypeOK'
  BY <1>1, <1>3, <1>4, <1>5, <1>6 DEF IInv, TypeOK
<1>8. WriteBehindRead'
  BY <1>1 DEF WriteBehindRead
<1>. QED
  BY <1>5, <1>7, <1>8 DEF IInv

\* Text registered from memory becomes the last entry, as it is.
LEMMA LoadFromViewKeeps ==
    ASSUME IInv, NEW n \in Name, NEW view \in View, LoadFromView(n, view)
    PROVE  IInv'
<1> DEFINE e == [offset_begin |-> Len(data), name_size |-> Len(n),
                 file_size |-> Len(view)]
<1>1. /\ pc = "idle" /\ UNCHANGED <<files, pc, load>>
      /\ data' = data \o Entry(n, view)
      /\ result' = e /\ loaded' = Append(loaded, e)
  BY DEF LoadFromView
<1>2. /\ data \in Seq(Byte) /\ n \in Seq(Byte) /\ view \in Seq(Byte)
      /\ Len(data) \in Nat /\ Len(n) \in Nat /\ Len(view) \in Nat
  BY Contents DEF IInv, TypeOK
<1>3. data' \in Seq(Byte) /\ Len(data') = Len(data) + Len(n) + 1 + Len(view)
  BY <1>1, <1>2, MoreBytes
<1>4. IndexedEnd = Len(data)
  BY <1>1 DEF IInv, EntriesTile
<1>5. e \in Info /\ e.offset_begin = IndexedEnd /\ EntryEnd(e) = Len(data')
  BY <1>2, <1>3, <1>4 DEF Info, EntryEnd, cOffset
<1>. HIDE DEF e
<1>6. EntriesTile' /\ loaded' \in Seq(Info)
  BY <1>1, <1>3, <1>5, AppendEntry DEF IInv
<1>7. TypeOK'
  BY <1>1, <1>3, <1>5, <1>6 DEF IInv, TypeOK
<1>8. WriteBehindRead'
  BY <1>1 DEF WriteBehindRead
<1>. QED
  BY <1>6, <1>7, <1>8 DEF IInv

\* Cutting the buffer at the last entry's begin leaves the others in place.
LEMMA PopKeeps == ASSUME IInv, Pop PROVE IInv'
<1>1. /\ pc = "idle" /\ result' = NotFound /\ UNCHANGED <<files, pc, load>>
      /\ NotFound \in Info
  BY DEF Pop, NotFound, Info
<1>2. CASE loaded = <<>>
  <2>1. UNCHANGED <<data, loaded>>
    BY <1>2 DEF Pop
  <2>2. files' \in Directory
    BY <1>1 DEF IInv, TypeOK
  <2>. QED  BY <1>1, <2>1, <2>2, CallKeeps
<1>3. CASE loaded # <<>>
  <2> DEFINE n   == Len(loaded)
             cut == Last(loaded).offset_begin
  <2>1. loaded' = Front(loaded) /\ data' = SubSeq(data, 1, cut)
    BY <1>3 DEF Pop
  <2>2. /\ loaded \in Seq(Info) /\ data \in Seq(Byte) /\ Len(data) \in Nat
        /\ n \in Nat \ {0} /\ DOMAIN loaded = 1 .. n /\ Last(loaded) = loaded[n]
        /\ cut \in Nat /\ cut <= EntryEnd(Last(loaded))
    BY <1>3, LastEntry DEF IInv, TypeOK
  <2>3. cut <= Len(data)
    <3>1. EntryEnd(Last(loaded)) = Len(data)
      BY <1>1, <1>3 DEF IInv, EntriesTile, IndexedEnd
    <3>. QED  BY <2>2, <3>1
  <2>4. data' \in Seq(Byte) /\ Len(data') = cut
    <3>. HIDE DEF cut
    <3>. QED  BY <2>1, <2>2, <2>3
  <2>5. /\ loaded' \in Seq(Info) /\ DOMAIN loaded' = 1 .. n - 1 /\ Len(loaded') = n - 1
        /\ \A i \in 1 .. n - 1 : loaded'[i] = loaded[i]
    BY <2>1, <2>2 DEF Front
  <2>6. TypeOK'
    BY <1>1, <2>4, <2>5 DEF IInv, TypeOK
  <2>7. \A i \in 1 .. n :
           loaded[i].offset_begin = IF i = 1 THEN 0 ELSE EntryEnd(loaded[i-1])
    BY <2>2 DEF IInv, EntriesTile
  <2>8. \A i \in DOMAIN loaded' :
           loaded'[i].offset_begin = IF i = 1 THEN 0 ELSE EntryEnd(loaded'[i-1])
    <3>1. \A i \in 1 .. n - 1 : i \in 1 .. n /\ (i # 1 => i - 1 \in 1 .. n - 1)
      BY <2>2
    <3>. HIDE DEF n
    <3>. QED  BY <2>5, <2>7, <3>1
  <2>9. IndexedEnd' = cut
    <3>1. CASE n = 1
      <4>1. loaded' = <<>>
        BY <2>5, <3>1
      <4>2. cut = 0
        BY <2>2, <2>7, <3>1
      <4>. QED  BY <4>1, <4>2 DEF IndexedEnd
    <3>2. CASE n # 1
      <4>1. n - 1 \in 1 .. n - 1 /\ n \in 1 .. n
        BY <2>2, <3>2
      <4>2. loaded' # <<>> /\ Last(loaded') = loaded[n-1]
        BY <2>2, <2>5, <3>2, <4>1 DEF Last
      <4>3. cut = EntryEnd(loaded[n-1])
        BY <2>2, <2>7, <3>2, <4>1
      <4>. HIDE DEF cut, n
      <4>. QED  BY <4>2, <4>3 DEF IndexedEnd, EntryEnd, cOffset
    <3>. QED  BY <3>1, <3>2
  <2>10. EntriesTile'
    BY <1>1, <2>4, <2>8, <2>9 DEF EntriesTile, EntryEnd, cOffset
  <2>11. WriteBehindRead'
    BY <1>1 DEF WriteBehindRead
  <2>. QED
    BY <2>6, <2>10, <2>11 DEF IInv
<1>. QED
  BY <1>2, <1>3

\* Every step keeps the invariant.
LEMMA NextKeeps == IInv /\ [Next]_vars => IInv'
<1>. SUFFICES ASSUME IInv, [Next]_vars PROVE IInv'
  OBVIOUS
<1>1. ASSUME NEW n \in Name, ReturnCached(n) PROVE IInv'
  <2>1. pc = "idle" /\ result' = findFile(n) /\ UNCHANGED <<files, data, loaded, pc, load>>
    BY <1>1 DEF ReturnCached
  <2>2. result' \in Info /\ files' \in Directory
    BY <2>1, FoundInfo DEF IInv, TypeOK
  <2>. QED  BY <2>1, <2>2, CallKeeps
<1>2. ASSUME NEW n \in Name, LoadMissing(n) PROVE IInv'
  <2>1. pc = "idle" /\ result' = NotFound /\ UNCHANGED <<files, data, loaded, pc, load>>
    BY <1>2 DEF LoadMissing
  <2>2. result' \in Info /\ files' \in Directory
    BY <2>1 DEF IInv, TypeOK, NotFound, Info
  <2>. QED  BY <2>1, <2>2, CallKeeps
<1>3. CASE UNCHANGED vars
  BY <1>3 DEF vars, IInv, TypeOK, EntriesTile, WriteBehindRead, IndexedEnd, EntryEnd,
              cOffset, dest, rawLen
<1>. QED
  BY <1>1, <1>2, <1>3, LoadBeginKeeps, LoadFromViewKeeps, NormaliseKeeps, LoadEndKeeps,
     PopKeeps, RewriteKeeps DEF Next

\* The inductive invariant holds in every reachable state of FileManager:
\* between any two calls, and between any two iterations of the loop of loadFile.
THEOREM Invariance == Spec => []IInv
BY InitIInv, NextKeeps, PTL DEF Spec

\* The buffer, the index and the locals of loadFile stay typed.
THEOREM TypeCorrect == Spec => []TypeOK
BY Invariance, PTL DEF IInv

\* Between calls the indexed entries tile the buffer, so that pop releases
\* the bytes of the newest file and of no other.
THEOREM EntriesNeverOverlap == Spec => []EntriesTile
BY Invariance, PTL DEF IInv

\* Normalising in place never overwrites a byte that is still to be read.
THEOREM NormaliseInPlace == Spec => []WriteBehindRead
BY Invariance, PTL DEF IInv

-----------------------------------------------------------------------------
(* Names: what the index finds, and what loading and popping leave of it.  *)

\* No entry reaches into a later one.
Apart ==
    \A i, j \in DOMAIN loaded :
        i < j => EntryEnd(loaded[i]) <= loaded[j].offset_begin

\* Every entry carries a name, and none but the one findFile refuses twice.
NamesOK ==
    /\ \A i \in DOMAIN loaded : getName(loaded[i]) \in Name
    /\ \A i, j \in DOMAIN loaded :
          getName(loaded[i]) = getName(loaded[j]) /\ getName(loaded[i]) # EmptyName => i = j

\* The last answer is an entry or NotFound.
AnswerOK == result = NotFound \/ \E i \in DOMAIN loaded : result = loaded[i]

\* A load in progress has written its name, which no entry carries.
LoadOK ==
    pc = "normalise" =>
        /\ load.name \in Name /\ load.name \in DOMAIN files
        /\ Bytes(load.offset, Len(load.name)) = load.name
        /\ load.name # EmptyName => \A i \in DOMAIN loaded : getName(loaded[i]) # load.name

NInv == IInv /\ Apart /\ NamesOK /\ AnswerOK /\ LoadOK

\* size bytes of a buffer d.
Part(d, from, size) == SubSeq(d, from + 1, from + size)

\* What stands at an index of a part of a buffer.
LEMMA PartOf ==
    ASSUME NEW d \in Seq(Byte), NEW from \in Nat, NEW size \in Nat, from + size <= Len(d)
    PROVE  /\ Part(d, from, size) \in Seq(Byte) /\ Len(Part(d, from, size)) = size
           /\ \A k \in 1 .. size : Part(d, from, size)[k] = d[from + k]
<1>1. \A i \in from + 1 .. from + size : d[i] \in Byte
  OBVIOUS
<1>2. /\ SubSeq(d, from + 1, from + size) \in Seq(Byte)
      /\ Len(SubSeq(d, from + 1, from + size))
            = IF from + 1 <= from + size THEN (from + size) - (from + 1) + 1 ELSE 0
      /\ \A k \in 1 .. (from + size) - (from + 1) + 1 :
            SubSeq(d, from + 1, from + size)[k] = d[(from + 1) + k - 1]
  BY <1>1, SubSeqProperties
<1>3. (from + size) - (from + 1) + 1 = size
  OBVIOUS
<1>4. \A k \in 1 .. size : (from + 1) + k - 1 = from + k
  OBVIOUS
<1>5. (IF from + 1 <= from + size THEN size ELSE 0) = size
  OBVIOUS
<1>. QED
  BY <1>2, <1>3, <1>4, <1>5 DEF Part

\* Two buffers that agree up to a bound agree on the parts below it.
LEMMA SamePart ==
    ASSUME NEW d \in Seq(Byte), NEW e \in Seq(Byte), NEW m \in Nat,
           m <= Len(d), m <= Len(e), \A k \in 1 .. m : e[k] = d[k],
           NEW from \in Nat, NEW size \in Nat, from + size <= m
    PROVE  Part(e, from, size) = Part(d, from, size)
<1>1. /\ Part(d, from, size) \in Seq(Byte) /\ Len(Part(d, from, size)) = size
      /\ \A k \in 1 .. size : Part(d, from, size)[k] = d[from + k]
  <2>1. from + size <= Len(d)
    OBVIOUS
  <2>. QED  BY <2>1, PartOf
<1>2. /\ Part(e, from, size) \in Seq(Byte) /\ Len(Part(e, from, size)) = size
      /\ \A k \in 1 .. size : Part(e, from, size)[k] = e[from + k]
  <2>1. from + size <= Len(e)
    OBVIOUS
  <2>. QED  BY <2>1, PartOf
<1>3. \A k \in 1 .. size : from + k \in 1 .. m
  OBVIOUS
<1>4. \A k \in 1 .. size : Part(e, from, size)[k] = Part(d, from, size)[k]
  BY <1>1, <1>2, <1>3
<1>. QED
  BY <1>1, <1>2, <1>4, SeqEqual

\* The entries in numbers: each ends at or before the end of the last.
LEMMA EntryBounds ==
    ASSUME IInv, Apart, NEW i \in DOMAIN loaded
    PROVE  /\ loaded[i] \in Info
           /\ loaded[i].offset_begin \in Nat /\ loaded[i].name_size \in Nat
           /\ loaded[i].file_size \in Nat
           /\ cOffset(loaded[i]) = loaded[i].offset_begin + loaded[i].name_size + 1
           /\ EntryEnd(loaded[i]) = cOffset(loaded[i]) + loaded[i].file_size
           /\ EntryEnd(loaded[i]) <= IndexedEnd
           /\ IndexedEnd \in Nat /\ IndexedEnd <= Len(data)
<1>1. loaded \in Seq(Info) /\ loaded # <<>> /\ i \in 1 .. Len(loaded)
  BY DEF IInv, TypeOK
<1>2. loaded[i] \in Info
  BY <1>1
<1>3. /\ Last(loaded) = loaded[Len(loaded)] /\ Len(loaded) \in DOMAIN loaded
      /\ Len(loaded) \in Nat
      /\ EntryEnd(Last(loaded)) \in Nat /\ Last(loaded).offset_begin \in Nat
      /\ Last(loaded).offset_begin <= EntryEnd(Last(loaded))
  BY <1>1, LastEntry DEF IInv
<1>4. IndexedEnd = EntryEnd(loaded[Len(loaded)])
  BY <1>1, <1>3 DEF IndexedEnd
<1>5. EntryEnd(loaded[i]) \in Nat
  BY <1>2 DEF Info, EntryEnd, cOffset
<1>6. EntryEnd(loaded[i]) <= IndexedEnd
  <2>1. CASE i = Len(loaded)
    BY <1>3, <1>4, <1>5, <2>1
  <2>2. CASE i < Len(loaded)
    <3>1. EntryEnd(loaded[i]) <= loaded[Len(loaded)].offset_begin
      BY <1>3, <2>2 DEF Apart
    <3>. QED  BY <1>3, <1>4, <1>5, <3>1
  <2>. QED  BY <1>1, <2>1, <2>2
<1>7. IndexedEnd <= Len(data) /\ IndexedEnd \in Nat
  <2>1. IndexedEnd \in Nat
    BY <1>3, <1>4
  <2>2. CASE pc = "idle"
    BY <2>1, <2>2 DEF IInv, EntriesTile
  <2>3. CASE pc = "normalise"
    <3>1. /\ load.offset = IndexedEnd /\ dest <= Len(data) /\ dest \in Nat
          /\ dest = load.offset + Len(load.name) + 1 /\ Len(load.name) \in Nat
          /\ Len(data) \in Nat
      BY <2>3, Loading
    <3>. QED  BY <2>1, <3>1
  <2>. QED  BY <2>1, <2>2, <2>3 DEF IInv, TypeOK
<1>. QED
  BY <1>2, <1>6, <1>7 DEF Info, EntryEnd, cOffset

\* An entry of the index is never NotFound, for its name is not empty.
LEMMA EntryIsSomething ==
    IInv /\ NamesOK => \A i \in DOMAIN loaded : loaded[i] # NotFound
<1>. SUFFICES ASSUME NamesOK, NEW i \in DOMAIN loaded, loaded[i] = NotFound
              PROVE  FALSE
  OBVIOUS
<1>1. getName(loaded[i]) = SubSeq(data, 1, 0)
  BY DEF getName, Bytes, NotFound
<1>2. SubSeq(data, 1, 0) = <<>>
  BY SubSeqEmpty
<1>3. getName(loaded[i]) \in Name
  BY DEF NamesOK
<1>4. <<>> \notin Name
  BY NameAssumption
<1>. QED
  BY <1>1, <1>2, <1>3, <1>4

\* An entry stays readable as long as the bytes below its end do.
LEMMA EntryStays ==
    ASSUME IInv, Apart, NEW i \in DOMAIN loaded, loaded'[i] = loaded[i],
           data' \in Seq(Byte), NEW m \in Nat, m <= Len(data), m <= Len(data'),
           EntryEnd(loaded[i]) <= m, \A k \in 1 .. m : data'[k] = data[k]
    PROVE  /\ getName(loaded[i])' = getName(loaded[i])
           /\ Content(loaded[i])' = Content(loaded[i])
           /\ EntryEnd(loaded[i])' = EntryEnd(loaded[i])
<1>1. /\ loaded[i].offset_begin \in Nat /\ loaded[i].name_size \in Nat
      /\ loaded[i].file_size \in Nat
      /\ cOffset(loaded[i]) = loaded[i].offset_begin + loaded[i].name_size + 1
      /\ EntryEnd(loaded[i]) = cOffset(loaded[i]) + loaded[i].file_size
  BY EntryBounds
<1>2. cOffset(loaded[i]) \in Nat
  BY <1>1
<1>3. data \in Seq(Byte)
  BY DEF IInv, TypeOK
<1>4. loaded[i].offset_begin + loaded[i].name_size <= m
  BY <1>1
<1>5. cOffset(loaded[i]) + loaded[i].file_size <= m
  BY <1>1
<1>6. Part(data', loaded[i].offset_begin, loaded[i].name_size)
         = Part(data, loaded[i].offset_begin, loaded[i].name_size)
  <2>1. PICK o \in Nat : o = loaded[i].offset_begin
    BY <1>1
  <2>2. PICK s \in Nat : s = loaded[i].name_size
    BY <1>1
  <2>3. o + s <= m
    BY <1>4, <2>1, <2>2
  <2>4. \A k \in 1 .. m : data'[k] = data[k]
    OBVIOUS
  <2>5. Part(data', o, s) = Part(data, o, s)
    BY <1>3, <2>3, <2>4, SamePart
  <2>. QED  BY <2>1, <2>2, <2>5
<1>7. Part(data', cOffset(loaded[i]), loaded[i].file_size)
         = Part(data, cOffset(loaded[i]), loaded[i].file_size)
  <2>1. PICK c \in Nat : c = cOffset(loaded[i])
    BY <1>2
  <2>2. c + loaded[i].file_size <= m
    BY <1>5, <2>1
  <2>3. Part(data', c, loaded[i].file_size) = Part(data, c, loaded[i].file_size)
    <3>1. loaded[i].file_size \in Nat
      BY <1>1
    <3>2. \A k \in 1 .. m : data'[k] = data[k]
      OBVIOUS
    <3>. QED  BY <1>3, <2>2, <3>1, <3>2, SamePart
  <2>. QED  BY <2>1, <2>3
<1>. QED
  BY <1>6, <1>7 DEF Part, getName, Content, Bytes, cOffset, EntryEnd

\* The buffer with one more entry, byte by byte.
LEMMA EntryBytes ==
    ASSUME NEW d \in Seq(Byte), NEW n \in Seq(Byte), NEW c \in Seq(Byte)
    PROVE  /\ d \o Entry(n, c) \in Seq(Byte)
           /\ Len(d \o Entry(n, c)) = Len(d) + Len(n) + 1 + Len(c)
           /\ \A k \in 1 .. Len(d) : (d \o Entry(n, c))[k] = d[k]
           /\ \A k \in 1 .. Len(n) : (d \o Entry(n, c))[Len(d) + k] = n[k]
           /\ \A k \in 1 .. Len(c) : (d \o Entry(n, c))[Len(d) + Len(n) + 1 + k] = c[k]
<1> DEFINE h == n \o <<"NUL">>
<1>0. PICK e : e = d \o Entry(n, c)
  OBVIOUS
<1>1. <<"NUL">> \in Seq(Byte) /\ Len(<<"NUL">>) = 1
  BY Contents
<1>2. /\ h \in Seq(Byte) /\ Len(h) = Len(n) + 1
      /\ \A k \in 1 .. Len(n) : h[k] = n[k]
  BY <1>1, ConcatProperties
<1>. HIDE DEF h
<1>3. /\ h \o c \in Seq(Byte) /\ Len(h \o c) = Len(n) + 1 + Len(c)
      /\ \A k \in 1 .. Len(h) + Len(c) :
            (h \o c)[k] = IF k <= Len(h) THEN h[k] ELSE c[k - Len(h)]
  <2>1. h \in Seq(Byte)
    BY <1>2
  <2>2. /\ h \o c \in Seq(Byte) /\ Len(h \o c) = Len(h) + Len(c)
        /\ \A k \in 1 .. Len(h) + Len(c) :
              (h \o c)[k] = IF k <= Len(h) THEN h[k] ELSE c[k - Len(h)]
    BY <2>1, ConcatProperties
  <2>. QED  BY <1>2, <2>2
<1>4. PICK t \in Seq(Byte) : t = h \o c
  BY <1>3
<1>5. /\ Len(t) = Len(n) + 1 + Len(c)
      /\ \A k \in 1 .. Len(n) : t[k] = n[k]
      /\ \A k \in 1 .. Len(c) : t[Len(n) + 1 + k] = c[k]
  <2>1. \A k \in 1 .. Len(n) : k \in 1 .. Len(h) + Len(c) /\ k <= Len(h)
    BY <1>2
  <2>2. \A k \in 1 .. Len(c) : /\ Len(n) + 1 + k \in 1 .. Len(h) + Len(c)
                               /\ ~(Len(n) + 1 + k <= Len(h))
                               /\ (Len(n) + 1 + k) - Len(h) = k
    BY <1>2
  <2>. QED  BY <1>2, <1>3, <1>4, <2>1, <2>2
<1>6. e = d \o t
  BY <1>0, <1>4 DEF Entry, h
<1>7. /\ d \o t \in Seq(Byte) /\ Len(d \o t) = Len(d) + Len(t)
      /\ \A k \in 1 .. Len(d) + Len(t) :
            (d \o t)[k] = IF k <= Len(d) THEN d[k] ELSE t[k - Len(d)]
  BY ConcatProperties
<1>8. \A k \in 1 .. Len(d) : e[k] = d[k]
  BY <1>6, <1>7
<1>9. \A k \in 1 .. Len(t) : e[Len(d) + k] = t[k]
  <2>1. \A k \in 1 .. Len(t) : /\ Len(d) + k \in 1 .. Len(d) + Len(t)
                               /\ ~(Len(d) + k <= Len(d)) /\ (Len(d) + k) - Len(d) = k
    OBVIOUS
  <2>. QED  BY <1>6, <1>7, <2>1
<1>10. \A k \in 1 .. Len(n) : e[Len(d) + k] = n[k]
  <2>1. \A k \in 1 .. Len(n) : k \in 1 .. Len(t)
    BY <1>5
  <2>. QED  BY <1>5, <1>9, <2>1
<1>11. \A k \in 1 .. Len(c) : e[Len(d) + Len(n) + 1 + k] = c[k]
  <2>1. \A k \in 1 .. Len(c) : /\ Len(n) + 1 + k \in 1 .. Len(t)
                               /\ Len(d) + Len(n) + 1 + k = Len(d) + (Len(n) + 1 + k)
    BY <1>5
  <2>. QED  BY <1>5, <1>9, <2>1
<1>12. Len(d) + Len(t) = Len(d) + Len(n) + 1 + Len(c)
  BY <1>5
<1>13. e \in Seq(Byte) /\ Len(e) = Len(d) + Len(n) + 1 + Len(c)
  BY <1>6, <1>7, <1>12
<1>. QED
  BY <1>0, <1>8, <1>10, <1>11, <1>13

\* findFile returns NotFound exactly when no entry has the name.
LEMMA FoundEntry ==
    ASSUME IInv, NamesOK, NEW n, n # EmptyName
    PROVE  /\ findFile(n) = NotFound => \A i \in DOMAIN loaded : getName(loaded[i]) # n
           /\ findFile(n) # NotFound =>
                 \E i \in DOMAIN loaded : getName(loaded[i]) = n /\ findFile(n) = loaded[i]
<1> DEFINE found == {i \in DOMAIN loaded : getName(loaded[i]) = n}
<1>1. CASE found = {}
  BY <1>1 DEF findFile
<1>2. CASE found # {}
  <2>1. found \subseteq Nat
    BY DEF IInv, TypeOK
  <2>2. Min(found) \in found
    <3>. HIDE DEF found
    <3>. QED  BY <1>2, <2>1, MinNat
  <2>3. findFile(n) = loaded[Min(found)]
    BY <1>2 DEF findFile
  <2>4. PICK i \in DOMAIN loaded : getName(loaded[i]) = n /\ findFile(n) = loaded[i]
    BY <2>2, <2>3
  <2>5. loaded[i] # NotFound
    BY <2>4, EntryIsSomething
  <2>. QED  BY <2>4, <2>5
<1>. QED
  BY <1>1, <1>2

\* What the buffer keeps below the indexed end keeps the index.
LEMMA SameIndexKeeps ==
    ASSUME IInv, Apart, NamesOK, loaded' = loaded,
           data' \in Seq(Byte), IndexedEnd <= Len(data'),
           \A k \in 1 .. IndexedEnd : data'[k] = data[k]
    PROVE  /\ Apart' /\ NamesOK'
           /\ \A i \in DOMAIN loaded : /\ getName(loaded[i])' = getName(loaded[i])
                                       /\ Content(loaded[i])' = Content(loaded[i])
<1>1. \A i \in DOMAIN loaded : /\ getName(loaded[i])' = getName(loaded[i])
                               /\ Content(loaded[i])' = Content(loaded[i])
                               /\ EntryEnd(loaded[i])' = EntryEnd(loaded[i])
  <2>. SUFFICES ASSUME NEW i \in DOMAIN loaded
                PROVE  /\ getName(loaded[i])' = getName(loaded[i])
                       /\ Content(loaded[i])' = Content(loaded[i])
                       /\ EntryEnd(loaded[i])' = EntryEnd(loaded[i])
    OBVIOUS
  <2>1. IndexedEnd \in Nat /\ IndexedEnd <= Len(data) /\ EntryEnd(loaded[i]) <= IndexedEnd
    BY EntryBounds
  <2>2. PICK m \in Nat : m = IndexedEnd
    BY <2>1
  <2>3. /\ m <= Len(data) /\ m <= Len(data') /\ EntryEnd(loaded[i]) <= m
        /\ \A k \in 1 .. m : data'[k] = data[k]
    BY <2>1, <2>2
  <2>4. loaded'[i] = loaded[i]
    OBVIOUS
  <2>. QED  BY <2>3, <2>4, EntryStays
<1>2. Apart'
  BY <1>1 DEF Apart
<1>3. NamesOK'
  BY <1>1 DEF NamesOK
<1>. QED
  BY <1>1, <1>2, <1>3

\* An entry behind the others, under a name none of them carries.
LEMMA AppendKeeps ==
    ASSUME IInv, Apart, NamesOK, NEW e \in Info, loaded' = Append(loaded, e),
           e.offset_begin = IndexedEnd,
           data' \in Seq(Byte), IndexedEnd <= Len(data'),
           \A k \in 1 .. IndexedEnd : data'[k] = data[k],
           NEW n \in Name, Part(data', e.offset_begin, e.name_size) = n,
           n # EmptyName => \A i \in DOMAIN loaded : getName(loaded[i]) # n,
           NEW l \in Nat, l = Len(loaded)
    PROVE  /\ Apart' /\ NamesOK'
           /\ DOMAIN loaded = 1 .. l /\ DOMAIN loaded' = 1 .. l + 1
           /\ Len(loaded') = l + 1 /\ loaded'[l + 1] = e
           /\ \A i \in DOMAIN loaded : /\ loaded'[i] = loaded[i]
                                       /\ getName(loaded[i])' = getName(loaded[i])
                                       /\ Content(loaded[i])' = Content(loaded[i])
           /\ getName(loaded[l + 1])' = n
<1>1. loaded \in Seq(Info) /\ l \in Nat /\ DOMAIN loaded = 1 .. l
  BY DEF IInv, TypeOK
<1>2. /\ Len(loaded') = l + 1 /\ DOMAIN loaded' = 1 .. l + 1 /\ loaded'[l + 1] = e
      /\ \A i \in 1 .. l : loaded'[i] = loaded[i]
  BY <1>1, AppendProperties
<1>3. \A i \in 1 .. l : /\ getName(loaded[i])' = getName(loaded[i])
                        /\ Content(loaded[i])' = Content(loaded[i])
                        /\ EntryEnd(loaded[i])' = EntryEnd(loaded[i])
                        /\ EntryEnd(loaded[i]) <= IndexedEnd
  <2>. SUFFICES ASSUME NEW i \in DOMAIN loaded
                PROVE  /\ getName(loaded[i])' = getName(loaded[i])
                       /\ Content(loaded[i])' = Content(loaded[i])
                       /\ EntryEnd(loaded[i])' = EntryEnd(loaded[i])
                       /\ EntryEnd(loaded[i]) <= IndexedEnd
    BY <1>1
  <2>1. IndexedEnd \in Nat /\ IndexedEnd <= Len(data) /\ EntryEnd(loaded[i]) <= IndexedEnd
    BY EntryBounds
  <2>2. PICK m \in Nat : m = IndexedEnd
    BY <2>1
  <2>3. /\ m <= Len(data) /\ m <= Len(data') /\ EntryEnd(loaded[i]) <= m
        /\ \A k \in 1 .. m : data'[k] = data[k]
    BY <2>1, <2>2
  <2>4. loaded'[i] = loaded[i]
    BY <1>1, <1>2
  <2>5. /\ getName(loaded[i])' = getName(loaded[i])
        /\ Content(loaded[i])' = Content(loaded[i])
        /\ EntryEnd(loaded[i])' = EntryEnd(loaded[i])
    BY <2>3, <2>4, EntryStays
  <2>. QED  BY <2>1, <2>5
<1>4. getName(loaded[l + 1])' = n
  <2>1. getName(loaded[l + 1])' = Part(data', e.offset_begin, e.name_size)
    BY <1>2 DEF getName, Bytes, Part
  <2>. QED  BY <2>1
<1>5. \A i \in DOMAIN loaded' : i \in 1 .. l \/ i = l + 1
  BY <1>1, <1>2
<1>6. Apart'
  <2>. SUFFICES ASSUME NEW i \in DOMAIN loaded', NEW j \in DOMAIN loaded', i < j
                PROVE  EntryEnd(loaded[i])' <= (loaded[j].offset_begin)'
    BY DEF Apart
  <2>1. i \in 1 .. l
    BY <1>1, <1>2, <1>5
  <2>2. EntryEnd(loaded[i])' = EntryEnd(loaded[i])
    BY <1>3, <2>1, <1>2
  <2>3. CASE j \in 1 .. l
    BY <1>1, <1>2, <2>1, <2>2, <2>3 DEF Apart
  <2>4. CASE j = l + 1
    BY <1>2, <1>3, <2>1, <2>2, <2>4
  <2>. QED  BY <1>5, <2>3, <2>4
<1>7. NamesOK'
  <2>1. \A i \in 1 .. l : getName(loaded[i])' = getName(loaded[i])
    BY <1>2, <1>3
  <2>2. \A i \in DOMAIN loaded' : getName(loaded[i])' \in Name
    BY <1>1, <1>4, <1>5, <2>1 DEF NamesOK
  <2>. SUFFICES ASSUME NEW i \in DOMAIN loaded', NEW j \in DOMAIN loaded',
                       getName(loaded[i])' = getName(loaded[j])',
                       getName(loaded[i])' # EmptyName
                PROVE  i = j
    BY <2>2 DEF NamesOK
  <2>3. CASE i \in 1 .. l /\ j \in 1 .. l
    BY <1>1, <2>1, <2>3 DEF NamesOK
  <2>4. CASE i \in 1 .. l /\ j = l + 1
    BY <1>1, <1>4, <2>1, <2>4
  <2>5. CASE i = l + 1 /\ j \in 1 .. l
    BY <1>1, <1>4, <2>1, <2>5
  <2>. QED  BY <1>5, <2>3, <2>4, <2>5
<1>. QED
  BY <1>1, <1>2, <1>3, <1>4, <1>6, <1>7

\* The four parts together.
IndexOK == Apart /\ NamesOK /\ AnswerOK /\ LoadOK

\* Nothing is loaded in the beginning.
LEMMA InitIndex == Init => IndexOK
BY DEF Init, IndexOK, Apart, NamesOK, AnswerOK, LoadOK

\* A call that leaves the buffer and the index alone, and returns an entry or
\* NotFound.
LEMMA CallIndex ==
    ASSUME IInv, IndexOK, pc = "idle", UNCHANGED <<data, loaded, pc, load>>,
           result' = NotFound \/ \E i \in DOMAIN loaded : result' = loaded[i]
    PROVE  IndexOK'
<1>1. Apart'
  BY DEF IndexOK, Apart, EntryEnd, cOffset
<1>2. NamesOK'
  BY DEF IndexOK, NamesOK, getName, Bytes
<1>3. AnswerOK' /\ LoadOK'
  BY DEF AnswerOK, LoadOK
<1>. QED
  BY <1>1, <1>2, <1>3 DEF IndexOK

\* The buffer grows by the name and the raw bytes of a new file.
LEMMA LoadBeginIndex ==
    ASSUME IInv, IndexOK, NEW n \in Name, LoadBegin(n)
    PROVE  IndexOK'
<1>1. /\ pc = "idle" /\ n \in DOMAIN files /\ findFile(n) = NotFound
      /\ data' = data \o Entry(n, files[n])
      /\ load' = [name |-> n, offset |-> Len(data), r |-> 0, sanitized |-> 0]
      /\ UNCHANGED <<files, loaded, result>>
  BY DEF LoadBegin
<1>2. /\ data \in Seq(Byte) /\ Len(data) \in Nat /\ n \in Seq(Byte) /\ Len(n) \in Nat
      /\ files[n] \in Seq(Byte) /\ Len(files[n]) \in Nat
  BY <1>1, FileContent, Contents DEF IInv, TypeOK
<1>3. /\ data' \in Seq(Byte) /\ Len(data') = Len(data) + Len(n) + 1 + Len(files[n])
      /\ \A k \in 1 .. Len(data) : data'[k] = data[k]
      /\ \A k \in 1 .. Len(n) : data'[Len(data) + k] = n[k]
  <2>1. PICK c \in Seq(Byte) : c = files[n]
    BY <1>2
  <2>2. data' = data \o Entry(n, c)
    BY <1>1, <2>1
  <2>3. /\ data' \in Seq(Byte) /\ Len(data') = Len(data) + Len(n) + 1 + Len(c)
        /\ \A k \in 1 .. Len(data) : data'[k] = data[k]
        /\ \A k \in 1 .. Len(n) : data'[Len(data) + k] = n[k]
    <3>1. data \in Seq(Byte) /\ n \in Seq(Byte) /\ c \in Seq(Byte)
      BY <1>2
    <3>. QED  BY <2>2, <3>1, EntryBytes
  <2>. QED  BY <2>1, <2>3
<1>4. IndexedEnd = Len(data)
  BY <1>1 DEF IInv, EntriesTile
<1>5. Len(data) + Len(n) <= Len(data') /\ Len(data) <= Len(data')
  <2> DEFINE a == Len(data)
             b == Len(n)
             c == Len(files[n])
  <2>1. a \in Nat /\ b \in Nat /\ c \in Nat /\ Len(data') = a + b + 1 + c
    BY <1>2, <1>3
  <2>. HIDE DEF a, b, c
  <2>2. a + b <= Len(data') /\ a <= Len(data')
    BY <2>1
  <2>. QED  BY <2>2 DEF a, b
<1>6. /\ Apart' /\ NamesOK'
      /\ \A i \in DOMAIN loaded : getName(loaded[i])' = getName(loaded[i])
  <2>1. IndexedEnd <= Len(data')
    BY <1>2, <1>4, <1>5
  <2>2. \A k \in 1 .. IndexedEnd : data'[k] = data[k]
    BY <1>3, <1>4
  <2>. QED  BY <1>1, <1>3, <2>1, <2>2, SameIndexKeeps DEF IndexOK
<1>7. AnswerOK'
  BY <1>1 DEF IndexOK, AnswerOK
<1>8. LoadOK'
  <2>1. PICK z \in Nat : z = Len(data)
    BY <1>2
  <2>2. /\ Part(data', z, Len(n)) \in Seq(Byte) /\ Len(Part(data', z, Len(n))) = Len(n)
        /\ \A k \in 1 .. Len(n) : Part(data', z, Len(n))[k] = data'[z + k]
    BY <1>2, <1>3, <1>5, <2>1, PartOf
  <2>3. \A k \in 1 .. Len(n) : Part(data', z, Len(n))[k] = n[k]
    BY <1>3, <2>1, <2>2
  <2>4. Part(data', z, Len(n)) = n
    BY <1>2, <2>2, <2>3, SeqEqual
  <2>5. load'.name = n /\ load'.offset = z
    BY <1>1, <2>1
  <2>6. Bytes(load.offset, Len(load.name))' = load'.name
    BY <2>4, <2>5 DEF Bytes, Part
  <2>7. n # EmptyName => \A i \in DOMAIN loaded : getName(loaded[i]) # n
    BY <1>1, FoundEntry DEF IndexOK
  <2>8. n \in DOMAIN files' /\ loaded' = loaded
    BY <1>1
  <2>9. n # EmptyName => \A i \in DOMAIN loaded' : getName(loaded[i])' # n
    BY <1>6, <2>7, <2>8
  <2>. QED  BY <2>5, <2>6, <2>8, <2>9 DEF LoadOK
<1>. QED
  BY <1>6, <1>7, <1>8 DEF IndexOK

\* What one iteration of the loop of loadFile reads and writes: one byte,
\* at or behind the one it has read, behind the name of the new entry.
LEMMA NormaliseWrites ==
    ASSUME IInv, NormaliseByte, NEW x \in Seq(Byte), x = load.name
    PROVE  /\ pc = "normalise" /\ pc' = "normalise"
           /\ UNCHANGED <<files, loaded, result>>
           /\ load'.name = x /\ load'.offset = load.offset
           /\ load'.sanitized = load.sanitized + 1
           /\ dest' = dest /\ rawLen' = rawLen
           /\ data' \in Seq(Byte) /\ Len(data') = Len(data)
           /\ \A k \in 1 .. Len(data) : k # dest + load.sanitized + 1 => data'[k] = data[k]
           /\ data'[dest + load.sanitized + 1]
                 = IF data[dest + load.r + 1] = "CR" THEN "LF" ELSE data[dest + load.r + 1]
           /\ load'.r = load.r + (IF /\ data[dest + load.r + 1] = "CR"
                                     /\ load.r + 1 < rawLen
                                     /\ data[dest + load.r + 2] = "LF" THEN 2 ELSE 1)
<1> DEFINE isCR == Src(load.r) = "CR"
           pair == isCR /\ load.r + 1 < rawLen /\ Src(load.r + 1) = "LF"
           at   == dest + load.sanitized + 1
           byte == IF isCR THEN "LF" ELSE Src(load.r)
           r1   == load.r + (IF pair THEN 2 ELSE 1)
<1>1. /\ pc = "normalise" /\ load.r < rawLen
      /\ data' = [data EXCEPT ![at] = byte]
      /\ load' = [load EXCEPT !.r = r1, !.sanitized = load.sanitized + 1]
      /\ UNCHANGED <<files, loaded, result, pc>>
  BY DEF NormaliseByte
<1>2. /\ load.r \in Nat /\ load.sanitized \in Nat /\ load.sanitized <= load.r
      /\ dest \in Nat /\ Len(data) \in Nat /\ rawLen = Len(data) - dest
      /\ dest <= Len(data) /\ data \in Seq(Byte)
      /\ load \in [name : Name \cup {<<>>}, offset : Nat, r : Nat, sanitized : Nat]
  BY <1>1, Loading DEF IInv, TypeOK
<1>3. at \in 1 .. Len(data)
  BY <1>1, <1>2
<1>4. dest + (load.r + 1) + 1 = dest + load.r + 2
  BY <1>2
<1>5. /\ byte = IF data[dest + load.r + 1] = "CR" THEN "LF" ELSE data[dest + load.r + 1]
      /\ r1 = load.r + (IF /\ data[dest + load.r + 1] = "CR"
                           /\ load.r + 1 < rawLen
                           /\ data[dest + load.r + 2] = "LF" THEN 2 ELSE 1)
  BY <1>4 DEF Src
<1>6. byte \in Byte
  <2>1. dest + load.r + 1 \in 1 .. Len(data)
    BY <1>1, <1>2
  <2>2. Src(load.r) \in Byte
    BY <1>2, <2>1 DEF Src
  <2>. QED  BY <2>2, Contents
<1>. HIDE DEF byte, r1
<1>7. load'.name = x /\ load'.offset = load.offset /\ load'.r = r1
      /\ load'.sanitized = load.sanitized + 1
  BY <1>1, <1>2
<1>8. /\ data' \in Seq(Byte) /\ Len(data') = Len(data) /\ data'[at] = byte
      /\ \A k \in 1 .. Len(data) : k # at => data'[k] = data[k]
  <2>. HIDE DEF at
  <2>. QED  BY <1>1, <1>2, <1>3, <1>6, ExceptSeq
<1>9. dest' = dest /\ rawLen' = rawLen
  <2>1. dest' = dest
    BY <1>7 DEF dest
  <2>. QED  BY <1>8, <2>1 DEF rawLen
<1>. QED
  BY <1>1, <1>5, <1>7, <1>8, <1>9

\* It leaves every entry and the name of the new one as they are.
LEMMA NormaliseIndex == ASSUME IInv, IndexOK, NormaliseByte PROVE IndexOK'
<1>1. pc = "normalise"
  BY DEF NormaliseByte
<1>2. /\ load.name \in Name /\ load.name \in DOMAIN files
      /\ Bytes(load.offset, Len(load.name)) = load.name
      /\ load.name # EmptyName => \A i \in DOMAIN loaded : getName(loaded[i]) # load.name
  BY <1>1 DEF IndexOK, LoadOK
<1>3. PICK x \in Seq(Byte) : x = load.name
  BY <1>2, Contents
<1>4. /\ pc' = "normalise" /\ UNCHANGED <<files, loaded, result>>
      /\ load'.name = x /\ load'.offset = load.offset
      /\ data' \in Seq(Byte) /\ Len(data') = Len(data)
      /\ \A k \in 1 .. Len(data) : k # dest + load.sanitized + 1 => data'[k] = data[k]
  BY <1>3, NormaliseWrites
<1>5. /\ load.offset \in Nat /\ load.sanitized \in Nat /\ Len(x) \in Nat
      /\ dest = load.offset + Len(x) + 1 /\ dest <= Len(data) /\ Len(data) \in Nat
      /\ load.offset = IndexedEnd /\ data \in Seq(Byte)
  BY <1>1, <1>3, Loading DEF IInv, TypeOK
<1>6. \A k \in 1 .. load.offset + Len(x) : data'[k] = data[k]
  <2>1. \A k \in 1 .. load.offset + Len(x) :
           k \in 1 .. Len(data) /\ k # dest + load.sanitized + 1
    BY <1>5
  <2>. QED  BY <1>4, <2>1
<1>7. /\ Apart' /\ NamesOK'
      /\ \A i \in DOMAIN loaded : getName(loaded[i])' = getName(loaded[i])
  <2>1. IndexedEnd <= Len(data') /\ \A k \in 1 .. IndexedEnd : data'[k] = data[k]
    BY <1>4, <1>5, <1>6
  <2>. QED  BY <1>4, <2>1, SameIndexKeeps DEF IndexOK
<1>8. AnswerOK'
  BY <1>4 DEF IndexOK, AnswerOK
<1>9. LoadOK'
  <2>1. PICK o \in Nat : o = load.offset
    BY <1>5
  <2>2. PICK m \in Nat : m = o + Len(x)
    BY <1>5, <2>1
  <2>3. m <= Len(data) /\ m <= Len(data') /\ \A k \in 1 .. m : data'[k] = data[k]
    BY <1>4, <1>5, <1>6, <2>1, <2>2
  <2>4. Part(data', o, Len(x)) = Part(data, o, Len(x))
    <3>1. PICK size \in Nat : size = Len(x)
      BY <1>5
    <3>2. o + size <= m
      BY <2>2, <3>1
    <3>3. Part(data', o, size) = Part(data, o, size)
      <4>1. data \in Seq(Byte) /\ data' \in Seq(Byte)
        BY <1>4, <1>5
      <4>. QED  BY <2>3, <3>2, <4>1, SamePart
    <3>. QED  BY <3>1, <3>3
  <2>5. Bytes(load.offset, Len(load.name))' = x
    BY <1>2, <1>3, <1>4, <2>1, <2>4 DEF Bytes, Part
  <2>6. x # EmptyName => \A i \in DOMAIN loaded' : getName(loaded[i])' # x
    BY <1>2, <1>3, <1>4, <1>7
  <2>. QED  BY <1>2, <1>3, <1>4, <2>5, <2>6 DEF LoadOK
<1>. QED
  BY <1>7, <1>8, <1>9 DEF IndexOK

\* The new entry carries the name it was read for, behind entries that stay.
LEMMA LoadEndAppends ==
    ASSUME IInv, IndexOK, LoadEnd, NEW l \in Nat, l = Len(loaded)
    PROVE  /\ Apart' /\ NamesOK'
           /\ DOMAIN loaded = 1 .. l /\ DOMAIN loaded' = 1 .. l + 1
           /\ Len(loaded') = l + 1 /\ loaded'[l + 1] = result' /\ result' \in Info
           /\ \A i \in DOMAIN loaded : /\ loaded'[i] = loaded[i]
                                       /\ getName(loaded[i])' = getName(loaded[i])
                                       /\ Content(loaded[i])' = Content(loaded[i])
           /\ getName(loaded[l + 1])' = load.name
<1>1. /\ pc = "normalise" /\ pc' = "idle"
      /\ data' = SubSeq(data, 1, dest + load.sanitized)
      /\ result' = [offset_begin |-> load.offset, name_size |-> Len(load.name),
                    file_size |-> load.sanitized]
      /\ loaded' = Append(loaded, result')
  BY DEF LoadEnd
<1>2. /\ load.offset \in Nat /\ load.sanitized \in Nat /\ load.r \in Nat
      /\ Len(load.name) \in Nat
      /\ dest \in Nat /\ Len(data) \in Nat /\ data \in Seq(Byte)
      /\ dest + load.sanitized <= Len(data)
      /\ load.offset = IndexedEnd /\ dest = load.offset + Len(load.name) + 1
  <2>1. data \in Seq(Byte)
    BY DEF IInv, TypeOK
  <2>. QED  BY <1>1, <2>1, Loading
<1>3. PICK e \in Info : e = result'
  BY <1>1, <1>2 DEF Info
<1>4. PICK m \in Nat : m = dest + load.sanitized
  BY <1>2
<1>5. /\ data' \in Seq(Byte) /\ Len(data') = m
      /\ \A k \in 1 .. m : data'[k] = data[k]
  <2>1. m \in 0 .. Len(data)
    BY <1>2, <1>4
  <2>2. data' = SubSeq(data, 1, m)
    BY <1>1, <1>4
  <2>3. /\ data' \in Seq(Byte) /\ Len(data') = m
    BY <1>2, <2>1, <2>2, FewerBytes
  <2>4. \A k \in 1 .. m : data'[k] = data[k]
    BY <1>2, <2>1, <2>2
  <2>. QED  BY <2>3, <2>4
<1>6. /\ load.name \in Name /\ Bytes(load.offset, Len(load.name)) = load.name
      /\ load.name # EmptyName => \A i \in DOMAIN loaded : getName(loaded[i]) # load.name
  BY <1>1 DEF IndexOK, LoadOK
<1>7. PICK n \in Name : n = load.name
  BY <1>6
<1>8. Part(data', e.offset_begin, e.name_size) = n
  <2>1. PICK o \in Nat : o = load.offset
    BY <1>2
  <2>2. PICK s \in Nat : s = Len(load.name)
    BY <1>2
  <2>3. o + s <= m /\ m <= Len(data) /\ m <= Len(data')
    <3>1. dest = o + s + 1
      BY <1>2, <2>1, <2>2
    <3>2. m <= Len(data) /\ m <= Len(data')
      BY <1>2, <1>4, <1>5
    <3>3. m = o + s + 1 + load.sanitized
      BY <1>4, <3>1
    <3>4. o + s <= m
      BY <1>2, <3>3
    <3>. QED  BY <3>2, <3>4
  <2>4. Part(data', o, s) = Part(data, o, s)
    <3>1. data \in Seq(Byte) /\ data' \in Seq(Byte)
      BY <1>2, <1>5
    <3>. QED  BY <1>5, <2>3, <3>1, SamePart
  <2>5. Part(data, o, s) = n
    BY <1>6, <1>7, <2>1, <2>2 DEF Bytes, Part
  <2>. QED  BY <1>1, <1>3, <2>1, <2>2, <2>4, <2>5
<1>9. IndexedEnd <= Len(data') /\ \A k \in 1 .. IndexedEnd : data'[k] = data[k]
  <2>1. IndexedEnd \in Nat /\ IndexedEnd <= m
    BY <1>2, <1>4
  <2>2. \A k \in 1 .. IndexedEnd : k \in 1 .. m
    BY <2>1
  <2>. QED  BY <1>5, <2>1, <2>2
<1>10. /\ loaded' = Append(loaded, e) /\ e.offset_begin = IndexedEnd
       /\ n # EmptyName => \A i \in DOMAIN loaded : getName(loaded[i]) # n
  BY <1>1, <1>2, <1>3, <1>6, <1>7
<1>11. /\ Apart' /\ NamesOK'
       /\ DOMAIN loaded = 1 .. l /\ DOMAIN loaded' = 1 .. l + 1
       /\ Len(loaded') = l + 1 /\ loaded'[l + 1] = e
       /\ \A i \in DOMAIN loaded : /\ loaded'[i] = loaded[i]
                                   /\ getName(loaded[i])' = getName(loaded[i])
                                   /\ Content(loaded[i])' = Content(loaded[i])
       /\ getName(loaded[l + 1])' = n
  BY <1>5, <1>8, <1>9, <1>10, AppendKeeps DEF IndexOK
<1>. QED
  BY <1>3, <1>7, <1>11

\* The index stays in order when a load ends.
LEMMA LoadEndIndex == ASSUME IInv, IndexOK, LoadEnd PROVE IndexOK'
<1>1. PICK l \in Nat : l = Len(loaded)
  BY DEF IInv, TypeOK
<1>2. Apart' /\ NamesOK' /\ DOMAIN loaded' = 1 .. l + 1 /\ loaded'[l + 1] = result'
  BY <1>1, LoadEndAppends
<1>3. AnswerOK'
  <2>1. l + 1 \in DOMAIN loaded'
    BY <1>2
  <2>. QED  BY <1>2, <2>1 DEF AnswerOK
<1>4. pc' = "idle"
  BY DEF LoadEnd
<1>5. LoadOK'
  BY <1>4 DEF LoadOK
<1>. QED
  BY <1>2, <1>3, <1>5 DEF IndexOK

\* Text registered from memory becomes an entry under its name, as it is.
LEMMA LoadFromViewAppends ==
    ASSUME IInv, IndexOK, NEW n \in Name, NEW view \in View, LoadFromView(n, view),
           NEW l \in Nat, l = Len(loaded)
    PROVE  /\ Apart' /\ NamesOK'
           /\ DOMAIN loaded = 1 .. l /\ DOMAIN loaded' = 1 .. l + 1
           /\ Len(loaded') = l + 1 /\ loaded'[l + 1] = result' /\ result' \in Info
           /\ \A i \in DOMAIN loaded : /\ loaded'[i] = loaded[i]
                                       /\ getName(loaded[i])' = getName(loaded[i])
                                       /\ Content(loaded[i])' = Content(loaded[i])
           /\ getName(loaded[l + 1])' = n
           /\ Content(loaded[l + 1])' = view
<1>1. /\ pc = "idle" /\ UNCHANGED <<files, pc, load>> /\ findFile(n) = NotFound
      /\ data' = data \o Entry(n, view)
      /\ result' = [offset_begin |-> Len(data), name_size |-> Len(n),
                    file_size |-> Len(view)]
      /\ loaded' = Append(loaded, result')
  BY DEF LoadFromView
<1>2. /\ data \in Seq(Byte) /\ n \in Seq(Byte) /\ view \in Seq(Byte)
      /\ Len(data) \in Nat /\ Len(n) \in Nat /\ Len(view) \in Nat
  BY Contents DEF IInv, TypeOK
<1>3. /\ data' \in Seq(Byte) /\ Len(data') = Len(data) + Len(n) + 1 + Len(view)
      /\ \A k \in 1 .. Len(data) : data'[k] = data[k]
      /\ \A k \in 1 .. Len(n) : data'[Len(data) + k] = n[k]
      /\ \A k \in 1 .. Len(view) : data'[Len(data) + Len(n) + 1 + k] = view[k]
  <2>1. data \in Seq(Byte) /\ n \in Seq(Byte) /\ view \in Seq(Byte)
    BY <1>2
  <2> DEFINE d == data \o Entry(n, view)
  <2>2. d \in Seq(Byte) /\ Len(d) = Len(data) + Len(n) + 1 + Len(view)
    BY <2>1, EntryBytes
  <2>3. \A k \in 1 .. Len(data) : d[k] = data[k]
    BY <2>1, EntryBytes
  <2>4. \A k \in 1 .. Len(n) : d[Len(data) + k] = n[k]
    BY <2>1, EntryBytes
  <2>5. \A k \in 1 .. Len(view) : d[Len(data) + Len(n) + 1 + k] = view[k]
    BY <2>1, EntryBytes
  <2>6. data' = d
    BY <1>1
  <2>. HIDE DEF d
  <2>. QED  BY <2>2, <2>3, <2>4, <2>5, <2>6
<1>4. IndexedEnd = Len(data)
  BY <1>1 DEF IInv, EntriesTile
<1>5. PICK e \in Info : e = result'
  BY <1>1, <1>2 DEF Info
<1>6. Part(data', e.offset_begin, e.name_size) = n
  <2>1. PICK z \in Nat : z = Len(data)
    BY <1>2
  <2>2. PICK s \in Nat : s = Len(n)
    BY <1>2
  <2>3. z + s <= Len(data')
    BY <1>2, <1>3, <2>1, <2>2
  <2>4. /\ Part(data', z, s) \in Seq(Byte) /\ Len(Part(data', z, s)) = s
        /\ \A k \in 1 .. s : Part(data', z, s)[k] = data'[z + k]
    BY <1>3, <2>3, PartOf
  <2>5. \A k \in 1 .. s : Part(data', z, s)[k] = n[k]
    BY <1>3, <2>1, <2>2, <2>4
  <2>6. Part(data', z, s) = n
    BY <1>2, <2>2, <2>4, <2>5, SeqEqual
  <2>. QED  BY <1>1, <1>5, <2>1, <2>2, <2>6
<1>7. IndexedEnd <= Len(data') /\ \A k \in 1 .. IndexedEnd : data'[k] = data[k]
  BY <1>2, <1>3, <1>4
<1>8. /\ loaded' = Append(loaded, e) /\ e.offset_begin = IndexedEnd
      /\ n # EmptyName => \A i \in DOMAIN loaded : getName(loaded[i]) # n
  <2>1. n # EmptyName => \A i \in DOMAIN loaded : getName(loaded[i]) # n
    BY <1>1, FoundEntry DEF IndexOK
  <2>. QED  BY <1>1, <1>4, <1>5, <2>1
<1>9. /\ Apart' /\ NamesOK'
      /\ DOMAIN loaded = 1 .. l /\ DOMAIN loaded' = 1 .. l + 1
      /\ Len(loaded') = l + 1 /\ loaded'[l + 1] = e
      /\ \A i \in DOMAIN loaded : /\ loaded'[i] = loaded[i]
                                  /\ getName(loaded[i])' = getName(loaded[i])
                                  /\ Content(loaded[i])' = Content(loaded[i])
      /\ getName(loaded[l + 1])' = n
  BY <1>3, <1>6, <1>7, <1>8, AppendKeeps DEF IndexOK
<1>10. Content(loaded[l + 1])' = view
  <2>1. PICK z \in Nat : z = cOffset(e)
    BY <1>1, <1>2, <1>5 DEF cOffset
  <2>2. z = Len(data) + Len(n) + 1
    BY <1>1, <1>5, <2>1 DEF cOffset
  <2>3. PICK s \in Nat : s = Len(view)
    BY <1>2
  <2>4. z + s <= Len(data')
    BY <1>2, <1>3, <2>2, <2>3
  <2>5. /\ Part(data', z, s) \in Seq(Byte) /\ Len(Part(data', z, s)) = s
        /\ \A k \in 1 .. s : Part(data', z, s)[k] = data'[z + k]
    BY <1>3, <2>4, PartOf
  <2>6. \A k \in 1 .. s : Part(data', z, s)[k] = view[k]
    BY <1>3, <2>2, <2>3, <2>5
  <2>7. Part(data', z, s) = view
    BY <1>2, <2>3, <2>5, <2>6, SeqEqual
  <2>8. e.file_size = s
    BY <1>1, <1>5, <2>3
  <2>9. Content(loaded[l + 1])' = Part(data', z, s)
    BY <1>9, <2>1, <2>8 DEF Content, Bytes, Part, cOffset
  <2>. QED  BY <2>7, <2>9
<1>. QED
  BY <1>5, <1>9, <1>10

\* The index stays in order when text is registered.
LEMMA LoadFromViewIndex ==
    ASSUME IInv, IndexOK, NEW n \in Name, NEW view \in View, LoadFromView(n, view)
    PROVE  IndexOK'
<1>1. PICK l \in Nat : l = Len(loaded)
  BY DEF IInv, TypeOK
<1>2. Apart' /\ NamesOK' /\ DOMAIN loaded' = 1 .. l + 1 /\ loaded'[l + 1] = result'
  BY <1>1, LoadFromViewAppends
<1>3. AnswerOK'
  <2>1. l + 1 \in DOMAIN loaded'
    BY <1>2
  <2>. QED  BY <1>2, <2>1 DEF AnswerOK
<1>4. pc' = "idle"
  BY DEF LoadFromView
<1>5. LoadOK'
  BY <1>4 DEF LoadOK
<1>. QED
  BY <1>2, <1>3, <1>5 DEF IndexOK

\* Popping the last entry leaves the others and their bytes.
LEMMA PopStays ==
    ASSUME IInv, IndexOK, Pop, loaded # <<>>, NEW l \in Nat, l = Len(loaded)
    PROVE  /\ l # 0 /\ DOMAIN loaded = 1 .. l /\ DOMAIN loaded' = 1 .. l - 1
           /\ loaded' = Front(loaded)
           /\ \A i \in 1 .. l - 1 : /\ i \in DOMAIN loaded /\ loaded'[i] = loaded[i]
                                    /\ getName(loaded[i])' = getName(loaded[i])
                                    /\ Content(loaded[i])' = Content(loaded[i])
                                    /\ EntryEnd(loaded[i])' = EntryEnd(loaded[i])
<1>1. loaded' = Front(loaded) /\ data' = SubSeq(data, 1, Last(loaded).offset_begin)
  BY DEF Pop
<1>2. /\ loaded \in Seq(Info) /\ l # 0 /\ DOMAIN loaded = 1 .. l
      /\ Last(loaded) = loaded[l] /\ data \in Seq(Byte) /\ Len(data) \in Nat
  BY LastEntry DEF IInv, TypeOK
<1>3. PICK cut \in Nat : cut = loaded[l].offset_begin
  BY <1>2, LastEntry DEF IInv
<1>4. l \in DOMAIN loaded
  BY <1>2
<1>5. cut <= Len(data)
  <2>1. Apart
    BY DEF IndexOK
  <2>2. /\ loaded[l].name_size \in Nat /\ loaded[l].file_size \in Nat
        /\ EntryEnd(loaded[l]) = cut + loaded[l].name_size + 1 + loaded[l].file_size
        /\ EntryEnd(loaded[l]) <= IndexedEnd
        /\ IndexedEnd \in Nat /\ IndexedEnd <= Len(data)
    BY <1>3, <1>4, <2>1, EntryBounds
  <2>. QED  BY <1>2, <2>2
<1>6. data' \in Seq(Byte) /\ Len(data') = cut /\ \A k \in 1 .. cut : data'[k] = data[k]
  <2>1. data' = SubSeq(data, 1, cut) /\ cut \in 0 .. Len(data)
    BY <1>1, <1>2, <1>3, <1>5
  <2>. QED  BY <1>2, <2>1, FewerBytes
<1>7. /\ DOMAIN loaded' = 1 .. l - 1
      /\ \A i \in 1 .. l - 1 : i \in DOMAIN loaded /\ loaded'[i] = loaded[i]
  BY <1>1, <1>2 DEF Front
<1>8. ASSUME NEW i \in 1 .. l - 1
      PROVE  /\ getName(loaded[i])' = getName(loaded[i])
             /\ Content(loaded[i])' = Content(loaded[i])
             /\ EntryEnd(loaded[i])' = EntryEnd(loaded[i])
  <2>1. i \in DOMAIN loaded /\ loaded'[i] = loaded[i] /\ i < l
    BY <1>7
  <2>2. EntryEnd(loaded[i]) <= cut
    BY <1>3, <1>4, <2>1 DEF IndexOK, Apart
  <2>3. cut <= Len(data')
    BY <1>6
  <2>. QED  BY <1>5, <1>6, <2>1, <2>2, <2>3, EntryStays DEF IndexOK
<1>. QED
  BY <1>1, <1>2, <1>7, <1>8

\* What is left is in order, and nothing is returned.
LEMMA PopIndex == ASSUME IInv, IndexOK, Pop PROVE IndexOK'
<1>1. pc = "idle" /\ result' = NotFound /\ UNCHANGED <<files, pc, load>>
  BY DEF Pop
<1>2. CASE loaded = <<>>
  <2>1. UNCHANGED <<data, loaded>>
    BY <1>2 DEF Pop
  <2>. QED  BY <1>1, <2>1, CallIndex
<1>3. CASE loaded # <<>>
  <2>1. PICK l \in Nat : l = Len(loaded)
    BY DEF IInv, TypeOK
  <2>2. /\ DOMAIN loaded = 1 .. l /\ DOMAIN loaded' = 1 .. l - 1
        /\ \A i \in 1 .. l - 1 : /\ i \in DOMAIN loaded /\ loaded'[i] = loaded[i]
                                 /\ getName(loaded[i])' = getName(loaded[i])
                                 /\ EntryEnd(loaded[i])' = EntryEnd(loaded[i])
    BY <1>3, <2>1, PopStays
  <2>3. Apart'
    BY <2>2 DEF IndexOK, Apart
  <2>4. NamesOK'
    BY <2>2 DEF IndexOK, NamesOK
  <2>5. AnswerOK' /\ LoadOK'
    BY <1>1 DEF AnswerOK, LoadOK
  <2>. QED  BY <2>3, <2>4, <2>5 DEF IndexOK
<1>. QED
  BY <1>2, <1>3

\* Every step keeps the four parts.
LEMMA NextIndex == IInv /\ IndexOK /\ [Next]_vars => IndexOK'
<1>. SUFFICES ASSUME IInv, IndexOK, [Next]_vars PROVE IndexOK'
  OBVIOUS
<1>1. ASSUME NEW n \in Name, ReturnCached(n) PROVE IndexOK'
  <2>1. /\ pc = "idle" /\ result' = findFile(n) /\ findFile(n) # NotFound
        /\ UNCHANGED <<data, loaded, pc, load>>
    BY <1>1 DEF ReturnCached
  <2>2. n # EmptyName
    BY <2>1 DEF findFile
  <2>3. \E i \in DOMAIN loaded : result' = loaded[i]
    BY <2>1, <2>2, FoundEntry DEF IndexOK
  <2>. QED  BY <2>1, <2>3, CallIndex
<1>2. ASSUME NEW n \in Name, LoadMissing(n) PROVE IndexOK'
  BY <1>2, CallIndex DEF LoadMissing
<1>3. CASE Rewrite
  BY <1>3, CallIndex DEF Rewrite, IndexOK, AnswerOK
<1>4. CASE UNCHANGED vars
  BY <1>4 DEF vars, IndexOK, Apart, NamesOK, AnswerOK, LoadOK, EntryEnd, cOffset, getName, Bytes
<1>. QED
  BY <1>1, <1>2, <1>3, <1>4, LoadBeginIndex, LoadFromViewIndex, NormaliseIndex,
     LoadEndIndex, PopIndex DEF Next

\* The index stays in order in every reachable state of FileManager.
THEOREM IndexInvariance == Spec => [](IInv /\ IndexOK)
<1>1. Init => IInv /\ IndexOK
  BY InitIInv, InitIndex
<1>2. IInv /\ IndexOK /\ [Next]_vars => (IInv /\ IndexOK)'
  BY NextKeeps, NextIndex
<1>. QED
  BY <1>1, <1>2, PTL DEF Spec

\* Whatever is loaded, popped and rewritten on disk in between, loadFile and
\* loadFromView never index a name twice, unless it is the sentinel _EMPTY_SV
\* (seven bytes 0xFF), which _findFile does not look up.
THEOREM NamesLoadedOnce == ASSUME EmptyName \notin Name PROVE Spec => []LoadedOnce
<1>1. IInv /\ IndexOK => LoadedOnce
  BY DEF IndexOK, NamesOK, LoadedOnce
<1>. QED
  BY <1>1, IndexInvariance, PTL

-----------------------------------------------------------------------------
(* Line ends: the loop of loadFile computes the UnixLines of the file.     *)

\* The bytes that stand for themselves or for a line end: all but the second
\* half of a \r\n.
KeptIn(raw) == {i \in DOMAIN raw : ~(i > 1 /\ raw[i-1] = "CR" /\ raw[i] = "LF")}

\* How many of the first r bytes do.
Rank(raw, r) == Cardinality({i \in KeptIn(raw) : i <= r})

\* What one of them becomes.
Unix(byte) == IF byte = "CR" THEN "LF" ELSE byte

\* Ranks count up from 0 by the bytes that are kept.
LEMMA RankSteps ==
    ASSUME NEW raw \in Seq(Byte), NEW r \in 0 .. Len(raw)
    PROVE  /\ Rank(raw, r) \in Nat
           /\ Rank(raw, 0) = 0
           /\ r + 1 \in KeptIn(raw) => Rank(raw, r + 1) = Rank(raw, r) + 1
           /\ r + 1 \notin KeptIn(raw) => Rank(raw, r + 1) = Rank(raw, r)
<1> DEFINE K(q) == {i \in KeptIn(raw) : i <= q}
<1>1. KeptIn(raw) \subseteq 1 .. Len(raw) /\ Len(raw) \in Nat
  BY DEF KeptIn
<1>2. IsFiniteSet(K(r)) /\ Cardinality(K(r)) \in Nat
  <2>1. IsFiniteSet(1 .. Len(raw))
    BY <1>1, FS_Interval
  <2>2. K(r) \in SUBSET (1 .. Len(raw))
    BY <1>1
  <2>. HIDE DEF K
  <2>3. IsFiniteSet(K(r))
    BY <2>1, <2>2, FS_Subset
  <2>. QED  BY <2>3, FS_CardinalityType
<1>3. K(0) = {}
  BY <1>1
<1>4. r + 1 \in KeptIn(raw) => K(r + 1) = K(r) \cup {r + 1} /\ r + 1 \notin K(r)
  BY <1>1
<1>5. r + 1 \notin KeptIn(raw) => K(r + 1) = K(r)
  BY <1>1
<1>6. \A q : Rank(raw, q) = Cardinality(K(q))
  BY DEF Rank
<1>. HIDE DEF K
<1>7. r + 1 \in KeptIn(raw) => Cardinality(K(r + 1)) = Cardinality(K(r)) + 1
  BY <1>2, <1>4, FS_AddElement
<1>8. Cardinality(K(0)) = 0
  BY <1>3, FS_EmptySet
<1>. QED
  BY <1>2, <1>5, <1>6, <1>7, <1>8

\* A kept byte ranks above every byte before it, and by at least 1.
LEMMA RankGrows ==
    ASSUME NEW raw \in Seq(Byte), NEW r \in 0 .. Len(raw), NEW j \in KeptIn(raw), r < j
    PROVE  Rank(raw, r) < Rank(raw, j) /\ Rank(raw, j) <= Cardinality(KeptIn(raw))
<1> DEFINE K(q) == {i \in KeptIn(raw) : i <= q}
<1>1. KeptIn(raw) \subseteq 1 .. Len(raw) /\ Len(raw) \in Nat
  BY DEF KeptIn
<1>2. IsFiniteSet(KeptIn(raw))
  <2>1. IsFiniteSet(1 .. Len(raw))
    BY <1>1, FS_Interval
  <2>. QED  BY <1>1, <2>1, FS_Subset
<1>3. K(j) \in SUBSET KeptIn(raw) /\ K(r) \in SUBSET K(j) /\ j \in K(j) /\ j \notin K(r)
  BY <1>1
<1>4. \A q : Rank(raw, q) = Cardinality(K(q))
  BY DEF Rank
<1>. HIDE DEF K
<1>5. IsFiniteSet(K(j)) /\ Cardinality(K(j)) <= Cardinality(KeptIn(raw))
  BY <1>2, <1>3, FS_Subset
<1>6. /\ IsFiniteSet(K(r)) /\ Cardinality(K(r)) <= Cardinality(K(j))
      /\ Cardinality(K(j)) = Cardinality(K(r)) => K(j) = K(r)
  BY <1>3, <1>5, FS_Subset
<1>7. Cardinality(K(r)) \in Nat /\ Cardinality(K(j)) \in Nat
  BY <1>5, <1>6, FS_CardinalityType
<1>8. Cardinality(K(r)) # Cardinality(K(j))
  BY <1>3, <1>6
<1>. QED
  BY <1>4, <1>5, <1>6, <1>7, <1>8

\* UnixLines has the kept bytes in order, line ends translated.
LEMMA UnixLinesAt ==
    ASSUME NEW raw \in Seq(Byte)
    PROVE  /\ Rank(raw, Len(raw)) \in Nat
           /\ Store!UnixLines(raw) = [k \in 1 .. Rank(raw, Len(raw)) |-> Store!UnixLines(raw)[k]]
           /\ \A i \in KeptIn(raw) :
                 /\ Rank(raw, i) \in 1 .. Rank(raw, Len(raw))
                 /\ Store!UnixLines(raw)[Rank(raw, i)] = Unix(raw[i])
<1> DEFINE kept  == {i \in DOMAIN raw : ~(i > 1 /\ raw[i-1] = "CR" /\ raw[i] = "LF")}
           n     == Cardinality(kept)
           rank  == [i \in kept |-> Cardinality({j \in kept : j <= i})]
           At(k) == CHOOSE j \in kept : rank[j] = k
<1>1. kept = KeptIn(raw) /\ kept \subseteq 1 .. Len(raw) /\ Len(raw) \in Nat
  BY DEF KeptIn
<1>2. \A i \in kept : rank[i] = Rank(raw, i)
  BY DEF Rank, KeptIn
<1>3. Store!UnixLines(raw) = [k \in 1 .. n |-> IF raw[At(k)] = "CR" THEN "LF" ELSE raw[At(k)]]
  BY DEF Store!UnixLines, Store!Cardinality, Cardinality
<1>. HIDE DEF kept, rank
<1>4. n = Rank(raw, Len(raw)) /\ n \in Nat
  <2>1. {i \in KeptIn(raw) : i <= Len(raw)} = KeptIn(raw)
    BY <1>1
  <2>2. Rank(raw, Len(raw)) \in Nat
    BY <1>1, RankSteps
  <2>. QED  BY <1>1, <2>1, <2>2 DEF Rank
<1>. HIDE DEF n
<1>5. ASSUME NEW i \in kept
      PROVE  Rank(raw, i) \in 1 .. n /\ At(Rank(raw, i)) = i
  <2>1. i \in 1 .. Len(raw) /\ i - 1 \in 0 .. Len(raw) /\ i \in 0 .. Len(raw)
    BY <1>1, <1>5
  <2>2. Rank(raw, i - 1) \in Nat /\ Rank(raw, i) \in Nat
    BY <1>1, <2>1, RankSteps
  <2>3. Rank(raw, i - 1) < Rank(raw, i) /\ Rank(raw, i) <= n
    BY <1>1, <1>5, <2>1, RankGrows DEF n
  <2>4. ASSUME NEW j \in kept, Rank(raw, j) = Rank(raw, i) PROVE j = i
    <3>1. j \in 1 .. Len(raw) /\ j \in 0 .. Len(raw)
      BY <1>1, <2>4
    <3>2. Rank(raw, j) \in Nat
      BY <3>1, RankSteps
    <3>3. i < j => Rank(raw, i) < Rank(raw, j)
      BY <1>1, <2>1, <2>4, RankGrows
    <3>4. j < i => Rank(raw, j) < Rank(raw, i)
      BY <1>1, <1>5, <3>1, RankGrows
    <3>. QED  BY <2>1, <2>2, <2>4, <3>1, <3>2, <3>3, <3>4
  <2>5. Rank(raw, i) \in 1 .. n
    BY <1>4, <2>2, <2>3
  <2>6. At(Rank(raw, i)) \in kept /\ rank[At(Rank(raw, i))] = Rank(raw, i)
    BY <1>2, <1>5
  <2>. QED  BY <1>2, <2>4, <2>5, <2>6
<1>6. ASSUME NEW i \in kept
      PROVE  Store!UnixLines(raw)[Rank(raw, i)] = Unix(raw[i])
  BY <1>3, <1>5, <1>6 DEF Unix
<1>7. Store!UnixLines(raw) = [k \in 1 .. n |-> Store!UnixLines(raw)[k]]
  BY <1>3
<1>. QED
  BY <1>1, <1>4, <1>5, <1>6, <1>7

\* raw is the file as it is on disk.  What the loop has not read is still
\* there; what it has written are the UnixLines of what it has read, and it
\* never stops between the halves of a \r\n.
LinesOf(raw) ==
    /\ rawLen = Len(raw)
    /\ \A k \in load.r + 1 .. Len(raw) : data[dest + k] = raw[k]
    /\ load.sanitized = Rank(raw, load.r)
    /\ \A k \in 1 .. load.sanitized : data[dest + k] = Store!UnixLines(raw)[k]
    /\ load.r > 0 /\ load.r < Len(raw) /\ raw[load.r] = "CR" => raw[load.r + 1] # "LF"

LinesOK == pc = "normalise" => LinesOf(files[load.name])

\* The raw bytes are in place before the first iteration.
LEMMA LoadBeginLines ==
    ASSUME IInv, NEW n \in Name, LoadBegin(n)
    PROVE  LinesOK'
<1>1. /\ pc' = "normalise" /\ n \in DOMAIN files /\ files' = files
      /\ data' = data \o Entry(n, files[n])
      /\ load' = [name |-> n, offset |-> Len(data), r |-> 0, sanitized |-> 0]
  BY DEF LoadBegin
<1>2. PICK raw \in Seq(Byte) : raw = files[n]
  BY <1>1, FileContent DEF IInv
<1>3. data \in Seq(Byte) /\ n \in Seq(Byte) /\ data' = data \o Entry(n, raw)
  BY <1>1, <1>2, Contents DEF IInv, TypeOK
<1>4. /\ data' \in Seq(Byte) /\ Len(data') = Len(data) + Len(n) + 1 + Len(raw)
      /\ \A k \in 1 .. Len(raw) : data'[Len(data) + Len(n) + 1 + k] = raw[k]
  <2>1. data \in Seq(Byte) /\ n \in Seq(Byte) /\ raw \in Seq(Byte)
    BY <1>3
  <2>2. data' = data \o Entry(n, raw)
    BY <1>3
  <2>. QED  BY <2>1, <2>2, EntryBytes
<1>5. dest' = Len(data) + Len(n) + 1 /\ load'.r = 0 /\ load'.sanitized = 0 /\ load'.name = n
  BY <1>1 DEF dest
<1>6. Len(data) \in Nat /\ Len(n) \in Nat /\ Len(raw) \in Nat
  BY <1>3
<1>7. rawLen' = Len(raw)
  BY <1>4, <1>5, <1>6 DEF rawLen
<1>8. Rank(raw, 0) = 0
  BY <1>6, RankSteps
<1>9. \A k \in 1 .. Len(raw) : data'[dest' + k] = raw[k]
  BY <1>4, <1>5
<1>10. files'[load'.name] = raw
  BY <1>1, <1>2, <1>5
<1>11. LinesOf(raw)'
  BY <1>5, <1>7, <1>8, <1>9 DEF LinesOf
<1>. QED
  BY <1>10, <1>11 DEF LinesOK, LinesOf, rawLen, dest

\* One iteration translates one more line end or byte.
LEMMA NormaliseLines == ASSUME IInv, IndexOK, LinesOK, NormaliseByte PROVE LinesOK'
<1>1. pc = "normalise" /\ load.r < rawLen
  BY DEF NormaliseByte
<1>2. load.name \in Name /\ load.name \in DOMAIN files
  BY <1>1 DEF IndexOK, LoadOK
<1>3. PICK x \in Seq(Byte) : x = load.name
  BY <1>2, Contents
<1>4. PICK raw \in Seq(Byte) : raw = files[load.name]
  BY <1>2, FileContent DEF IInv
<1> DEFINE r == load.r
           s == load.sanitized
           d == dest
<1>5. /\ r \in Nat /\ s \in Nat /\ s <= r /\ d \in Nat /\ Len(data) \in Nat
      /\ rawLen = Len(data) - d
  BY <1>1, Loading
<1>6. /\ rawLen = Len(raw) /\ Len(raw) \in Nat
      /\ \A k \in r + 1 .. Len(raw) : data[d + k] = raw[k]
      /\ s = Rank(raw, r)
      /\ \A k \in 1 .. s : data[d + k] = Store!UnixLines(raw)[k]
      /\ r > 0 /\ r < Len(raw) /\ raw[r] = "CR" => raw[r + 1] # "LF"
  BY <1>1, <1>4 DEF LinesOK, LinesOf
<1>7. /\ pc' = "normalise" /\ files' = files /\ load'.name = x
      /\ load'.sanitized = s + 1 /\ dest' = d /\ rawLen' = rawLen
      /\ \A k \in 1 .. Len(data) : k # d + s + 1 => data'[k] = data[k]
      /\ data'[d + s + 1] = IF data[d + r + 1] = "CR" THEN "LF" ELSE data[d + r + 1]
      /\ load'.r = r + (IF /\ data[d + r + 1] = "CR"
                           /\ r + 1 < rawLen
                           /\ data[d + r + 2] = "LF" THEN 2 ELSE 1)
  BY <1>3, NormaliseWrites
<1>8. /\ r + 1 \in 1 .. Len(raw) /\ r \in 0 .. Len(raw)
      /\ Len(data) = d + Len(raw) /\ r < Len(raw)
  <2>1. r < Len(raw) /\ Len(raw) \in Nat /\ r \in Nat
    BY <1>1, <1>5, <1>6
  <2>2. Len(raw) = Len(data) - d /\ Len(data) \in Nat /\ d \in Nat
    BY <1>5, <1>6
  <2>. HIDE DEF r, d
  <2>. QED  BY <2>1, <2>2
<1>. HIDE DEF r, s, d
<1>9. data[d + r + 1] = raw[r + 1] /\ (r + 1 < rawLen => data[d + r + 2] = raw[r + 2])
  <2>1. r + 1 \in r + 1 .. Len(raw) /\ d + r + 1 = d + (r + 1)
    BY <1>5, <1>8
  <2>2. r + 1 < rawLen => r + 2 \in r + 1 .. Len(raw) /\ d + r + 2 = d + (r + 2)
    BY <1>5, <1>6, <1>8
  <2>. QED  BY <1>6, <2>1, <2>2
<1>10. r + 1 \in KeptIn(raw)
  BY <1>5, <1>6, <1>8 DEF KeptIn
<1>11. Rank(raw, r + 1) = s + 1
  BY <1>6, <1>8, <1>10, RankSteps
<1>12. data'[d + s + 1] = Store!UnixLines(raw)[s + 1]
  <2>1. Store!UnixLines(raw)[s + 1] = Unix(raw[r + 1])
    BY <1>10, <1>11, UnixLinesAt
  <2>. QED  BY <1>7, <1>9, <2>1 DEF Unix
<1>13. \A k \in 1 .. s + 1 : data'[d + k] = Store!UnixLines(raw)[k]
  <2>1. \A k \in 1 .. s : d + k \in 1 .. Len(data) /\ d + k # d + s + 1
    BY <1>5, <1>8
  <2>2. \A k \in 1 .. s : data'[d + k] = Store!UnixLines(raw)[k]
    BY <1>6, <1>7, <2>1
  <2>3. \A k \in 1 .. s + 1 : k \in 1 .. s \/ (k = s + 1 /\ d + k = d + s + 1)
    BY <1>5
  <2>. QED  BY <1>12, <2>2, <2>3
<1>14. \A k \in r + 2 .. Len(raw) : data'[d + k] = raw[k]
  <2>1. \A k \in r + 2 .. Len(raw) :
           k \in r + 1 .. Len(raw) /\ d + k \in 1 .. Len(data) /\ d + k # d + s + 1
    BY <1>5, <1>8
  <2>. QED  BY <1>6, <1>7, <2>1
<1>15. files'[load'.name] = raw
  BY <1>3, <1>4, <1>7
<1>16. CASE raw[r + 1] = "CR" /\ r + 1 < Len(raw) /\ raw[r + 2] = "LF"
  <2>1. load'.r = r + 2
    BY <1>6, <1>7, <1>9, <1>16
  <2>2. r + 1 \in 0 .. Len(raw) /\ (r + 1) + 1 = r + 2 /\ (r + 2) - 1 = r + 1
    BY <1>5, <1>8, <1>16
  <2>3. r + 2 \notin KeptIn(raw)
    BY <1>5, <1>16, <2>2 DEF KeptIn
  <2>4. Rank(raw, r + 2) = s + 1
    BY <1>11, <2>2, <2>3, RankSteps
  <2>5. raw[r + 2] # "CR"
    BY <1>16
  <2>6. \A k \in r + 2 + 1 .. Len(raw) : data'[d + k] = raw[k]
    <3>1. \A k \in r + 2 + 1 .. Len(raw) : k \in r + 2 .. Len(raw)
      BY <1>5, <1>8
    <3>. QED  BY <1>14, <3>1
  <2>7. LinesOf(raw)'
    BY <1>6, <1>7, <1>13, <2>1, <2>4, <2>5, <2>6 DEF LinesOf
  <2>. QED  BY <1>15, <2>7 DEF LinesOK, LinesOf, rawLen, dest
<1>17. CASE ~(raw[r + 1] = "CR" /\ r + 1 < Len(raw) /\ raw[r + 2] = "LF")
  <2>1. load'.r = r + 1
    BY <1>6, <1>7, <1>9, <1>17
  <2>2. (r + 1) + 1 = r + 2
    BY <1>5
  <2>3. r + 1 < Len(raw) /\ raw[r + 1] = "CR" => raw[(r + 1) + 1] # "LF"
    BY <1>17, <2>2
  <2>4. \A k \in (r + 1) + 1 .. Len(raw) : data'[d + k] = raw[k]
    BY <1>14, <2>2
  <2>5. LinesOf(raw)'
    BY <1>6, <1>7, <1>11, <1>13, <2>1, <2>3, <2>4 DEF LinesOf
  <2>. QED  BY <1>15, <2>5 DEF LinesOK, LinesOf, rawLen, dest
<1>. QED
  BY <1>16, <1>17

\* Every step keeps the loop's invariant.
LEMMA NextLines == IInv /\ IndexOK /\ LinesOK /\ [Next]_vars => LinesOK'
<1>. SUFFICES ASSUME IInv, IndexOK, LinesOK, [Next]_vars PROVE LinesOK'
  OBVIOUS
<1>1. ASSUME NEW n \in Name, NEW view \in View,
             ReturnCached(n) \/ LoadMissing(n) \/ LoadFromView(n, view)
      PROVE  LinesOK'
  <2>1. pc' = "idle"
    BY <1>1 DEF ReturnCached, LoadMissing, LoadFromView
  <2>. QED  BY <2>1 DEF LinesOK
<1>2. CASE LoadEnd \/ Pop \/ Rewrite
  <2>1. pc' = "idle"
    BY <1>2 DEF LoadEnd, Pop, Rewrite
  <2>. QED  BY <2>1 DEF LinesOK
<1>3. CASE UNCHANGED vars
  BY <1>3 DEF vars, LinesOK, LinesOf, rawLen, dest
<1>4. ASSUME NEW n \in Name, ReturnCached(n) \/ LoadMissing(n) PROVE LinesOK'
  <2>1. pc' = "idle"
    BY <1>4 DEF ReturnCached, LoadMissing
  <2>. QED  BY <2>1 DEF LinesOK
<1>. QED
  BY <1>1, <1>2, <1>3, <1>4, LoadBeginLines, NormaliseLines DEF Next

-----------------------------------------------------------------------------
(* FileManager implements FileStore.                                       *)

\* The file an entry stands for.
Mapped(f) == [name |-> getName(f), content |-> Content(f)]

Files  == [i \in DOMAIN loaded |-> Mapped(loaded[i])]
Answer == IF result = NotFound THEN Store!NoFile ELSE Mapped(result)

File == [name : Seq(Byte), content : Seq(Byte)]

\* The entries stand for a sequence of files.
LEMMA FilesSeq ==
    IInv /\ IndexOK => /\ Files \in Seq(File) /\ Len(Files) = Len(loaded)
                       /\ DOMAIN Files = DOMAIN loaded
<1>. SUFFICES ASSUME IInv, IndexOK
              PROVE  /\ Files \in Seq(File) /\ Len(Files) = Len(loaded)
                     /\ DOMAIN Files = DOMAIN loaded
  OBVIOUS
<1>1. loaded \in Seq(Info) /\ Len(loaded) \in Nat /\ DOMAIN loaded = 1 .. Len(loaded)
  BY DEF IInv, TypeOK
<1>2. ASSUME NEW i \in DOMAIN loaded PROVE Mapped(loaded[i]) \in File
  <2>1. PICK o \in Nat : o = loaded[i].offset_begin
    BY EntryBounds DEF IndexOK
  <2>2. PICK s \in Nat : s = loaded[i].name_size
    BY EntryBounds DEF IndexOK
  <2>3. PICK c \in Nat : c = cOffset(loaded[i])
    BY EntryBounds DEF IndexOK
  <2>4. PICK t \in Nat : t = loaded[i].file_size
    BY EntryBounds DEF IndexOK
  <2>5. data \in Seq(Byte) /\ Len(data) \in Nat
    BY DEF IInv, TypeOK
  <2>6. c = o + s + 1 /\ c + t <= Len(data)
    <3>1. c = o + s + 1 /\ EntryEnd(loaded[i]) = c + t
      BY <2>1, <2>2, <2>3, <2>4, EntryBounds DEF IndexOK
    <3>2. EntryEnd(loaded[i]) <= IndexedEnd /\ IndexedEnd <= Len(data) /\ IndexedEnd \in Nat
      BY EntryBounds DEF IndexOK
    <3>. QED  BY <2>5, <3>1, <3>2
  <2>7. o + s <= Len(data)
    BY <2>5, <2>6
  <2>8. Part(data, o, s) \in Seq(Byte)
    BY <2>5, <2>7, PartOf
  <2>9. Part(data, c, t) \in Seq(Byte)
    BY <2>5, <2>6, PartOf
  <2>. QED
    BY <2>1, <2>2, <2>3, <2>4, <2>8, <2>9 DEF Mapped, File, getName, Content, Bytes, Part
<1>3. PICK n \in Nat : n = Len(loaded)
  BY <1>1
<1>4. Files \in [1 .. n -> File]
  BY <1>1, <1>2, <1>3 DEF Files
<1>5. Files \in Seq(File) /\ Len(Files) = n
  BY <1>4
<1>. QED
  BY <1>1, <1>3, <1>4, <1>5

\* A step that keeps the entries and the answer keeps the files they stand for.
LEMMA FilesStay ==
    ASSUME IInv, IndexOK, loaded' = loaded, result' = result,
           data' \in Seq(Byte), IndexedEnd <= Len(data'),
           \A k \in 1 .. IndexedEnd : data'[k] = data[k]
    PROVE  Files' = Files /\ Answer' = Answer
<1>1. \A i \in DOMAIN loaded : /\ getName(loaded[i])' = getName(loaded[i])
                               /\ Content(loaded[i])' = Content(loaded[i])
  BY SameIndexKeeps DEF IndexOK
<1>2. \A i \in DOMAIN loaded : Mapped(loaded[i])' = Mapped(loaded[i])
  BY <1>1 DEF Mapped
<1>3. Files' = Files
  BY <1>2 DEF Files
<1>4. Answer' = Answer
  <2>1. CASE result = NotFound
    BY <2>1 DEF Answer, Store!NoFile
  <2>2. CASE result # NotFound
    <3>1. PICK i \in DOMAIN loaded : result = loaded[i]
      BY <2>2 DEF IndexOK, AnswerOK
    <3>2. Mapped(result)' = Mapped(result)
      BY <1>2, <3>1
    <3>. QED  BY <2>2, <3>2 DEF Answer
  <2>. QED  BY <2>1, <2>2
<1>. QED
  BY <1>3, <1>4

\* An appended entry stands for one more file.
LEMMA FilesAppend ==
    ASSUME IInv, IInv', IndexOK, IndexOK', NEW l \in Nat, l = Len(loaded),
           DOMAIN loaded = 1 .. l, DOMAIN loaded' = 1 .. l + 1, Len(loaded') = l + 1,
           \A i \in DOMAIN loaded : /\ loaded'[i] = loaded[i]
                                    /\ getName(loaded[i])' = getName(loaded[i])
                                    /\ Content(loaded[i])' = Content(loaded[i])
    PROVE  Files' = Append(Files, Mapped(loaded[l + 1])')
<1>1. /\ Files \in Seq(File) /\ Files' \in Seq(File)
      /\ Len(Files) = l /\ Len(Files') = l + 1
      /\ DOMAIN Files = 1 .. l /\ DOMAIN Files' = 1 .. l + 1
  <2>1. (IInv /\ IndexOK => /\ Files \in Seq(File) /\ Len(Files) = Len(loaded)
                            /\ DOMAIN Files = DOMAIN loaded)'
    BY FilesSeq, PTL
  <2>2. Files' \in Seq(File) /\ Len(Files)' = Len(loaded)' /\ DOMAIN Files' = DOMAIN loaded'
    BY <2>1
  <2>. QED  BY <2>2, FilesSeq
<1>2. \A i \in 1 .. l : Files'[i] = Files[i]
  <2>1. \A i \in 1 .. l : Mapped(loaded[i])' = Mapped(loaded[i])
    BY DEF Mapped
  <2>. QED  BY <2>1 DEF Files
<1>3. PICK f \in File : f = Mapped(loaded[l + 1])'
  <2>1. l + 1 \in 1 .. l + 1
    OBVIOUS
  <2>2. Files'[l + 1] = Mapped(loaded[l + 1])'
    BY <2>1 DEF Files
  <2>3. Files'[l + 1] \in File
    BY <1>1, <2>1
  <2>. QED  BY <2>2, <2>3
<1>4. Files'[l + 1] = f
  <2>1. l + 1 \in 1 .. l + 1
    OBVIOUS
  <2>. QED  BY <1>3, <2>1 DEF Files
<1>5. /\ Append(Files, f) \in Seq(File) /\ Len(Append(Files, f)) = l + 1
      /\ \A i \in 1 .. l : Append(Files, f)[i] = Files[i]
      /\ Append(Files, f)[l + 1] = f
  BY <1>1, AppendProperties
<1>6. \A i \in 1 .. l + 1 : Files'[i] = Append(Files, f)[i]
  <2>1. \A i \in 1 .. l + 1 : i \in 1 .. l \/ i = l + 1
    OBVIOUS
  <2>. QED  BY <1>2, <1>4, <1>5, <2>1
<1>7. Files' = Append(Files, f)
  BY <1>1, <1>5, <1>6, SeqEqual
<1>. QED
  BY <1>3, <1>7

\* FileStore has a file of that name exactly when the index does.
LEMMA CachedIs ==
    ASSUME NEW n
    PROVE  Store!Cached(n) = {i \in DOMAIN loaded : getName(loaded[i]) = n}
BY DEF Store!Cached

\* A call for a loaded name returns that file.
LEMMA ReturnCachedRefines ==
    ASSUME IInv, IndexOK, NEW n \in Name, ReturnCached(n)
    PROVE  Store!Load(n)
<1>1. /\ result' = findFile(n) /\ findFile(n) # NotFound
      /\ UNCHANGED <<files, data, loaded>>
  BY DEF ReturnCached
<1>2. n # EmptyName
  BY <1>1 DEF findFile
<1>3. PICK i \in DOMAIN loaded : getName(loaded[i]) = n /\ findFile(n) = loaded[i]
  BY <1>1, <1>2, FoundEntry DEF IndexOK
<1>4. i \in Store!Cached(n)
  BY <1>3, CachedIs
<1>5. Files' = Files /\ Answer' = Mapped(loaded[i])
  BY <1>1, <1>3 DEF Files, Answer, Mapped, getName, Content, Bytes, cOffset
<1>6. Store!Obtain(n, <<>>)
  <2>1. Answer' \in {Files[j] : j \in Store!Cached(n)}
    BY <1>3, <1>4, <1>5 DEF Files
  <2>. QED  BY <1>4, <1>5, <2>1 DEF Store!Obtain, Files, Answer, Mapped, Store!NoFile
<1>. QED
  BY <1>1, <1>4, <1>6 DEF Store!Load

\* A call for a name neither loaded nor on disk returns nothing.
LEMMA LoadMissingRefines ==
    ASSUME EmptyName \notin Name, IInv, IndexOK, NEW n \in Name, LoadMissing(n)
    PROVE  Store!Load(n)
<1>1. /\ findFile(n) = NotFound /\ n \notin DOMAIN files /\ result' = NotFound
      /\ UNCHANGED <<files, data, loaded>>
  BY DEF LoadMissing
<1>2. Store!Cached(n) = {}
  <2>1. \A i \in DOMAIN loaded : getName(loaded[i]) # n
    BY <1>1, FoundEntry DEF IndexOK
  <2>. QED  BY <2>1, CachedIs
<1>3. Files' = Files /\ Answer' = Store!NoFile
  BY <1>1 DEF Files, Answer, Mapped, getName, Content, Bytes, cOffset, Store!NoFile
<1>. QED
  BY <1>1, <1>2, <1>3 DEF Store!Load, Files, Answer, Mapped, Store!NoFile

\* What FileStore sees when an entry is appended and returned.
LEMMA ObtainNew ==
    ASSUME IInv, IInv', IndexOK, IndexOK', NEW l \in Nat, l = Len(loaded),
           DOMAIN loaded = 1 .. l, DOMAIN loaded' = 1 .. l + 1, Len(loaded') = l + 1,
           \A i \in DOMAIN loaded : /\ loaded'[i] = loaded[i]
                                    /\ getName(loaded[i])' = getName(loaded[i])
                                    /\ Content(loaded[i])' = Content(loaded[i]),
           NEW n \in Name, \A i \in DOMAIN loaded : getName(loaded[i]) # n,
           NEW c, getName(loaded[l + 1])' = n, Content(loaded[l + 1])' = c,
           loaded'[l + 1] = result'
    PROVE  Store!Obtain(n, c) /\ Store!Cached(n) = {}
<1>1. Store!Cached(n) = {}
  BY CachedIs
<1>2. Mapped(loaded[l + 1])' = [name |-> n, content |-> c]
  BY DEF Mapped
<1>3. Files' = Append(Files, [name |-> n, content |-> c])
  BY <1>2, FilesAppend
<1>4. Answer' = [name |-> n, content |-> c]
  <2>1. l + 1 \in DOMAIN loaded'
    OBVIOUS
  <2>2. (IInv /\ NamesOK => \A i \in DOMAIN loaded : loaded[i] # NotFound)'
    BY EntryIsSomething, PTL
  <2>3. result' # NotFound
    BY <2>1, <2>2 DEF IndexOK
  <2>4. Mapped(result)' = [name |-> n, content |-> c]
    BY <1>2 DEF Mapped
  <2>. QED  BY <2>3, <2>4 DEF Answer
<1>. QED
  BY <1>1, <1>3, <1>4 DEF Store!Obtain, Files, Answer, Mapped, Store!NoFile

\* The end of a load is the step FileStore sees: the new file has the Unix
\* lines of what is on disk.
LEMMA LoadEndRefines ==
    ASSUME EmptyName \notin Name, IInv, IInv', IndexOK, IndexOK', LinesOK, LoadEnd
    PROVE  \E n \in Name : Store!Load(n)
<1>1. /\ pc = "normalise" /\ load.r >= rawLen /\ files' = files
      /\ data' = SubSeq(data, 1, dest + load.sanitized)
      /\ result' = [offset_begin |-> load.offset, name_size |-> Len(load.name),
                    file_size |-> load.sanitized]
  BY DEF LoadEnd
<1>2. PICK n \in Name : n = load.name /\ n \in DOMAIN files
  BY <1>1 DEF IndexOK, LoadOK
<1>3. PICK raw \in Seq(Byte) : raw = files[n]
  BY <1>2, FileContent DEF IInv
<1>4. PICK l \in Nat : l = Len(loaded)
  BY DEF IInv, TypeOK
<1>5. /\ DOMAIN loaded = 1 .. l /\ DOMAIN loaded' = 1 .. l + 1
      /\ Len(loaded') = l + 1 /\ loaded'[l + 1] = result'
      /\ \A i \in DOMAIN loaded : /\ loaded'[i] = loaded[i]
                                  /\ getName(loaded[i])' = getName(loaded[i])
                                  /\ Content(loaded[i])' = Content(loaded[i])
      /\ getName(loaded[l + 1])' = n
  BY <1>2, <1>4, LoadEndAppends
<1>6. \A i \in DOMAIN loaded : getName(loaded[i]) # n
  BY <1>1, <1>2 DEF IndexOK, LoadOK
<1>7. Content(loaded[l + 1])' = Store!UnixLines(raw)
  <2>1. PICK d \in Nat : d = dest
    BY <1>1, Loading
  <2>2. PICK s \in Nat : s = load.sanitized
    BY <1>1, Loading
  <2>3. /\ data \in Seq(Byte) /\ Len(data) \in Nat /\ rawLen = Len(data) - d
        /\ load.r = rawLen /\ s <= load.r /\ rawLen \in Nat
    <3>1. data \in Seq(Byte)
      BY DEF IInv, TypeOK
    <3>2. /\ Len(data) \in Nat /\ rawLen = Len(data) - d /\ rawLen \in Nat
          /\ load.r \in Nat /\ load.r <= rawLen /\ s <= load.r
      BY <1>1, <2>1, <2>2, Loading
    <3>. QED  BY <1>1, <3>1, <3>2
  <2>4. /\ rawLen = Len(raw) /\ s = Rank(raw, load.r)
        /\ \A k \in 1 .. s : data[d + k] = Store!UnixLines(raw)[k]
    BY <1>1, <1>2, <1>3, <2>1, <2>2 DEF LinesOK, LinesOf
  <2>5. d + s <= Len(data) /\ d + s \in 0 .. Len(data)
    BY <2>3
  <2>6. data' \in Seq(Byte) /\ Len(data') = d + s /\ \A k \in 1 .. d + s : data'[k] = data[k]
    <3>1. PICK m \in Nat : m = d + s
      BY <2>3
    <3>2. data' = SubSeq(data, 1, m)
      BY <1>1, <2>1, <2>2, <3>1
    <3>3. data' \in Seq(Byte) /\ Len(data') = m
      BY <2>3, <2>5, <3>1, <3>2, FewerBytes
    <3>4. \A k \in 1 .. m : data'[k] = data[k]
      BY <2>3, <2>5, <3>1, <3>2
    <3>. QED  BY <3>1, <3>3, <3>4
  <2>7. /\ Part(data', d, s) \in Seq(Byte) /\ Len(Part(data', d, s)) = s
        /\ \A k \in 1 .. s : Part(data', d, s)[k] = data'[d + k]
    <3>1. d + s <= Len(data')
      BY <2>6
    <3>. QED  BY <2>6, <3>1, PartOf
  <2>8. \A k \in 1 .. s : Part(data', d, s)[k] = Store!UnixLines(raw)[k]
    <3>1. \A k \in 1 .. s : d + k \in 1 .. d + s
      OBVIOUS
    <3>. QED  BY <2>4, <2>6, <2>7, <3>1
  <2>9. s = Rank(raw, Len(raw))
    BY <2>3, <2>4
  <2>10. Store!UnixLines(raw) = [k \in 1 .. s |-> Store!UnixLines(raw)[k]]
    BY <2>9, UnixLinesAt
  <2>11. Part(data', d, s) = [k \in 1 .. s |-> Part(data', d, s)[k]]
    <3>1. PICK q \in Seq(Byte) : q = Part(data', d, s)
      BY <2>7
    <3>2. q = [k \in 1 .. Len(q) |-> q[k]]
      BY <3>1
    <3>. QED  BY <2>7, <3>1, <3>2
  <2>12. Part(data', d, s) = Store!UnixLines(raw)
    BY <2>8, <2>10, <2>11
  <2>13. /\ result'.file_size = s
         /\ result'.offset_begin + result'.name_size + 1 = d
    BY <1>1, <2>1, <2>2, Loading
  <2>14. Content(loaded[l + 1])' = Part(data', d, s)
    BY <1>5, <2>13 DEF Content, Bytes, Part, cOffset
  <2>. QED  BY <2>12, <2>14
<1>8. Store!Obtain(n, Store!UnixLines(raw)) /\ Store!Cached(n) = {}
  <2>1. PICK c : c = Store!UnixLines(raw)
    OBVIOUS
  <2>2. Store!Obtain(n, c) /\ Store!Cached(n) = {}
    BY <1>4, <1>5, <1>6, <1>7, <2>1, ObtainNew
  <2>. QED  BY <2>1, <2>2
<1>9. Store!Load(n)
  BY <1>1, <1>2, <1>3, <1>8 DEF Store!Load
<1>. QED
  BY <1>9

\* Registering text is the same step in both.
LEMMA LoadFromViewRefines ==
    ASSUME EmptyName \notin Name, IInv, IInv', IndexOK, IndexOK',
           NEW n \in Name, NEW view \in View, LoadFromView(n, view)
    PROVE  Store!Register(n, view)
<1>1. findFile(n) = NotFound /\ files' = files
  BY DEF LoadFromView
<1>2. \A i \in DOMAIN loaded : getName(loaded[i]) # n
  BY <1>1, FoundEntry DEF IndexOK
<1>3. PICK l \in Nat : l = Len(loaded)
  BY DEF IInv, TypeOK
<1>4. /\ DOMAIN loaded = 1 .. l /\ DOMAIN loaded' = 1 .. l + 1
      /\ Len(loaded') = l + 1 /\ loaded'[l + 1] = result'
      /\ \A i \in DOMAIN loaded : /\ loaded'[i] = loaded[i]
                                  /\ getName(loaded[i])' = getName(loaded[i])
                                  /\ Content(loaded[i])' = Content(loaded[i])
      /\ getName(loaded[l + 1])' = n
      /\ Content(loaded[l + 1])' = view
  BY <1>3, LoadFromViewAppends
<1>5. Store!Obtain(n, view)
  BY <1>2, <1>3, <1>4, ObtainNew
<1>. QED
  BY <1>1, <1>5 DEF Store!Register

\* Popping drops the newest file.
LEMMA PopRefines ==
    ASSUME IInv, IInv', IndexOK, IndexOK', Pop
    PROVE  Store!Drop
<1>1. result' = NotFound /\ files' = files
  BY DEF Pop
<1>2. Answer' = Store!NoFile
  BY <1>1 DEF Answer, Store!NoFile
<1>3. /\ Files \in Seq(File) /\ Len(Files) = Len(loaded) /\ DOMAIN Files = DOMAIN loaded
      /\ loaded \in Seq(Info)
  BY FilesSeq DEF IInv, TypeOK
<1>4. Files' = IF Files = <<>> THEN <<>> ELSE Store!Front(Files)
  <2>1. CASE loaded = <<>>
    <3>1. UNCHANGED <<data, loaded>> /\ Files = <<>>
      BY <1>3, <2>1 DEF Pop
    <3>2. Files' = Files
      BY <2>1, <3>1 DEF Files
    <3>. QED  BY <3>1, <3>2
  <2>2. CASE loaded # <<>>
    <3>1. PICK l \in Nat : l = Len(loaded)
      BY <1>3
    <3>2. /\ l # 0 /\ DOMAIN loaded = 1 .. l /\ DOMAIN loaded' = 1 .. l - 1
          /\ \A i \in 1 .. l - 1 : /\ i \in DOMAIN loaded /\ loaded'[i] = loaded[i]
                                   /\ getName(loaded[i])' = getName(loaded[i])
                                   /\ Content(loaded[i])' = Content(loaded[i])
      BY <2>2, <3>1, PopStays
    <3>3. Files' = [i \in 1 .. l - 1 |-> Files[i]]
      <4>1. \A i \in 1 .. l - 1 : Mapped(loaded[i])' = Files[i]
        BY <3>2 DEF Mapped, Files
      <4>2. Files' = [i \in 1 .. l - 1 |-> Mapped(loaded[i])']
        BY <3>2 DEF Files
      <4>. QED  BY <4>1, <4>2
    <3>4. Files # <<>> /\ Len(Files) = l
      BY <1>3, <3>1, <3>2
    <3>5. Store!Front(Files) = [i \in 1 .. l - 1 |-> Files[i]]
      BY <1>3, <3>2, <3>4 DEF Store!Front
    <3>. QED  BY <3>3, <3>4, <3>5
  <2>. QED  BY <2>1, <2>2
<1>. QED
  BY <1>1, <1>2, <1>4 DEF Store!Drop, Files, Answer, Mapped, Store!NoFile

\* Reading a file and translating its line ends is invisible until it ends.
LEMMA LoadStutters ==
    ASSUME IInv, IndexOK, NormaliseByte \/ \E n \in Name : LoadBegin(n)
    PROVE  files' = files /\ Files' = Files /\ Answer' = Answer
<1>1. CASE NormaliseByte
  <2>1. PICK x \in Seq(Byte) : x = load.name
    BY <1>1, Contents DEF NormaliseByte, IndexOK, LoadOK
  <2>2. /\ pc = "normalise" /\ UNCHANGED <<files, loaded, result>>
        /\ data' \in Seq(Byte) /\ Len(data') = Len(data)
        /\ \A k \in 1 .. Len(data) : k # dest + load.sanitized + 1 => data'[k] = data[k]
    BY <1>1, <2>1, NormaliseWrites
  <2>3. /\ load.offset \in Nat /\ load.sanitized \in Nat /\ Len(x) \in Nat
        /\ dest = load.offset + Len(x) + 1 /\ dest <= Len(data) /\ Len(data) \in Nat
        /\ load.offset = IndexedEnd
    BY <2>1, <2>2, Loading
  <2>4. IndexedEnd <= Len(data')
    BY <2>2, <2>3
  <2>5. \A k \in 1 .. IndexedEnd : data'[k] = data[k]
    <3>1. \A k \in 1 .. IndexedEnd : k \in 1 .. Len(data) /\ k # dest + load.sanitized + 1
      BY <2>3
    <3>. QED  BY <2>2, <3>1
  <2>. QED  BY <2>2, <2>4, <2>5, FilesStay
<1>2. ASSUME NEW n \in Name, LoadBegin(n)
      PROVE  files' = files /\ Files' = Files /\ Answer' = Answer
  <2>1. /\ pc = "idle" /\ n \in DOMAIN files
        /\ data' = data \o Entry(n, files[n])
        /\ UNCHANGED <<files, loaded, result>>
    BY <1>2 DEF LoadBegin
  <2>2. PICK raw \in Seq(Byte) : raw = files[n]
    BY <2>1, FileContent DEF IInv
  <2>3. data \in Seq(Byte) /\ n \in Seq(Byte) /\ Len(data) \in Nat /\ Len(n) \in Nat
    BY Contents DEF IInv, TypeOK
  <2>4. LET d == data \o Entry(n, raw)
        IN  /\ d \in Seq(Byte) /\ Len(d) = Len(data) + Len(n) + 1 + Len(raw)
            /\ \A k \in 1 .. Len(data) : d[k] = data[k]
    BY <2>3, EntryBytes
  <2>5. /\ data' \in Seq(Byte) /\ Len(data') = Len(data) + Len(n) + 1 + Len(raw)
        /\ \A k \in 1 .. Len(data) : data'[k] = data[k]
    BY <2>1, <2>2, <2>4
  <2>6. IndexedEnd = Len(data)
    BY <2>1 DEF IInv, EntriesTile
  <2>7. Len(raw) \in Nat
    OBVIOUS
  <2>8. IndexedEnd <= Len(data')
    BY <2>3, <2>5, <2>6, <2>7
  <2>. QED  BY <2>1, <2>5, <2>6, <2>8, FilesStay
<1>. QED
  BY <1>1, <1>2

\* Nothing is loaded in the beginning of either.
LEMMA InitRefines == Init => Store!Init
<1>. SUFFICES ASSUME Init PROVE Store!Init
  OBVIOUS
<1>1. Files = <<>> /\ Answer = Store!NoFile
  BY DEF Init, Files, Answer
<1>. QED
  BY <1>1 DEF Init, Store!Init, Directory, Store!Directory, Files, Answer, Mapped, Store!NoFile

\* Every step is a step of FileStore or changes nothing it shows.
LEMMA NextRefines ==
    ASSUME EmptyName \notin Name, IInv, IInv', IndexOK, IndexOK', LinesOK, [Next]_vars
    PROVE  Store!Next \/ (files' = files /\ Files' = Files /\ Answer' = Answer)
<1>1. ASSUME NEW n \in Name, ReturnCached(n) \/ LoadMissing(n) PROVE Store!Next
  BY <1>1, ReturnCachedRefines, LoadMissingRefines DEF Store!Next
<1>2. ASSUME NEW n \in Name, NEW view \in View, LoadFromView(n, view) PROVE Store!Next
  BY <1>2, LoadFromViewRefines DEF Store!Next
<1>3. CASE LoadEnd
  BY <1>3, LoadEndRefines DEF Store!Next
<1>4. CASE Pop
  BY <1>4, PopRefines DEF Store!Next
<1>5. CASE Rewrite
  <2>1. files' \in Directory /\ UNCHANGED <<data, loaded, result>>
    BY <1>5 DEF Rewrite, IInv, TypeOK
  <2>2. Files' = Files /\ Answer' = Answer
    BY <2>1 DEF Files, Answer, Mapped, getName, Content, Bytes, cOffset, Store!NoFile
  <2>. QED
    BY <2>1, <2>2 DEF Store!Next, Store!Rewrite, Directory, Store!Directory,
                      Files, Answer, Mapped, Store!NoFile
<1>6. CASE NormaliseByte \/ \E n \in Name : LoadBegin(n)
  BY <1>6, LoadStutters
<1>7. CASE UNCHANGED vars
  BY <1>7 DEF vars, Files, Answer, Mapped, getName, Content, Bytes, cOffset, Store!NoFile
<1>. QED
  BY <1>1, <1>2, <1>3, <1>4, <1>5, <1>6, <1>7 DEF Next

\* For every set of names and contents: between the calls of its clients
\* FileManager is a stack of files, each loaded once and given Unix line ends,
\* whatever else writes the directory; the loop that normalises in place, the
\* shared buffer and the offsets into it cannot be told from outside.  A file
\* called _EMPTY_SV would be loaded again at every call.
THEOREM ImplementsStack == ASSUME EmptyName \notin Name PROVE Spec => ImplementsFileStore
<1>1. Init => IInv /\ IndexOK /\ LinesOK
  BY InitIInv, InitIndex DEF Init, LinesOK
<1>2. IInv /\ IndexOK /\ LinesOK /\ [Next]_vars => (IInv /\ IndexOK /\ LinesOK)'
  BY NextKeeps, NextIndex, NextLines
<1>3. Spec => [](IInv /\ IndexOK /\ LinesOK)
  BY <1>1, <1>2, PTL DEF Spec
<1>4. IInv /\ IInv' /\ IndexOK /\ IndexOK' /\ LinesOK /\ [Next]_vars
         => [Store!Next]_<<files, Files, Answer>>
  BY NextRefines
<1>. QED
  BY <1>3, <1>4, InitRefines, PTL
     DEF Spec, ImplementsFileStore, Store!Spec, Files, Answer, Mapped, Store!NoFile
=============================================================================
