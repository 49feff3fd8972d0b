--------------------------- MODULE TypeStoreProofs ---------------------------
(***************************************************************************)
(* Theorems about TypeStore, for any flags, members and sequence of calls: *)
(* ids stay dense, and every record that was not cut reads back.           *)
(***************************************************************************)
EXTENDS TypeStore, TLAPS

\* Record r lies in arena a as it was pushed.
Written(a, r) ==
    /\ r.offset >= 1 /\ r.offset + Size(r) <= Len(a)
    /\ a[r.offset + 1] = r.id
    /\ a[r.offset + 2] = Size(r)
    /\ a[r.offset + 3] = Header + Len(r.flags)
    /\ \A k \in 1 .. Len(r.flags) : a[r.offset + Header + k] = r.flags[k]
    /\ \A k \in 1 .. Len(r.members) :
           a[r.offset + Header + Len(r.flags) + k] = r.members[k]

RecordsOK ==
    /\ Len(arena) >= 1
    /\ \A r \in records :
           /\ Written(arena, r)
           /\ \E n \in 0 .. Len(r.members) : Len(r.members) = Stride * n

IInv == TypeOK /\ DenseIds /\ RecordsOK

-----------------------------------------------------------------------------

\* What a record's words are, as numbers.
LEMMA RecordNumbers ==
    ASSUME NEW r \in Record
    PROVE  /\ r.offset \in Nat /\ r.id \in Nat
           /\ r.flags \in Seq(Nat) /\ Len(r.flags) \in Nat
           /\ r.members \in Seq(Nat) /\ Len(r.members) \in Nat
           /\ Size(r) \in Nat /\ Size(r) = 3 + Len(r.flags) + Len(r.members)
BY DEF Record, Size, Header

\* Words that stay keep the records that lie in them.
LEMMA WrittenKept ==
    ASSUME NEW a \in Seq(Nat), NEW b \in Seq(Nat), NEW r \in Record, NEW n \in Nat,
           n <= Len(a), n <= Len(b),
           \A k \in 1 .. n : b[k] = a[k],
           Written(a, r), r.offset + Size(r) <= n
    PROVE  Written(b, r)
<1>. DEFINE o == r.offset
            f == Len(r.flags)
            m == Len(r.members)
<1>1. o \in Nat /\ f \in Nat /\ m \in Nat /\ Size(r) = 3 + f + m
  BY RecordNumbers
<1>2. /\ o >= 1
      /\ a[o + 1] = r.id /\ a[o + 2] = Size(r) /\ a[o + 3] = Header + f
      /\ \A k \in 1 .. f : a[o + Header + k] = r.flags[k]
      /\ \A k \in 1 .. m : a[o + Header + f + k] = r.members[k]
  BY DEF Written
<1>3. Len(b) \in Nat
  OBVIOUS
<1>4. SUFFICES /\ o >= 1 /\ o + Size(r) <= Len(b)
               /\ b[o + 1] = r.id /\ b[o + 2] = Size(r) /\ b[o + 3] = Header + f
               /\ \A k \in 1 .. f : b[o + Header + k] = r.flags[k]
               /\ \A k \in 1 .. m : b[o + Header + f + k] = r.members[k]
  BY DEF Written
<1>5. o + (3 + f + m) <= n
  BY <1>1
<1>. HIDE DEF o, f, m
<1>6. o + Size(r) <= Len(b)
  BY <1>1, <1>3, <1>5
<1>7. o + 1 \in 1 .. n /\ o + 2 \in 1 .. n /\ o + 3 \in 1 .. n
  BY <1>1, <1>5
<1>8. /\ \A k \in 1 .. f : o + Header + k \in 1 .. n
      /\ \A k \in 1 .. m : o + Header + f + k \in 1 .. n
  BY <1>1, <1>5 DEF Header
<1>. QED
  BY <1>2, <1>6, <1>7, <1>8

-----------------------------------------------------------------------------

\* The reserved word and the primitive types satisfy the invariant.
LEMMA InitIInv == Init => IInv
<1>. SUFFICES ASSUME Init PROVE IInv
  OBVIOUS
<1>1. \A t \in 1 .. Atomics : Atomic(t - 1) \in Lean
  BY AtomicsAssumption DEF Atomic, Lean
<1>2. types \in Seq(Lean) /\ Len(types) = Atomics
  BY <1>1, AtomicsAssumption DEF Init
<1>3. arena \in Seq(Nat) /\ Len(arena) = 1
  BY DEF Init
<1>4. \A t \in 0 .. Atomics - 1 : types[t + 1] = Atomic(t)
  BY AtomicsAssumption DEF Init
<1>5. DenseIds
  <2>1. \A t : Atomic(t).ID = t
    BY DEF Atomic
  <2>2. \A t \in 0 .. Atomics - 1 : types[t + 1].ID = t
    BY <1>4, <2>1
  <2>. QED  BY <1>2, <1>4, <2>2, AtomicsAssumption DEF DenseIds
<1>. QED
  BY <1>2, <1>3, <1>5 DEF Init, IInv, TypeOK, RecordsOK

\* What stands where in two sequences, one behind the other.
LEMMA Continuation ==
    ASSUME NEW s \in Seq(Nat), NEW t \in Seq(Nat)
    PROVE  /\ s \o t \in Seq(Nat) /\ Len(s \o t) = Len(s) + Len(t)
           /\ \A k \in 1 .. Len(s) : (s \o t)[k] = s[k]
           /\ \A k \in 1 .. Len(t) : (s \o t)[Len(s) + k] = t[k]
OBVIOUS

\* In b, header h, flags f and members m follow the words of a.
Pushed(a, b, h, f, m) ==
    /\ b \in Seq(Nat) /\ Len(b) = Len(a) + Header + Len(f) + Len(m)
    /\ \A k \in 1 .. Len(a) : b[k] = a[k]
    /\ \A k \in 1 .. Header : b[Len(a) + k] = h[k]
    /\ \A k \in 1 .. Len(f) : b[Len(a) + Header + k] = f[k]
    /\ \A k \in 1 .. Len(m) : b[Len(a) + Header + Len(f) + k] = m[k]

\* The words of a pushed record follow those that are there.
LEMMA PushedWords ==
    ASSUME NEW a \in Seq(Nat), NEW h \in Seq(Nat), NEW f \in Seq(Nat), NEW m \in Seq(Nat),
           NEW b, b = a \o h \o f \o m, Len(h) = Header
    PROVE  Pushed(a, b, h, f, m)
<1>1. PICK c : c = a \o h
  OBVIOUS
<1>2. /\ c \in Seq(Nat) /\ Len(c) = Len(a) + Header
      /\ \A k \in 1 .. Len(a) : c[k] = a[k]
      /\ \A k \in 1 .. Header : c[Len(a) + k] = h[k]
  <2>1. /\ a \o h \in Seq(Nat) /\ Len(a \o h) = Len(a) + Len(h)
        /\ \A k \in 1 .. Len(a) : (a \o h)[k] = a[k]
        /\ \A k \in 1 .. Len(h) : (a \o h)[Len(a) + k] = h[k]
    BY Continuation
  <2>. QED  BY <1>1, <2>1
<1>3. PICK d : d = c \o f
  OBVIOUS
<1>4. /\ d \in Seq(Nat) /\ Len(d) = Len(c) + Len(f)
      /\ \A k \in 1 .. Len(c) : d[k] = c[k]
      /\ \A k \in 1 .. Len(f) : d[Len(c) + k] = f[k]
  <2>0. c \in Seq(Nat)
    BY <1>2
  <2>1. /\ c \o f \in Seq(Nat) /\ Len(c \o f) = Len(c) + Len(f)
        /\ \A k \in 1 .. Len(c) : (c \o f)[k] = c[k]
        /\ \A k \in 1 .. Len(f) : (c \o f)[Len(c) + k] = f[k]
    BY <2>0, Continuation
  <2>. QED  BY <1>3, <2>1
<1>5. b = d \o m
  BY <1>1, <1>3
<1>6. /\ b \in Seq(Nat) /\ Len(b) = Len(d) + Len(m)
      /\ \A k \in 1 .. Len(d) : b[k] = d[k]
      /\ \A k \in 1 .. Len(m) : b[Len(d) + k] = m[k]
  <2>1. /\ d \o m \in Seq(Nat) /\ Len(d \o m) = Len(d) + Len(m)
        /\ \A k \in 1 .. Len(d) : (d \o m)[k] = d[k]
        /\ \A k \in 1 .. Len(m) : (d \o m)[Len(d) + k] = m[k]
    <3>1. d \in Seq(Nat)
      BY <1>4
    <3>. QED  BY <3>1, Continuation
  <2>. QED  BY <1>5, <2>1
<1>7. Len(a) \in Nat /\ Len(f) \in Nat /\ Len(m) \in Nat /\ Header \in Nat
  BY DEF Header
<1>8. Len(c) = Len(a) + Header /\ Len(d) = Len(a) + Header + Len(f)
  BY <1>2, <1>4
<1>9. Len(b) = Len(a) + Header + Len(f) + Len(m)
  BY <1>6, <1>8
<1>10. \A k \in 1 .. Len(a) : k \in 1 .. Len(c) /\ k \in 1 .. Len(d)
  BY <1>7, <1>8
<1>11. \A k \in 1 .. Header : Len(a) + k \in 1 .. Len(c) /\ Len(a) + k \in 1 .. Len(d)
  BY <1>7, <1>8
<1>12. \A k \in 1 .. Len(f) : Len(c) + k \in 1 .. Len(d)
  BY <1>7, <1>8
<1>13. \A k \in 1 .. Len(a) : b[k] = a[k]
  BY <1>2, <1>4, <1>6, <1>10
<1>14. \A k \in 1 .. Header : b[Len(a) + k] = h[k]
  BY <1>2, <1>4, <1>6, <1>11
<1>15. \A k \in 1 .. Len(f) : b[Len(c) + k] = f[k]
  BY <1>4, <1>6, <1>12
<1>. QED
  BY <1>6, <1>8, <1>9, <1>13, <1>14, <1>15 DEF Pushed

\* Pushing a record adds it behind the others and changes none of them.
LEMMA ArenaPushKeeps ==
    ASSUME IInv, NEW id \in TypeID, NEW flags \in Flags, NEW members \in Members,
           ArenaPush(id, flags, members)
    PROVE  IInv'
<1>. DEFINE r == [offset |-> Len(arena), id |-> id, flags |-> flags, members |-> members]
            h == <<id, Size(r), Header + Len(flags)>>
<1>1. /\ id \in Nat /\ flags \in Seq(Nat) /\ members \in Seq(Nat)
      /\ \E n \in 0 .. Len(members) : Len(members) = Stride * n
      /\ arena \in Seq(Nat) /\ Len(arena) \in Nat /\ Len(arena) >= 1
  BY WordAssumption DEF IInv, TypeOK, RecordsOK
<1>2. r \in Record /\ r.offset = Len(arena) /\ r.flags = flags /\ r.members = members /\ r.id = id
  BY <1>1 DEF Record
<1>3. Size(r) = 3 + Len(flags) + Len(members) /\ Len(flags) \in Nat /\ Len(members) \in Nat
  <2>1. Len(flags) \in Nat /\ Len(members) \in Nat
    BY <1>1
  <2>. QED  BY <2>1 DEF Size, Header
<1>4. /\ h \in Seq(Nat) /\ Len(h) = Header
      /\ h[1] = id /\ h[2] = Size(r) /\ h[3] = Header + Len(flags)
  BY <1>1, <1>3 DEF Header
<1>5. /\ arena' = arena \o h \o flags \o members
      /\ records' = records \cup {r} /\ types' = types
  BY DEF ArenaPush
<1>. HIDE DEF r, h
<1>6. /\ arena' \in Seq(Nat)
      /\ Len(arena') = Len(arena) + Header + Len(flags) + Len(members)
      /\ \A k \in 1 .. Len(arena) : arena'[k] = arena[k]
      /\ \A k \in 1 .. Header : arena'[Len(arena) + k] = h[k]
      /\ \A k \in 1 .. Len(flags) : arena'[Len(arena) + Header + k] = flags[k]
      /\ \A k \in 1 .. Len(members) :
             arena'[Len(arena) + Header + Len(flags) + k] = members[k]
  <2>1. /\ arena \in Seq(Nat) /\ h \in Seq(Nat) /\ flags \in Seq(Nat) /\ members \in Seq(Nat)
        /\ Len(h) = Header /\ arena' = arena \o h \o flags \o members
    BY <1>1, <1>4, <1>5
  <2>2. Pushed(arena, arena', h, flags, members)
    BY <2>1, PushedWords
  <2>. QED  BY <2>2 DEF Pushed
<1>7. Written(arena', r)
  <2>1. /\ arena'[Len(arena) + 1] = id /\ arena'[Len(arena) + 2] = Size(r)
        /\ arena'[Len(arena) + 3] = Header + Len(flags)
    BY <1>4, <1>6 DEF Header
  <2>2. Len(arena) + Size(r) = Len(arena')
    BY <1>1, <1>3, <1>6 DEF Header
  <2>3. Len(arena) + Size(r) <= Len(arena')
    BY <1>1, <1>3, <2>2
  <2>4. /\ r.offset >= 1 /\ r.offset + Size(r) <= Len(arena')
        /\ arena'[r.offset + 1] = r.id /\ arena'[r.offset + 2] = Size(r)
        /\ arena'[r.offset + 3] = Header + Len(r.flags)
    BY <1>1, <1>2, <2>1, <2>3
  <2>5. /\ \A k \in 1 .. Len(r.flags) : arena'[r.offset + Header + k] = r.flags[k]
        /\ \A k \in 1 .. Len(r.members) :
               arena'[r.offset + Header + Len(r.flags) + k] = r.members[k]
    BY <1>2, <1>6
  <2>. QED  BY <2>4, <2>5 DEF Written
<1>8. ASSUME NEW s \in records PROVE Written(arena', s)
  <2>1. s \in Record /\ Written(arena, s)
    BY DEF IInv, TypeOK, RecordsOK
  <2>2. s.offset + Size(s) <= Len(arena)
    BY <2>1 DEF Written
  <2>3. Len(arena) <= Len(arena) /\ Len(arena) <= Len(arena')
    BY <1>1, <1>3, <1>6 DEF Header
  <2>. QED  BY <1>1, <1>6, <2>1, <2>2, <2>3, WrittenKept, ZenonT(30)
<1>9. RecordsOK'
  <2>1. Len(arena') >= 1
    BY <1>1, <1>3, <1>6 DEF Header
  <2>. QED  BY <1>1, <1>2, <1>5, <1>7, <1>8, <2>1 DEF IInv, RecordsOK
<1>10. TypeOK' /\ DenseIds'
  BY <1>2, <1>5, <1>6 DEF IInv, TypeOK, DenseIds
<1>. QED
  BY <1>9, <1>10 DEF IInv

\* Cutting the arena keeps the records that end before the cut.
LEMMA ArenaRollbackKeeps ==
    ASSUME IInv, NEW w \in Nat, ArenaRollback(w)
    PROVE  IInv'
<1>1. types' = types
  BY DEF ArenaRollback
<1>2. CASE w > 0 /\ w <= Len(arena)
  <2>1. /\ arena' = SubSeq(arena, 1, w) /\ arena \in Seq(Nat)
        /\ records' = {r \in records : r.offset + Size(r) <= w}
    BY <1>2 DEF ArenaRollback, IInv, TypeOK
  <2>2. /\ arena' \in Seq(Nat) /\ Len(arena') = w
        /\ \A k \in 1 .. w : arena'[k] = arena[k]
    BY <1>2, <2>1
  <2>3. ASSUME NEW r \in records' PROVE Written(arena', r)
    <3>1. r \in Record /\ Written(arena, r) /\ r.offset + Size(r) <= w
      BY <2>1 DEF IInv, TypeOK, RecordsOK
    <3>2. w <= Len(arena) /\ w <= Len(arena')
      BY <1>2, <2>2
    <3>. QED  BY <2>1, <2>2, <3>1, <3>2, WrittenKept, ZenonT(30)
  <2>4. RecordsOK'
    BY <1>2, <2>1, <2>2, <2>3 DEF IInv, RecordsOK
  <2>. QED
    BY <1>1, <2>1, <2>2, <2>4 DEF IInv, TypeOK, DenseIds
<1>3. CASE ~(w > 0 /\ w <= Len(arena))
  BY <1>1, <1>3 DEF ArenaRollback, IInv, TypeOK, DenseIds, RecordsOK
<1>. QED
  BY <1>2, <1>3

\* A new type's id is the number of types there are.
LEMMA ListPushKeeps ==
    ASSUME IInv, NEW offset \in Nat, ListPush(offset)
    PROVE  IInv'
<1>. DEFINE lean == [ID |-> Len(types), arenaOffset |-> offset, kind |-> "user"]
<1>1. types \in Seq(Lean) /\ Len(types) \in Nat /\ types' = Append(types, lean)
  BY DEF IInv, TypeOK, ListPush
<1>2. lean \in Lean /\ lean.ID = Len(types)
  BY <1>1 DEF Lean
<1>. HIDE DEF lean
<1>3. /\ types' \in Seq(Lean) /\ Len(types') = Len(types) + 1
      /\ types'[Len(types) + 1] = lean
      /\ \A k \in 1 .. Len(types) : types'[k] = types[k]
  BY <1>1, <1>2
<1>4. DenseIds'
  <2>1. \A t \in 0 .. Len(types') - 1 :
            t = Len(types) \/ (t \in 0 .. Len(types) - 1 /\ t + 1 \in 1 .. Len(types))
    BY <1>1, <1>3
  <2>2. \A t \in 0 .. Atomics - 1 : t + 1 \in 1 .. Len(types)
    BY <1>1, AtomicsAssumption DEF IInv, DenseIds
  <2>. QED
    BY <1>1, <1>2, <1>3, <2>1, <2>2, AtomicsAssumption DEF IInv, DenseIds
<1>5. TypeOK' /\ RecordsOK'
  BY <1>3 DEF ListPush, IInv, TypeOK, RecordsOK
<1>. QED
  BY <1>4, <1>5 DEF IInv

\* Cutting the list spares the primitive types.
LEMMA ListRollbackKeeps ==
    ASSUME IInv, NEW count \in Nat, ListRollback(count)
    PROVE  IInv'
<1>1. arena' = arena /\ records' = records
  BY DEF ListRollback
<1>2. CASE count >= Atomics /\ count <= Len(types)
  <2>1. types' = SubSeq(types, 1, count) /\ types \in Seq(Lean) /\ Len(types) \in Nat
    BY <1>2 DEF ListRollback, IInv, TypeOK
  <2>2. /\ types' \in Seq(Lean) /\ Len(types') = count
        /\ \A k \in 1 .. count : types'[k] = types[k]
    BY <1>2, <2>1
  <2>3. \A t \in 0 .. count - 1 : t + 1 \in 1 .. count /\ t \in 0 .. Len(types) - 1
    BY <1>2, <2>1
  <2>4. \A t \in 0 .. Atomics - 1 : t + 1 \in 1 .. count
    BY <1>2, AtomicsAssumption
  <2>5. DenseIds'
    BY <1>2, <2>2, <2>3, <2>4 DEF IInv, DenseIds
  <2>. QED
    BY <1>1, <2>2, <2>5 DEF IInv, TypeOK, RecordsOK
<1>3. CASE ~(count >= Atomics /\ count <= Len(types))
  BY <1>1, <1>3 DEF ListRollback, IInv, TypeOK, DenseIds, RecordsOK
<1>. QED
  BY <1>2, <1>3

\* Every step keeps the invariant.
LEMMA NextKeeps == IInv /\ [Next]_vars => IInv'
<1>. SUFFICES ASSUME IInv, [Next]_vars PROVE IInv'
  OBVIOUS
<1>1. CASE UNCHANGED vars
  BY <1>1 DEF vars, IInv, TypeOK, DenseIds, RecordsOK
<1>2. ASSUME NEW r \in records, ListPush(r.offset) PROVE IInv'
  <2>1. r.offset \in Nat
    BY DEF IInv, TypeOK, Record
  <2>. QED  BY <1>2, <2>1, ListPushKeeps
<1>3. CASE ListPush(0)
  BY <1>3, ListPushKeeps
<1>4. ASSUME NEW w \in 0 .. Len(arena) + 1, ArenaRollback(w) PROVE IInv'
  BY <1>4, ArenaRollbackKeeps
<1>5. ASSUME NEW count \in 0 .. Len(types) + 1, ListRollback(count) PROVE IInv'
  BY <1>5, ListRollbackKeeps
<1>. QED
  BY <1>1, <1>2, <1>3, <1>4, <1>5, ArenaPushKeeps DEF Next

\* A written record is found and read back by the calls.
LEMMA WrittenReadsBack ==
    ASSUME arena \in Seq(Nat), NEW r \in Record, Written(arena, r),
           \E n \in 0 .. Len(r.members) : Len(r.members) = Stride * n
    PROVE  ReadsBack(r)
<1>. DEFINE f == Len(r.flags)
            m == Len(r.members)
<1>1. r.offset \in Nat /\ f \in Nat /\ m \in Nat /\ Size(r) = 3 + f + m
  BY RecordNumbers
<1>2. /\ membersWord(r.offset) = Header + f /\ totalWords(r.offset) = Size(r)
      /\ ID(r.offset) = r.id
      /\ r.offset >= 1 /\ r.offset + Size(r) <= Len(arena) /\ Len(arena) \in Nat
  BY DEF Written, membersWord, totalWords, ID
<1>3. get(r.offset)
  <2>. HIDE DEF f, m
  <2>. QED  BY <1>1, <1>2 DEF get
<1>4. getFlagCount(r.offset) = f
  <2>. HIDE DEF f, m
  <2>. QED  BY <1>1, <1>2 DEF getFlagCount, Header
<1>5. Stride * getMemberCount(r.offset) = m
  <2>1. PICK n \in 0 .. m : m = 3 * n
    BY DEF Stride
  <2>. HIDE DEF f, m
  <2>2. (3 + f + m) - (3 + f) = 3 * n /\ (3 * n) \div 3 = n
    BY <1>1, <2>1
  <2>3. 3 + f + m > 3 + f <=> n # 0
    BY <1>1, <2>1
  <2>4. membersWord(r.offset) = 3 + f /\ totalWords(r.offset) = 3 + f + m
    BY <1>1, <1>2 DEF Header
  <2>. QED
    BY <1>1, <2>1, <2>2, <2>3, <2>4 DEF getMemberCount, Stride
<1>6. \A k \in 1 .. f : getFlag(r.offset, k) = r.flags[k]
  BY DEF Written, getFlag
<1>7. \A k \in 1 .. m : getMember(r.offset, k) = r.members[k]
  <2>1. \A k \in 1 .. m : arena[r.offset + Header + f + k] = r.members[k]
    BY DEF Written
  <2>2. \A k \in 1 .. m : r.offset + (Header + f) + k = r.offset + Header + f + k
    <3>. DEFINE o == r.offset
    <3>1. o \in Nat
      BY <1>1
    <3>. HIDE DEF o, f, m
    <3>2. \A k \in 1 .. m : o + (3 + f) + k = o + 3 + f + k
      BY <1>1, <3>1
    <3>. QED  BY <3>2 DEF Header, o
  <2>. QED  BY <1>2, <2>1, <2>2 DEF getMember
<1>. QED
  BY <1>2, <1>3, <1>4, <1>5, <1>6, <1>7 DEF ReadsBack

-----------------------------------------------------------------------------

\* The inductive invariant: ids are dense and each record that was not cut
\* still has all its words.
THEOREM Invariance == Spec => []IInv
BY InitIInv, NextKeeps, PTL DEF Spec

\* The words, the entries and the records keep their types.
THEOREM TypeCorrect == Spec => []TypeOK
BY Invariance, PTL DEF IInv

\* TypeList: an id is its entry's place, and rollback never cuts a
\* primitive type.
THEOREM IdsDense == Spec => []DenseIds
BY Invariance, PTL DEF IInv

\* TypeArena: a record that no rollback has cut reads back as it was pushed.
THEOREM RecordsSurvive == Spec => []RecordsReadBack
<1>1. IInv => RecordsReadBack
  BY WrittenReadsBack DEF IInv, TypeOK, RecordsOK, RecordsReadBack
<1>. QED
  BY Invariance, <1>1, PTL
=============================================================================
