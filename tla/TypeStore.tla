------------------------------ MODULE TypeStore ------------------------------
(***************************************************************************)
(* The type registry: TypeArena, one vector of 32-bit words that holds     *)
(* records of differing lengths behind one another, and TypeList, the      *)
(* entries of all types by their ids.  Both grow by push and are cut back  *)
(* by rollback, each on its own and to any length a caller asks for.       *)
(***************************************************************************)
EXTENDS Integers, Sequences

CONSTANTS
    Atomics,    \* Atomic::__count, the number of primitive types
    TypeID,     \* ids records are pushed with
    Flags,      \* flags records are pushed with
    Members,    \* members records are pushed with, as words
    MaxWords,   \* bound of the instance: words in the arena before a push
    MaxTypes    \* bound of the instance: types in the list before a push

Header == 3     \* words of a record's header
Stride == 3     \* words of a member

ASSUME AtomicsAssumption == Atomics \in Nat
ASSUME WordAssumption ==
    /\ TypeID \subseteq Nat
    /\ Flags \subseteq Seq(Nat)
    /\ Members \subseteq Seq(Nat)
    /\ \A m \in Members : \E n \in 0 .. Len(m) : Len(m) = Stride * n

VARIABLES
    arena,     \* TypeArena::raw; word w is arena[w + 1]
    types,     \* TypeList::raw; the entry of id t is types[t + 1]
    records    \* history: the records pushed and not cut since

vars == <<arena, types, records>>

-----------------------------------------------------------------------------
(* TypeArena and the records in it.                                        *)

Size(r) == Header + Len(r.flags) + Len(r.members)

\* get: is there a record, as far as it can tell?
get(w) == w # 0 /\ w < Len(arena)

ID(w)          == arena[w + 1]
totalWords(w)  == arena[w + 2]
membersWord(w) == arena[w + 3]

getFlagCount(w) == IF membersWord(w) > Header THEN membersWord(w) - Header ELSE 0

\* A fault: the header is counted among the members' words.
MemberCountWithHeader(w) ==
    IF totalWords(w) > membersWord(w) THEN (totalWords(w) - Header) \div Stride ELSE 0

getMemberCount(w) ==
    IF totalWords(w) > membersWord(w) THEN (totalWords(w) - membersWord(w)) \div Stride ELSE 0

\* Flag k and member word k of the record at w, from 1.
getFlag(w, k)   == arena[w + Header + k]
getMember(w, k) == arena[w + membersWord(w) + k]

\* A fault: the header is subtracted from the members' place.
ArenaPushBefore(id, flags, members) ==
    LET r == [offset |-> Len(arena), id |-> id, flags |-> flags, members |-> members]
    IN  /\ Len(arena) <= MaxWords
        /\ arena' = arena \o <<id, Size(r), Len(flags) - Header>> \o flags \o members
        /\ records' = records \cup {r}
        /\ UNCHANGED types

\* A record is written whole: header, flags, members.
ArenaPush(id, flags, members) ==
    LET r == [offset |-> Len(arena), id |-> id, flags |-> flags, members |-> members]
    IN  /\ Len(arena) <= MaxWords
        /\ arena' = arena \o <<id, Size(r), Header + Len(flags)>> \o flags \o members
        /\ records' = records \cup {r}
        /\ UNCHANGED types

\* A fault: the reserved word can be cut.
ArenaRollbackAll(w) ==
    /\ IF w <= Len(arena)
       THEN /\ arena' = SubSeq(arena, 1, w)
            /\ records' = {r \in records : r.offset + Size(r) <= w}
       ELSE UNCHANGED <<arena, records>>
    /\ UNCHANGED types

\* To any word, also one inside a record, which is torn by that.
ArenaRollback(w) ==
    /\ IF w > 0 /\ w <= Len(arena)
       THEN /\ arena' = SubSeq(arena, 1, w)
            /\ records' = {r \in records : r.offset + Size(r) <= w}
       ELSE UNCHANGED <<arena, records>>
    /\ UNCHANGED types

-----------------------------------------------------------------------------
(* TypeList.                                                               *)

Atomic(t) == [ID |-> t, arenaOffset |-> 0, kind |-> "atomic"]

\* The id of the argument is overwritten.
ListPush(offset) ==
    /\ Len(types) <= MaxTypes
    /\ types' = Append(types, [ID |-> Len(types), arenaOffset |-> offset, kind |-> "user"])
    /\ UNCHANGED <<arena, records>>

\* A fault: the primitive types can be cut.
ListRollbackAll(count) ==
    /\ types' = IF count <= Len(types) THEN SubSeq(types, 1, count) ELSE types
    /\ UNCHANGED <<arena, records>>

ListRollback(count) ==
    /\ types' = IF count >= Atomics /\ count <= Len(types)
                THEN SubSeq(types, 1, count) ELSE types
    /\ UNCHANGED <<arena, records>>

-----------------------------------------------------------------------------

\* Word 0 is reserved, so that offset 0 says that there is no payload.
Init ==
    /\ arena = <<0>>
    /\ types = [t \in 1 .. Atomics |-> Atomic(t - 1)]
    /\ records = {}

Next ==
    \/ \E id \in TypeID, flags \in Flags, members \in Members : ArenaPush(id, flags, members)
    \/ \E w \in 0 .. Len(arena) + 1 : ArenaRollback(w)
    \/ \E r \in records : ListPush(r.offset)
    \/ ListPush(0)
    \/ \E count \in 0 .. Len(types) + 1 : ListRollback(count)

Spec == Init /\ [][Next]_vars

-----------------------------------------------------------------------------
(* Properties.                                                             *)

Lean == [ID : Nat, arenaOffset : Nat, kind : {"atomic", "user"}]

Record == [offset : Nat, id : Nat, flags : Seq(Nat), members : Seq(Nat)]

\* Both stores have their types.
TypeOK ==
    /\ arena \in Seq(Nat)
    /\ types \in Seq(Lean)
    /\ records \subseteq Record

\* An id is the place of its entry, also after cuts, and the primitive types
\* keep theirs.  (type_def.h:287-299.)
DenseIds ==
    /\ Len(types) >= Atomics
    /\ \A t \in 0 .. Len(types) - 1 : types[t + 1].ID = t
    /\ \A t \in 0 .. Atomics - 1 : types[t + 1] = Atomic(t)

\* A record that no rollback has cut is found at its offset, which is not 0,
\* and reads back as it was pushed, whatever was pushed and cut, also within
\* other records, since.  (type_def.h:168-201, 215-259.)
ReadsBack(r) ==
    /\ get(r.offset)
    /\ ID(r.offset) = r.id
    /\ getFlagCount(r.offset) = Len(r.flags)
    /\ \A k \in 1 .. Len(r.flags) : getFlag(r.offset, k) = r.flags[k]
    /\ Stride * getMemberCount(r.offset) = Len(r.members)
    /\ \A k \in 1 .. Len(r.members) : getMember(r.offset, k) = r.members[k]

RecordsReadBack == \A r \in records : ReadsBack(r)
=============================================================================
