------------------------------- MODULE RocaMem -------------------------------
(***************************************************************************)
(* roca-mem: the registry of live allocations that the native backend's    *)
(* generated code and its embedders call through the C ABI of              *)
(* crates/roca-mem/src/lib.rs.                                             *)
(*                                                                         *)
(* A machine word is Null (0), the address of a block the allocator may    *)
(* hand out (Addr), the address of a C string somebody else owns (CStr) or *)
(* the bit pattern of a number (Num).  The registry knows blocks by        *)
(* address only: an address that was freed and handed out again is, for    *)
(* every test the code makes, the same block.  Next lets a caller make any *)
(* call with any word, as long as no call dereferences memory that is not  *)
(* a live block (the C code would be undefined there).                     *)
(***************************************************************************)
EXTENDS Integers, FiniteSets

CONSTANTS
  Addr,       \* addresses the allocator can return
  CStr,       \* addresses of NUL-terminated strings roca-mem does not own
  Num,        \* 64-bit patterns that are neither 0 nor an address
  Null,       \* the word 0
  TypeIds,    \* the u16 type ids of structs
  StrLen,     \* lengths of the strings in play
  MaxFields,  \* bound: fields of a struct
  MaxAllocs   \* bound: allocations counted since the last reset

ASSUME AddrAssumption == IsFiniteSet(Addr)
ASSUME WordAssumption ==
  /\ Addr \cap CStr = {} /\ Addr \cap Num = {} /\ CStr \cap Num = {}
  /\ Null \notin Addr \cup CStr \cup Num
ASSUME TypeIdAssumption == 0 \in TypeIds /\ TypeIds \subseteq Nat
ASSUME BoundAssumption == MaxFields \in Nat /\ MaxAllocs \in Nat
ASSUME StrLenAssumption == StrLen \subseteq Nat

Word == Addr \cup CStr \cup Num \cup {Null}
Slot == 0 .. MaxFields - 1
Tag  == {"string", "vec", "map", "struct"}

VARIABLES
  tag,     \* ALLOC_TAGS: the tag of each tracked address, else "none"
  size,    \* ALLOC_TAGS: the size recorded with the tag, else 0
  typeId,  \* STRUCT_TYPE_IDS: the type id of an address, else -1
  width,   \* length of the Vec<i64> behind a struct's address
  fields,  \* its words; slots past the width hold Null
  allocs,  \* TL_ALLOCS
  frees,   \* TL_FREES
  live,    \* TL_LIVE_BYTES
  kept,      \* history: number of blocks tracked at the last reset
  keptBytes  \* history: and their bytes

heapVars == <<tag, size, typeId, width, fields>>
countVars == <<allocs, frees, live, kept, keptBytes>>
memVars == <<heapVars, countVars>>

Tracked == {a \in Addr : tag[a] # "none"}
IsTracked(w) == w \in Tracked

NoTypeId == -1
GetTypeId(w) == IF w \in Addr /\ typeId[w] # NoTypeId THEN typeId[w] ELSE 0

NoFields == [i \in Slot |-> Null]
StructSize(n) == 24 + 8 * n
ArraySize == 24
MapSize == 48

Init ==
  /\ tag = [a \in Addr |-> "none"]
  /\ size = [a \in Addr |-> 0]
  /\ typeId = [a \in Addr |-> NoTypeId]
  /\ width = [a \in Addr |-> 0]
  /\ fields = [a \in Addr |-> NoFields]
  /\ allocs = 0 /\ frees = 0 /\ live = 0
  /\ kept = 0 /\ keptBytes = 0

-----------------------------------------------------------------------------
(* What every allocation does: the allocator returns an address that is in *)
(* use nowhere, tag_alloc records it and track_alloc counts it.            *)
Register(a, t, sz) ==
  /\ a \in Addr \ Tracked
  /\ allocs < MaxAllocs
  /\ tag' = [tag EXCEPT ![a] = t]
  /\ size' = [size EXCEPT ![a] = sz]
  /\ allocs' = allocs + 1
  /\ live' = live + sz
  /\ UNCHANGED <<frees, kept, keptBytes>>

(* alloc_str, and string_new of a C string of that length.                 *)
StringNew(a, len) ==
  /\ Register(a, "string", len + 1)
  /\ UNCHANGED <<typeId, width, fields>>

(* The definitions named Bug... are mistakes one could make in the code;    *)
(* the properties are tested against them.                                 *)
BugStructNewUninit(a, n, tid) ==
  /\ Register(a, "struct", StructSize(n))
  /\ typeId' = [typeId EXCEPT ![a] = tid]
  /\ width' = [width EXCEPT ![a] = n]
  /\ \E old \in Word :
       fields' = [fields EXCEPT ![a] = [i \in Slot |-> IF i < n THEN old ELSE Null]]

StructNew(a, n, tid) ==
  /\ Register(a, "struct", StructSize(n))
  /\ typeId' = [typeId EXCEPT ![a] = tid]
  /\ width' = [width EXCEPT ![a] = n]
  /\ fields' = [fields EXCEPT ![a] = NoFields]

ArrayNew(a) ==
  /\ Register(a, "vec", ArraySize)
  /\ UNCHANGED <<typeId, width, fields>>

MapNew(a) ==
  /\ Register(a, "map", MapSize)
  /\ UNCHANGED <<typeId, width, fields>>

-----------------------------------------------------------------------------
InRange(p, i) == i \in Slot /\ i < width[p]

BugWriteUnchecked(p, i, w) ==
  fields' = [fields EXCEPT
               ![p] = [j \in Slot \cup {i} |-> IF j = i THEN w ELSE fields[p][j]]]

(* An index past the Vec's length writes nothing. *)
Write(p, i, w) ==
  fields' = IF InRange(p, i) THEN [fields EXCEPT ![p][i] = w] ELSE fields

(* mem_struct_set_f64: the slot's old word is overwritten, never freed. *)
SetF64(p, i, w) ==
  /\ tag[p] = "struct"
  /\ Write(p, i, w)
  /\ UNCHANGED <<tag, size, typeId, width, countVars>>

(* mem_struct_set_owned, the ownership gate: a tracked value is stored as  *)
(* it is, without asking whether something already owns it ...             *)
SetOwnedMove(p, i, v) ==
  /\ tag[p] = "struct"
  /\ IsTracked(v)
  /\ Write(p, i, v)
  /\ UNCHANGED <<tag, size, typeId, width, countVars>>

(* ... and any other value is taken for a C string and copied first, also  *)
(* when the index turns out to be out of range.                            *)
SetOwnedCopy(p, i, c, len, a) ==
  /\ tag[p] = "struct"
  /\ c \in CStr
  /\ Register(a, "string", len + 1)
  /\ Write(p, i, a)
  /\ UNCHANGED <<typeId, width>>

-----------------------------------------------------------------------------
(* mem_free untags its argument and then frees every word of the block     *)
(* that is still tracked.  What one call frees is therefore the smallest   *)
(* set that holds the block and is closed under "a word of a member is     *)
(* tracked".  Children(b) is that step; MemSteps shows the recursion       *)
(* computes this set.                                                      *)
Children(b) == {c \in Tracked : \E i \in Slot : fields[b][i] = c}

ClosedUnderChildren(S) == \A b \in S : Children(b) \subseteq S

Reach(p) ==
  {a \in Tracked : \A S \in SUBSET Tracked :
                     p \in S /\ ClosedUnderChildren(S) => a \in S}

(* The bytes of a set of blocks, counted as pairs of a block and a position *)
(* in it: the sum of the sizes recorded for them.                          *)
BytesOf(sz, S) == UNION {{a} \X (1 .. sz[a]) : a \in S}
Bytes(S) == Cardinality(BytesOf(size, S))

BugFreeSetKeepsType(R) ==
  /\ tag' = [a \in Addr |-> IF a \in R THEN "none" ELSE tag[a]]
  /\ size' = [a \in Addr |-> IF a \in R THEN 0 ELSE size[a]]
  /\ width' = [a \in Addr |-> IF a \in R THEN 0 ELSE width[a]]
  /\ fields' = [a \in Addr |-> IF a \in R THEN NoFields ELSE fields[a]]
  /\ frees' = frees + Cardinality(R)
  /\ live' = live - Bytes(R)
  /\ UNCHANGED <<typeId, allocs, kept, keptBytes>>
BugFreeSetSizeLost(R) ==
  /\ tag' = [a \in Addr |-> IF a \in R THEN "none" ELSE tag[a]]
  /\ size' = [a \in Addr |-> IF a \in R THEN 0 ELSE size[a]]
  /\ typeId' = [a \in Addr |-> IF a \in R THEN NoTypeId ELSE typeId[a]]
  /\ width' = [a \in Addr |-> IF a \in R THEN 0 ELSE width[a]]
  /\ fields' = [a \in Addr |-> IF a \in R THEN NoFields ELSE fields[a]]
  /\ frees' = frees + Cardinality(R)
  /\ UNCHANGED <<live, allocs, kept, keptBytes>>

FreeSet(R) ==
  /\ tag' = [a \in Addr |-> IF a \in R THEN "none" ELSE tag[a]]
  /\ size' = [a \in Addr |-> IF a \in R THEN 0 ELSE size[a]]
  /\ typeId' = [a \in Addr |-> IF a \in R THEN NoTypeId ELSE typeId[a]]
  /\ width' = [a \in Addr |-> IF a \in R THEN 0 ELSE width[a]]
  /\ fields' = [a \in Addr |-> IF a \in R THEN NoFields ELSE fields[a]]
  /\ frees' = frees + Cardinality(R)
  /\ live' = live - Bytes(R)
  /\ UNCHANGED <<allocs, kept, keptBytes>>

BugMemFreeShallow(w) ==
  \/ IsTracked(w) /\ FreeSet({w})
  \/ ~IsTracked(w) /\ UNCHANGED memVars
BugMemFreeCounts(w) ==
  \/ IsTracked(w) /\ FreeSet(Reach(w))
  \/ ~IsTracked(w) /\ frees' = frees + 1
     /\ UNCHANGED <<heapVars, allocs, live, kept, keptBytes>>

(* mem_free of a word the registry does not hold returns at once. *)
MemFree(w) ==
  \/ /\ IsTracked(w)
     /\ FreeSet(Reach(w))
  \/ /\ ~IsTracked(w)
     /\ UNCHANGED memVars

-----------------------------------------------------------------------------
(* copy clones a string, and a struct with everything under it; a vec or   *)
(* a map is answered with 0, at the top and in a field.  f names the new   *)
(* address of each cloned block.  A block reached twice would be cloned    *)
(* twice, a cycle would recurse without end, and the address of a freed    *)
(* block would be followed if a clone happened to be placed there: the     *)
(* closed form below is the code's result on trees of live blocks.         *)
IsTree(p) ==
  \A b, c \in Reach(p), i, j \in Slot :
    fields[b][i] \in Addr =>
      /\ fields[b][i] \in Tracked \ {p}
      /\ fields[b][i] = fields[c][j] => b = c /\ i = j

Cloned(p) == {a \in Reach(p) : tag[a] \in {"string", "struct"}}

BugCloneWordShares(f, w) == w

CloneWord(f, w) ==
  IF w \in DOMAIN f THEN f[w] ELSE IF w \in Tracked THEN Null ELSE w

CopyBlocks(p, f) ==
  LET new(a) == a \in {f[s] : s \in DOMAIN f}
      src(a) == CHOOSE s \in DOMAIN f : f[s] = a
  IN /\ tag' = [a \in Addr |-> IF new(a) THEN tag[src(a)] ELSE tag[a]]
     /\ size' = [a \in Addr |-> IF new(a) THEN size[src(a)] ELSE size[a]]
     /\ typeId' = [a \in Addr |->
          IF new(a) THEN typeId[src(a)] ELSE typeId[a]]
     /\ width' = [a \in Addr |-> IF new(a) THEN width[src(a)] ELSE width[a]]
     /\ fields' = [a \in Addr |->
          IF new(a) THEN [i \in Slot |-> CloneWord(f, fields[src(a)][i])]
          ELSE fields[a]]
     /\ allocs' = allocs + Cardinality(DOMAIN f)
     /\ live' = live + Bytes(DOMAIN f)
     /\ UNCHANGED <<frees, kept, keptBytes>>

Copy(p, f) ==
  /\ tag[p] \in {"string", "struct"}
  /\ IsTree(p)
  /\ f \in [Cloned(p) -> Addr \ Tracked]
  /\ \A a, b \in Cloned(p) : f[a] = f[b] => a = b
  /\ allocs + Cardinality(Cloned(p)) <= MaxAllocs
  /\ CopyBlocks(p, f)

(* mem_reset zeroes the counters and leaves the registry alone. *)
Reset ==
  /\ allocs' = 0 /\ frees' = 0 /\ live' = 0
  /\ kept' = Cardinality(Tracked) /\ keptBytes' = Bytes(Tracked)
  /\ UNCHANGED heapVars

(* mem_assert_clean passes. *)
AssertClean == allocs = frees /\ live = 0

-----------------------------------------------------------------------------
Allocate ==
  \E a \in Addr :
    \/ \E len \in StrLen : StringNew(a, len)
    \/ \E n \in 0 .. MaxFields, tid \in TypeIds : StructNew(a, n, tid)
    \/ ArrayNew(a)
    \/ MapNew(a)

Store ==
  \E p \in Tracked, i \in 0 .. MaxFields :
    \/ \E w \in Num \cup Addr \cup {Null} : SetF64(p, i, w)
    \/ \E v \in Addr : SetOwnedMove(p, i, v)
    \/ \E c \in CStr, len \in StrLen, a \in Addr : SetOwnedCopy(p, i, c, len, a)

Clone ==
  \E p \in Tracked : \E f \in [Cloned(p) -> Addr \ Tracked] : Copy(p, f)

Next ==
  \/ Allocate
  \/ Store
  \/ \E w \in Word : MemFree(w)
  \/ Clone
  \/ Reset

Spec == Init /\ [][Next]_memVars

-----------------------------------------------------------------------------
TypeOK ==
  /\ tag \in [Addr -> Tag \cup {"none"}]
  /\ size \in [Addr -> Nat]
  /\ typeId \in [Addr -> TypeIds \cup {NoTypeId}]
  /\ width \in [Addr -> 0 .. MaxFields]
  /\ fields \in [Addr -> [Slot -> Word]]
  /\ allocs \in Nat /\ frees \in Nat /\ kept \in Nat

(* The two registries agree whatever the caller does: an address has a     *)
(* type id exactly while it is a tracked struct, so a block that reuses a  *)
(* freed struct's address never answers with the old struct's type.        *)
TypeIdsAgree == \A a \in Addr : typeId[a] # NoTypeId <=> tag[a] = "struct"

(* The counters account for the registry: since the last reset, as many    *)
(* blocks were allocated and not freed as are tracked now beyond those     *)
(* that were tracked then, through double frees, shared children, cycles   *)
(* and reused addresses.                                                   *)
CountsAgree == allocs - frees = Cardinality(Tracked) - kept

(* The same for bytes: mem_free subtracts the size the block was entered   *)
(* with.                                                                   *)
BytesAgree == live = Bytes(Tracked) - keptBytes

(* What mem_assert_clean is for: when it passes, nothing is left allocated *)
(* ("Panic if leaks detected").                                            *)
CleanMeansEmpty == AssertClean => Tracked = {}
=============================================================================
