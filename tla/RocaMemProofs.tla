---------------------------- MODULE RocaMemProofs ----------------------------
(***************************************************************************)
(* Proofs about RocaMem: its types, the agreement of the two registries    *)
(* and of the counters with them, for any number of addresses and fields   *)
(* and for a caller that makes any call with any word.                     *)
(*                                                                         *)
(* The second part is about MemSteps: the recursion of mem_free and of     *)
(* copy, one word a step, has the effect that RocaMem gives the whole      *)
(* call, and mem_free enters no block twice, on every heap of any size.    *)
(***************************************************************************)
EXTENDS MemSteps, FiniteSetTheorems, SequenceTheorems, TLAPS

(* Reach(p) is the least set of tracked blocks that holds p and is closed  *)
(* under Children.                                                         *)
LEMMA ReachIsLeast ==
  ASSUME NEW p \in Tracked
  PROVE  /\ p \in Reach(p)
         /\ Reach(p) \subseteq Tracked
         /\ ClosedUnderChildren(Reach(p))
         /\ \A S \in SUBSET Tracked :
              p \in S /\ ClosedUnderChildren(S) => Reach(p) \subseteq S
<1>1. p \in Reach(p) /\ Reach(p) \subseteq Tracked
  BY DEF Reach
<1>2. ASSUME NEW b \in Reach(p), NEW c \in Children(b) PROVE c \in Reach(p)
  <2>1. c \in Tracked
    BY DEF Children
  <2>2. ASSUME NEW S \in SUBSET Tracked, p \in S, ClosedUnderChildren(S)
        PROVE  c \in S
    BY <2>2 DEF Reach, ClosedUnderChildren
  <2>3. QED
    BY <2>1, <2>2 DEF Reach
<1>3. QED
  BY <1>1, <1>2 DEF Reach, ClosedUnderChildren

LEMMA TrackedFinite == IsFiniteSet(Tracked) /\ Cardinality(Tracked) \in Nat
<1>1. Tracked \in SUBSET Addr /\ IsFiniteSet(Addr)
  BY AddrAssumption DEF Tracked
<1>2. IsFiniteSet(Tracked)
  BY <1>1, FS_Subset
<1>3. QED
  BY <1>2, FS_CardinalityType

-----------------------------------------------------------------------------
(* Types and registries.  Each action of Next is one lemma: it keeps the   *)
(* types, the agreement of the registries and the agreement of the counts. *)
MemInv == TypeOK /\ TypeIdsAgree /\ CountsAgree

LEMMA InitInv == Init => MemInv
<1> SUFFICES ASSUME Init PROVE MemInv
  OBVIOUS
<1>1. TypeOK
  BY BoundAssumption DEF Init, TypeOK, NoFields, Word, Tag
<1>2. TypeIdsAgree
  BY DEF Init, TypeIdsAgree
<1>3. Tracked = {}
  BY DEF Init, Tracked
<1>4. CountsAgree
  BY <1>3, FS_EmptySet DEF Init, CountsAgree
<1>5. QED
  BY <1>1, <1>2, <1>4 DEF MemInv

(* Registering one block adds one to both sides of the count. *)
LEMMA RegisterCounts ==
  ASSUME MemInv, NEW a, NEW t \in Tag, NEW sz, Register(a, t, sz)
  PROVE  CountsAgree' /\ Tracked' = Tracked \cup {a}
<1>1. Tracked' = Tracked \cup {a} /\ a \notin Tracked
  BY DEF MemInv, TypeOK, Register, Tracked, Tag
<1>2. Cardinality(Tracked') = Cardinality(Tracked) + 1
  BY <1>1, TrackedFinite, FS_AddElement
<1>3. allocs' = allocs + 1 /\ frees' = frees /\ kept' = kept
  BY DEF Register
<1>4. allocs \in Nat /\ frees \in Nat /\ kept \in Nat
      /\ allocs - frees = Cardinality(Tracked) - kept
  BY DEF MemInv, TypeOK, CountsAgree
<1>5. Cardinality(Tracked)' = Cardinality(Tracked')
  OBVIOUS
<1>6. QED
  BY <1>1, <1>2, <1>3, <1>4, <1>5, TrackedFinite DEF CountsAgree

LEMMA AllocateInv == ASSUME MemInv, Allocate PROVE MemInv'
<1> USE DEF MemInv
<1>1. PICK a \in Addr :
        \/ \E len \in StrLen : StringNew(a, len)
        \/ \E n \in 0 .. MaxFields, tid \in TypeIds : StructNew(a, n, tid)
        \/ ArrayNew(a)
        \/ MapNew(a)
  BY DEF Allocate
<1>2. CASE \E len \in StrLen : StringNew(a, len)
  <2>1. PICK len \in StrLen : StringNew(a, len)
    BY <1>2
  <2>2. CountsAgree'
    BY <2>1, RegisterCounts DEF StringNew, Tag
  <2>3. TypeOK' /\ TypeIdsAgree'
    BY <2>1, StrLenAssumption
       DEF StringNew, Register, TypeOK, TypeIdsAgree, Tag, Tracked
  <2>4. QED
    BY <2>2, <2>3
<1>3. CASE \E n \in 0 .. MaxFields, tid \in TypeIds : StructNew(a, n, tid)
  <2>1. PICK n \in 0 .. MaxFields, tid \in TypeIds : StructNew(a, n, tid)
    BY <1>3
  <2>2. CountsAgree'
    BY <2>1, RegisterCounts DEF StructNew, Tag
  <2>3. TypeOK'
    <3>1. StructSize(n) \in Nat /\ NoFields \in [Slot -> Word]
      BY BoundAssumption DEF StructSize, NoFields, Word
    <3>2. QED
      BY <2>1, <3>1 DEF StructNew, Register, TypeOK, Tag
  <2>4. TypeIdsAgree'
    <3>1. tid # NoTypeId
      BY TypeIdAssumption DEF NoTypeId
    <3>2. QED
      BY <2>1, <3>1 DEF StructNew, Register, TypeOK, TypeIdsAgree, Tag
  <2>5. QED
    BY <2>2, <2>3, <2>4
<1>4. CASE ArrayNew(a)
  <2>1. CountsAgree'
    BY <1>4, RegisterCounts DEF ArrayNew, Tag
  <2>2. TypeOK' /\ TypeIdsAgree'
    BY <1>4
       DEF ArrayNew, Register, TypeOK, TypeIdsAgree, Tag, Tracked, ArraySize
  <2>3. QED
    BY <2>1, <2>2
<1>5. CASE MapNew(a)
  <2>1. CountsAgree'
    BY <1>5, RegisterCounts DEF MapNew, Tag
  <2>2. TypeOK' /\ TypeIdsAgree'
    BY <1>5
       DEF MapNew, Register, TypeOK, TypeIdsAgree, Tag, Tracked, MapSize
  <2>3. QED
    BY <2>1, <2>2
<1>6. QED
  BY <1>1, <1>2, <1>3, <1>4, <1>5

(* Writing a word touches neither registry. *)
LEMMA WriteType ==
  ASSUME TypeOK, NEW p \in Addr, NEW i, NEW w \in Word, Write(p, i, w)
  PROVE  fields' \in [Addr -> [Slot -> Word]]
  BY DEF TypeOK, Write, InRange

LEMMA StoreInv == ASSUME MemInv, Store PROVE MemInv'
<1> USE DEF MemInv
<1>1. PICK p \in Tracked, i \in 0 .. MaxFields :
        \/ \E w \in Num \cup Addr \cup {Null} : SetF64(p, i, w)
        \/ \E v \in Addr : SetOwnedMove(p, i, v)
        \/ \E c \in CStr, len \in StrLen, a \in Addr : SetOwnedCopy(p, i, c, len, a)
  BY DEF Store
<1>2. p \in Addr
  BY DEF Tracked
<1>3. ASSUME NEW w \in Word, Write(p, i, w),
             UNCHANGED <<tag, size, typeId, width, countVars>>
      PROVE  MemInv'
  <2>1. fields' \in [Addr -> [Slot -> Word]]
    BY <1>2, <1>3, WriteType
  <2>2. Tracked' = Tracked
    BY <1>3 DEF Tracked
  <2>3. QED
    BY <1>3, <2>1, <2>2 DEF TypeOK, TypeIdsAgree, CountsAgree, countVars
<1>4. CASE \E w \in Num \cup Addr \cup {Null} : SetF64(p, i, w)
  BY <1>3, <1>4 DEF SetF64, Word
<1>5. CASE \E v \in Addr : SetOwnedMove(p, i, v)
  BY <1>3, <1>5 DEF SetOwnedMove, Word
<1>6. CASE \E c \in CStr, len \in StrLen, a \in Addr : SetOwnedCopy(p, i, c, len, a)
  <2>1. PICK c \in CStr, len \in StrLen, a \in Addr : SetOwnedCopy(p, i, c, len, a)
    BY <1>6
  <2>2. CountsAgree'
    BY <2>1, RegisterCounts DEF SetOwnedCopy, Tag
  <2>3. fields' \in [Addr -> [Slot -> Word]]
    BY <2>1, <1>2, WriteType DEF SetOwnedCopy, Word
  <2>4. TypeOK'
    <3>1. len + 1 \in Nat
      BY StrLenAssumption
    <3>2. tag' \in [Addr -> Tag \cup {"none"}] /\ size' \in [Addr -> Nat]
      BY <2>1, <3>1 DEF SetOwnedCopy, Register, TypeOK, Tag
    <3>3. QED
      BY <2>1, <2>3, <3>2 DEF SetOwnedCopy, Register, TypeOK
  <2>5. TypeIdsAgree'
    BY <2>1 DEF SetOwnedCopy, Register, TypeOK, TypeIdsAgree, Tag, Tracked
  <2>6. QED
    BY <2>2, <2>4, <2>5
<1>7. QED
  BY <1>1, <1>4, <1>5, <1>6

-----------------------------------------------------------------------------
(* mem_free: what goes is Reach(w), a finite part of the registry. *)
LEMMA FreeInv == ASSUME MemInv, NEW w, MemFree(w) PROVE MemInv'
<1> USE DEF MemInv
<1>1. CASE ~IsTracked(w) /\ UNCHANGED memVars
  <2>1. UNCHANGED <<heapVars, allocs, frees, kept>>
    BY <1>1 DEF memVars, countVars
  <2>2. Tracked' = Tracked
    BY <2>1 DEF heapVars, Tracked
  <2>3. QED
    BY <2>1, <2>2 DEF heapVars, TypeOK, TypeIdsAgree, CountsAgree
<1>2. CASE IsTracked(w) /\ FreeSet(Reach(w))
  <2> DEFINE R == Reach(w)
  <2>1. R \subseteq Tracked
    BY <1>2, ReachIsLeast DEF IsTracked
  <2>2. IsFiniteSet(R) /\ Cardinality(R) \in Nat
    BY <2>1, TrackedFinite, FS_Subset, FS_CardinalityType
  <2> HIDE DEF R
  <2>3. FreeSet(R)
    BY <1>2 DEF R
  <2>4. TypeOK'
    <3>1. NoFields \in [Slot -> Word]
      BY DEF NoFields, Word
    <3>2. tag' \in [Addr -> Tag \cup {"none"}] /\ size' \in [Addr -> Nat]
      BY <2>3 DEF FreeSet, TypeOK
    <3>3. typeId' \in [Addr -> TypeIds \cup {NoTypeId}]
      BY <2>3 DEF FreeSet, TypeOK
    <3>4. width' \in [Addr -> 0 .. MaxFields]
      BY <2>3, BoundAssumption DEF FreeSet, TypeOK
    <3>5. fields' \in [Addr -> [Slot -> Word]]
      BY <2>3, <3>1 DEF FreeSet, TypeOK
    <3>6. allocs' \in Nat /\ frees' \in Nat /\ kept' \in Nat
      BY <2>2, <2>3 DEF FreeSet, TypeOK
    <3>7. QED
      BY <3>2, <3>3, <3>4, <3>5, <3>6 DEF TypeOK
  <2>5. TypeIdsAgree'
    BY <2>3 DEF FreeSet, TypeOK, TypeIdsAgree
  <2>6. CountsAgree'
    <3>1. Tracked' = Tracked \ R
      BY <2>3 DEF FreeSet, TypeOK, Tracked
    <3>2. Cardinality(Tracked \ R) = Cardinality(Tracked) - Cardinality(R)
      <4>1. Tracked \cap R = R
        BY <2>1
      <4>2. QED
        BY <4>1, TrackedFinite, FS_Difference
    <3>3. frees' = frees + Cardinality(R) /\ allocs' = allocs /\ kept' = kept
      BY <2>3 DEF FreeSet
    <3>4. allocs \in Nat /\ frees \in Nat /\ kept \in Nat
          /\ allocs - frees = Cardinality(Tracked) - kept
      BY DEF TypeOK, CountsAgree
    <3>5. QED
      BY <2>2, <3>1, <3>2, <3>3, <3>4, TrackedFinite DEF CountsAgree
  <2>7. QED
    BY <2>4, <2>5, <2>6
<1>3. QED
  BY <1>1, <1>2 DEF MemFree

LEMMA ResetInv == ASSUME MemInv, Reset PROVE MemInv'
<1>1. Tracked' = Tracked
  BY DEF Reset, heapVars, Tracked
<1>2. QED
  BY <1>1, TrackedFinite
     DEF Reset, heapVars, MemInv, TypeOK, TypeIdsAgree, CountsAgree

-----------------------------------------------------------------------------
(* copy: f places the clones on addresses nobody uses, one each. *)
LEMMA CloneAddresses ==
  ASSUME NEW p \in Tracked, NEW f \in [Cloned(p) -> Addr \ Tracked],
         \A a, b \in Cloned(p) : f[a] = f[b] => a = b
  PROVE  /\ IsFiniteSet({f[s] : s \in Cloned(p)})
         /\ Cardinality({f[s] : s \in Cloned(p)}) = Cardinality(Cloned(p))
         /\ Cardinality(Cloned(p)) \in Nat
<1> DEFINE D == Cloned(p)
           N == {f[s] : s \in D}
<1>1. IsFiniteSet(D) /\ Cardinality(D) \in Nat
  <2>1. D \subseteq Tracked
    BY ReachIsLeast DEF Cloned
  <2>2. QED
    BY <2>1, TrackedFinite, FS_Subset, FS_CardinalityType
<1>2. f \in Bijection(D, N)
  <2> HIDE DEF D
  <2>1. f \in [D -> N] /\ \A a, b \in D : f[a] = f[b] => a = b
    BY DEF D
  <2>2. \A t \in N : \E s \in D : f[s] = t
    OBVIOUS
  <2>3. QED
    BY <2>1, <2>2 DEF Bijection, Injection, Surjection, IsInjective
<1>3. ExistsBijection(D, N)
  BY <1>2 DEF ExistsBijection
<1>4. QED
  BY <1>1, <1>3, FS_Bijection

LEMMA CopyInv ==
  ASSUME MemInv, NEW p \in Tracked, NEW f \in [Cloned(p) -> Addr \ Tracked],
         Copy(p, f)
  PROVE  MemInv'
<1> DEFINE D == Cloned(p)
           N == {f[s] : s \in D}
           src(a) == CHOOSE s \in D : f[s] = a
<1>1. DOMAIN f = D /\ CopyBlocks(p, f)
  BY DEF Copy
<1>2. D \subseteq Tracked /\ D \subseteq Addr
  BY ReachIsLeast DEF Cloned, Tracked
<1>3. \A s \in D : tag[s] \in {"string", "struct"}
  BY DEF Cloned
<1>4. N \subseteq Addr \ Tracked /\ \A a \in N : src(a) \in D /\ f[src(a)] = a
  OBVIOUS
<1>5. /\ tag' = [a \in Addr |-> IF a \in N THEN tag[src(a)] ELSE tag[a]]
      /\ size' = [a \in Addr |-> IF a \in N THEN size[src(a)] ELSE size[a]]
      /\ typeId' = [a \in Addr |-> IF a \in N THEN typeId[src(a)] ELSE typeId[a]]
      /\ width' = [a \in Addr |-> IF a \in N THEN width[src(a)] ELSE width[a]]
      /\ fields' = [a \in Addr |->
           IF a \in N THEN [i \in Slot |-> CloneWord(f, fields[src(a)][i])]
           ELSE fields[a]]
      /\ allocs' = allocs + Cardinality(D) /\ frees' = frees /\ kept' = kept
  BY <1>1 DEF CopyBlocks
<1>6. Cardinality(N) = Cardinality(D) /\ IsFiniteSet(N) /\ Cardinality(D) \in Nat
  BY CloneAddresses DEF Copy
<1>7. \A w \in Word : CloneWord(f, w) \in Word
  BY <1>1, <1>4 DEF CloneWord, Word
<1> HIDE DEF D, N, src
<1>8. TypeOK'
  <2>1. tag' \in [Addr -> Tag \cup {"none"}] /\ size' \in [Addr -> Nat]
    BY <1>2, <1>4, <1>5 DEF MemInv, TypeOK
  <2>2. typeId' \in [Addr -> TypeIds \cup {NoTypeId}]
    BY <1>2, <1>4, <1>5 DEF MemInv, TypeOK
  <2>3. width' \in [Addr -> 0 .. MaxFields]
    BY <1>2, <1>4, <1>5 DEF MemInv, TypeOK
  <2>4. fields' \in [Addr -> [Slot -> Word]]
    BY <1>2, <1>4, <1>5, <1>7 DEF MemInv, TypeOK
  <2>5. allocs' \in Nat /\ frees' \in Nat /\ kept' \in Nat
    BY <1>5, <1>6 DEF MemInv, TypeOK
  <2>6. QED
    BY <2>1, <2>2, <2>3, <2>4, <2>5 DEF TypeOK
<1>9. TypeIdsAgree'
  BY <1>2, <1>4, <1>5 DEF MemInv, TypeOK, TypeIdsAgree
<1>10. CountsAgree'
  <2>1. Tracked' = Tracked \cup N
    BY <1>2, <1>3, <1>4, <1>5 DEF MemInv, TypeOK, Tracked
  <2>2. Tracked \cap N = {}
    BY <1>4
  <2>3. Cardinality(Tracked \cup N) = Cardinality(Tracked) + Cardinality(N)
    <3>1. Cardinality(Tracked \cup N)
            = Cardinality(Tracked) + Cardinality(N) - Cardinality(Tracked \cap N)
      BY <1>6, TrackedFinite, FS_Union
    <3>2. Cardinality(Tracked \cap N) = 0
      BY <2>2, FS_EmptySet
    <3>3. QED
      BY <1>6, <3>1, <3>2, TrackedFinite
  <2>4. allocs \in Nat /\ frees \in Nat /\ kept \in Nat
        /\ allocs - frees = Cardinality(Tracked) - kept
    BY DEF MemInv, TypeOK, CountsAgree
  <2>5. Cardinality(Tracked') = Cardinality(Tracked) + Cardinality(D)
    BY <1>6, <2>1, <2>3
  <2>6. allocs' = allocs + Cardinality(D) /\ frees' = frees /\ kept' = kept
    BY <1>5
  <2>7. QED
    BY <1>6, <2>4, <2>5, <2>6, TrackedFinite DEF CountsAgree
<1>11. QED
  BY <1>8, <1>9, <1>10 DEF MemInv

-----------------------------------------------------------------------------
LEMMA NextInv == ASSUME MemInv, [Next]_memVars PROVE MemInv'
<1>1. CASE Next
  BY <1>1, AllocateInv, StoreInv, FreeInv, CopyInv, ResetInv DEF Next, Clone
<1>2. CASE UNCHANGED memVars
  <2>1. MemFree(Null) \/ IsTracked(Null)
    BY <1>2 DEF MemFree
  <2>2. ~IsTracked(Null)
    BY WordAssumption DEF IsTracked, Tracked
  <2>3. QED
    BY <2>1, <2>2, FreeInv
<1>3. QED
  BY <1>1, <1>2

-----------------------------------------------------------------------------
(* Bytes.  The bytes of the registry are a finite set: registering a block *)
(* adds that block's, freeing takes away those of the set freed, cloning   *)
(* adds as many as the cloned blocks have.                                 *)
TrackedBytes == BytesOf(size, Tracked)

BytesInv ==
  /\ live \in Int /\ keptBytes \in Int
  /\ IsFiniteSet(TrackedBytes)
  /\ BytesAgree

LEMMA BytesElement ==
  ASSUME NEW sz, NEW S, NEW x
  PROVE  x \in BytesOf(sz, S)
           <=> \E a \in S, k \in Int : k \in 1 .. sz[a] /\ x = <<a, k>>
  BY DEF BytesOf

LEMMA InitBytes == Init => BytesInv
<1> SUFFICES ASSUME Init PROVE BytesInv
  OBVIOUS
<1>1. Tracked = {}
  BY DEF Init, Tracked
<1>2. TrackedBytes = {}
  BY <1>1, BytesElement DEF TrackedBytes
<1>3. QED
  BY <1>1, <1>2, FS_EmptySet
     DEF Init, BytesInv, BytesAgree, Bytes, TrackedBytes

LEMMA SameBytes ==
  ASSUME BytesInv, UNCHANGED <<tag, size, live, keptBytes>>
  PROVE  BytesInv'
<1>1. Tracked' = Tracked
  BY DEF Tracked
<1>2. QED
  BY <1>1 DEF BytesInv, BytesAgree, Bytes, BytesOf, TrackedBytes

LEMMA RegisterBytes ==
  ASSUME MemInv, BytesInv, NEW a \in Addr, NEW t \in Tag, NEW sz \in Nat,
         Register(a, t, sz)
  PROVE  BytesInv'
<1> DEFINE B == TrackedBytes
           C == {a} \X (1 .. sz)
<1>1. Tracked' = Tracked \cup {a} /\ a \notin Tracked
  BY RegisterCounts DEF Register
<1>2. \A b \in Tracked' : size'[b] = IF b = a THEN sz ELSE size[b]
  BY DEF Register, MemInv, TypeOK, Tracked
<1>3. TrackedBytes' = B \cup C
  <2>1. ASSUME NEW x PROVE x \in TrackedBytes' <=> x \in B \cup C
    <3>1. x \in TrackedBytes'
            <=> \E b \in Tracked', k \in Int : k \in 1 .. size'[b] /\ x = <<b, k>>
      BY BytesElement DEF TrackedBytes, BytesOf
    <3>2. x \in B
            <=> \E b \in Tracked, k \in Int : k \in 1 .. size[b] /\ x = <<b, k>>
      BY BytesElement DEF TrackedBytes
    <3>3. x \in C <=> \E k \in Int : k \in 1 .. sz /\ x = <<a, k>>
      OBVIOUS
    <3> HIDE DEF B, C
    <3>4. QED
      BY <3>1, <3>2, <3>3, <1>1, <1>2
  <2> HIDE DEF B, C
  <2>2. QED
    BY <2>1
<1>4. B \cap C = {}
  <2>1. ASSUME NEW x \in B, x \in C PROVE FALSE
    BY <1>1, <2>1, BytesElement DEF TrackedBytes
  <2>2. QED
    BY <2>1
<1>5. IsFiniteSet(C) /\ Cardinality(C) = sz
  <2>1. IsFiniteSet(1 .. sz) /\ Cardinality(1 .. sz) = sz
    BY FS_Interval
  <2>2. IsFiniteSet({a}) /\ Cardinality({a}) = 1
    BY FS_Singleton
  <2>3. QED
    BY <2>1, <2>2, FS_Product
<1>6. IsFiniteSet(B) /\ Cardinality(B) \in Nat
  BY FS_CardinalityType DEF BytesInv
<1> HIDE DEF B, C
<1>7. Cardinality(B \cup C) = Cardinality(B) + sz /\ IsFiniteSet(B \cup C)
  <2>1. /\ IsFiniteSet(B \cup C)
        /\ Cardinality(B \cup C)
             = Cardinality(B) + Cardinality(C) - Cardinality(B \cap C)
    BY <1>5, <1>6, FS_Union
  <2>2. Cardinality(B \cap C) = 0
    BY <1>4, FS_EmptySet
  <2>3. QED
    BY <1>5, <1>6, <2>1, <2>2
<1>8. live = Cardinality(B) - keptBytes /\ live \in Int /\ keptBytes \in Int
  BY DEF B, BytesInv, BytesAgree, Bytes, TrackedBytes
<1>9. live' = live + sz /\ keptBytes' = keptBytes
  BY DEF Register
<1>10. Bytes(Tracked)' = Cardinality(B) + sz
  BY <1>3, <1>7 DEF Bytes, TrackedBytes, BytesOf
<1>11. QED
  BY <1>3, <1>6, <1>7, <1>8, <1>9, <1>10 DEF BytesInv, BytesAgree

LEMMA AllocateBytes == ASSUME MemInv, BytesInv, Allocate PROVE BytesInv'
<1>1. PICK a \in Addr :
        \/ \E len \in StrLen : StringNew(a, len)
        \/ \E n \in 0 .. MaxFields, tid \in TypeIds : StructNew(a, n, tid)
        \/ ArrayNew(a)
        \/ MapNew(a)
  BY DEF Allocate
<1>2. \E t \in Tag, sz \in Nat : Register(a, t, sz)
  <2>1. ASSUME NEW len \in StrLen, StringNew(a, len)
        PROVE  \E t \in Tag, sz \in Nat : Register(a, t, sz)
    BY <2>1, StrLenAssumption DEF StringNew, Tag
  <2>2. ASSUME NEW n \in 0 .. MaxFields, NEW tid \in TypeIds, StructNew(a, n, tid)
        PROVE  \E t \in Tag, sz \in Nat : Register(a, t, sz)
    <3>1. StructSize(n) \in Nat
      BY BoundAssumption DEF StructSize
    <3>2. QED
      BY <2>2, <3>1 DEF StructNew, Tag
  <2>3. ArrayNew(a) \/ MapNew(a) => \E t \in Tag, sz \in Nat : Register(a, t, sz)
    BY DEF ArrayNew, MapNew, ArraySize, MapSize, Tag
  <2>4. QED
    BY <1>1, <2>1, <2>2, <2>3
<1>3. QED
  BY <1>2, RegisterBytes

LEMMA StoreBytes == ASSUME MemInv, BytesInv, Store PROVE BytesInv'
<1>1. PICK p \in Tracked, i \in 0 .. MaxFields :
        \/ \E w \in Num \cup Addr \cup {Null} : SetF64(p, i, w)
        \/ \E v \in Addr : SetOwnedMove(p, i, v)
        \/ \E c \in CStr, len \in StrLen, a \in Addr : SetOwnedCopy(p, i, c, len, a)
  BY DEF Store
<1>2. ASSUME NEW c \in CStr, NEW len \in StrLen, NEW a \in Addr,
             SetOwnedCopy(p, i, c, len, a)
      PROVE  BytesInv'
  <2>1. len + 1 \in Nat /\ Register(a, "string", len + 1)
    BY <1>2, StrLenAssumption DEF SetOwnedCopy
  <2>2. QED
    BY <2>1, RegisterBytes DEF Tag
<1>3. QED
  BY <1>1, <1>2, SameBytes DEF SetF64, SetOwnedMove, countVars

(* mem_free subtracts what Reach(w) holds.                                 *)
LEMMA FreeBytes == ASSUME MemInv, BytesInv, NEW w, MemFree(w) PROVE BytesInv'
<1>1. CASE UNCHANGED memVars
  BY <1>1, SameBytes DEF memVars, heapVars, countVars
<1>2. CASE IsTracked(w) /\ FreeSet(Reach(w))
  <2> DEFINE R == Reach(w)
             B == TrackedBytes
             C == BytesOf(size, R)
  <2>1. R \subseteq Tracked
    BY <1>2, ReachIsLeast DEF IsTracked
  <2> HIDE DEF R
  <2>2. FreeSet(R)
    BY <1>2 DEF R
  <2>3. Tracked' = Tracked \ R
    BY <2>2 DEF FreeSet, MemInv, TypeOK, Tracked
  <2>4. \A b \in Tracked' : size'[b] = size[b]
    BY <2>2, <2>3 DEF FreeSet, Tracked
  <2>5. TrackedBytes' = B \ C /\ C \subseteq B
    <3>1. ASSUME NEW x PROVE /\ x \in TrackedBytes' <=> x \in B \ C
                             /\ x \in C => x \in B
      <4>1. x \in TrackedBytes'
              <=> \E b \in Tracked', k \in Int : k \in 1 .. size'[b] /\ x = <<b, k>>
        BY BytesElement DEF TrackedBytes, BytesOf
      <4>2. x \in B
              <=> \E b \in Tracked, k \in Int : k \in 1 .. size[b] /\ x = <<b, k>>
        BY BytesElement DEF TrackedBytes
      <4>3. x \in C
              <=> \E b \in R, k \in Int : k \in 1 .. size[b] /\ x = <<b, k>>
        BY BytesElement
      <4> HIDE DEF B, C
      <4>4. QED
        BY <4>1, <4>2, <4>3, <2>1, <2>3, <2>4
    <3> HIDE DEF B, C
    <3>2. QED
      BY <3>1
  <2>6. IsFiniteSet(B) /\ Cardinality(B) \in Nat
    BY FS_CardinalityType DEF BytesInv
  <2>7. /\ live = Cardinality(B) - keptBytes /\ live \in Int /\ keptBytes \in Int
        /\ live' = live - Cardinality(C) /\ keptBytes' = keptBytes
    BY <2>2 DEF BytesInv, BytesAgree, Bytes, TrackedBytes, FreeSet
  <2>8. Bytes(Tracked)' = Cardinality(TrackedBytes')
    BY DEF Bytes, TrackedBytes, BytesOf
  <2> HIDE DEF B, C
  <2>9. IsFiniteSet(B \ C) /\ Cardinality(B \ C) = Cardinality(B) - Cardinality(C)
    <3>1. B \cap C = C
      BY <2>5
    <3>2. QED
      BY <2>6, <3>1, FS_Difference
  <2>10. IsFiniteSet(C) /\ Cardinality(C) \in Nat
    BY <2>5, <2>6, FS_Subset, FS_CardinalityType
  <2>11. QED
    BY <2>5, <2>6, <2>7, <2>8, <2>9, <2>10 DEF BytesInv, BytesAgree
<1>3. QED
  BY <1>1, <1>2 DEF MemFree

LEMMA ResetBytes == ASSUME BytesInv, Reset PROVE BytesInv'
<1>1. Tracked' = Tracked /\ size' = size
  BY DEF Reset, heapVars, Tracked
<1>2. Cardinality(TrackedBytes) \in Nat /\ TrackedBytes' = TrackedBytes
  BY <1>1, FS_CardinalityType DEF BytesInv, TrackedBytes, BytesOf
<1>3. Bytes(Tracked)' = Cardinality(TrackedBytes)
  BY <1>1 DEF Bytes, TrackedBytes, BytesOf
<1>4. live' = 0 /\ keptBytes' = Cardinality(TrackedBytes)
  BY DEF Reset, Bytes, TrackedBytes
<1>5. QED
  BY <1>2, <1>3, <1>4 DEF BytesInv, BytesAgree

(* A clone's bytes correspond one to one to those of its original. *)
LEMMA CopyBytes ==
  ASSUME MemInv, BytesInv, NEW p \in Tracked,
         NEW f \in [Cloned(p) -> Addr \ Tracked], Copy(p, f)
  PROVE  BytesInv'
<1> DEFINE D == Cloned(p)
           N == {f[s] : s \in D}
           src(a) == CHOOSE s \in D : f[s] = a
           B == TrackedBytes
           C == BytesOf(size, D)
           E == BytesOf(size', N)
<1>1. DOMAIN f = D /\ CopyBlocks(p, f) /\ \A a, b \in D : f[a] = f[b] => a = b
  BY DEF Copy
<1>2. D \subseteq Tracked /\ D \subseteq Addr
  BY ReachIsLeast DEF Cloned, Tracked
<1>3. \A s \in D : tag[s] \in {"string", "struct"}
  BY DEF Cloned
<1>4. /\ N \subseteq Addr \ Tracked
      /\ \A a \in N : src(a) \in D /\ f[src(a)] = a
      /\ \A s \in D : f[s] \in N
  OBVIOUS
<1>5. /\ tag' = [a \in Addr |-> IF a \in N THEN tag[src(a)] ELSE tag[a]]
      /\ size' = [a \in Addr |-> IF a \in N THEN size[src(a)] ELSE size[a]]
      /\ live' = live + Cardinality(C) /\ keptBytes' = keptBytes
  BY <1>1 DEF CopyBlocks, Bytes
<1> HIDE DEF D, N, src
<1>6. \A s \in D : size'[f[s]] = size[s]
  BY <1>1, <1>2, <1>4, <1>5
<1>7. Tracked' = Tracked \cup N
  BY <1>2, <1>3, <1>4, <1>5 DEF MemInv, TypeOK, Tracked
<1>8. \A a \in Tracked : a \notin N /\ size'[a] = size[a]
  BY <1>4, <1>5 DEF Tracked
<1>9. TrackedBytes' = B \cup E /\ B \cap E = {} /\ C \subseteq B
  <2>1. ASSUME NEW x
        PROVE  /\ x \in TrackedBytes' <=> x \in B \cup E
               /\ x \in C => x \in B
               /\ x \in B => x \notin E
    <3>1. x \in TrackedBytes'
            <=> \E b \in Tracked', k \in Int : k \in 1 .. size'[b] /\ x = <<b, k>>
      BY BytesElement DEF TrackedBytes, BytesOf
    <3>2. x \in B
            <=> \E b \in Tracked, k \in Int : k \in 1 .. size[b] /\ x = <<b, k>>
      BY BytesElement DEF TrackedBytes
    <3>3. x \in C
            <=> \E b \in D, k \in Int : k \in 1 .. size[b] /\ x = <<b, k>>
      BY BytesElement
    <3>4. x \in E
            <=> \E b \in N, k \in Int : k \in 1 .. size'[b] /\ x = <<b, k>>
      BY BytesElement
    <3> HIDE DEF B, C, E
    <3>5. QED
      BY <3>1, <3>2, <3>3, <3>4, <1>2, <1>7, <1>8
  <2> HIDE DEF B, C, E
  <2>2. QED
    BY <2>1
<1>10. IsFiniteSet(B) /\ Cardinality(B) \in Nat
  BY FS_CardinalityType DEF BytesInv
<1>11. IsFiniteSet(C) /\ Cardinality(C) \in Nat
  BY <1>9, <1>10, FS_Subset, FS_CardinalityType
<1>12. ExistsBijection(C, E)
  <2> DEFINE g == [x \in C |-> <<f[x[1]], x[2]>>]
  <2>1. \A x \in C : x[1] \in D /\ x[2] \in 1 .. size[x[1]] /\ x = <<x[1], x[2]>>
    BY BytesElement
  <2>2. \A x \in C : <<f[x[1]], x[2]>> \in E
    <3>1. ASSUME NEW x \in C PROVE <<f[x[1]], x[2]>> \in E
      <4>1. f[x[1]] \in N /\ x[2] \in 1 .. size'[f[x[1]]] /\ x[2] \in Int
        BY <2>1, <1>4, <1>6
      <4>2. QED
        BY <4>1, BytesElement
    <3>2. QED
      BY <3>1
  <2>3. \A y \in E : \E x \in C : <<f[x[1]], x[2]>> = y
    <3>1. ASSUME NEW y \in E PROVE \E x \in C : <<f[x[1]], x[2]>> = y
      <4>1. PICK b \in N, k \in Int : k \in 1 .. size'[b] /\ y = <<b, k>>
        BY BytesElement
      <4>2. PICK s \in D : f[s] = b
        BY DEF N
      <4>3. k \in 1 .. size[s]
        BY <4>1, <4>2, <1>6
      <4>4. <<s, k>> \in C
        BY <4>3, BytesElement
      <4>5. QED
        BY <4>1, <4>2, <4>4
    <3>2. QED
      BY <3>1
  <2> HIDE DEF C, E
  <2>4. g \in [C -> E] /\ \A x \in C : g[x] = <<f[x[1]], x[2]>>
    BY <2>2
  <2> HIDE DEF g
  <2>5. \A x, y \in C : g[x] = g[y] => x = y
    BY <2>1, <2>4, <1>1
  <2>6. \A y \in E : \E x \in C : g[x] = y
    BY <2>3, <2>4
  <2>7. g \in Bijection(C, E)
    BY <2>4, <2>5, <2>6 DEF Bijection, Injection, Surjection, IsInjective
  <2>8. QED
    BY <2>7 DEF ExistsBijection
<1>13. live = Cardinality(B) - keptBytes /\ live \in Int /\ keptBytes \in Int
  BY DEF BytesInv, BytesAgree, Bytes, TrackedBytes
<1>14. Bytes(Tracked)' = Cardinality(TrackedBytes')
  BY DEF Bytes, TrackedBytes, BytesOf
<1> HIDE DEF B, C, E
<1>15. IsFiniteSet(E) /\ Cardinality(E) = Cardinality(C)
  BY <1>11, <1>12, FS_Bijection
<1>16. /\ IsFiniteSet(B \cup E)
       /\ Cardinality(B \cup E) = Cardinality(B) + Cardinality(C)
  <2>1. /\ IsFiniteSet(B \cup E)
        /\ Cardinality(B \cup E)
             = Cardinality(B) + Cardinality(E) - Cardinality(B \cap E)
    BY <1>10, <1>15, FS_Union
  <2>2. Cardinality(B \cap E) = 0
    BY <1>9, FS_EmptySet
  <2>3. QED
    BY <1>10, <1>11, <1>15, <2>1, <2>2
<1>17. QED
  BY <1>5, <1>9, <1>10, <1>11, <1>13, <1>14, <1>16 DEF BytesInv, BytesAgree

LEMMA NextBytes ==
  ASSUME MemInv, BytesInv, [Next]_memVars
  PROVE  BytesInv'
<1>1. CASE Next
  BY <1>1, AllocateBytes, StoreBytes, FreeBytes, CopyBytes, ResetBytes
     DEF Next, Clone
<1>2. CASE UNCHANGED memVars
  BY <1>2, SameBytes DEF memVars, heapVars, countVars
<1>3. QED
  BY <1>1, <1>2

(* The registry keeps its types, whatever is called. *)
THEOREM TypeCorrect == Spec => []TypeOK
<1>1. MemInv => TypeOK
  BY DEF MemInv
<1>2. QED
  BY <1>1, InitInv, NextInv, PTL DEF Spec

(* An address has a type id exactly while it is a tracked struct, through  *)
(* any sequence of calls: frees of shared and cyclic structures, double    *)
(* frees, reused addresses, copies.                                        *)
THEOREM RegistriesAgree == Spec => []TypeIdsAgree
<1>1. MemInv => TypeIdsAgree
  BY DEF MemInv
<1>2. QED
  BY <1>1, InitInv, NextInv, PTL DEF Spec

(* mem_stats' counts are those of the registry: allocations not freed      *)
(* since the last reset are the blocks tracked beyond the ones it kept.    *)
THEOREM CountersAgree == Spec => []CountsAgree
<1>1. MemInv => CountsAgree
  BY DEF MemInv
<1>2. QED
  BY <1>1, InitInv, NextInv, PTL DEF Spec
(* The same for bytes: every mem_free takes back exactly what the blocks   *)
(* it frees were entered with, copies included, so the live bytes are the  *)
(* sizes on record beyond the ones kept at the last reset.                 *)
THEOREM LiveBytesAgree == Spec => []BytesAgree
<1> DEFINE Inv == MemInv /\ BytesInv
<1>1. Init => Inv
  BY InitInv, InitBytes
<1>2. Inv /\ [Next]_memVars => Inv'
  BY NextInv, NextBytes
<1>3. Inv => BytesAgree
  BY DEF BytesInv
<1>4. QED
  BY <1>1, <1>2, <1>3, PTL DEF Spec

-----------------------------------------------------------------------------
(* The heap h as a value: what RocaMem defines of its variables.           *)
TrackedIn(h) == {a \in Addr : h.tag[a] # "none"}
ChildrenIn(h, x) == {c \in TrackedIn(h) : \E i \in Slot : h.fields[x][i] = c}
ClosedIn(h, S) == \A x \in S : ChildrenIn(h, x) \subseteq S
ReachIn(h, p) ==
  {a \in TrackedIn(h) : \A S \in SUBSET TrackedIn(h) :
                          p \in S /\ ClosedIn(h, S) => a \in S}
IsCloned(h, a) == a \in TrackedIn(h) /\ h.tag[a] \in {"string", "struct"}
ClonedIn(h, p) == {a \in ReachIn(h, p) : h.tag[a] \in {"string", "struct"}}
CloneIn(h, f, w) ==
  IF w \in DOMAIN f THEN f[w] ELSE IF w \in TrackedIn(h) THEN Null ELSE w
TreeIn(h, p) ==
  \A x, y \in ReachIn(h, p), i, j \in Slot :
    h.fields[x][i] \in Addr =>
      /\ h.fields[x][i] \in TrackedIn(h) \ {p}
      /\ h.fields[x][i] = h.fields[y][j] => x = y /\ i = j

(* The heap between two calls.                                             *)
TypedHeap(h) ==
  /\ h.tag \in [Addr -> Tag \cup {"none"}]
  /\ h.size \in [Addr -> Nat]
  /\ h.typeId \in [Addr -> TypeIds \cup {NoTypeId}]
  /\ h.width \in [Addr -> 0 .. MaxFields]
  /\ h.fields \in [Addr -> [Slot -> Word]]
  /\ h.allocs \in Nat /\ h.frees \in Nat /\ h.kept \in Nat
  /\ h.live \in Int /\ h.keptBytes \in Int
  /\ IsFiniteSet(BytesOf(h.size, TrackedIn(h)))

BlockOK(h, a) ==
  /\ h.typeId[a] # NoTypeId <=> h.tag[a] = "struct"
  /\ h.tag[a] # "struct" => h.width[a] = 0 /\ h.fields[a] = NoFields
  /\ h.tag[a] = "struct" => h.size[a] = StructSize(h.width[a])
  /\ \A k \in Slot : k >= h.width[a] => h.fields[a][k] = Null

HeapOK(h) == TypedHeap(h) /\ \A a \in Addr : BlockOK(h, a)

-----------------------------------------------------------------------------
(* The stack of mem_free.  F is what has been untagged since the call      *)
(* began: every word behind a visited slot of it is in F, if it was        *)
(* tracked.                                                                *)
FreeRecord == [op : {"free"}, block : Addr, bytes : Nat, next : Nat]

Begun(s) == {s[i].block : i \in 1 .. Len(s)}
FreeVisited(s, a, k) == \A i \in 1 .. Len(s) : s[i].block = a => k < s[i].next
FreeRoot(s) == s[Len(s)].block

DistinctBlocks(s) == \A i, j \in 1 .. Len(s) : s[i].block = s[j].block => i = j
SizesKept(h, s) == \A i \in 1 .. Len(s) : s[i].bytes = h.size[s[i].block]

FreeStack(h, F, s) ==
  /\ s \in Seq(FreeRecord) /\ s # <<>>
  /\ DistinctBlocks(s) /\ Begun(s) \subseteq F /\ SizesKept(h, s)

FreeBlocks(h, F, s) ==
  /\ F \subseteq ReachIn(h, FreeRoot(s))
  /\ \A a \in F, k \in Slot :
       FreeVisited(s, a, k) /\ h.fields[a][k] \in TrackedIn(h) => h.fields[a][k] \in F

SameBlock(h, a) ==
  /\ tag[a] = h.tag[a] /\ size[a] = h.size[a] /\ typeId[a] = h.typeId[a]
  /\ width[a] = h.width[a] /\ fields[a] = h.fields[a]

FreeHeap(h, F, B) ==
  /\ \A a \in Addr \ F : SameBlock(h, a)
  /\ \A a \in F : tag[a] = "none" /\ size[a] = 0 /\ typeId[a] = NoTypeId
  /\ \A a \in B : width[a] = h.width[a] /\ fields[a] = h.fields[a]
  /\ \A a \in F \ B : width[a] = 0 /\ fields[a] = NoFields

FreeCounts(h, E) ==
  /\ allocs = h.allocs /\ kept = h.kept /\ keptBytes = h.keptBytes
  /\ frees = h.frees + Cardinality(E)
  /\ live = h.live - Cardinality(BytesOf(h.size, E))

Freeing(F) ==
  /\ FreeStack(seen, F, stack)
  /\ FreeRoot(stack) \in TrackedIn(seen)
  /\ FreeBlocks(seen, F, stack)
  /\ FreeHeap(seen, F, Begun(stack))
  /\ FreeCounts(seen, F \ Begun(stack))

-----------------------------------------------------------------------------
(* The stack of copy.  f gives each block entered so far its clone.        *)
CopyRecord == [op : {"copy"}, src : Addr, dst : Addr, next : Nat]

Copied(s, x, k) == \A i \in 1 .. Len(s) : s[i].src = x => k < s[i].next
InProgress(s, x, k) == \E i \in 2 .. Len(s) : s[i].src = x /\ s[i].next = k
CopyRoot(s) == s[Len(s)].src

DistinctSources(s) == \A i, j \in 1 .. Len(s) : s[i].src = s[j].src => i = j
Mapped(f, s) == \A i \in 1 .. Len(s) : s[i].src \in DOMAIN f /\ s[i].dst = f[s[i].src]
Linked(h, s) ==
  \A i \in 2 .. Len(s) :
    s[i].next \in Slot /\ h.fields[s[i].src][s[i].next] = s[i - 1].src

CopyStack(h, f, s) ==
  /\ s \in Seq(CopyRecord) /\ s # <<>>
  /\ DistinctSources(s) /\ Mapped(f, s) /\ Linked(h, s)

CopyMap(h, f, p) ==
  /\ p \in DOMAIN f /\ DOMAIN f \subseteq ClonedIn(h, p)
  /\ \A x \in DOMAIN f : f[x] \in Addr \ TrackedIn(h)
  /\ \A x, y \in DOMAIN f : f[x] = f[y] => x = y
  /\ \A x \in DOMAIN f \ {p} : \E y \in DOMAIN f, k \in Slot : h.fields[y][k] = x

CopyCall(h, p) ==
  /\ p \in TrackedIn(h) /\ TreeIn(h, p)
  /\ h.allocs + Cardinality(ClonedIn(h, p)) <= MaxAllocs

(* A slot that was visited holds the clone of its word, any other nothing, *)
(* and the block it refers to has not been entered, unless that is what is *)
(* being copied right now.                                                 *)
CopyWord(h, f, s, x, k) ==
  IF Copied(s, x, k)
  THEN /\ fields[f[x]][k] = CloneIn(h, f, h.fields[x][k])
       /\ IsCloned(h, h.fields[x][k]) => h.fields[x][k] \in DOMAIN f
  ELSE /\ fields[f[x]][k] = Null
       /\ h.fields[x][k] \in DOMAIN f => InProgress(s, x, k)

CopyHeap(h, f, s) ==
  /\ \A a \in Addr : (\A x \in DOMAIN f : f[x] # a) => SameBlock(h, a)
  /\ \A x \in DOMAIN f :
       /\ tag[f[x]] = h.tag[x] /\ size[f[x]] = h.size[x]
       /\ typeId[f[x]] = h.typeId[x] /\ width[f[x]] = h.width[x]
       /\ \A k \in Slot : CopyWord(h, f, s, x, k)

CopyCounts(h, D) ==
  /\ frees = h.frees /\ kept = h.kept /\ keptBytes = h.keptBytes
  /\ allocs = h.allocs + Cardinality(D)
  /\ live = h.live + Cardinality(BytesOf(h.size, D))

Copying(f) ==
  /\ CopyStack(seen, f, stack)
  /\ CopyCall(seen, CopyRoot(stack))
  /\ CopyMap(seen, f, CopyRoot(stack))
  /\ CopyHeap(seen, f, stack)
  /\ CopyCounts(seen, DOMAIN f)

(* What holds at every step of MemSteps.                                   *)
StepInv ==
  /\ TypedHeap(Heap)
  /\ HeapOK(seen)
  /\ IF Idle THEN seen = Heap
     ELSE \/ \E F \in SUBSET Addr : Freeing(F)
          \/ \E D \in SUBSET Addr : \E f \in [D -> Addr] : Copying(f)

-----------------------------------------------------------------------------
(* Stacks. *)
Push(r, s) == <<r>> \o s

(* t has r on top of s.                                                    *)
OnTop(t, r, s) ==
  /\ Len(s) \in Nat /\ Len(t) = Len(s) + 1 /\ 1 \in 1 .. Len(t) /\ t[1] = r
  /\ \A i \in 1 .. Len(s) : i + 1 \in 2 .. Len(t) /\ t[i + 1] = s[i]
  /\ \A i \in 2 .. Len(t) : i - 1 \in 1 .. Len(s) /\ t[i] = s[i - 1]
  /\ \A i \in 1 .. Len(t) : i = 1 \/ i \in 2 .. Len(t)
  /\ \A i \in 2 .. Len(t) : i \in 1 .. Len(t) /\ i # 1 /\ (i - 1) + 1 = i

LEMMA PushOnTop ==
  ASSUME NEW T, NEW r \in T, NEW s \in Seq(T)
  PROVE  Push(r, s) \in Seq(T) /\ Push(r, s) # <<>> /\ OnTop(Push(r, s), r, s)
<1>1. <<r>> \in Seq(T) /\ Len(<<r>>) = 1 /\ <<r>>[1] = r
  OBVIOUS
<1>2. /\ Push(r, s) \in Seq(T) /\ Len(Push(r, s)) = 1 + Len(s)
      /\ \A i \in 1 .. 1 + Len(s) :
           Push(r, s)[i] = IF i <= 1 THEN <<r>>[i] ELSE s[i - 1]
  BY <1>1, ConcatProperties DEF Push
<1>3. Len(s) \in Nat
  BY LenProperties
<1>4. Push(r, s) # <<>>
  BY <1>2, <1>3
<1>5. \A i \in 1 .. Len(s) : i + 1 \in 1 .. 1 + Len(s) /\ ~(i + 1 <= 1) /\ (i + 1) - 1 = i
  BY <1>3
<1>6. \A i \in 1 .. Len(s) : Push(r, s)[i + 1] = s[i]
  BY <1>2, <1>5
<1>7. \A i \in 2 .. 1 + Len(s) : Push(r, s)[i] = s[i - 1]
  BY <1>2, <1>3
<1>8. Push(r, s)[1] = r /\ Len(Push(r, s)) = Len(s) + 1
  BY <1>1, <1>2, <1>3
<1> DEFINE t == Push(r, s)
<1> HIDE DEF t
<1>9. OnTop(t, r, s)
  BY <1>3, <1>6, <1>7, <1>8 DEF OnTop, t
<1>10. QED
  BY <1>2, <1>4, <1>9 DEF t

LEMMA TopAndTail ==
  ASSUME NEW T, NEW s \in Seq(T), s # <<>>
  PROVE  Head(s) \in T /\ Tail(s) \in Seq(T) /\ s = Push(Head(s), Tail(s))
<1> DEFINE t == Push(Head(s), Tail(s))
           q == Tail(s)
<1>1. /\ Head(s) \in T /\ q \in Seq(T) /\ Len(q) = Len(s) - 1
      /\ \A i \in 1 .. Len(q) : q[i] = s[i + 1]
      /\ Len(s) \in Nat /\ Head(s) = s[1]
  BY HeadTailProperties, LenProperties
<1>2. t \in Seq(T) /\ OnTop(t, Head(s), q)
  BY <1>1, PushOnTop
<1> HIDE DEF t, q
<1>3. Len(t) = Len(s) /\ t[1] = s[1] /\ \A i \in 2 .. Len(t) : t[i] = s[i]
  BY <1>1, <1>2 DEF OnTop
<1>4. \A i \in 1 .. Len(s) : t[i] = s[i]
  BY <1>1, <1>3
<1>5. t = s
  BY <1>1, <1>2, <1>3, <1>4, SeqEqual
<1>6. QED
  BY <1>1, <1>5 DEF t, q

LEMMA FreePush ==
  ASSUME NEW h, NEW r \in FreeRecord, NEW s \in Seq(FreeRecord)
  PROVE  /\ Begun(Push(r, s)) = Begun(s) \cup {r.block}
         /\ DistinctBlocks(Push(r, s)) <=> DistinctBlocks(s) /\ r.block \notin Begun(s)
         /\ SizesKept(h, Push(r, s)) <=> SizesKept(h, s) /\ r.bytes = h.size[r.block]
         /\ FreeRoot(Push(r, s)) = IF s = <<>> THEN r.block ELSE FreeRoot(s)
         /\ \A a, k : FreeVisited(Push(r, s), a, k)
                        <=> FreeVisited(s, a, k) /\ (r.block = a => k < r.next)
<1> DEFINE t == Push(r, s)
<1>1. OnTop(t, r, s)
  BY PushOnTop
<1>2. s = <<>> <=> Len(s) = 0
  BY EmptySeq
<1> HIDE DEF t
<1>3. Begun(t) = Begun(s) \cup {r.block}
  <2>1. \A x : x \in Begun(t) <=> \E i \in 1 .. Len(t) : t[i].block = x
    BY DEF Begun
  <2>2. \A x : x \in Begun(s) <=> \E i \in 1 .. Len(s) : s[i].block = x
    BY DEF Begun
  <2>3. ASSUME NEW x, x \in Begun(s) PROVE x \in Begun(t)
    <3>1. PICK i \in 1 .. Len(s) : s[i].block = x
      BY <2>2, <2>3
    <3>2. i + 1 \in 1 .. Len(t) /\ t[i + 1].block = x
      BY <1>1, <3>1 DEF OnTop
    <3>3. QED
      BY <2>1, <3>2
  <2>4. ASSUME NEW x, x \in Begun(t) PROVE x \in Begun(s) \cup {r.block}
    BY <1>1, <2>1, <2>2, <2>4 DEF OnTop
  <2>5. r.block \in Begun(t)
    BY <1>1, <2>1 DEF OnTop
  <2>6. QED
    BY <2>3, <2>4, <2>5
<1>4. DistinctBlocks(t) <=> DistinctBlocks(s) /\ r.block \notin Begun(s)
  <2>1. ASSUME DistinctBlocks(t) PROVE DistinctBlocks(s) /\ r.block \notin Begun(s)
    <3>1. ASSUME NEW i \in 1 .. Len(s), NEW j \in 1 .. Len(s), s[i].block = s[j].block
          PROVE  i = j
      <4>1. t[i + 1].block = t[j + 1].block /\ i + 1 \in 1 .. Len(t) /\ j + 1 \in 1 .. Len(t)
        BY <1>1, <3>1 DEF OnTop
      <4>2. i + 1 = j + 1
        BY <2>1, <4>1 DEF DistinctBlocks
      <4>3. QED
        BY <4>2
    <3>2. \A i \in 1 .. Len(s) : s[i].block # r.block
      BY <1>1, <2>1 DEF DistinctBlocks, OnTop
    <3>3. QED
      BY <3>1, <3>2 DEF DistinctBlocks, Begun
  <2>2. ASSUME DistinctBlocks(s), r.block \notin Begun(s) PROVE DistinctBlocks(t)
    <3>1. ASSUME NEW i \in 2 .. Len(t), NEW j \in 2 .. Len(t), t[i].block = t[j].block
          PROVE  i = j
      <4>1. i - 1 \in 1 .. Len(s) /\ j - 1 \in 1 .. Len(s)
            /\ s[i - 1].block = s[j - 1].block
        BY <1>1, <3>1 DEF OnTop
      <4>2. i - 1 = j - 1
        BY <2>2, <4>1 DEF DistinctBlocks
      <4>3. QED
        BY <4>2
    <3>2. \A i \in 2 .. Len(t) : t[i].block # r.block
      BY <1>1, <2>2 DEF Begun, OnTop
    <3>3. \A i \in 1 .. Len(t) : i = 1 \/ i \in 2 .. Len(t)
      BY <1>1 DEF OnTop
    <3>4. t[1] = r
      BY <1>1 DEF OnTop
    <3>5. QED
      BY <3>1, <3>2, <3>3, <3>4 DEF DistinctBlocks
  <2>3. QED
    BY <2>1, <2>2
<1>5. SizesKept(h, t) <=> SizesKept(h, s) /\ r.bytes = h.size[r.block]
  <2>1. ASSUME SizesKept(h, t) PROVE SizesKept(h, s) /\ r.bytes = h.size[r.block]
    <3>1. ASSUME NEW i \in 1 .. Len(s) PROVE s[i].bytes = h.size[s[i].block]
      <4>1. i + 1 \in 1 .. Len(t) /\ t[i + 1] = s[i]
        BY <1>1 DEF OnTop
      <4>2. QED
        BY <2>1, <4>1 DEF SizesKept
    <3>2. QED
      BY <1>1, <2>1, <3>1 DEF SizesKept, OnTop
  <2>2. ASSUME SizesKept(h, s), r.bytes = h.size[r.block], NEW i \in 1 .. Len(t)
        PROVE  t[i].bytes = h.size[t[i].block]
    <3>1. CASE i = 1
      BY <1>1, <2>2, <3>1 DEF OnTop
    <3>2. CASE i # 1
      <4>1. i - 1 \in 1 .. Len(s) /\ t[i] = s[i - 1]
        BY <1>1, <3>2 DEF OnTop
      <4>2. QED
        BY <2>2, <4>1 DEF SizesKept
    <3>3. QED
      BY <3>1, <3>2
  <2>3. QED
    BY <2>1, <2>2 DEF SizesKept
<1>6. FreeRoot(t) = IF s = <<>> THEN r.block ELSE FreeRoot(s)
  <2>1. CASE s = <<>>
    BY <1>1, <1>2, <2>1 DEF FreeRoot, OnTop
  <2>2. CASE s # <<>>
    <3>1. Len(t) \in 2 .. Len(t) /\ Len(t) - 1 = Len(s)
      BY <1>1, <1>2, <2>2 DEF OnTop
    <3>2. t[Len(t)] = s[Len(s)]
      BY <1>1, <3>1 DEF OnTop
    <3>3. QED
      BY <2>2, <3>2 DEF FreeRoot
  <2>3. QED
    BY <2>1, <2>2
<1>7. ASSUME NEW a, NEW k
      PROVE  FreeVisited(t, a, k) <=> FreeVisited(s, a, k) /\ (r.block = a => k < r.next)
  <2>1. ASSUME FreeVisited(t, a, k)
        PROVE  FreeVisited(s, a, k) /\ (r.block = a => k < r.next)
    <3>1. ASSUME NEW i \in 1 .. Len(s), s[i].block = a PROVE k < s[i].next
      <4>1. i + 1 \in 1 .. Len(t) /\ t[i + 1] = s[i]
        BY <1>1 DEF OnTop
      <4>2. QED
        BY <2>1, <3>1, <4>1 DEF FreeVisited
    <3>2. r.block = a => k < r.next
      BY <1>1, <2>1 DEF FreeVisited, OnTop
    <3>3. QED
      BY <3>1, <3>2 DEF FreeVisited
  <2>2. ASSUME FreeVisited(s, a, k), r.block = a => k < r.next,
               NEW i \in 1 .. Len(t), t[i].block = a
        PROVE  k < t[i].next
    <3>1. CASE i = 1
      BY <1>1, <2>2, <3>1 DEF OnTop
    <3>2. CASE i # 1
      <4>1. i - 1 \in 1 .. Len(s) /\ t[i] = s[i - 1]
        BY <1>1, <3>2 DEF OnTop
      <4>2. QED
        BY <2>2, <4>1 DEF FreeVisited
    <3>3. QED
      BY <3>1, <3>2
  <2>3. QED
    BY <2>1, <2>2 DEF FreeVisited
<1>8. QED
  BY <1>3, <1>4, <1>5, <1>6, <1>7 DEF t

(* What t = Push(r, s) says of the predicates on stacks. *)
CopyPushed(h, f, t, r, s) ==
  /\ DistinctSources(t) <=> DistinctSources(s) /\ \A i \in 1 .. Len(s) : s[i].src # r.src
  /\ Mapped(f, t) <=> Mapped(f, s) /\ r.src \in DOMAIN f /\ r.dst = f[r.src]
  /\ Linked(h, t) <=> /\ Linked(h, s)
                      /\ s # <<>> => /\ Head(s).next \in Slot
                                     /\ h.fields[Head(s).src][Head(s).next] = r.src
  /\ CopyRoot(t) = IF s = <<>> THEN r.src ELSE CopyRoot(s)
  /\ \A x, k : Copied(t, x, k) <=> Copied(s, x, k) /\ (r.src = x => k < r.next)
  /\ \A x, k : InProgress(t, x, k) <=> \/ InProgress(s, x, k)
                                       \/ s # <<>> /\ Head(s).src = x /\ Head(s).next = k

LEMMA CopyPush ==
  ASSUME NEW h, NEW f, NEW r \in CopyRecord, NEW s \in Seq(CopyRecord)
  PROVE  CopyPushed(h, f, Push(r, s), r, s)
<1> DEFINE t == Push(r, s)
<1>1. OnTop(t, r, s)
  BY PushOnTop
<1>2. s = <<>> <=> Len(s) = 0
  BY EmptySeq
<1>3. s # <<>> => Head(s) = s[1] /\ 1 \in 1 .. Len(s) /\ 2 \in 2 .. Len(t) /\ t[2] = s[1]
  BY <1>1, <1>2 DEF OnTop
<1> HIDE DEF t
<1>4. DistinctSources(t) <=> DistinctSources(s) /\ \A i \in 1 .. Len(s) : s[i].src # r.src
  <2>1. ASSUME DistinctSources(t)
        PROVE  DistinctSources(s) /\ \A i \in 1 .. Len(s) : s[i].src # r.src
    <3>1. ASSUME NEW i \in 1 .. Len(s), NEW j \in 1 .. Len(s), s[i].src = s[j].src
          PROVE  i = j
      <4>1. t[i + 1].src = t[j + 1].src /\ i + 1 \in 1 .. Len(t) /\ j + 1 \in 1 .. Len(t)
        BY <1>1, <3>1 DEF OnTop
      <4>2. i + 1 = j + 1
        BY <2>1, <4>1 DEF DistinctSources
      <4>3. QED
        BY <4>2
    <3>2. \A i \in 1 .. Len(s) : s[i].src # r.src
      BY <1>1, <2>1 DEF DistinctSources, OnTop
    <3>3. QED
      BY <3>1, <3>2 DEF DistinctSources
  <2>2. ASSUME DistinctSources(s), \A i \in 1 .. Len(s) : s[i].src # r.src
        PROVE  DistinctSources(t)
    <3>1. ASSUME NEW i \in 2 .. Len(t), NEW j \in 2 .. Len(t), t[i].src = t[j].src
          PROVE  i = j
      <4>1. i - 1 \in 1 .. Len(s) /\ j - 1 \in 1 .. Len(s)
            /\ s[i - 1].src = s[j - 1].src
        BY <1>1, <3>1 DEF OnTop
      <4>2. i - 1 = j - 1
        BY <2>2, <4>1 DEF DistinctSources
      <4>3. QED
        BY <4>2
    <3>2. \A i \in 2 .. Len(t) : t[i].src # r.src
      BY <1>1, <2>2 DEF OnTop
    <3>3. \A i \in 1 .. Len(t) : i = 1 \/ i \in 2 .. Len(t)
      BY <1>1 DEF OnTop
    <3>4. t[1] = r
      BY <1>1 DEF OnTop
    <3>5. QED
      BY <3>1, <3>2, <3>3, <3>4 DEF DistinctSources
  <2>3. QED
    BY <2>1, <2>2
<1>5. Mapped(f, t) <=> Mapped(f, s) /\ r.src \in DOMAIN f /\ r.dst = f[r.src]
  <2>1. ASSUME Mapped(f, t) PROVE Mapped(f, s) /\ r.src \in DOMAIN f /\ r.dst = f[r.src]
    <3>1. ASSUME NEW i \in 1 .. Len(s) PROVE s[i].src \in DOMAIN f /\ s[i].dst = f[s[i].src]
      <4>1. i + 1 \in 1 .. Len(t) /\ t[i + 1] = s[i]
        BY <1>1 DEF OnTop
      <4>2. QED
        BY <2>1, <4>1 DEF Mapped
    <3>2. QED
      BY <1>1, <2>1, <3>1 DEF Mapped, OnTop
  <2>2. ASSUME Mapped(f, s), r.src \in DOMAIN f /\ r.dst = f[r.src], NEW i \in 1 .. Len(t)
        PROVE  t[i].src \in DOMAIN f /\ t[i].dst = f[t[i].src]
    <3>1. CASE i = 1
      BY <1>1, <2>2, <3>1 DEF OnTop
    <3>2. CASE i # 1
      <4>1. i - 1 \in 1 .. Len(s) /\ t[i] = s[i - 1]
        BY <1>1, <3>2 DEF OnTop
      <4>2. QED
        BY <2>2, <4>1 DEF Mapped
    <3>3. QED
      BY <3>1, <3>2
  <2>3. QED
    BY <2>1, <2>2 DEF Mapped
<1>6. CopyRoot(t) = IF s = <<>> THEN r.src ELSE CopyRoot(s)
  <2>1. CASE s = <<>>
    BY <1>1, <1>2, <2>1 DEF CopyRoot, OnTop
  <2>2. CASE s # <<>>
    <3>1. Len(t) \in 2 .. Len(t) /\ Len(t) - 1 = Len(s)
      BY <1>1, <1>2, <2>2 DEF OnTop
    <3>2. t[Len(t)] = s[Len(s)]
      BY <1>1, <3>1 DEF OnTop
    <3>3. QED
      BY <2>2, <3>2 DEF CopyRoot
  <2>3. QED
    BY <2>1, <2>2
<1>7. ASSUME NEW x, NEW k
      PROVE  Copied(t, x, k) <=> Copied(s, x, k) /\ (r.src = x => k < r.next)
  <2>1. ASSUME Copied(t, x, k)
        PROVE  Copied(s, x, k) /\ (r.src = x => k < r.next)
    <3>1. ASSUME NEW i \in 1 .. Len(s), s[i].src = x PROVE k < s[i].next
      <4>1. i + 1 \in 1 .. Len(t) /\ t[i + 1] = s[i]
        BY <1>1 DEF OnTop
      <4>2. QED
        BY <2>1, <3>1, <4>1 DEF Copied
    <3>2. r.src = x => k < r.next
      BY <1>1, <2>1 DEF Copied, OnTop
    <3>3. QED
      BY <3>1, <3>2 DEF Copied
  <2>2. ASSUME Copied(s, x, k), r.src = x => k < r.next,
               NEW i \in 1 .. Len(t), t[i].src = x
        PROVE  k < t[i].next
    <3>1. CASE i = 1
      BY <1>1, <2>2, <3>1 DEF OnTop
    <3>2. CASE i # 1
      <4>1. i - 1 \in 1 .. Len(s) /\ t[i] = s[i - 1]
        BY <1>1, <3>2 DEF OnTop
      <4>2. QED
        BY <2>2, <4>1 DEF Copied
    <3>3. QED
      BY <3>1, <3>2
  <2>3. QED
    BY <2>1, <2>2 DEF Copied
<1>8. Linked(h, t)
        <=> /\ Linked(h, s)
            /\ s # <<>> => /\ Head(s).next \in Slot
                           /\ h.fields[Head(s).src][Head(s).next] = r.src
  <2>1. ASSUME Linked(h, t)
        PROVE  /\ Linked(h, s)
               /\ s # <<>> => /\ Head(s).next \in Slot
                              /\ h.fields[Head(s).src][Head(s).next] = r.src
    <3>1. s # <<>> => /\ Head(s).next \in Slot
                      /\ h.fields[Head(s).src][Head(s).next] = r.src
      <4>1. ASSUME s # <<>> PROVE 2 \in 2 .. Len(t) /\ t[2 - 1] = r /\ t[2] = Head(s)
        BY <1>1, <1>3, <4>1 DEF OnTop
      <4>2. QED
        BY <2>1, <4>1 DEF Linked
    <3>2. ASSUME NEW i \in 2 .. Len(s)
          PROVE  s[i].next \in Slot /\ h.fields[s[i].src][s[i].next] = s[i - 1].src
      <4>1. /\ i + 1 \in 2 .. Len(t) /\ t[i + 1] = s[i]
            /\ i - 1 \in 1 .. Len(s) /\ t[(i - 1) + 1] = s[i - 1]
            /\ (i - 1) + 1 = (i + 1) - 1
        BY <1>1 DEF OnTop
      <4>2. t[i + 1].next \in Slot
            /\ h.fields[t[i + 1].src][t[i + 1].next] = t[(i + 1) - 1].src
        BY <2>1, <4>1 DEF Linked
      <4>3. QED
        BY <4>1, <4>2
    <3>3. QED
      BY <3>1, <3>2 DEF Linked
  <2>2. ASSUME Linked(h, s),
               s # <<>> => /\ Head(s).next \in Slot
                           /\ h.fields[Head(s).src][Head(s).next] = r.src,
               NEW i \in 2 .. Len(t)
        PROVE  t[i].next \in Slot /\ h.fields[t[i].src][t[i].next] = t[i - 1].src
    <3>1. CASE i = 2
      <4>1. s # <<>> /\ t[i] = Head(s) /\ t[i - 1] = r
        BY <1>1, <1>2, <1>3, <3>1 DEF OnTop
      <4>2. QED
        BY <2>2, <4>1
    <3>2. CASE i # 2
      <4>1. /\ i - 1 \in 2 .. Len(s) /\ i - 1 \in 2 .. Len(t) /\ t[i] = s[i - 1]
            /\ t[i - 1] = s[(i - 1) - 1]
        BY <1>1, <3>2 DEF OnTop
      <4>2. s[i - 1].next \in Slot
            /\ h.fields[s[i - 1].src][s[i - 1].next] = s[(i - 1) - 1].src
        BY <2>2, <4>1 DEF Linked
      <4>3. QED
        BY <4>1, <4>2
    <3>3. QED
      BY <3>1, <3>2
  <2>3. QED
    BY <2>1, <2>2 DEF Linked
<1>9. ASSUME NEW x, NEW k
      PROVE  InProgress(t, x, k)
               <=> \/ InProgress(s, x, k)
                   \/ s # <<>> /\ Head(s).src = x /\ Head(s).next = k
  <2>1. ASSUME InProgress(t, x, k)
        PROVE  \/ InProgress(s, x, k)
               \/ s # <<>> /\ Head(s).src = x /\ Head(s).next = k
    <3>1. PICK i \in 2 .. Len(t) : t[i].src = x /\ t[i].next = k
      BY <2>1 DEF InProgress
    <3>2. CASE i = 2
      <4>1. s # <<>>
        BY <1>1, <1>2, <3>2 DEF OnTop
      <4>2. QED
        BY <1>3, <3>1, <3>2, <4>1
    <3>3. CASE i # 2
      <4>1. i - 1 \in 2 .. Len(s) /\ t[i] = s[i - 1]
        BY <1>1, <3>3 DEF OnTop
      <4>2. QED
        BY <3>1, <4>1 DEF InProgress
    <3>4. QED
      BY <3>2, <3>3
  <2>2. ASSUME InProgress(s, x, k) PROVE InProgress(t, x, k)
    <3>1. PICK i \in 2 .. Len(s) : s[i].src = x /\ s[i].next = k
      BY <2>2 DEF InProgress
    <3>2. i \in 1 .. Len(s) /\ i + 1 \in 2 .. Len(t) /\ t[i + 1] = s[i]
      BY <1>1, <3>1 DEF OnTop
    <3>3. QED
      BY <3>1, <3>2 DEF InProgress
  <2>3. ASSUME s # <<>>, Head(s).src = x, Head(s).next = k PROVE InProgress(t, x, k)
    BY <1>3, <2>3 DEF InProgress
  <2>4. QED
    BY <2>1, <2>2, <2>3
<1>10. QED
  BY <1>4, <1>5, <1>6, <1>7, <1>8, <1>9 DEF t, CopyPushed

-----------------------------------------------------------------------------
(* Heaps.  ReachIn(h, p) is the least closed set of tracked blocks with p. *)
LEMMA LeastIn ==
  ASSUME NEW h, NEW p \in TrackedIn(h)
  PROVE  /\ p \in ReachIn(h, p)
         /\ ReachIn(h, p) \subseteq TrackedIn(h)
         /\ ClosedIn(h, ReachIn(h, p))
         /\ \A S \in SUBSET TrackedIn(h) :
              p \in S /\ ClosedIn(h, S) => ReachIn(h, p) \subseteq S
<1>1. p \in ReachIn(h, p) /\ ReachIn(h, p) \subseteq TrackedIn(h)
  BY DEF ReachIn
<1>2. ASSUME NEW b \in ReachIn(h, p), NEW c \in ChildrenIn(h, b)
      PROVE  c \in ReachIn(h, p)
  <2>1. c \in TrackedIn(h)
    BY DEF ChildrenIn
  <2>2. ASSUME NEW S \in SUBSET TrackedIn(h), p \in S, ClosedIn(h, S)
        PROVE  c \in S
    BY <2>2 DEF ReachIn, ClosedIn
  <2>3. QED
    BY <2>1, <2>2 DEF ReachIn
<1>3. QED
  BY <1>1, <1>2 DEF ReachIn, ClosedIn

(* h is the heap of the moment. *)
HeapIs(h) ==
  /\ h.tag = tag /\ h.size = size /\ h.typeId = typeId /\ h.width = width
  /\ h.fields = fields /\ h.allocs = allocs /\ h.frees = frees
  /\ h.live = live /\ h.kept = kept /\ h.keptBytes = keptBytes

LEMMA HeapIsHeap ==
  /\ HeapIs(Heap)
  /\ seen = Heap => HeapIs(seen)
  /\ HeapIs(Heap)'
  /\ seen' = Heap' => HeapIs(seen)'
<1>1. HeapIs(Heap) /\ HeapIs(Heap)'
  BY DEF HeapIs, Heap
<1>2. QED
  BY <1>1 DEF HeapIs

(* The heap callers know is the one RocaMem is about. *)
LEMMA MemIsSeen ==
  /\ Mem!Tracked = TrackedIn(seen)
  /\ \A p : Mem!Reach(p) = ReachIn(seen, p)
  /\ \A p : Mem!Cloned(p) = ClonedIn(seen, p)
  /\ \A p : Mem!IsTree(p) <=> TreeIn(seen, p)
<1>1. Mem!Tracked = TrackedIn(seen)
  BY DEF Mem!Tracked, TrackedIn
<1>2. \A x : Mem!Children(x) = ChildrenIn(seen, x)
  BY <1>1 DEF Mem!Children, ChildrenIn, Mem!Slot, Slot
<1>3. \A S : Mem!ClosedUnderChildren(S) <=> ClosedIn(seen, S)
  BY <1>2 DEF Mem!ClosedUnderChildren, ClosedIn
<1>4. \A p : Mem!Reach(p) = ReachIn(seen, p)
  BY <1>1, <1>3 DEF Mem!Reach, ReachIn
<1>5. \A p : Mem!Cloned(p) = ClonedIn(seen, p)
  BY <1>4 DEF Mem!Cloned, ClonedIn
<1>6. \A p : Mem!IsTree(p) <=> TreeIn(seen, p)
  BY <1>1, <1>4 DEF Mem!IsTree, TreeIn, Mem!Slot, Slot
<1>7. QED
  BY <1>1, <1>4, <1>5, <1>6

LEMMA HeapTypes ==
  ASSUME NEW h, HeapIs(h)
  PROVE  /\ TrackedIn(h) = Tracked
         /\ TypedHeap(h) <=> TypedHeap(Heap)
         /\ TypedHeap(Heap) <=> /\ TypeOK /\ live \in Int /\ keptBytes \in Int
                                /\ IsFiniteSet(BytesOf(size, Tracked))
<1>1. TrackedIn(h) = Tracked
  BY DEF HeapIs, TrackedIn, Tracked
<1>2. TrackedIn(Heap) = Tracked /\ HeapIs(Heap)
  BY HeapIsHeap DEF HeapIs, TrackedIn, Tracked
<1>3. TypedHeap(Heap) <=> /\ TypeOK /\ live \in Int /\ keptBytes \in Int
                          /\ IsFiniteSet(BytesOf(size, Tracked))
  BY <1>2 DEF HeapIs, TypedHeap, TypeOK
<1>4. TypedHeap(h) <=> /\ TypeOK /\ live \in Int /\ keptBytes \in Int
                       /\ IsFiniteSet(BytesOf(size, Tracked))
  BY <1>1 DEF HeapIs, TypedHeap, TypeOK
<1>5. QED
  BY <1>1, <1>3, <1>4

(* A block more adds its bytes. *)
LEMMA BlockBytes ==
  ASSUME NEW a, NEW n \in Nat
  PROVE  IsFiniteSet({a} \X (1 .. n)) /\ Cardinality({a} \X (1 .. n)) = n
<1>1. IsFiniteSet(1 .. n) /\ Cardinality(1 .. n) = n
  BY FS_Interval
<1>2. IsFiniteSet({a}) /\ Cardinality({a}) = 1
  BY FS_Singleton
<1>3. QED
  BY <1>1, <1>2, FS_Product

LEMMA BytesAdd ==
  ASSUME NEW sz, NEW S, NEW a, a \notin S, sz[a] \in Nat, IsFiniteSet(BytesOf(sz, S))
  PROVE  /\ IsFiniteSet(BytesOf(sz, S \cup {a}))
         /\ Cardinality(BytesOf(sz, S)) \in Nat
         /\ Cardinality(BytesOf(sz, S \cup {a})) = Cardinality(BytesOf(sz, S)) + sz[a]
<1> DEFINE B == BytesOf(sz, S)
           C == {a} \X (1 .. sz[a])
<1>1. BytesOf(sz, S \cup {a}) = B \cup C
  BY DEF BytesOf
<1>2. B \cap C = {}
  <2>1. ASSUME NEW x \in B, x \in C PROVE FALSE
    <3>1. PICK b \in S : \E k \in Int : x = <<b, k>>
      BY BytesElement
    <3>2. QED
      BY <2>1, <3>1
  <2>2. QED
    BY <2>1
<1>3. IsFiniteSet(C) /\ Cardinality(C) = sz[a]
  BY BlockBytes
<1>4. IsFiniteSet(B) /\ Cardinality(B) \in Nat
  BY FS_CardinalityType
<1> HIDE DEF B, C
<1>5. /\ IsFiniteSet(B \cup C)
      /\ Cardinality(B \cup C)
           = Cardinality(B) + Cardinality(C) - Cardinality(B \cap C)
  BY <1>3, <1>4, FS_Union
<1>6. Cardinality(B \cap C) = 0
  BY <1>2, FS_EmptySet
<1>7. Cardinality(B \cup C) = Cardinality(B) + sz[a]
  BY <1>3, <1>4, <1>5, <1>6
<1>8. BytesOf(sz, S) = B
  BY DEF B
<1>9. QED
  BY <1>1, <1>4, <1>5, <1>7, <1>8

-----------------------------------------------------------------------------
(* The calls that take one step. *)
Types == /\ TypeOK /\ live \in Int /\ keptBytes \in Int
         /\ IsFiniteSet(BytesOf(size, Tracked))

BlockNow(a) ==
  /\ typeId[a] # NoTypeId <=> tag[a] = "struct"
  /\ tag[a] # "struct" => width[a] = 0 /\ fields[a] = NoFields
  /\ tag[a] = "struct" => size[a] = StructSize(width[a])
  /\ \A k \in Slot : k >= width[a] => fields[a][k] = Null

Blocks == \A a \in Addr : BlockNow(a)

LEMMA HeapNow ==
  /\ TypedHeap(Heap) <=> Types
  /\ TypedHeap(Heap)' <=> Types'
  /\ HeapOK(Heap) <=> Types /\ Blocks
  /\ HeapOK(Heap)' <=> Types' /\ Blocks'
<1>1. TrackedIn(Heap) = Tracked /\ TrackedIn(Heap)' = Tracked'
  BY HeapIsHeap DEF HeapIs, TrackedIn, Tracked
<1>2. TypedHeap(Heap) <=> Types
  BY <1>1, HeapIsHeap DEF HeapIs, TypedHeap, Types, TypeOK
<1>3. TypedHeap(Heap)' <=> Types'
  BY <1>1, HeapIsHeap DEF HeapIs, TypedHeap, Types, TypeOK
<1>4. (\A a \in Addr : BlockOK(Heap, a)) <=> Blocks
  BY HeapIsHeap DEF HeapIs, BlockOK, Blocks, BlockNow
<1>5. (\A a \in Addr : BlockOK(Heap, a))' <=> Blocks'
  BY HeapIsHeap DEF HeapIs, BlockOK, Blocks, BlockNow
<1>6. QED
  BY <1>2, <1>3, <1>4, <1>5 DEF HeapOK

LEMMA RegisterTypes ==
  ASSUME Types, NEW a, NEW t \in Tag, NEW sz \in Nat, Register(a, t, sz),
         typeId' \in [Addr -> TypeIds \cup {NoTypeId}],
         width' \in [Addr -> 0 .. MaxFields], fields' \in [Addr -> [Slot -> Word]]
  PROVE  Types' /\ Tracked' = Tracked \cup {a} /\ a \in Addr /\ a \notin Tracked
<1>1. tag' \in [Addr -> Tag \cup {"none"}] /\ size' \in [Addr -> Nat]
  BY DEF Register, Types, TypeOK
<1>2. allocs' \in Nat /\ frees' \in Nat /\ kept' \in Nat /\ live' \in Int /\ keptBytes' \in Int
  BY DEF Register, Types, TypeOK
<1>3. Tracked' = Tracked \cup {a} /\ a \in Addr /\ a \notin Tracked
  BY DEF Register, Types, TypeOK, Tracked, Tag
<1>4. size'[a] = sz /\ \A x \in Tracked : size'[x] = size[x]
  BY <1>3 DEF Register, Types, TypeOK, Tracked
<1>5. BytesOf(size', Tracked) = BytesOf(size, Tracked)
  BY <1>4 DEF BytesOf
<1>6. IsFiniteSet(BytesOf(size', Tracked \cup {a}))
  BY <1>3, <1>4, <1>5, BytesAdd DEF Types
<1>7. IsFiniteSet(BytesOf(size, Tracked))'
  BY <1>3, <1>6
<1>8. QED
  BY <1>1, <1>2, <1>3, <1>7 DEF Types, TypeOK

LEMMA AllocateHeap == ASSUME Types, Blocks, Allocate PROVE Types' /\ Blocks'
<1>1. PICK a \in Addr :
        \/ \E len \in StrLen : StringNew(a, len)
        \/ \E n \in 0 .. MaxFields, tid \in TypeIds : StructNew(a, n, tid)
        \/ ArrayNew(a)
        \/ MapNew(a)
  BY DEF Allocate
<1>2. ASSUME NEW t \in Tag, t # "struct", NEW sz \in Nat, Register(a, t, sz),
             UNCHANGED <<typeId, width, fields>>
      PROVE  Types' /\ Blocks'
  <2>1. Types' /\ a \notin Tracked
    BY <1>2, RegisterTypes DEF Types, TypeOK
  <2>2. tag[a] = "none"
    BY <2>1 DEF Tracked
  <2>3. ASSUME NEW x \in Addr PROVE BlockNow(x)'
    <3>1. CASE x = a
      BY <1>2, <2>2, <3>1 DEF Blocks, BlockNow, Register, Types, TypeOK
    <3>2. CASE x # a
      BY <1>2, <3>2 DEF Blocks, BlockNow, Register, Types, TypeOK
    <3>3. QED
      BY <3>1, <3>2
  <2>4. QED
    BY <2>1, <2>3 DEF Blocks
<1>3. ASSUME NEW n \in 0 .. MaxFields, NEW tid \in TypeIds, StructNew(a, n, tid)
      PROVE  Types' /\ Blocks'
  <2>1. NoFields \in [Slot -> Word] /\ tid # NoTypeId
    BY TypeIdAssumption DEF NoFields, Word, NoTypeId
  <2>2. /\ typeId' \in [Addr -> TypeIds \cup {NoTypeId}]
        /\ width' \in [Addr -> 0 .. MaxFields]
        /\ fields' \in [Addr -> [Slot -> Word]]
    BY <1>3, <2>1 DEF StructNew, Types, TypeOK
  <2>3. StructSize(n) \in Nat
    BY BoundAssumption DEF StructSize
  <2>4. Types' /\ a \notin Tracked
    BY <1>3, <2>2, <2>3, RegisterTypes DEF StructNew, Tag
  <2>5. ASSUME NEW x \in Addr PROVE BlockNow(x)'
    <3>1. CASE x = a
      <4>1. /\ tag'[x] = "struct" /\ size'[x] = StructSize(n) /\ typeId'[x] = tid
            /\ width'[x] = n /\ fields'[x] = NoFields
        BY <1>3, <3>1 DEF StructNew, Register, Types, TypeOK
      <4>2. QED
        BY <2>1, <4>1 DEF BlockNow, NoFields
    <3>2. CASE x # a
      <4>1. /\ tag'[x] = tag[x] /\ size'[x] = size[x] /\ typeId'[x] = typeId[x]
            /\ width'[x] = width[x] /\ fields'[x] = fields[x]
        BY <1>3, <3>2 DEF StructNew, Register, Types, TypeOK
      <4>2. QED
        BY <4>1 DEF Blocks, BlockNow
    <3>3. QED
      BY <3>1, <3>2
  <2>6. QED
    BY <2>4, <2>5 DEF Blocks
<1>4. ASSUME NEW len \in StrLen, StringNew(a, len) PROVE Types' /\ Blocks'
  <2>1. len + 1 \in Nat
    BY StrLenAssumption
  <2>2. QED
    BY <1>2, <1>4, <2>1 DEF StringNew, Tag
<1>5. ArrayNew(a) \/ MapNew(a) => Types' /\ Blocks'
  <2>1. {"vec", "map"} \subseteq Tag \ {"struct"} /\ ArraySize \in Nat /\ MapSize \in Nat
    BY DEF ArraySize, MapSize, Tag
  <2>2. QED
    BY <1>2, <2>1 DEF ArrayNew, MapNew
<1>6. QED
  BY <1>1, <1>3, <1>4, <1>5

LEMMA WriteHeap ==
  ASSUME Types, Blocks, NEW p \in Addr, NEW i, NEW w \in Word, Write(p, i, w),
         tag[p] = "struct"
  PROVE  /\ fields' \in [Addr -> [Slot -> Word]]
         /\ \A x \in Addr : tag[x] # "struct" => fields'[x] = fields[x]
         /\ \A x \in Addr : \A k \in Slot : k >= width[x] => fields'[x][k] = Null
<1>1. fields' \in [Addr -> [Slot -> Word]]
  BY WriteType DEF Types
<1>2. fields \in [Addr -> [Slot -> Word]] /\ width \in [Addr -> 0 .. MaxFields]
  BY DEF Types, TypeOK
<1>3. ASSUME NEW x \in Addr, NEW k \in Slot
      PROVE  fields'[x][k] = fields[x][k] \/ (x = p /\ k = i /\ i < width[p])
  <2>1. CASE InRange(p, i)
    <3>1. fields'[x] = IF x = p THEN [fields[p] EXCEPT ![i] = w] ELSE fields[x]
      BY <1>2, <2>1 DEF Write
    <3>2. i < width[p]
      BY <2>1 DEF InRange
    <3>3. fields[p] \in [Slot -> Word]
      BY <1>2
    <3>4. QED
      BY <3>1, <3>2, <3>3
  <2>2. CASE ~InRange(p, i)
    BY <2>2 DEF Write
  <2>3. QED
    BY <2>1, <2>2
<1>4. \A x \in Addr : x # p => fields'[x] = fields[x]
  BY <1>2 DEF Write
<1>5. ASSUME NEW x \in Addr, NEW k \in Slot, k >= width[x] PROVE fields'[x][k] = Null
  <2>1. ~(k < width[x])
    BY <1>2, <1>5 DEF Slot
  <2>2. fields'[x][k] = fields[x][k]
    BY <1>3, <2>1
  <2>3. QED
    BY <1>5, <2>2 DEF Blocks, BlockNow
<1>6. QED
  BY <1>1, <1>4, <1>5

LEMMA StoreHeap == ASSUME Types, Blocks, Store PROVE Types' /\ Blocks'
<1>1. PICK p \in Tracked, i \in 0 .. MaxFields :
        \/ \E w \in Num \cup Addr \cup {Null} : SetF64(p, i, w)
        \/ \E v \in Addr : SetOwnedMove(p, i, v)
        \/ \E c \in CStr, len \in StrLen, a \in Addr : SetOwnedCopy(p, i, c, len, a)
  BY DEF Store
<1>2. p \in Addr
  BY DEF Tracked
<1>3. ASSUME NEW w \in Word, Write(p, i, w), tag[p] = "struct",
             UNCHANGED <<tag, size, typeId, width, countVars>>
      PROVE  Types' /\ Blocks'
  <2>1. Tracked' = Tracked
    BY <1>3 DEF Tracked
  <2>2. Types'
    BY <1>2, <1>3, <2>1, WriteHeap DEF Types, TypeOK, countVars
  <2>3. ASSUME NEW x \in Addr PROVE BlockNow(x)'
    BY <1>2, <1>3, WriteHeap DEF Blocks, BlockNow
  <2>4. QED
    BY <2>2, <2>3 DEF Blocks
<1>4. ASSUME NEW c \in CStr, NEW len \in StrLen, NEW a \in Addr,
             SetOwnedCopy(p, i, c, len, a)
      PROVE  Types' /\ Blocks'
  <2>1. len + 1 \in Nat /\ a \in Word
    BY StrLenAssumption DEF Word
  <2>2. /\ Register(a, "string", len + 1) /\ Write(p, i, a) /\ tag[p] = "struct"
        /\ UNCHANGED <<typeId, width>>
    BY <1>4 DEF SetOwnedCopy
  <2>3. /\ fields' \in [Addr -> [Slot -> Word]]
        /\ \A x \in Addr : tag[x] # "struct" => fields'[x] = fields[x]
        /\ \A x \in Addr : \A k \in Slot : k >= width[x] => fields'[x][k] = Null
    BY <1>2, <2>1, <2>2, WriteHeap
  <2>4. Types' /\ a \notin Tracked
    BY <2>1, <2>2, <2>3, RegisterTypes DEF Types, TypeOK, Tag
  <2>5. tag[a] = "none"
    BY <2>4 DEF Tracked
  <2>6. ASSUME NEW x \in Addr PROVE BlockNow(x)'
    <3>1. CASE x = a
      BY <2>2, <2>3, <2>5, <3>1 DEF Blocks, BlockNow, Register, Types, TypeOK
    <3>2. CASE x # a
      BY <2>2, <2>3, <3>2 DEF Blocks, BlockNow, Register, Types, TypeOK
    <3>3. QED
      BY <3>1, <3>2
  <2>7. QED
    BY <2>4, <2>6 DEF Blocks
<1>5. CASE \E w \in Num \cup Addr \cup {Null} : SetF64(p, i, w)
  BY <1>3, <1>5 DEF SetF64, Word
<1>6. CASE \E v \in Addr : SetOwnedMove(p, i, v)
  BY <1>3, <1>6 DEF SetOwnedMove, Word
<1>7. QED
  BY <1>1, <1>4, <1>5, <1>6

LEMMA ResetHeap == ASSUME Types, Blocks, Reset PROVE Types' /\ Blocks'
<1>1. Tracked' = Tracked
  BY DEF Reset, heapVars, Tracked
<1>2. Cardinality(Tracked) \in Nat /\ Bytes(Tracked) \in Nat
  BY TrackedFinite, FS_CardinalityType DEF Types, Bytes
<1>3. Types'
  BY <1>1, <1>2 DEF Reset, heapVars, Types, TypeOK
<1>4. Blocks'
  BY DEF Reset, heapVars, Blocks, BlockNow
<1>5. QED
  BY <1>3, <1>4

LEMMA SameCardinality == \A S : Mem!Cardinality(S) = Cardinality(S)
BY DEF Cardinality, Mem!Cardinality, IsFiniteSet, Mem!IsFiniteSet

(* A step that shows its result is the step of RocaMem it says it is.      *)
LEMMA SameCalls ==
  ASSUME HeapIs(seen), HeapIs(seen)'
  PROVE  /\ Allocate => Mem!Allocate
         /\ Store => Mem!Store
         /\ Reset => Mem!Reset
<1>1. Mem!Tracked = Tracked
  BY DEF HeapIs, Tracked, Mem!Tracked
<1>2. \A a, t, sz : Register(a, t, sz) => Mem!Register(a, t, sz)
  BY <1>1 DEF HeapIs, Register, Mem!Register
<1>3. \A a, len : StringNew(a, len) => Mem!StringNew(a, len)
  BY <1>2 DEF HeapIs, StringNew, Mem!StringNew
<1>4. \A a, n, tid : StructNew(a, n, tid) => Mem!StructNew(a, n, tid)
  <2>1. \A n : StructSize(n) = Mem!StructSize(n)
    BY DEF StructSize, Mem!StructSize
  <2>2. NoFields = Mem!NoFields
    BY DEF NoFields, Mem!NoFields, Slot, Mem!Slot
  <2>3. QED
    BY <1>2, <2>1, <2>2 DEF HeapIs, StructNew, Mem!StructNew
<1>5. \A a : ArrayNew(a) => Mem!ArrayNew(a)
  BY <1>2 DEF HeapIs, ArrayNew, Mem!ArrayNew, ArraySize, Mem!ArraySize
<1>6. \A a : MapNew(a) => Mem!MapNew(a)
  BY <1>2 DEF HeapIs, MapNew, Mem!MapNew, MapSize, Mem!MapSize
<1>7. Allocate => Mem!Allocate
  BY <1>3, <1>4, <1>5, <1>6 DEF Allocate, Mem!Allocate
<1>8. \A p, i, w : Write(p, i, w) => Mem!Write(p, i, w)
  <2>1. \A p, i : InRange(p, i) <=> Mem!InRange(p, i)
    BY DEF HeapIs, InRange, Mem!InRange, Slot, Mem!Slot
  <2>2. QED
    BY <2>1 DEF HeapIs, Write, Mem!Write
<1>9. \A w : IsTracked(w) <=> Mem!IsTracked(w)
  BY <1>1 DEF IsTracked, Mem!IsTracked
<1>10. \A p, i, w : SetF64(p, i, w) => Mem!SetF64(p, i, w)
  BY <1>8 DEF HeapIs, SetF64, Mem!SetF64, countVars, Mem!countVars
<1>11. \A p, i, v : SetOwnedMove(p, i, v) => Mem!SetOwnedMove(p, i, v)
  BY <1>8, <1>9 DEF HeapIs, SetOwnedMove, Mem!SetOwnedMove, countVars, Mem!countVars
<1>12. \A p, i, c, len, a : SetOwnedCopy(p, i, c, len, a) => Mem!SetOwnedCopy(p, i, c, len, a)
  BY <1>2, <1>8 DEF HeapIs, SetOwnedCopy, Mem!SetOwnedCopy
<1>13. Store => Mem!Store
  BY <1>1, <1>10, <1>11, <1>12 DEF Store, Mem!Store
<1>14. Reset => Mem!Reset
  <2>1. Bytes(Tracked) = Mem!Bytes(Mem!Tracked)
    BY <1>1, SameCardinality DEF HeapIs, Bytes, Mem!Bytes, BytesOf, Mem!BytesOf
  <2>2. QED
    BY <1>1, <2>1, SameCardinality DEF HeapIs, Reset, Mem!Reset, heapVars, Mem!heapVars
<1>15. QED
  BY <1>7, <1>13, <1>14

LEMMA IdleHeap == ASSUME StepInv, Idle PROVE HeapIs(seen) /\ Types /\ Blocks
<1>1. seen = Heap /\ HeapOK(Heap)
  BY DEF StepInv
<1>2. QED
  BY <1>1, HeapIsHeap, HeapNow

LEMMA InitStep == ASSUME StepInit PROVE StepInv /\ Mem!Init
<1>1. HeapIs(seen) /\ seen = Heap /\ Idle
  BY HeapIsHeap DEF StepInit, Idle
<1>2. Mem!Init
  <2>1. NoFields = Mem!NoFields
    BY DEF NoFields, Mem!NoFields, Slot, Mem!Slot
  <2>2. QED
    BY <1>1, <2>1 DEF StepInit, Init, Mem!Init, HeapIs, NoTypeId, Mem!NoTypeId
<1>3. Types
  <2>1. TypeOK
    BY InitInv DEF StepInit, MemInv
  <2>2. IsFiniteSet(BytesOf(size, Tracked))
    BY InitBytes DEF StepInit, BytesInv, TrackedBytes
  <2>3. QED
    BY <2>1, <2>2 DEF StepInit, Init, Types
<1>4. Blocks
  BY DEF StepInit, Init, Blocks, BlockNow, NoFields
<1>5. QED
  BY <1>1, <1>2, <1>3, <1>4, HeapNow DEF StepInv, HeapOK

LEMMA SimpleStep == ASSUME StepInv, SimpleCall PROVE StepInv' /\ Mem!Next
<1>1. Idle /\ Idle' /\ seen' = Heap'
  BY DEF SimpleCall, Publish, Idle
<1>2. HeapIs(seen) /\ HeapIs(seen)' /\ Types /\ Blocks
  BY <1>1, IdleHeap, HeapIsHeap
<1>3. Types' /\ Blocks'
  BY <1>2, AllocateHeap, StoreHeap, ResetHeap DEF SimpleCall
<1>4. StepInv'
  BY <1>1, <1>3, HeapNow DEF StepInv, HeapOK
<1>5. Mem!Next
  BY <1>2, SameCalls DEF SimpleCall, Mem!Next
<1>6. QED
  BY <1>4, <1>5

-----------------------------------------------------------------------------
(* mem_free. *)
LEMMA FreeRuns ==
  ASSUME StepInv, ~Idle, Top.op = "free"
  PROVE  /\ \E F \in SUBSET Addr : Freeing(F)
         /\ Types /\ HeapOK(seen)
<1>1. ASSUME NEW f, Copying(f) PROVE FALSE
  <2>1. stack \in Seq(CopyRecord) /\ stack # <<>>
    BY <1>1 DEF Copying, CopyStack
  <2>2. Head(stack) \in CopyRecord
    BY <2>1, TopAndTail
  <2>3. QED
    BY <2>2 DEF Top, CopyRecord
<1>2. QED
  BY <1>1, HeapNow DEF StepInv

(* r is the running activation, q its callers. *)
FreeAt(F, r, q) ==
  /\ r \in FreeRecord /\ q \in Seq(FreeRecord)
  /\ DistinctBlocks(q) /\ SizesKept(seen, q) /\ r.bytes = seen.size[r.block]
  /\ r.block \in F /\ r.block \notin Begun(q) /\ Begun(q) \subseteq F
  /\ Begun(stack) = Begun(q) \cup {r.block}
  /\ FreeRoot(stack) = IF q = <<>> THEN r.block ELSE FreeRoot(q)
  /\ \A a, k : FreeVisited(stack, a, k)
                 <=> FreeVisited(q, a, k) /\ (r.block = a => k < r.next)

LEMMA FreeTop ==
  ASSUME NEW F, Freeing(F)
  PROVE  FreeAt(F, Top, Tail(stack))
<1> DEFINE r == Top
           q == Tail(stack)
<1>1. stack \in Seq(FreeRecord) /\ stack # <<>>
  BY DEF Freeing, FreeStack
<1>2. r \in FreeRecord /\ q \in Seq(FreeRecord) /\ stack = Push(r, q)
  BY <1>1, TopAndTail DEF Top
<1>3. DistinctBlocks(stack) /\ Begun(stack) \subseteq F /\ SizesKept(seen, stack)
  BY DEF Freeing, FreeStack
<1> HIDE DEF r, q
<1>4. /\ Begun(stack) = Begun(q) \cup {r.block}
      /\ DistinctBlocks(stack) <=> DistinctBlocks(q) /\ r.block \notin Begun(q)
      /\ SizesKept(seen, stack) <=> SizesKept(seen, q) /\ r.bytes = seen.size[r.block]
      /\ FreeRoot(stack) = IF q = <<>> THEN r.block ELSE FreeRoot(q)
      /\ \A a, k : FreeVisited(stack, a, k)
                     <=> FreeVisited(q, a, k) /\ (r.block = a => k < r.next)
  BY <1>2, FreePush
<1>5. FreeAt(F, r, q)
  BY <1>2, <1>3, <1>4 DEF FreeAt
<1>6. QED
  BY <1>5 DEF r, q

(* The block being freed is still there to read, as it was. *)
LEMMA FreeReads ==
  ASSUME Types, HeapOK(seen), NEW F \in SUBSET Addr, Freeing(F)
  PROVE  /\ Top.block \in Addr /\ Top.next \in Nat /\ Top.block \in F
         /\ width[Top.block] = seen.width[Top.block]
         /\ fields[Top.block] = seen.fields[Top.block]
         /\ width[Top.block] \in 0 .. MaxFields
         /\ Top.next < width[Top.block] => Top.next \in Slot
         /\ \A w \in Addr \ F : SameBlock(seen, w)
         /\ \A w \in F : ~IsTracked(w)
         /\ \A w : IsTracked(w) => w \in TrackedIn(seen) /\ w \in Addr \ F
         /\ \A w \in TrackedIn(seen) : w \in F \/ IsTracked(w)
<1>1. FreeAt(F, Top, Tail(stack))
  BY FreeTop
<1>2. Top \in FreeRecord /\ Top.block \in F /\ Top.block \in Begun(stack)
  BY <1>1 DEF FreeAt
<1>3. Top.block \in Addr /\ Top.next \in Nat
  BY <1>2 DEF FreeRecord
<1>4. width[Top.block] = seen.width[Top.block] /\ fields[Top.block] = seen.fields[Top.block]
  BY <1>2 DEF Freeing, FreeHeap
<1>5. width[Top.block] \in 0 .. MaxFields
  BY <1>3 DEF Types, TypeOK
<1>6. Top.next < width[Top.block] => Top.next \in Slot
  BY <1>3, <1>5, BoundAssumption DEF Slot
<1>7. \A w \in Addr \ F : SameBlock(seen, w)
  BY DEF Freeing, FreeHeap
<1>8. \A w \in F : ~IsTracked(w)
  BY DEF Freeing, FreeHeap, IsTracked, Tracked
<1>9. \A w : IsTracked(w) => w \in TrackedIn(seen) /\ w \in Addr \ F
  BY <1>7, <1>8 DEF SameBlock, TrackedIn, IsTracked, Tracked
<1>10. \A w \in TrackedIn(seen) : w \in F \/ IsTracked(w)
  BY <1>7 DEF SameBlock, TrackedIn, IsTracked, Tracked
<1>11. QED
  BY <1>2, <1>3, <1>4, <1>5, <1>6, <1>7, <1>8, <1>9, <1>10

LEMMA FreeEntryTypes ==
  ASSUME Types, NEW w \in Tracked, FreeEntry(w)
  PROVE  Types'
<1>1. /\ tag' \in [Addr -> Tag \cup {"none"}] /\ size' \in [Addr -> Nat]
      /\ typeId' \in [Addr -> TypeIds \cup {NoTypeId}]
  BY DEF FreeEntry, Types, TypeOK
<1>2. Tracked' \subseteq Tracked /\ \A a \in Tracked' : size'[a] = size[a]
  BY DEF FreeEntry, Types, TypeOK, Tracked
<1>3. BytesOf(size', Tracked') \subseteq BytesOf(size, Tracked)
  BY <1>2 DEF BytesOf
<1>4. IsFiniteSet(BytesOf(size', Tracked'))
  BY <1>3, FS_Subset DEF Types
<1>5. QED
  BY <1>1, <1>4 DEF FreeEntry, countVars, Types, TypeOK

LEMMA NewFrame ==
  ASSUME Types, NEW w \in Tracked
  PROVE  /\ FreeFrame(w) \in FreeRecord /\ FreeFrame(w).block = w
         /\ FreeFrame(w).bytes = size[w] /\ FreeFrame(w).next = 0
  BY DEF FreeFrame, FreeRecord, Types, TypeOK, Tracked

LEMMA OneFrame ==
  ASSUME NEW h, NEW r \in FreeRecord
  PROVE  /\ Push(r, <<>>) \in Seq(FreeRecord) /\ Push(r, <<>>) # <<>>
         /\ Begun(Push(r, <<>>)) = {r.block}
         /\ DistinctBlocks(Push(r, <<>>))
         /\ SizesKept(h, Push(r, <<>>)) <=> r.bytes = h.size[r.block]
         /\ FreeRoot(Push(r, <<>>)) = r.block
         /\ \A a, k : FreeVisited(Push(r, <<>>), a, k) <=> (r.block = a => k < r.next)
<1>1. <<>> \in Seq(FreeRecord) /\ Len(<<>>) = 0
  OBVIOUS
<1>2. /\ Begun(<<>>) = {} /\ DistinctBlocks(<<>>) /\ SizesKept(h, <<>>)
      /\ \A a, k : FreeVisited(<<>>, a, k)
  BY <1>1 DEF Begun, DistinctBlocks, SizesKept, FreeVisited
<1> DEFINE t == Push(r, <<>>)
<1>3. t \in Seq(FreeRecord) /\ t # <<>>
  BY <1>1, PushOnTop
<1>4. /\ Begun(t) = Begun(<<>>) \cup {r.block}
      /\ DistinctBlocks(t) <=> DistinctBlocks(<<>>) /\ r.block \notin Begun(<<>>)
      /\ SizesKept(h, t) <=> SizesKept(h, <<>>) /\ r.bytes = h.size[r.block]
      /\ FreeRoot(t) = r.block
      /\ \A a, k : FreeVisited(t, a, k)
                     <=> FreeVisited(<<>>, a, k) /\ (r.block = a => k < r.next)
  BY <1>1, FreePush
<1> HIDE DEF t
<1>5. QED
  BY <1>2, <1>3, <1>4 DEF t

LEMMA BeginFreeStep == ASSUME StepInv, BeginFree PROVE StepInv' /\ seen' = seen
<1>1. PICK w \in Tracked : FreeEntry(w) /\ stack' = <<FreeFrame(w)>>
  BY DEF BeginFree
<1>2. Idle /\ seen' = seen
  BY DEF BeginFree
<1>3. HeapIs(seen) /\ Types /\ Blocks /\ HeapOK(seen) /\ w \in Addr
  BY <1>2, IdleHeap DEF StepInv, Tracked
<1>4. PICK r \in FreeRecord : /\ r.block = w /\ r.bytes = size[w] /\ r.next = 0
                              /\ stack' = <<r>>
  BY <1>1, <1>3, NewFrame
<1> DEFINE q == Push(r, <<>>)
<1>5. stack' = q
  BY <1>4 DEF Push
<1>6. /\ q \in Seq(FreeRecord) /\ q # <<>> /\ Begun(q) = {r.block} /\ DistinctBlocks(q)
      /\ SizesKept(seen, q) <=> r.bytes = seen.size[r.block]
      /\ FreeRoot(q) = r.block
      /\ \A a, k : FreeVisited(q, a, k) <=> (r.block = a => k < r.next)
  BY <1>4, OneFrame
<1> HIDE DEF q
<1>7. FreeStack(seen, {w}, q)
  BY <1>3, <1>4, <1>6 DEF FreeStack, HeapIs
<1>8. w \in TrackedIn(seen)
  BY <1>3, HeapTypes
<1>9. FreeBlocks(seen, {w}, q)
  <2>1. {w} \subseteq ReachIn(seen, w)
    BY <1>8, LeastIn
  <2>2. \A k \in Slot : ~(k < 0)
    BY DEF Slot
  <2>3. QED
    BY <1>4, <1>6, <2>1, <2>2 DEF FreeBlocks
<1>10. FreeHeap(seen, {w}, {w})'
  <2>1. \A a \in Addr \ {w} : SameBlock(seen, a)'
    BY <1>1, <1>2, <1>3 DEF FreeEntry, HeapIs, SameBlock, Types, TypeOK
  <2>2. tag'[w] = "none" /\ size'[w] = 0 /\ typeId'[w] = NoTypeId
    BY <1>1, <1>3 DEF FreeEntry, Types, TypeOK
  <2>3. width'[w] = seen'.width[w] /\ fields'[w] = seen'.fields[w]
    BY <1>1, <1>2, <1>3 DEF FreeEntry, HeapIs
  <2>4. {w} \ {w} = {} /\ \A a \in {w} : a = w
    OBVIOUS
  <2>5. (\A a \in {w} : tag[a] = "none" /\ size[a] = 0 /\ typeId[a] = NoTypeId)'
    BY <2>2
  <2>6. (\A a \in {w} : width[a] = seen.width[a] /\ fields[a] = seen.fields[a])'
    BY <2>3
  <2>7. QED
    BY <2>1, <2>4, <2>5, <2>6 DEF FreeHeap
<1>11. FreeCounts(seen, {})'
  <2>1. BytesOf(seen'.size, {}) = {} /\ Cardinality({}) = 0
    BY FS_EmptySet DEF BytesOf
  <2>2. /\ allocs' = seen'.allocs /\ kept' = seen'.kept /\ keptBytes' = seen'.keptBytes
        /\ frees' = seen'.frees /\ live' = seen'.live /\ frees' \in Nat /\ live' \in Int
    BY <1>1, <1>2, <1>3 DEF FreeEntry, countVars, HeapIs, Types, TypeOK
  <2>3. Cardinality(BytesOf(seen'.size, {})) = 0
    BY <2>1
  <2>4. frees' = seen'.frees + 0 /\ live' = seen'.live - 0
    BY <2>2
  <2>5. QED
    BY <2>1, <2>2, <2>3, <2>4 DEF FreeCounts
<1>12. {w} \ Begun(q) = {} /\ Begun(q) = {w} /\ FreeRoot(q) = w
  BY <1>4, <1>6
<1>13. Freeing({w})'
  <2>1. FreeStack(seen', {w}, q) /\ FreeBlocks(seen', {w}, q) /\ w \in TrackedIn(seen')
    BY <1>2, <1>7, <1>8, <1>9
  <2>2. QED
    BY <1>5, <1>10, <1>11, <1>12, <2>1 DEF Freeing
<1>14. Types'
  BY <1>1, <1>3, FreeEntryTypes
<1>15. ~Idle'
  BY <1>5, <1>6 DEF Idle
<1>16. HeapOK(seen')
  BY <1>2, <1>3
<1>17. QED
  BY <1>2, <1>3, <1>13, <1>14, <1>15, <1>16, HeapNow DEF StepInv

(* The running activation moves on to its next word. *)
LEMMA FreeAdvance ==
  ASSUME NEW r \in FreeRecord
  PROVE  /\ Advance(r) \in FreeRecord /\ Advance(r).block = r.block
         /\ Advance(r).bytes = r.bytes /\ Advance(r).next = r.next + 1
  BY DEF Advance, FreeRecord

(* What advancing leaves to show: the word just visited is in the set. *)
LEMMA FreeMoved ==
  ASSUME NEW F, NEW r \in FreeRecord, NEW q \in Seq(FreeRecord), FreeAt(F, r, q)
  PROVE  LET t == Push(Advance(r), q)
         IN  /\ t \in Seq(FreeRecord) /\ t # <<>>
             /\ DistinctBlocks(t) /\ SizesKept(seen, t)
             /\ Begun(t) = Begun(stack) /\ FreeRoot(t) = FreeRoot(stack)
             /\ \A a : \A k \in Int : FreeVisited(t, a, k)
                           => FreeVisited(stack, a, k) \/ (a = r.block /\ k = r.next)
<1> DEFINE c == Advance(r)
           t == Push(c, q)
<1>1. c \in FreeRecord /\ c.block = r.block /\ c.bytes = r.bytes /\ c.next = r.next + 1
      /\ r.next \in Nat
  BY FreeAdvance DEF FreeRecord
<1> HIDE DEF c
<1>2. t \in Seq(FreeRecord) /\ t # <<>>
  BY <1>1, PushOnTop
<1>3. /\ Begun(t) = Begun(q) \cup {c.block}
      /\ DistinctBlocks(t) <=> DistinctBlocks(q) /\ c.block \notin Begun(q)
      /\ SizesKept(seen, t) <=> SizesKept(seen, q) /\ c.bytes = seen.size[c.block]
      /\ FreeRoot(t) = IF q = <<>> THEN c.block ELSE FreeRoot(q)
      /\ \A a, k : FreeVisited(t, a, k) <=> FreeVisited(q, a, k) /\ (c.block = a => k < c.next)
  BY <1>1, FreePush
<1> HIDE DEF t
<1>4. DistinctBlocks(t) /\ SizesKept(seen, t) /\ Begun(t) = Begun(stack)
  BY <1>1, <1>3 DEF FreeAt
<1>5. FreeRoot(t) = FreeRoot(stack)
  BY <1>1, <1>3 DEF FreeAt
<1>6. ASSUME NEW a, NEW k \in Int, FreeVisited(t, a, k), ~(a = r.block /\ k = r.next)
      PROVE  FreeVisited(stack, a, k)
  <2>1. FreeVisited(q, a, k) /\ (r.block = a => k < r.next + 1)
    BY <1>1, <1>3, <1>6
  <2>2. r.block = a => k < r.next
    BY <1>1, <1>6, <2>1
  <2>3. QED
    BY <2>1, <2>2 DEF FreeAt
<1>7. QED
  BY <1>2, <1>4, <1>5, <1>6 DEF t, c

(* A word that is not tracked, or not any more: nothing happens. *)
LEMMA FreeSkipStep ==
  ASSUME StepInv, ~Idle, Top.op = "free", Top.next < width[Top.block],
         ~IsTracked(fields[Top.block][Top.next]),
         stack' = <<Advance(Top)>> \o Tail(stack), UNCHANGED <<memVars, seen>>
  PROVE  StepInv'
<1>1. PICK F \in SUBSET Addr : Freeing(F)
  BY FreeRuns
<1>2. Types /\ HeapOK(seen)
  BY FreeRuns
<1>3. PICK r, q : r = Top /\ q = Tail(stack)
  OBVIOUS
<1>4. FreeAt(F, r, q) /\ r \in FreeRecord /\ q \in Seq(FreeRecord)
  BY <1>1, <1>3, FreeTop DEF FreeAt
<1> DEFINE w == fields[r.block][r.next]
           t == Push(Advance(r), q)
<1>5. /\ fields[r.block] = seen.fields[r.block] /\ r.next \in Slot
      /\ \A x \in TrackedIn(seen) : x \in F \/ IsTracked(x)
  BY <1>1, <1>2, <1>3, FreeReads
<1>6. seen.fields[r.block][r.next] \in TrackedIn(seen) => seen.fields[r.block][r.next] \in F
  BY <1>3, <1>5
<1>7. /\ t \in Seq(FreeRecord) /\ t # <<>>
      /\ DistinctBlocks(t) /\ SizesKept(seen, t)
      /\ Begun(t) = Begun(stack) /\ FreeRoot(t) = FreeRoot(stack)
      /\ \A a : \A k \in Int : FreeVisited(t, a, k)
                             => FreeVisited(stack, a, k) \/ (a = r.block /\ k = r.next)
  BY <1>4, FreeMoved
<1>8. stack' = t
  BY <1>3 DEF Push
<1> HIDE DEF t
<1>9. FreeStack(seen, F, t)
  BY <1>1, <1>7 DEF Freeing, FreeStack
<1>10. FreeBlocks(seen, F, t)
  <2>1. Slot \subseteq Int /\ F \subseteq ReachIn(seen, FreeRoot(t))
    BY <1>1, <1>7 DEF Slot, Freeing, FreeBlocks
  <2>2. ASSUME NEW a \in F, NEW k \in Slot, FreeVisited(t, a, k),
               seen.fields[a][k] \in TrackedIn(seen)
        PROVE  seen.fields[a][k] \in F
    <3>1. a = r.block /\ k = r.next => seen.fields[a][k] \in F
      BY <1>6, <2>2
    <3>2. FreeVisited(stack, a, k) => seen.fields[a][k] \in F
      BY <1>1, <2>2 DEF Freeing, FreeBlocks
    <3>3. k \in Int
      BY <2>1
    <3>4. FreeVisited(stack, a, k) \/ (a = r.block /\ k = r.next)
      BY <1>7, <2>2, <3>3
    <3>5. QED
      BY <3>1, <3>2, <3>4
  <2>3. QED
    BY <2>1, <2>2 DEF FreeBlocks
<1>11. FreeHeap(seen, F, Begun(stack))' /\ FreeCounts(seen, F \ Begun(stack))'
  <2>1. Begun(stack') = Begun(stack)
    BY <1>7, <1>8
  <2>2. FreeHeap(seen, F, Begun(stack)) /\ FreeCounts(seen, F \ Begun(stack))
    BY <1>1 DEF Freeing
  <2>3. QED
    BY <2>1, <2>2 DEF FreeHeap, FreeCounts, SameBlock, memVars, heapVars, countVars
<1>12. Freeing(F)'
  <2>1. FreeStack(seen', F, stack') /\ FreeBlocks(seen', F, stack')
        /\ FreeRoot(stack') \in TrackedIn(seen')
    BY <1>1, <1>7, <1>8, <1>9, <1>10 DEF Freeing
  <2>2. QED
    BY <1>11, <2>1 DEF Freeing
<1>13. Types'
  BY <1>2 DEF Types, TypeOK, Tracked, BytesOf, memVars, heapVars, countVars
<1>14. ~Idle' /\ HeapOK(seen')
  BY <1>2, <1>7, <1>8 DEF Idle
<1>15. QED
  BY <1>12, <1>13, <1>14, HeapNow DEF StepInv

(* A tracked word: its block is untagged and entered. *)
LEMMA FreeDescendStep ==
  ASSUME StepInv, ~Idle, Top.op = "free", Top.next < width[Top.block],
         NEW w, w = fields[Top.block][Top.next], IsTracked(w), FreeEntry(w),
         stack' = <<FreeFrame(w)>> \o (<<Advance(Top)>> \o Tail(stack)), seen' = seen
  PROVE  StepInv'
<1>1. PICK F \in SUBSET Addr : Freeing(F)
  BY FreeRuns
<1>2. Types /\ HeapOK(seen) /\ w \in Tracked
  BY FreeRuns DEF IsTracked
<1>3. PICK r, q : r = Top /\ q = Tail(stack)
  OBVIOUS
<1>4. FreeAt(F, r, q) /\ r \in FreeRecord /\ q \in Seq(FreeRecord)
  BY <1>1, <1>3, FreeTop DEF FreeAt
<1>5. PICK e \in FreeRecord : /\ e.block = w /\ e.bytes = size[w] /\ e.next = 0
                              /\ e = FreeFrame(w)
  BY <1>2, NewFrame
<1> DEFINE t == Push(Advance(r), q)
           u == Push(e, t)
           E == F \cup {w}
<1>6. /\ fields[r.block] = seen.fields[r.block] /\ r.next \in Slot
      /\ w \in TrackedIn(seen) /\ w \in Addr \ F /\ SameBlock(seen, w)
      /\ r.block \in F
  BY <1>1, <1>2, <1>3, FreeReads
<1>7. /\ t \in Seq(FreeRecord) /\ t # <<>>
      /\ DistinctBlocks(t) /\ SizesKept(seen, t)
      /\ Begun(t) = Begun(stack) /\ FreeRoot(t) = FreeRoot(stack)
      /\ \A a : \A k \in Int : FreeVisited(t, a, k)
                             => FreeVisited(stack, a, k) \/ (a = r.block /\ k = r.next)
  BY <1>4, FreeMoved
<1>8. stack' = u
  BY <1>3, <1>5 DEF Push
<1> HIDE DEF t
<1>9. u \in Seq(FreeRecord) /\ u # <<>>
  BY <1>5, <1>7, PushOnTop
<1>10. /\ Begun(u) = Begun(t) \cup {e.block}
       /\ DistinctBlocks(u) <=> DistinctBlocks(t) /\ e.block \notin Begun(t)
       /\ SizesKept(seen, u) <=> SizesKept(seen, t) /\ e.bytes = seen.size[e.block]
       /\ FreeRoot(u) = IF t = <<>> THEN e.block ELSE FreeRoot(t)
       /\ \A a, k : FreeVisited(u, a, k) <=> FreeVisited(t, a, k) /\ (e.block = a => k < e.next)
  BY <1>5, <1>7, FreePush
<1> HIDE DEF u
<1>11. Begun(stack) \subseteq F /\ FreeRoot(stack) \in TrackedIn(seen)
  BY <1>1 DEF Freeing, FreeStack
<1>12. size[w] = seen.size[w]
  BY <1>6 DEF SameBlock
<1>13. FreeStack(seen, E, u) /\ FreeRoot(u) = FreeRoot(stack) /\ Begun(u) = Begun(stack) \cup {w}
  BY <1>5, <1>6, <1>7, <1>9, <1>10, <1>11, <1>12 DEF FreeStack
<1>14. FreeBlocks(seen, E, u)
  <2>1. Slot \subseteq Int /\ F \subseteq ReachIn(seen, FreeRoot(stack))
    BY <1>1 DEF Slot, Freeing, FreeBlocks
  <2>2. w \in ReachIn(seen, FreeRoot(stack))
    <3>1. w \in ChildrenIn(seen, r.block)
      BY <1>3, <1>6 DEF ChildrenIn
    <3>2. QED
      BY <1>6, <1>11, <2>1, <3>1, LeastIn DEF ClosedIn
  <2>3. ASSUME NEW a \in E, NEW k \in Slot, FreeVisited(u, a, k),
               seen.fields[a][k] \in TrackedIn(seen)
        PROVE  seen.fields[a][k] \in E
    <3>1. FreeVisited(t, a, k) /\ (w = a => k < 0)
      BY <1>5, <1>10, <2>3
    <3>2. a \in F
      BY <3>1 DEF Slot
    <3>3. a = r.block /\ k = r.next => seen.fields[a][k] = w
      BY <1>3, <1>6
    <3>4. FreeVisited(stack, a, k) => seen.fields[a][k] \in F
      BY <1>1, <2>3, <3>2 DEF Freeing, FreeBlocks
    <3>5. k \in Int
      BY <2>1
    <3>6. FreeVisited(stack, a, k) \/ (a = r.block /\ k = r.next)
      BY <1>7, <3>1, <3>5
    <3>7. QED
      BY <3>3, <3>4, <3>6
  <2>4. QED
    BY <1>13, <2>1, <2>2, <2>3 DEF FreeBlocks
<1>15. PICK B : B = Begun(stack)
  OBVIOUS
<1>16. B \subseteq F /\ (B \cup {w}) \subseteq E /\ E \ (B \cup {w}) = F \ B
  BY <1>6, <1>11, <1>15
<1>17. FreeHeap(seen, F, B) /\ FreeCounts(seen, F \ B)
  BY <1>1, <1>15 DEF Freeing
<1>18. /\ tag' = [tag EXCEPT ![w] = "none"] /\ size' = [size EXCEPT ![w] = 0]
       /\ typeId' = [typeId EXCEPT ![w] = NoTypeId]
       /\ UNCHANGED <<width, fields, countVars>>
  BY DEF FreeEntry
<1>19. /\ tag'[w] = "none" /\ size'[w] = 0 /\ typeId'[w] = NoTypeId
       /\ \A a \in Addr : a # w => tag'[a] = tag[a] /\ size'[a] = size[a] /\ typeId'[a] = typeId[a]
  BY <1>2, <1>6, <1>18 DEF Types, TypeOK
<1>20. FreeHeap(seen, E, B \cup {w})'
  <2>1. (\A a \in Addr \ E : SameBlock(seen, a))'
    <3>1. \A a \in Addr \ E : SameBlock(seen, a) /\ a # w
      BY <1>17 DEF FreeHeap
    <3>2. QED
      BY <1>18, <1>19, <3>1 DEF SameBlock
  <2>2. (\A a \in E : tag[a] = "none" /\ size[a] = 0 /\ typeId[a] = NoTypeId)'
    BY <1>17, <1>19 DEF FreeHeap
  <2>3. (\A a \in B \cup {w} : width[a] = seen.width[a] /\ fields[a] = seen.fields[a])'
    BY <1>6, <1>17, <1>18 DEF FreeHeap, SameBlock
  <2>4. (\A a \in E \ (B \cup {w}) : width[a] = 0 /\ fields[a] = NoFields)'
    BY <1>16, <1>17, <1>18 DEF FreeHeap
  <2>5. QED
    BY <2>1, <2>2, <2>3, <2>4 DEF FreeHeap
<1>21. FreeCounts(seen, F \ B)'
  BY <1>17, <1>18 DEF FreeCounts, countVars
<1>22. Freeing(E)'
  <2>1. /\ FreeStack(seen', E, stack') /\ FreeBlocks(seen', E, stack')
        /\ FreeRoot(stack') \in TrackedIn(seen') /\ Begun(stack') = B \cup {w}
    BY <1>8, <1>11, <1>13, <1>14, <1>15
  <2>2. FreeHeap(seen, E, Begun(stack))'
    BY <1>20, <2>1
  <2>3. FreeCounts(seen, E \ Begun(stack))'
    BY <1>16, <1>21, <2>1
  <2>4. QED
    BY <2>1, <2>2, <2>3 DEF Freeing
<1>23. Types' /\ E \subseteq Addr
  BY <1>2, <1>6, FreeEntryTypes
<1>24. ~Idle' /\ HeapOK(seen')
  BY <1>2, <1>8, <1>9 DEF Idle
<1>25. QED
  BY <1>22, <1>23, <1>24, HeapNow DEF StepInv

LEMMA FreeVisitStep == ASSUME StepInv, FreeVisit PROVE StepInv' /\ seen' = seen
<1>1. /\ ~Idle /\ Top.op = "free" /\ Top.next < width[Top.block] /\ seen' = seen
  BY DEF FreeVisit
<1> DEFINE w == fields[Top.block][Top.next]
           rest == <<Advance(Top)>> \o Tail(stack)
<1>2. \/ IsTracked(w) /\ FreeEntry(w) /\ stack' = <<FreeFrame(w)>> \o rest
      \/ (w = Null \/ ~IsTracked(w)) /\ stack' = rest /\ UNCHANGED memVars
  BY DEF FreeVisit
<1>3. ~IsTracked(Null)
  BY WordAssumption DEF IsTracked, Tracked
<1>4. CASE IsTracked(w) /\ FreeEntry(w) /\ stack' = <<FreeFrame(w)>> \o rest
  BY <1>1, <1>4, FreeDescendStep
<1>5. CASE (w = Null \/ ~IsTracked(w)) /\ stack' = rest /\ UNCHANGED memVars
  BY <1>1, <1>3, <1>5, FreeSkipStep
<1>6. QED
  BY <1>1, <1>2, <1>4, <1>5

(* The loop of block b is over: its memory goes and is counted. *)
LEMMA FreePop ==
  ASSUME StepInv, FreeReturn, NEW F \in SUBSET Addr, Freeing(F),
         NEW h, h = seen, NEW b, b = Top.block, NEW q, q = Tail(stack)
  PROVE  /\ FreeHeap(h, F, Begun(q))' /\ FreeCounts(h, F \ Begun(q))' /\ Types'
         /\ \A a \in F, k \in Slot :
              FreeVisited(q, a, k) /\ h.fields[a][k] \in TrackedIn(h) => h.fields[a][k] \in F
<1>1. ~Idle /\ Top.op = "free" /\ Top.next = width[b]
  BY DEF FreeReturn
<1>2. Types /\ HeapOK(seen)
  BY <1>1, FreeRuns
<1>3. PICK r : r = Top
  OBVIOUS
<1>4. FreeAt(F, r, q) /\ r \in FreeRecord /\ r.block = b /\ r.next = width[b]
  BY <1>1, <1>3, FreeTop DEF FreeAt
<1>5. /\ b \in Addr /\ b \in F /\ fields[b] = h.fields[b] /\ width[b] = h.width[b]
      /\ width[b] \in 0 .. MaxFields
  BY <1>1, <1>2, FreeReads
<1>6. PICK B : B = Begun(stack)
  OBVIOUS
<1>7. PICK C : C = Begun(q)
  OBVIOUS
<1>8. B = C \cup {b} /\ b \notin C /\ B \subseteq F /\ r.bytes = h.size[b]
  BY <1>4, <1>6, <1>7 DEF FreeAt
<1>9. FreeHeap(h, F, B) /\ FreeCounts(h, F \ B)
  BY <1>6 DEF Freeing
<1>10. /\ width' = [width EXCEPT ![b] = 0] /\ fields' = [fields EXCEPT ![b] = NoFields]
       /\ frees' = frees + 1 /\ live' = live - r.bytes
       /\ UNCHANGED <<tag, size, typeId, allocs, kept, keptBytes>>
  BY <1>3 DEF FreeReturn
<1>11. /\ width'[b] = 0 /\ fields'[b] = NoFields
       /\ \A a \in Addr : a # b => width'[a] = width[a] /\ fields'[a] = fields[a]
  BY <1>2, <1>5, <1>10 DEF Types, TypeOK
<1>12. FreeHeap(h, F, C)'
  <2>1. (\A a \in Addr \ F : SameBlock(h, a))'
    <3>1. \A a \in Addr \ F : SameBlock(h, a) /\ a # b
      BY <1>5, <1>9 DEF FreeHeap
    <3>2. QED
      BY <1>10, <1>11, <3>1 DEF SameBlock
  <2>2. (\A a \in F : tag[a] = "none" /\ size[a] = 0 /\ typeId[a] = NoTypeId)'
    BY <1>9, <1>10 DEF FreeHeap
  <2>3. (\A a \in C : width[a] = h.width[a] /\ fields[a] = h.fields[a])'
    BY <1>8, <1>9, <1>11 DEF FreeHeap
  <2>4. (\A a \in F \ C : width[a] = 0 /\ fields[a] = NoFields)'
    BY <1>8, <1>9, <1>11 DEF FreeHeap
  <2>5. QED
    BY <2>1, <2>2, <2>3, <2>4 DEF FreeHeap
<1>13. FreeCounts(h, F \ C)'
  <2> DEFINE E == F \ B
             n == h.size[b]
  <2>1. F \ C = E \cup {b} /\ b \notin E
    BY <1>5, <1>8
  <2>2. E \subseteq TrackedIn(h) /\ E \subseteq Addr
    <3>1. F \subseteq ReachIn(h, FreeRoot(stack)) /\ FreeRoot(stack) \in TrackedIn(h)
      BY DEF Freeing, FreeBlocks
    <3>2. QED
      BY <3>1, LeastIn
  <2>3. IsFiniteSet(E)
    BY <2>2, AddrAssumption, FS_Subset
  <2>4. Cardinality(E \cup {b}) = Cardinality(E) + 1 /\ Cardinality(E) \in Nat
    BY <2>1, <2>3, FS_AddElement, FS_CardinalityType
  <2>5. IsFiniteSet(BytesOf(h.size, E))
    <3>1. BytesOf(h.size, E) \subseteq BytesOf(h.size, TrackedIn(h))
      BY <2>2 DEF BytesOf
    <3>2. IsFiniteSet(BytesOf(h.size, TrackedIn(h)))
      BY <1>2 DEF HeapOK, TypedHeap
    <3>3. QED
      BY <3>1, <3>2, FS_Subset
  <2>6. n \in Nat
    BY <1>2, <1>5 DEF HeapOK, TypedHeap
  <2>7. /\ Cardinality(BytesOf(h.size, E \cup {b})) = Cardinality(BytesOf(h.size, E)) + n
        /\ Cardinality(BytesOf(h.size, E)) \in Nat
    BY <2>1, <2>5, <2>6, BytesAdd
  <2>8. PICK c1, c2, m1, m2 : /\ c1 = Cardinality(E) /\ c2 = Cardinality(E \cup {b})
                              /\ m1 = Cardinality(BytesOf(h.size, E))
                              /\ m2 = Cardinality(BytesOf(h.size, E \cup {b}))
    OBVIOUS
  <2>9. c1 \in Nat /\ c2 = c1 + 1 /\ m1 \in Nat /\ m2 = m1 + n
    BY <2>4, <2>7, <2>8
  <2>10. /\ allocs = h.allocs /\ kept = h.kept /\ keptBytes = h.keptBytes
         /\ frees = h.frees + c1 /\ live = h.live - m1
         /\ h.frees \in Nat /\ h.live \in Int
    BY <1>2, <1>9, <2>8 DEF FreeCounts, HeapOK, TypedHeap
  <2> HIDE DEF E, n
  <2>11. r.bytes = n
    BY <1>8 DEF n
  <2>12. frees' = h.frees + c2 /\ live' = h.live - m2
    <3>1. PICK x \in Nat, y \in Int : x = h.frees /\ y = h.live
      BY <2>10
    <3>2. frees' = (x + c1) + 1 /\ live' = (y - m1) - n
      BY <1>10, <2>10, <2>11, <3>1
    <3>3. (x + c1) + 1 = x + c2 /\ (y - m1) - n = y - m2
      BY <2>6, <2>9
    <3>4. QED
      BY <3>1, <3>2, <3>3
  <2>13. allocs' = h.allocs /\ kept' = h.kept /\ keptBytes' = h.keptBytes
    BY <1>10, <2>10
  <2>14. QED
    BY <2>1, <2>8, <2>12, <2>13 DEF FreeCounts
<1>14. Types'
  <2>1. NoFields \in [Slot -> Word] /\ 0 \in 0 .. MaxFields
    BY BoundAssumption DEF NoFields, Word
  <2>2. width' \in [Addr -> 0 .. MaxFields] /\ fields' \in [Addr -> [Slot -> Word]]
    <3>1. width \in [Addr -> 0 .. MaxFields] /\ fields \in [Addr -> [Slot -> Word]]
      BY <1>2 DEF Types, TypeOK
    <3>2. width' \in [Addr -> 0 .. MaxFields]
      BY <1>5, <1>10, <2>1, <3>1
    <3>3. fields' \in [Addr -> [Slot -> Word]]
      BY <1>5, <1>10, <2>1, <3>1
    <3>4. QED
      BY <3>2, <3>3
  <2>3. r.bytes \in Nat
    BY <1>4 DEF FreeRecord
  <2>4. Tracked' = Tracked /\ frees' \in Nat /\ live' \in Int
    BY <1>2, <1>10, <2>3 DEF Types, TypeOK, Tracked
  <2>5. QED
    BY <1>2, <1>10, <2>2, <2>4 DEF Types, TypeOK
<1>15. ASSUME NEW a \in F, NEW k \in Slot, FreeVisited(q, a, k),
              h.fields[a][k] \in TrackedIn(h)
       PROVE  h.fields[a][k] \in F
  <2>1. CASE FreeVisited(stack, a, k)
    BY <1>15, <2>1 DEF Freeing, FreeBlocks
  <2>2. CASE ~FreeVisited(stack, a, k)
    <3>1. a = b /\ ~(k < h.width[b])
      BY <1>4, <1>5, <1>15, <2>2 DEF FreeAt
    <3>2. k >= h.width[b]
      BY <1>5, <3>1 DEF Slot
    <3>3. h.fields[a][k] = Null
      BY <1>2, <1>5, <3>1, <3>2 DEF HeapOK, BlockOK
    <3>4. QED
      BY <1>15, <3>3, WordAssumption DEF TrackedIn
  <2>3. QED
    BY <2>1, <2>2
<1>16. QED
  BY <1>7, <1>12, <1>13, <1>14, <1>15

(* The call returns to mem_free. *)
LEMMA FreeInnerStep ==
  ASSUME StepInv, FreeReturn, Tail(stack) # <<>>
  PROVE  StepInv' /\ seen' = seen
<1>1. ~Idle /\ Top.op = "free" /\ stack' = Tail(stack)
      /\ seen' = IF stack' = <<>> THEN Heap' ELSE seen
  BY DEF FreeReturn, Publish
<1>2. Types /\ HeapOK(seen)
  BY <1>1, FreeRuns
<1>3. PICK F \in SUBSET Addr : Freeing(F)
  BY <1>1, FreeRuns
<1>4. PICK h, b, q, r : h = seen /\ b = Top.block /\ q = Tail(stack) /\ r = Top
  OBVIOUS
<1>5. FreeAt(F, r, q) /\ q \in Seq(FreeRecord) /\ q # <<>> /\ stack' = q /\ seen' = h
  BY <1>1, <1>3, <1>4, FreeTop DEF FreeAt
<1>6. /\ FreeHeap(h, F, Begun(q))' /\ FreeCounts(h, F \ Begun(q))' /\ Types'
      /\ \A a \in F, k \in Slot :
           FreeVisited(q, a, k) /\ h.fields[a][k] \in TrackedIn(h) => h.fields[a][k] \in F
  BY <1>3, <1>4, FreePop
<1>7. FreeRoot(q) = FreeRoot(stack)
  BY <1>5 DEF FreeAt
<1>8. FreeStack(h, F, q)
  BY <1>4, <1>5 DEF FreeAt, FreeStack
<1>9. FreeBlocks(h, F, q) /\ FreeRoot(q) \in TrackedIn(h)
  BY <1>3, <1>4, <1>6, <1>7 DEF Freeing, FreeBlocks
<1>10. Freeing(F)'
  <2>1. /\ FreeStack(seen', F, stack') /\ FreeBlocks(seen', F, stack')
        /\ FreeRoot(stack') \in TrackedIn(seen')
    BY <1>5, <1>8, <1>9
  <2>2. FreeHeap(seen, F, Begun(stack))' /\ FreeCounts(seen, F \ Begun(stack))'
    BY <1>5, <1>6 DEF FreeHeap, FreeCounts, SameBlock
  <2>3. QED
    BY <2>1, <2>2 DEF Freeing
<1>11. ~Idle' /\ HeapOK(seen')
  BY <1>2, <1>4, <1>5 DEF Idle
<1>12. QED
  BY <1>4, <1>5, <1>6, <1>10, <1>11, HeapNow DEF StepInv

(* The call returns to its caller: F is what the block reached.            *)
LEMMA FreeOuterStep ==
  ASSUME StepInv, FreeReturn, Tail(stack) = <<>>
  PROVE  StepInv' /\ Mem!Next
<1>1. ~Idle /\ Top.op = "free" /\ stack' = <<>> /\ seen' = Heap'
  BY DEF FreeReturn, Publish
<1>2. Types /\ HeapOK(seen)
  BY <1>1, FreeRuns
<1>3. PICK F \in SUBSET Addr : Freeing(F)
  BY <1>1, FreeRuns
<1>4. PICK h, b, q, r : h = seen /\ b = Top.block /\ q = Tail(stack) /\ r = Top
  OBVIOUS
<1>5. FreeAt(F, r, q) /\ q = <<>> /\ b \in F
  BY <1>3, <1>4, FreeTop DEF FreeAt
<1>6. Begun(q) = {} /\ F \ {} = F /\ \A a, k : FreeVisited(q, a, k)
  BY <1>5 DEF Begun, FreeVisited
<1>7. /\ FreeHeap(h, F, Begun(q))' /\ FreeCounts(h, F \ Begun(q))' /\ Types'
      /\ \A a \in F, k \in Slot :
           FreeVisited(q, a, k) /\ h.fields[a][k] \in TrackedIn(h) => h.fields[a][k] \in F
  BY <1>3, <1>4, FreePop
<1>8. FreeHeap(h, F, {})' /\ FreeCounts(h, F)'
  BY <1>6, <1>7
<1>9. b \in TrackedIn(h) /\ F = ReachIn(h, b)
  <2>1. FreeRoot(stack) = b
    BY <1>4, <1>5 DEF FreeAt
  <2>2. b \in TrackedIn(h) /\ F \subseteq ReachIn(h, b)
    BY <1>3, <1>4, <2>1 DEF Freeing, FreeBlocks
  <2>3. ClosedIn(h, F)
    BY <1>6, <1>7 DEF ClosedIn, ChildrenIn
  <2>4. ReachIn(h, b) \subseteq TrackedIn(h)
    BY <2>2, LeastIn
  <2>5. ReachIn(h, b) \subseteq F
    BY <1>5, <2>2, <2>3, <2>4, LeastIn
  <2>6. QED
    BY <2>2, <2>5
<1>10. /\ \A a \in Addr \ F : SameBlock(h, a)'
       /\ \A a \in F : /\ tag'[a] = "none" /\ size'[a] = 0 /\ typeId'[a] = NoTypeId
                       /\ width'[a] = 0 /\ fields'[a] = NoFields
  BY <1>8 DEF FreeHeap
<1>11. Blocks'
  <2>1. ASSUME NEW a \in F PROVE BlockNow(a)'
    BY <1>10 DEF BlockNow, NoFields
  <2>2. ASSUME NEW a \in Addr \ F PROVE BlockNow(a)'
    <3>1. BlockOK(h, a)
      BY <1>2, <1>4 DEF HeapOK
    <3>2. /\ tag'[a] = h.tag[a] /\ size'[a] = h.size[a] /\ typeId'[a] = h.typeId[a]
          /\ width'[a] = h.width[a] /\ fields'[a] = h.fields[a]
      BY <1>10 DEF SameBlock
    <3>3. QED
      BY <3>1, <3>2 DEF BlockOK, BlockNow
  <2>3. QED
    BY <2>1, <2>2 DEF Blocks
<1>12. StepInv'
  BY <1>1, <1>7, <1>11, HeapNow DEF StepInv, HeapOK, Idle
<1>13. Mem!MemFree(b)
  <2>1. HeapIs(seen)'
    BY <1>1, HeapIsHeap
  <2>2. tag' = [a \in Addr |-> IF a \in F THEN "none" ELSE h.tag[a]]
    <3>1. \A a \in Addr : tag'[a] = IF a \in F THEN "none" ELSE h.tag[a]
      BY <1>10 DEF SameBlock
    <3>2. tag' \in [Addr -> Tag \cup {"none"}]
      BY <1>7 DEF Types, TypeOK
    <3>3. QED
      BY <3>1, <3>2
  <2>3. size' = [a \in Addr |-> IF a \in F THEN 0 ELSE h.size[a]]
    <3>1. \A a \in Addr : size'[a] = IF a \in F THEN 0 ELSE h.size[a]
      BY <1>10 DEF SameBlock
    <3>2. size' \in [Addr -> Nat]
      BY <1>7 DEF Types, TypeOK
    <3>3. QED
      BY <3>1, <3>2
  <2>4. typeId' = [a \in Addr |-> IF a \in F THEN NoTypeId ELSE h.typeId[a]]
    <3>1. \A a \in Addr : typeId'[a] = IF a \in F THEN NoTypeId ELSE h.typeId[a]
      BY <1>10 DEF SameBlock
    <3>2. typeId' \in [Addr -> TypeIds \cup {NoTypeId}]
      BY <1>7 DEF Types, TypeOK
    <3>3. QED
      BY <3>1, <3>2
  <2>5. width' = [a \in Addr |-> IF a \in F THEN 0 ELSE h.width[a]]
    <3>1. \A a \in Addr : width'[a] = IF a \in F THEN 0 ELSE h.width[a]
      BY <1>10 DEF SameBlock
    <3>2. width' \in [Addr -> 0 .. MaxFields]
      BY <1>7 DEF Types, TypeOK
    <3>3. QED
      BY <3>1, <3>2
  <2>6. fields' = [a \in Addr |-> IF a \in F THEN NoFields ELSE h.fields[a]]
    <3>1. \A a \in Addr : fields'[a] = IF a \in F THEN NoFields ELSE h.fields[a]
      BY <1>10 DEF SameBlock
    <3>2. fields' \in [Addr -> [Slot -> Word]]
      BY <1>7 DEF Types, TypeOK
    <3>3. QED
      BY <3>1, <3>2
  <2>7. /\ allocs' = h.allocs /\ kept' = h.kept /\ keptBytes' = h.keptBytes
        /\ frees' = h.frees + Cardinality(F)
        /\ live' = h.live - Cardinality(BytesOf(h.size, F))
    BY <1>8 DEF FreeCounts
  <2>8. NoFields = Mem!NoFields /\ NoTypeId = Mem!NoTypeId
    BY DEF NoFields, Mem!NoFields, Slot, Mem!Slot, NoTypeId, Mem!NoTypeId
  <2>9. Mem!Bytes(F) = Cardinality(BytesOf(h.size, F)) /\ Mem!Cardinality(F) = Cardinality(F)
    BY <1>4, SameCardinality DEF Mem!Bytes, Mem!BytesOf, BytesOf
  <2>10. Mem!FreeSet(F)
    BY <1>4, <2>1, <2>2, <2>3, <2>4, <2>5, <2>6, <2>7, <2>8, <2>9 DEF Mem!FreeSet, HeapIs
  <2>11. Mem!Reach(b) = F /\ Mem!IsTracked(b)
    BY <1>4, <1>9, MemIsSeen DEF Mem!IsTracked
  <2>12. QED
    BY <2>10, <2>11 DEF Mem!MemFree
<1>14. b \in Mem!Word
  BY <1>5 DEF Mem!Word
<1>15. QED
  BY <1>12, <1>13, <1>14 DEF Mem!Next

-----------------------------------------------------------------------------
(* copy. *)
LEMMA CopyRuns ==
  ASSUME StepInv, ~Idle, Top.op = "copy"
  PROVE  /\ \E D \in SUBSET Addr : \E f \in [D -> Addr] : Copying(f)
         /\ Types /\ HeapOK(seen)
<1>1. ASSUME NEW F, Freeing(F) PROVE FALSE
  <2>1. stack \in Seq(FreeRecord) /\ stack # <<>>
    BY <1>1 DEF Freeing, FreeStack
  <2>2. Head(stack) \in FreeRecord
    BY <2>1, TopAndTail
  <2>3. QED
    BY <2>2 DEF Top, FreeRecord
<1>2. QED
  BY <1>1, HeapNow DEF StepInv

(* r is the running activation, q its callers. *)
CopyAt(f, r, q) ==
  /\ r \in CopyRecord /\ q \in Seq(CopyRecord)
  /\ DistinctSources(q) /\ Mapped(f, q) /\ Linked(seen, q)
  /\ \A i \in 1 .. Len(q) : q[i].src # r.src
  /\ r.src \in DOMAIN f /\ r.dst = f[r.src]
  /\ q # <<>> => /\ Head(q).next \in Slot
                 /\ seen.fields[Head(q).src][Head(q).next] = r.src
  /\ CopyRoot(stack) = IF q = <<>> THEN r.src ELSE CopyRoot(q)
  /\ \A x, k : Copied(stack, x, k) <=> Copied(q, x, k) /\ (r.src = x => k < r.next)
  /\ \A x, k : InProgress(stack, x, k)
                 <=> \/ InProgress(q, x, k)
                     \/ q # <<>> /\ Head(q).src = x /\ Head(q).next = k

LEMMA CopyTop ==
  ASSUME NEW f, Copying(f)
  PROVE  CopyAt(f, Top, Tail(stack))
<1> DEFINE r == Top
           q == Tail(stack)
<1>1. stack \in Seq(CopyRecord) /\ stack # <<>>
  BY DEF Copying, CopyStack
<1>2. r \in CopyRecord /\ q \in Seq(CopyRecord) /\ stack = Push(r, q)
  BY <1>1, TopAndTail DEF Top
<1>3. DistinctSources(stack) /\ Mapped(f, stack) /\ Linked(seen, stack)
  BY DEF Copying, CopyStack
<1> HIDE DEF r, q
<1>4. CopyPushed(seen, f, stack, r, q)
  BY <1>2, CopyPush
<1>5. CopyAt(f, r, q)
  BY <1>2, <1>3, <1>4 DEF CopyAt, CopyPushed
<1>6. QED
  BY <1>5 DEF r, q

LEMMA CopyAdvance ==
  ASSUME NEW r \in CopyRecord
  PROVE  /\ Advance(r) \in CopyRecord /\ Advance(r).src = r.src
         /\ Advance(r).dst = r.dst /\ Advance(r).next = r.next + 1
  BY DEF Advance, CopyRecord

(* r on q moves on to its next word. *)
LEMMA CopyMoved ==
  ASSUME NEW f, NEW h, NEW r \in CopyRecord, NEW q \in Seq(CopyRecord),
         LET s == Push(r, q)
         IN  DistinctSources(s) /\ Mapped(f, s) /\ Linked(h, s)
  PROVE  LET s == Push(r, q)
             t == Push(Advance(r), q)
         IN  /\ t \in Seq(CopyRecord) /\ t # <<>>
             /\ DistinctSources(t) /\ Mapped(f, t) /\ Linked(h, t)
             /\ CopyRoot(t) = CopyRoot(s)
             /\ \A x, k : InProgress(t, x, k) <=> InProgress(s, x, k)
             /\ \A x : \A k \in Int : Copied(s, x, k) => Copied(t, x, k)
             /\ \A x : \A k \in Int :
                  Copied(t, x, k) => Copied(s, x, k) \/ (x = r.src /\ k = r.next)
             /\ Copied(t, r.src, r.next) /\ ~Copied(s, r.src, r.next)
<1> DEFINE c == Advance(r)
           s == Push(r, q)
           t == Push(c, q)
<1>1. c \in CopyRecord /\ c.src = r.src /\ c.dst = r.dst /\ c.next = r.next + 1
      /\ r.next \in Nat
  BY CopyAdvance DEF CopyRecord
<1>2. CopyPushed(h, f, s, r, q)
  BY CopyPush
<1> HIDE DEF c
<1>3. t \in Seq(CopyRecord) /\ t # <<>>
  BY <1>1, PushOnTop
<1>4. CopyPushed(h, f, t, c, q)
  BY <1>1, CopyPush
<1>5. DistinctSources(s) /\ Mapped(f, s) /\ Linked(h, s)
  OBVIOUS
<1> HIDE DEF s, t
<1>6. DistinctSources(t) /\ Mapped(f, t) /\ Linked(h, t) /\ CopyRoot(t) = CopyRoot(s)
  BY <1>1, <1>2, <1>4, <1>5 DEF CopyPushed
<1>7. \A x, k : InProgress(t, x, k) <=> InProgress(s, x, k)
  BY <1>2, <1>4 DEF CopyPushed
<1>8. ASSUME NEW x, NEW k \in Int
      PROVE  /\ Copied(s, x, k) => Copied(t, x, k)
             /\ Copied(t, x, k) => Copied(s, x, k) \/ (x = r.src /\ k = r.next)
  <2>1. Copied(s, x, k) <=> Copied(q, x, k) /\ (r.src = x => k < r.next)
    BY <1>2 DEF CopyPushed
  <2>2. Copied(t, x, k) <=> Copied(q, x, k) /\ (r.src = x => k < r.next + 1)
    BY <1>1, <1>4 DEF CopyPushed
  <2>3. k < r.next => k < r.next + 1
    BY <1>1
  <2>4. k < r.next + 1 => k < r.next \/ k = r.next
    BY <1>1
  <2>5. QED
    BY <2>1, <2>2, <2>3, <2>4
<1>9. Copied(t, r.src, r.next) /\ ~Copied(s, r.src, r.next)
  <2>1. Copied(q, r.src, r.next)
    BY <1>2, <1>5 DEF Copied, CopyPushed
  <2>2. r.next < r.next + 1 /\ ~(r.next < r.next)
    BY <1>1
  <2>3. Copied(t, r.src, r.next)
    BY <1>1, <1>4, <2>1, <2>2 DEF CopyPushed
  <2>4. ~Copied(s, r.src, r.next)
    BY <1>2, <2>2 DEF CopyPushed
  <2>5. QED
    BY <2>3, <2>4
<1>10. QED
  BY <1>3, <1>6, <1>7, <1>8, <1>9 DEF s, t, c

(* What the running copy may read: the blocks callers know are as they     *)
(* were, and a tree does not lead back to its root.                        *)
LEMMA CopyReads ==
  ASSUME Types, HeapOK(seen), NEW D \in SUBSET Addr, NEW f \in [D -> Addr], Copying(f),
         NEW p, p = CopyRoot(stack)
  PROVE  /\ D \subseteq ClonedIn(seen, p) /\ ClonedIn(seen, p) \subseteq ReachIn(seen, p)
         /\ ReachIn(seen, p) \subseteq TrackedIn(seen) /\ p \in TrackedIn(seen) /\ p \in D
         /\ TreeIn(seen, p)
         /\ \A x \in D : f[x] \in Addr /\ f[x] \notin TrackedIn(seen) /\ f[x] \notin D
         /\ \A a \in TrackedIn(seen) : SameBlock(seen, a) /\ IsTracked(a)
         /\ \A a \in Addr : (\A x \in D : f[x] # a) => SameBlock(seen, a)
         /\ \A x \in D, k \in Slot :
              /\ seen.fields[x][k] \in Addr => seen.fields[x][k] \in TrackedIn(seen) \ {p}
              /\ IsTracked(seen.fields[x][k]) <=> seen.fields[x][k] \in TrackedIn(seen)
<1>1. CopyCall(seen, p) /\ CopyMap(seen, f, p) /\ CopyHeap(seen, f, stack) /\ DOMAIN f = D
  BY DEF Copying
<1>2. p \in TrackedIn(seen) /\ TreeIn(seen, p)
  BY <1>1 DEF CopyCall
<1>3. ReachIn(seen, p) \subseteq TrackedIn(seen) /\ ClonedIn(seen, p) \subseteq ReachIn(seen, p)
  BY <1>2, LeastIn DEF ClonedIn
<1>4. p \in D /\ D \subseteq ClonedIn(seen, p) /\ \A x \in D : f[x] \in Addr \ TrackedIn(seen)
  BY <1>1 DEF CopyMap
<1>5. \A x \in D : f[x] \in Addr /\ f[x] \notin TrackedIn(seen) /\ f[x] \notin D
  BY <1>3, <1>4
<1>6. \A a \in Addr : (\A x \in D : f[x] # a) => SameBlock(seen, a)
  BY <1>1 DEF CopyHeap
<1>7. ASSUME NEW a \in TrackedIn(seen) PROVE SameBlock(seen, a) /\ IsTracked(a)
  <2>1. a \in Addr /\ seen.tag[a] # "none"
    BY DEF TrackedIn
  <2>2. SameBlock(seen, a)
    BY <1>5, <1>6, <2>1
  <2>3. QED
    BY <2>1, <2>2 DEF SameBlock, IsTracked, Tracked
<1>8. ASSUME NEW x \in D, NEW k \in Slot
      PROVE  /\ seen.fields[x][k] \in Addr => seen.fields[x][k] \in TrackedIn(seen) \ {p}
             /\ IsTracked(seen.fields[x][k]) <=> seen.fields[x][k] \in TrackedIn(seen)
  <2>1. x \in ReachIn(seen, p)
    BY <1>3, <1>4
  <2>2. seen.fields[x][k] \in Addr => seen.fields[x][k] \in TrackedIn(seen) \ {p}
    BY <1>2, <2>1 DEF TreeIn
  <2>3. IsTracked(seen.fields[x][k]) => seen.fields[x][k] \in Addr
    BY DEF IsTracked, Tracked
  <2>4. QED
    BY <1>7, <2>2, <2>3
<1>9. QED
  BY <1>2, <1>3, <1>4, <1>5, <1>6, <1>7, <1>8

(* One word of a clone is filled in, and the stack t says so. *)
WordStored(h, f, x, k) ==
  /\ fields' = [fields EXCEPT ![f[x]][k] = CloneIn(h, f, h.fields[x][k])]
  /\ IsCloned(h, h.fields[x][k]) => h.fields[x][k] \in DOMAIN f
  /\ UNCHANGED <<tag, size, typeId, width, countVars>>

WordCopied(h, D, s, t, x, k) ==
  /\ Copied(t, x, k)
  /\ \A y \in D, j \in Slot : y # x \/ j # k =>
       /\ Copied(s, y, j) => Copied(t, y, j)
       /\ Copied(t, y, j) => Copied(s, y, j) \/ h.fields[y][j] = Null
       /\ InProgress(s, y, j) => InProgress(t, y, j)

LEMMA CopyStore ==
  ASSUME Types, NEW h, NEW D \in SUBSET Addr, NEW f \in [D -> Addr],
         HeapOK(h), \A y, z \in D : f[y] = f[z] => y = z, CopyHeap(h, f, stack),
         NEW x \in D, NEW k \in Slot, WordStored(h, f, x, k),
         NEW t, WordCopied(h, D, stack, t, x, k)
  PROVE  CopyHeap(h, f, t)' /\ Types'
<1>1. DOMAIN f = D /\ f[x] \in Addr /\ x \in Addr
  OBVIOUS
<1>2. fields \in [Addr -> [Slot -> Word]] /\ h.fields[x][k] \in Word
  BY <1>1 DEF Types, TypeOK, HeapOK, TypedHeap
<1>3. CloneIn(h, f, h.fields[x][k]) \in Word
  BY <1>2 DEF CloneIn, Word
<1>4. PICK v \in Word : v = CloneIn(h, f, h.fields[x][k])
  BY <1>3
<1>5. fields' = [fields EXCEPT ![f[x]][k] = v]
  BY <1>4 DEF WordStored
<1>6. /\ fields' \in [Addr -> [Slot -> Word]] /\ fields'[f[x]][k] = v
      /\ \A a \in Addr : a # f[x] => fields'[a] = fields[a]
      /\ \A j \in Slot : j # k => fields'[f[x]][j] = fields[f[x]][j]
  <2>1. fields' \in [Addr -> [Slot -> Word]]
    BY <1>1, <1>2, <1>5
  <2>2. fields'[f[x]] = [fields[f[x]] EXCEPT ![k] = v] /\ fields[f[x]] \in [Slot -> Word]
    BY <1>1, <1>2, <1>5
  <2>3. \A a \in Addr : a # f[x] => fields'[a] = fields[a]
    BY <1>2, <1>5
  <2>4. QED
    BY <2>1, <2>2, <2>3
<1>7. \A a \in Addr : (\A y \in D : f[y] # a) => SameBlock(h, a)'
  BY <1>6 DEF CopyHeap, SameBlock, WordStored
<1>8. \A y \in D : /\ tag'[f[y]] = h.tag[y] /\ size'[f[y]] = h.size[y]
                   /\ typeId'[f[y]] = h.typeId[y] /\ width'[f[y]] = h.width[y]
  BY DEF CopyHeap, WordStored
<1>9. ASSUME NEW y \in D, NEW j \in Slot PROVE CopyWord(h, f, t, y, j)'
  <2>1. CASE y = x /\ j = k
    BY <1>1, <1>4, <1>6, <2>1 DEF CopyWord, WordStored, WordCopied
  <2>2. CASE y # x \/ j # k
    <3>1. fields'[f[y]][j] = fields[f[y]][j]
      <4>1. f[y] \in Addr /\ (y # x => f[y] # f[x])
        OBVIOUS
      <4>2. QED
        BY <1>6, <2>2, <4>1
    <3>2. CopyWord(h, f, stack, y, j)
      BY <1>1 DEF CopyHeap
    <3>3. /\ Copied(stack, y, j) => Copied(t, y, j)
          /\ Copied(t, y, j) => Copied(stack, y, j) \/ h.fields[y][j] = Null
          /\ InProgress(stack, y, j) => InProgress(t, y, j)
      BY <2>2 DEF WordCopied
    <3>4. CASE Copied(stack, y, j)
      BY <3>1, <3>2, <3>3, <3>4 DEF CopyWord
    <3>5. CASE ~Copied(t, y, j)
      BY <3>1, <3>2, <3>3, <3>5 DEF CopyWord
    <3>6. CASE Copied(t, y, j) /\ ~Copied(stack, y, j)
      <4>1. h.fields[y][j] = Null /\ fields[f[y]][j] = Null
        BY <3>2, <3>3, <3>6 DEF CopyWord
      <4>2. Null \notin D /\ Null \notin TrackedIn(h)
        BY WordAssumption DEF TrackedIn
      <4>3. CloneIn(h, f, Null) = Null /\ ~IsCloned(h, Null)
        BY <1>1, <4>2 DEF CloneIn, IsCloned
      <4>4. QED
        BY <3>1, <3>6, <4>1, <4>3 DEF CopyWord
    <3>7. QED
      BY <3>4, <3>5, <3>6
  <2>3. QED
    BY <2>1, <2>2
<1>10. CopyHeap(h, f, t)'
  BY <1>1, <1>7, <1>8, <1>9 DEF CopyHeap
<1>11. Types'
  <2>1. Tracked' = Tracked
    BY DEF Tracked, WordStored
  <2>2. QED
    BY <1>6, <2>1 DEF Types, TypeOK, countVars, WordStored
<1>12. QED
  BY <1>10, <1>11

(* What Copying says that no stored word changes. *)
LEMMA CopyKept ==
  ASSUME NEW D \in SUBSET Addr, NEW f \in [D -> Addr], Copying(f), NEW h, h = seen,
         NEW t, t \in Seq(CopyRecord), t # <<>>, DistinctSources(t), Mapped(f, t),
         Linked(h, t), CopyRoot(t) = CopyRoot(stack),
         stack' = t, seen' = h, UNCHANGED countVars, CopyHeap(h, f, t)', Types',
         HeapOK(h)
  PROVE  StepInv'
<1>1. CopyStack(h, f, t)
  BY DEF CopyStack
<1>2. CopyCall(h, CopyRoot(t)) /\ CopyMap(h, f, CopyRoot(t))
  BY DEF Copying
<1>3. CopyCounts(h, DOMAIN f)'
  BY DEF Copying, CopyCounts, countVars
<1>4. Copying(f)'
  <2>1. /\ CopyStack(seen', f, stack') /\ CopyCall(seen', CopyRoot(stack'))
        /\ CopyMap(seen', f, CopyRoot(stack'))
    BY <1>1, <1>2
  <2>2. CopyHeap(seen, f, stack)' /\ CopyCounts(seen, DOMAIN f)'
    BY <1>3 DEF CopyHeap, CopyWord, CopyCounts, SameBlock
  <2>3. QED
    BY <2>1, <2>2 DEF Copying
<1>5. ~Idle' /\ HeapOK(seen')
  BY DEF Idle
<1>6. QED
  BY <1>4, <1>5, HeapNow DEF StepInv

LEMMA CopyPlainStep == ASSUME StepInv, CopyPlain PROVE StepInv' /\ seen' = seen
<1>1. /\ ~Idle /\ Top.op = "copy" /\ Top.next < width[Top.src] /\ seen' = seen
      /\ stack' = <<Advance(Top)>> \o Tail(stack)
      /\ UNCHANGED <<tag, size, typeId, width, countVars>>
  BY DEF CopyPlain
<1>2. Types /\ HeapOK(seen)
  BY <1>1, CopyRuns
<1>3. PICK D \in SUBSET Addr : \E f \in [D -> Addr] : Copying(f)
  BY <1>1, CopyRuns
<1>4. PICK f \in [D -> Addr] : Copying(f)
  BY <1>3
<1>5. PICK h, r, q, p : h = seen /\ r = Top /\ q = Tail(stack) /\ p = CopyRoot(stack)
  OBVIOUS
<1>6. CopyAt(f, r, q) /\ r \in CopyRecord /\ q \in Seq(CopyRecord) /\ DOMAIN f = D
  BY <1>4, <1>5, CopyTop DEF CopyAt
<1>7. /\ D \subseteq ClonedIn(h, p) /\ D \subseteq TrackedIn(h)
      /\ \A x \in D : f[x] \in Addr /\ f[x] \notin TrackedIn(h) /\ f[x] \notin D
      /\ \A a \in TrackedIn(h) : SameBlock(h, a) /\ IsTracked(a)
      /\ \A x \in D, k \in Slot :
           IsTracked(h.fields[x][k]) <=> h.fields[x][k] \in TrackedIn(h)
  BY <1>2, <1>4, <1>5, CopyReads
<1>8. PICK x, k : x = r.src /\ k = r.next
  OBVIOUS
<1>9. /\ x \in D /\ r.dst = f[x] /\ k \in Nat /\ width[x] = h.width[x]
      /\ fields[x] = h.fields[x]
  BY <1>6, <1>7, <1>8 DEF CopyAt, CopyRecord, SameBlock
<1>10. k \in Slot
  <2>1. width[x] \in 0 .. MaxFields
    BY <1>2, <1>9 DEF Types, TypeOK
  <2>2. QED
    BY <1>1, <1>5, <1>8, <1>9, <2>1, BoundAssumption DEF Slot
<1>11. PICK w : w = h.fields[x][k]
  OBVIOUS
<1>12. /\ fields' = [fields EXCEPT ![f[x]][k] = CloneIn(h, f, w)]
       /\ IsCloned(h, w) => w \in D
  <2>1. \/ ~IsTracked(w) /\ StoreWord(r, w)
        \/ IsTracked(w) /\ tag[w] \in {"vec", "map"} /\ StoreWord(r, Null)
    BY <1>5, <1>8, <1>9, <1>11 DEF CopyPlain
  <2>2. \A v : StoreWord(r, v) <=> fields' = [fields EXCEPT ![f[x]][k] = v]
    BY <1>8, <1>9 DEF StoreWord
  <2>3. CASE ~IsTracked(w) /\ StoreWord(r, w)
    <3>1. w \notin TrackedIn(h)
      BY <1>7, <1>9, <1>10, <1>11, <2>3
    <3>2. CloneIn(h, f, w) = w /\ ~IsCloned(h, w)
      BY <1>6, <1>7, <3>1 DEF CloneIn, IsCloned
    <3>3. QED
      BY <2>2, <2>3, <3>2
  <2>4. CASE IsTracked(w) /\ tag[w] \in {"vec", "map"} /\ StoreWord(r, Null)
    <3>1. w \in TrackedIn(h)
      BY <1>7, <1>9, <1>10, <1>11, <2>4
    <3>2. h.tag[w] \in {"vec", "map"}
      BY <1>7, <2>4, <3>1 DEF SameBlock
    <3>3. w \notin D
      BY <1>7, <3>2 DEF ClonedIn
    <3>4. CloneIn(h, f, w) = Null /\ ~IsCloned(h, w)
      BY <1>6, <3>1, <3>2, <3>3 DEF CloneIn, IsCloned
    <3>5. QED
      BY <2>2, <2>4, <3>4
  <2>5. QED
    BY <2>1, <2>3, <2>4
<1> DEFINE t == Push(Advance(r), q)
<1>13. stack = Push(r, q)
  BY <1>4, <1>5, TopAndTail DEF Copying, CopyStack, Top
<1>14. DistinctSources(stack) /\ Mapped(f, stack) /\ Linked(h, stack)
  BY <1>4, <1>5 DEF Copying, CopyStack
<1>15. /\ t \in Seq(CopyRecord) /\ t # <<>>
       /\ DistinctSources(t) /\ Mapped(f, t) /\ Linked(h, t)
       /\ CopyRoot(t) = CopyRoot(stack)
       /\ \A y, j : InProgress(t, y, j) <=> InProgress(stack, y, j)
       /\ \A y : \A j \in Int : Copied(stack, y, j) => Copied(t, y, j)
       /\ \A y : \A j \in Int :
            Copied(t, y, j) => Copied(stack, y, j) \/ (y = x /\ j = k)
       /\ Copied(t, x, k)
  BY <1>6, <1>8, <1>13, <1>14, CopyMoved
<1>16. stack' = t
  BY <1>1, <1>5 DEF Push
<1> HIDE DEF t
<1>17. CopyHeap(h, f, t)' /\ Types'
  <2>1. CopyHeap(h, f, stack) /\ \A y, z \in D : f[y] = f[z] => y = z
    BY <1>4, <1>5, <1>6 DEF Copying, CopyMap
  <2>2. Slot \subseteq Int
    BY DEF Slot
  <2>3. WordCopied(h, D, stack, t, x, k)
    BY <1>15, <2>2 DEF WordCopied
  <2>4. WordStored(h, f, x, k)
    BY <1>1, <1>6, <1>11, <1>12 DEF WordStored
  <2>5. QED
    BY <1>2, <1>5, <1>9, <1>10, <2>1, <2>3, <2>4, CopyStore
<1>18. StepInv'
  BY <1>1, <1>2, <1>4, <1>5, <1>15, <1>16, <1>17, CopyKept
<1>19. QED
  BY <1>1, <1>18

(* The clone of x0 is finished; the caller stores it and moves on. *)
LEMMA CopyInnerStep ==
  ASSUME StepInv, CopyReturn, Tail(stack) # <<>>
  PROVE  StepInv' /\ seen' = seen
<1>1. /\ ~Idle /\ Top.op = "copy" /\ Top.next = width[Top.src]
      /\ UNCHANGED <<tag, size, typeId, width, countVars>>
      /\ seen' = IF stack' = <<>> THEN Heap' ELSE seen
  BY DEF CopyReturn, Publish
<1>2. Types /\ HeapOK(seen)
  BY <1>1, CopyRuns
<1>3. PICK D \in SUBSET Addr : \E f \in [D -> Addr] : Copying(f)
  BY <1>1, CopyRuns
<1>4. PICK f \in [D -> Addr] : Copying(f)
  BY <1>3
<1>5. PICK h, r, q, c, u : /\ h = seen /\ r = Top /\ q = Tail(stack)
                           /\ c = Head(q) /\ u = Tail(q)
  OBVIOUS
<1>6. CopyAt(f, r, q) /\ r \in CopyRecord /\ q \in Seq(CopyRecord) /\ DOMAIN f = D
  BY <1>4, <1>5, CopyTop DEF CopyAt
<1>7. c \in CopyRecord /\ u \in Seq(CopyRecord) /\ q = Push(c, u)
  BY <1>5, <1>6, TopAndTail
<1>8. CopyPushed(h, f, q, c, u)
  BY <1>7, CopyPush
<1>9. DistinctSources(q) /\ Mapped(f, q) /\ Linked(h, q)
  BY <1>5, <1>6 DEF CopyAt
<1>10. PICK x, k, x0 : x = c.src /\ k = c.next /\ x0 = r.src
  OBVIOUS
<1>11. /\ x \in D /\ c.dst = f[x] /\ k \in Slot /\ h.fields[x][k] = x0
       /\ x0 \in D /\ r.dst = f[x0] /\ CopyRoot(stack) = CopyRoot(q)
  BY <1>5, <1>6, <1>8, <1>9, <1>10 DEF CopyAt, CopyPushed
<1>12. r.next = h.width[x0] /\ h.width[x0] \in Nat
  <2>1. /\ D \subseteq TrackedIn(h)
        /\ \A a \in TrackedIn(h) : SameBlock(h, a)
    BY <1>2, <1>4, <1>5, CopyReads
  <2>2. r.next \in Nat
    BY <1>6 DEF CopyRecord
  <2>3. QED
    BY <1>1, <1>5, <1>10, <1>11, <2>1, <2>2 DEF SameBlock
<1> DEFINE t == Push(Advance(c), u)
<1>13. /\ t \in Seq(CopyRecord) /\ t # <<>>
       /\ DistinctSources(t) /\ Mapped(f, t) /\ Linked(h, t)
       /\ CopyRoot(t) = CopyRoot(q)
       /\ \A y, j : InProgress(t, y, j) <=> InProgress(q, y, j)
       /\ \A y : \A j \in Int : Copied(q, y, j) => Copied(t, y, j)
       /\ \A y : \A j \in Int :
            Copied(t, y, j) => Copied(q, y, j) \/ (y = x /\ j = k)
       /\ Copied(t, x, k)
  BY <1>7, <1>9, <1>10, CopyMoved
<1>14. /\ stack' = t
       /\ fields' = [fields EXCEPT ![f[x]][k] = f[x0]]
  BY <1>5, <1>10, <1>11 DEF CopyReturn, StoreWord, Push
<1>15. seen' = h
  BY <1>1, <1>5, <1>13, <1>14
<1> HIDE DEF t
<1>16. WordCopied(h, D, stack, t, x, k)
  <2>1. ASSUME NEW y \in D, NEW j \in Slot, y # x \/ j # k
        PROVE  /\ Copied(stack, y, j) => Copied(t, y, j)
               /\ Copied(t, y, j) => Copied(stack, y, j) \/ h.fields[y][j] = Null
               /\ InProgress(stack, y, j) => InProgress(t, y, j)
    <3>1. /\ Copied(stack, y, j) <=> Copied(q, y, j) /\ (x0 = y => j < r.next)
          /\ InProgress(stack, y, j)
               => InProgress(q, y, j) \/ (x = y /\ k = j)
      BY <1>5, <1>6, <1>10 DEF CopyAt
    <3>2. j \in Int
      BY DEF Slot
    <3>3. /\ Copied(q, y, j) => Copied(t, y, j)
          /\ Copied(t, y, j) => Copied(q, y, j)
          /\ InProgress(t, y, j) <=> InProgress(q, y, j)
      BY <1>13, <2>1, <3>2
    <3>4. ASSUME x0 = y, ~(j < r.next) PROVE h.fields[y][j] = Null
      <4>1. j >= h.width[x0]
        BY <1>12, <3>2, <3>4
      <4>2. QED
        BY <1>2, <1>5, <3>4, <4>1 DEF HeapOK, BlockOK
    <3>5. QED
      BY <2>1, <3>1, <3>3, <3>4
  <2>2. QED
    BY <1>13, <2>1 DEF WordCopied
<1>17. WordStored(h, f, x, k)
  <2>1. CloneIn(h, f, h.fields[x][k]) = f[x0]
    BY <1>6, <1>11 DEF CloneIn
  <2>2. QED
    BY <1>1, <1>6, <1>11, <1>14, <2>1 DEF WordStored
<1>18. CopyHeap(h, f, t)' /\ Types'
  <2>1. CopyHeap(h, f, stack) /\ \A y, z \in D : f[y] = f[z] => y = z
    BY <1>4, <1>5, <1>6 DEF Copying, CopyMap
  <2>2. QED
    BY <1>2, <1>5, <1>11, <1>16, <1>17, <2>1, CopyStore
<1>19. CopyRoot(t) = CopyRoot(stack)
  BY <1>11, <1>13
<1>20. StepInv'
  BY <1>1, <1>2, <1>4, <1>5, <1>13, <1>14, <1>15, <1>18, <1>19, CopyKept
<1>21. QED
  BY <1>5, <1>15, <1>20

(* When the outermost activation is done, every string and struct that the *)
(* root reaches has its clone, and every word of the clones is in place.   *)
CopyDone(h, f, p) ==
  /\ DOMAIN f = ClonedIn(h, p)
  /\ \A x \in DOMAIN f, k \in Slot : fields[f[x]][k] = CloneIn(h, f, h.fields[x][k])

LEMMA CopyEnds ==
  ASSUME StepInv, CopyReturn, Tail(stack) = <<>>,
         NEW D \in SUBSET Addr, NEW f \in [D -> Addr], Copying(f),
         NEW p, p = CopyRoot(stack)
  PROVE  CopyDone(seen, f, p)
<1>1. ~Idle /\ Top.op = "copy" /\ Top.next = width[Top.src]
  BY DEF CopyReturn
<1>2. Types /\ HeapOK(seen)
  BY <1>1, CopyRuns
<1>3. PICK h, r, q : h = seen /\ r = Top /\ q = Tail(stack)
  OBVIOUS
<1>4. CopyAt(f, r, q) /\ r \in CopyRecord /\ q = <<>> /\ DOMAIN f = D
  BY <1>3, CopyTop DEF CopyAt
<1>5. /\ D \subseteq ClonedIn(h, p) /\ ClonedIn(h, p) \subseteq ReachIn(h, p)
      /\ ReachIn(h, p) \subseteq TrackedIn(h) /\ p \in TrackedIn(h) /\ p \in D
      /\ \A a \in TrackedIn(h) : SameBlock(h, a)
  BY <1>2, <1>3, CopyReads
<1>6. p = r.src /\ r.next = h.width[p] /\ h.width[p] \in Nat
  <2>1. p = r.src
    BY <1>4 DEF CopyAt
  <2>2. r.next \in Nat
    BY <1>4 DEF CopyRecord
  <2>3. QED
    BY <1>1, <1>3, <1>5, <2>1, <2>2 DEF SameBlock
<1>7. ASSUME NEW x \in D, NEW k \in Slot
      PROVE  /\ fields[f[x]][k] = CloneIn(h, f, h.fields[x][k])
             /\ IsCloned(h, h.fields[x][k]) => h.fields[x][k] \in D
  <2>1. CopyWord(h, f, stack, x, k)
    BY <1>3, <1>4 DEF Copying, CopyHeap
  <2>2. CASE Copied(stack, x, k)
    BY <1>4, <2>1, <2>2 DEF CopyWord
  <2>3. CASE ~Copied(stack, x, k)
    <3>1. Copied(q, x, k)
      BY <1>4 DEF Copied
    <3>2. x = p /\ ~(k < r.next)
      BY <1>4, <1>6, <2>3, <3>1 DEF CopyAt
    <3>3. k >= h.width[p]
      BY <1>6, <3>2 DEF Slot
    <3>4. h.fields[x][k] = Null /\ fields[f[x]][k] = Null
      BY <1>2, <1>3, <2>1, <2>3, <3>2, <3>3 DEF HeapOK, BlockOK, CopyWord
    <3>5. Null \notin D /\ Null \notin TrackedIn(h)
      BY WordAssumption DEF TrackedIn
    <3>6. CloneIn(h, f, Null) = Null /\ ~IsCloned(h, Null)
      BY <1>4, <3>5 DEF CloneIn, IsCloned
    <3>7. QED
      BY <3>4, <3>6
  <2>4. QED
    BY <2>2, <2>3
<1>8. ClonedIn(h, p) \subseteq D
  <2> DEFINE S == D \cup {a \in TrackedIn(h) : ~IsCloned(h, a)}
  <2>1. S \subseteq TrackedIn(h) /\ p \in S
    BY <1>5
  <2>2. ASSUME NEW x \in S, NEW y \in ChildrenIn(h, x) PROVE y \in S
    <3>1. PICK k \in Slot : y \in TrackedIn(h) /\ h.fields[x][k] = y
      BY DEF ChildrenIn
    <3>2. CASE x \in D
      BY <1>7, <3>1, <3>2
    <3>3. CASE x \notin D
      <4>1. h.tag[x] # "struct" /\ x \in Addr
        BY <2>1, <3>3 DEF IsCloned, TrackedIn
      <4>2. h.fields[x] = NoFields
        BY <1>2, <1>3, <4>1 DEF HeapOK, BlockOK
      <4>3. y = Null
        BY <3>1, <4>2 DEF NoFields
      <4>4. QED
        BY <3>1, <4>3, WordAssumption DEF TrackedIn
    <3>4. QED
      BY <3>2, <3>3
  <2>3. ClosedIn(h, S)
    BY <2>2 DEF ClosedIn
  <2>4. ReachIn(h, p) \subseteq S
    <3> HIDE DEF S
    <3>1. QED
      BY <1>5, <2>1, <2>3, LeastIn
  <2>5. QED
    BY <1>5, <2>4 DEF ClonedIn, IsCloned
<1>9. QED
  BY <1>3, <1>4, <1>5, <1>7, <1>8 DEF CopyDone

LEMMA CopyOuterStep ==
  ASSUME StepInv, CopyReturn, Tail(stack) = <<>>
  PROVE  StepInv' /\ Mem!Next
<1>1. /\ ~Idle /\ Top.op = "copy" /\ stack' = <<>> /\ seen' = Heap'
      /\ UNCHANGED <<tag, size, typeId, width, fields, countVars>>
  BY DEF CopyReturn, Publish
<1>2. Types /\ HeapOK(seen)
  BY <1>1, CopyRuns
<1>3. PICK D \in SUBSET Addr : \E f \in [D -> Addr] : Copying(f)
  BY <1>1, CopyRuns
<1>4. PICK f \in [D -> Addr] : Copying(f)
  BY <1>3
<1>5. PICK h, p : h = seen /\ p = CopyRoot(stack)
  OBVIOUS
<1>6. CopyDone(h, f, p) /\ DOMAIN f = D
  BY <1>4, <1>5, CopyEnds
<1>7. /\ p \in TrackedIn(h) /\ p \in D /\ TreeIn(h, p) /\ D = ClonedIn(h, p)
      /\ \A x \in D : f[x] \in Addr /\ f[x] \notin TrackedIn(h)
      /\ \A a \in Addr : (\A x \in D : f[x] # a) => SameBlock(h, a)
  BY <1>2, <1>4, <1>5, <1>6, CopyReads DEF CopyDone
<1>8. \A x, y \in D : f[x] = f[y] => x = y
  BY <1>4, <1>6 DEF Copying, CopyMap
<1>9. \A x \in D : /\ tag[f[x]] = h.tag[x] /\ size[f[x]] = h.size[x]
                   /\ typeId[f[x]] = h.typeId[x] /\ width[f[x]] = h.width[x]
                   /\ \A k \in Slot : fields[f[x]][k] = CloneIn(h, f, h.fields[x][k])
  BY <1>4, <1>5, <1>6 DEF Copying, CopyHeap, CopyDone
<1>10. Types'
  BY <1>1, <1>2 DEF Types, TypeOK, Tracked, BytesOf, countVars
<1>11. Blocks'
  <2>1. ASSUME NEW a \in Addr, \A x \in D : f[x] # a PROVE BlockNow(a)
    BY <1>2, <1>5, <1>7, <2>1 DEF HeapOK, BlockOK, SameBlock, BlockNow
  <2>2. ASSUME NEW x \in D PROVE BlockNow(f[x])
    <3>1. BlockOK(h, x)
      BY <1>2, <1>5 DEF HeapOK
    <3>2. CloneIn(h, f, Null) = Null
      BY <1>6, WordAssumption DEF CloneIn, TrackedIn
    <3>3. \A k \in Slot : k >= width[f[x]] => fields[f[x]][k] = Null
      BY <1>9, <3>1, <3>2 DEF BlockOK
    <3>4. tag[f[x]] # "struct" => width[f[x]] = 0 /\ fields[f[x]] = NoFields
      <4>1. ASSUME tag[f[x]] # "struct" PROVE width[f[x]] = 0 /\ fields[f[x]] = NoFields
        <5>1. width[f[x]] = 0
          BY <1>9, <3>1, <4>1 DEF BlockOK
        <5>2. \A k \in Slot : fields[f[x]][k] = NoFields[k]
          BY <3>3, <5>1 DEF Slot, NoFields
        <5>3. fields[f[x]] \in [Slot -> Word] /\ NoFields \in [Slot -> Word]
          BY <1>2 DEF Types, TypeOK, NoFields, Word
        <5>4. fields[f[x]] = NoFields
          BY <5>2, <5>3
        <5>5. QED
          BY <5>1, <5>4
      <4>2. QED
        BY <4>1
    <3>5. /\ typeId[f[x]] # NoTypeId <=> tag[f[x]] = "struct"
          /\ tag[f[x]] = "struct" => size[f[x]] = StructSize(width[f[x]])
      BY <1>9, <3>1 DEF BlockOK
    <3>6. QED
      BY <3>3, <3>4, <3>5 DEF BlockNow
  <2>3. ASSUME NEW a \in Addr PROVE BlockNow(a)
    BY <2>1, <2>2
  <2>4. QED
    BY <1>1, <2>3 DEF Blocks, BlockNow
<1>12. StepInv'
  BY <1>1, <1>10, <1>11, HeapNow DEF StepInv, HeapOK, Idle
<1>13. Mem!CopyBlocks(p, f)
  <2> DEFINE N == {f[s] : s \in DOMAIN f}
             src(a) == CHOOSE s \in DOMAIN f : f[s] = a
  <2>1. \A a \in Addr : a \in N => src(a) \in D /\ f[src(a)] = a
    BY <1>6
  <2>2. \A a \in Addr : a \notin N => SameBlock(h, a)
    BY <1>6, <1>7
  <2> HIDE DEF N, src
  <2>3. \A w : Mem!CloneWord(f, w) = CloneIn(h, f, w)
    BY <1>5, MemIsSeen DEF Mem!CloneWord, CloneIn
  <2>4. Mem!Slot = Slot
    BY DEF Mem!Slot, Slot
  <2>5. /\ seen'.tag = tag /\ seen'.size = size /\ seen'.typeId = typeId
        /\ seen'.width = width /\ seen'.fields = fields /\ seen'.allocs = allocs
         /\ seen'.frees = frees /\ seen'.live = live /\ seen'.kept = kept
         /\ seen'.keptBytes = keptBytes
    <3>1. HeapIs(seen)'
      BY <1>1, HeapIsHeap
    <3>2. QED
      BY <1>1, <3>1 DEF HeapIs, countVars
  <2>6. seen'.tag = [a \in Addr |-> IF a \in N THEN seen.tag[src(a)] ELSE seen.tag[a]]
    <3>1. \A a \in Addr : tag[a] = IF a \in N THEN h.tag[src(a)] ELSE h.tag[a]
      BY <1>9, <2>1, <2>2 DEF SameBlock
    <3>2. tag \in [Addr -> Tag \cup {"none"}]
      BY <1>2 DEF Types, TypeOK
    <3>3. QED
      BY <1>5, <2>5, <3>1, <3>2
  <2>7. seen'.size = [a \in Addr |-> IF a \in N THEN seen.size[src(a)] ELSE seen.size[a]]
    <3>1. \A a \in Addr : size[a] = IF a \in N THEN h.size[src(a)] ELSE h.size[a]
      BY <1>9, <2>1, <2>2 DEF SameBlock
    <3>2. size \in [Addr -> Nat]
      BY <1>2 DEF Types, TypeOK
    <3>3. QED
      BY <1>5, <2>5, <3>1, <3>2
  <2>8. seen'.typeId = [a \in Addr |-> IF a \in N THEN seen.typeId[src(a)] ELSE seen.typeId[a]]
    <3>1. \A a \in Addr : typeId[a] = IF a \in N THEN h.typeId[src(a)] ELSE h.typeId[a]
      BY <1>9, <2>1, <2>2 DEF SameBlock
    <3>2. typeId \in [Addr -> TypeIds \cup {NoTypeId}]
      BY <1>2 DEF Types, TypeOK
    <3>3. QED
      BY <1>5, <2>5, <3>1, <3>2
  <2>9. seen'.width = [a \in Addr |-> IF a \in N THEN seen.width[src(a)] ELSE seen.width[a]]
    <3>1. \A a \in Addr : width[a] = IF a \in N THEN h.width[src(a)] ELSE h.width[a]
      BY <1>9, <2>1, <2>2 DEF SameBlock
    <3>2. width \in [Addr -> 0 .. MaxFields]
      BY <1>2 DEF Types, TypeOK
    <3>3. QED
      BY <1>5, <2>5, <3>1, <3>2
  <2>10. seen'.fields =
          [a \in Addr |->
             IF a \in N THEN [i \in Mem!Slot |-> Mem!CloneWord(f, seen.fields[src(a)][i])]
             ELSE seen.fields[a]]
    <3>1. fields \in [Addr -> [Slot -> Word]]
      BY <1>2 DEF Types, TypeOK
    <3>2. ASSUME NEW a \in Addr, a \in N
          PROVE  fields[a] = [i \in Mem!Slot |-> Mem!CloneWord(f, seen.fields[src(a)][i])]
      <4>1. \A i \in Mem!Slot : fields[a][i] = Mem!CloneWord(f, seen.fields[src(a)][i])
        BY <1>5, <1>9, <2>1, <2>3, <2>4, <3>2
      <4>2. fields[a] \in [Slot -> Word]
        BY <3>1
      <4>3. QED
        BY <2>4, <4>1, <4>2
    <3>3. \A a \in Addr : a \notin N => fields[a] = h.fields[a]
      BY <2>2 DEF SameBlock
    <3>4. QED
      BY <1>5, <2>5, <3>1, <3>2, <3>3
  <2>11. /\ frees = h.frees /\ kept = h.kept /\ keptBytes = h.keptBytes
        /\ allocs = h.allocs + Cardinality(D)
        /\ live = h.live + Cardinality(BytesOf(h.size, D))
    BY <1>4, <1>5, <1>6 DEF Copying, CopyCounts
  <2>12. Mem!Bytes(D) = Cardinality(BytesOf(h.size, D)) /\ Mem!Cardinality(D) = Cardinality(D)
    BY <1>5, SameCardinality DEF Mem!Bytes, Mem!BytesOf, BytesOf
  <2>13. QED
    BY <1>5, <1>6, <2>5, <2>6, <2>7, <2>8, <2>9, <2>10, <2>11, <2>12
       DEF Mem!CopyBlocks, N, src
<1>14. Mem!Copy(p, f)
  <2>1. seen.tag[p] \in {"string", "struct"}
    BY <1>5, <1>7 DEF ClonedIn
  <2>2. h.allocs + Cardinality(D) <= MaxAllocs
    BY <1>4, <1>5, <1>7 DEF Copying, CopyCall
  <2>3. Mem!IsTree(p) /\ Mem!Cloned(p) = D /\ Mem!Tracked = TrackedIn(h)
    BY <1>5, <1>7, MemIsSeen
  <2>4. f \in [D -> Addr \ TrackedIn(h)]
    BY <1>7
  <2>5. QED
    BY <1>5, <1>8, <1>13, <2>1, <2>2, <2>3, <2>4, SameCardinality DEF Mem!Copy
<1>15. Mem!Clone
  <2>1. p \in Mem!Tracked /\ f \in [Mem!Cloned(p) -> Addr \ Mem!Tracked]
    BY <1>5, <1>7, MemIsSeen
  <2>2. QED
    BY <1>14, <2>1 DEF Mem!Clone
<1>16. QED
  BY <1>12, <1>15 DEF Mem!Next

(* A string or struct s is entered: d is its clone, with no word yet. *)
Entered(s, d) ==
  /\ d \notin Tracked
  /\ tag'[d] = tag[s] /\ size'[d] = size[s] /\ typeId'[d] = typeId[s]
  /\ width'[d] = width[s] /\ \A k \in Slot : fields'[d][k] = Null
  /\ \A a \in Addr : a # d => /\ tag'[a] = tag[a] /\ size'[a] = size[a]
                              /\ typeId'[a] = typeId[a] /\ width'[a] = width[a]
                              /\ fields'[a] = fields[a]
  /\ allocs' = allocs + 1 /\ live' = live + size[s]
  /\ frees' = frees /\ kept' = kept /\ keptBytes' = keptBytes

LEMMA CopyEntryDoes ==
  ASSUME Types, NEW s \in Tracked, NEW d \in Addr, CopyEntry(s, d),
         BlockNow(s), d \notin Tracked => BlockNow(d)
  PROVE  Entered(s, d) /\ Types' /\ tag[s] \in {"string", "struct"}
<1>1. s \in Addr /\ size[s] \in Nat /\ width[s] \in 0 .. MaxFields
  BY DEF Types, TypeOK, Tracked
<1>2. NoFields \in [Slot -> Word] /\ \A k \in Slot : NoFields[k] = Null
  BY DEF NoFields, Word
<1>3. CASE tag[s] = "string" /\ StringNew(d, size[s] - 1)
  <2>1. (size[s] - 1) + 1 = size[s]
    BY <1>1
  <2>2. Register(d, "string", size[s]) /\ UNCHANGED <<typeId, width, fields>>
    BY <1>3, <2>1 DEF StringNew
  <2>3. Types' /\ d \notin Tracked
    BY <1>1, <2>2, RegisterTypes DEF Tag, Types, TypeOK
  <2>4. typeId[s] = NoTypeId /\ width[s] = 0
    BY <1>1, <1>3 DEF BlockNow, Types, TypeOK
  <2>5. tag[d] = "none"
    BY <2>3 DEF Tracked
  <2>6. typeId[d] = NoTypeId /\ width[d] = 0 /\ fields[d] = NoFields
    BY <2>3, <2>5 DEF BlockNow
  <2>7. /\ tag'[d] = "string" /\ size'[d] = size[s]
        /\ \A a \in Addr : a # d => tag'[a] = tag[a] /\ size'[a] = size[a]
        /\ allocs' = allocs + 1 /\ live' = live + size[s]
        /\ frees' = frees /\ kept' = kept /\ keptBytes' = keptBytes
    BY <2>2 DEF Register, Types, TypeOK
  <2>8. QED
    BY <1>2, <1>3, <2>2, <2>3, <2>4, <2>6, <2>7 DEF Entered
<1>4. CASE tag[s] = "struct" /\ StructNew(d, width[s], GetTypeId(s))
  <2>1. GetTypeId(s) = typeId[s] /\ StructSize(width[s]) = size[s] /\ typeId[s] # NoTypeId
    BY <1>1, <1>4 DEF BlockNow, GetTypeId
  <2>2. /\ Register(d, "struct", size[s])
        /\ typeId' = [typeId EXCEPT ![d] = typeId[s]]
        /\ width' = [width EXCEPT ![d] = width[s]]
        /\ fields' = [fields EXCEPT ![d] = NoFields]
    BY <1>4, <2>1 DEF StructNew
  <2>3. /\ typeId' \in [Addr -> TypeIds \cup {NoTypeId}]
        /\ width' \in [Addr -> 0 .. MaxFields]
        /\ fields' \in [Addr -> [Slot -> Word]]
    BY <1>1, <1>2, <2>2 DEF Types, TypeOK
  <2>4. Types' /\ d \notin Tracked
    BY <1>1, <2>2, <2>3, RegisterTypes DEF Tag
  <2>5. /\ typeId'[d] = typeId[s] /\ width'[d] = width[s] /\ fields'[d] = NoFields
        /\ \A a \in Addr : a # d =>
             typeId'[a] = typeId[a] /\ width'[a] = width[a] /\ fields'[a] = fields[a]
    BY <2>2 DEF Types, TypeOK
  <2>6. /\ tag'[d] = "struct" /\ size'[d] = size[s]
        /\ \A a \in Addr : a # d => tag'[a] = tag[a] /\ size'[a] = size[a]
        /\ allocs' = allocs + 1 /\ live' = live + size[s]
        /\ frees' = frees /\ kept' = kept /\ keptBytes' = keptBytes
    BY <2>2 DEF Register, Types, TypeOK
  <2>7. QED
    BY <1>2, <1>4, <2>4, <2>5, <2>6 DEF Entered
<1>5. QED
  BY <1>3, <1>4 DEF CopyEntry

(* The stack t has w on top of s, and no other block is where it was not. *)
Entering(h, D, s, t, w) ==
  /\ \A k \in Slot : ~Copied(t, w, k) /\ h.fields[w][k] \notin D \cup {w}
  /\ \A x \in D, k \in Slot :
       /\ Copied(t, x, k) <=> Copied(s, x, k)
       /\ InProgress(s, x, k) => InProgress(t, x, k)
       /\ h.fields[x][k] = w => ~Copied(s, x, k) /\ InProgress(t, x, k)

Extends(e, f, D, w, d) ==
  e \in [D \cup {w} -> Addr] /\ e[w] = d /\ \A x \in D : e[x] = f[x]

LEMMA CopyGrows ==
  ASSUME Types, NEW h, HeapOK(h), NEW D \in SUBSET TrackedIn(h), NEW f \in [D -> Addr],
         CopyHeap(h, f, stack), CopyCounts(h, D),
         \A x \in D : f[x] \notin TrackedIn(h),
         NEW w \in TrackedIn(h), w \notin D, NEW d \in Addr, CopyEntry(w, d),
         NEW t, Entering(h, D, stack, t, w), NEW e, Extends(e, f, D, w, d)
  PROVE  /\ CopyHeap(h, e, t)' /\ CopyCounts(h, D \cup {w})' /\ Types'
         /\ d \notin TrackedIn(h) /\ \A x \in D : f[x] # d
         /\ h.tag[w] \in {"string", "struct"}
<1>1. DOMAIN f = D /\ DOMAIN e = D \cup {w} /\ w \in Addr /\ D \subseteq Addr
  BY DEF Extends, TrackedIn
<1>2. \A a \in Addr : (\A x \in D : f[x] # a) => SameBlock(h, a)
  BY <1>1 DEF CopyHeap
<1>3. \A x \in D : /\ tag[f[x]] = h.tag[x] /\ size[f[x]] = h.size[x]
                   /\ typeId[f[x]] = h.typeId[x] /\ width[f[x]] = h.width[x]
                   /\ \A k \in Slot : CopyWord(h, f, stack, x, k)
  BY <1>1 DEF CopyHeap
<1>4. \A a \in TrackedIn(h) : SameBlock(h, a) /\ a \in Tracked
  BY <1>2 DEF SameBlock, TrackedIn, Tracked
<1>5. ASSUME NEW a \in Addr, SameBlock(h, a) PROVE BlockNow(a)
  BY <1>5 DEF HeapOK, BlockOK, SameBlock, BlockNow
<1>6. \A x \in D : f[x] \in Tracked
  BY <1>3 DEF TrackedIn, Tracked
<1>7. d \notin Tracked => SameBlock(h, d)
  BY <1>2, <1>6
<1>8. Entered(w, d) /\ Types' /\ tag[w] \in {"string", "struct"}
  BY <1>1, <1>4, <1>5, <1>7, CopyEntryDoes
<1>9. d \notin TrackedIn(h) /\ (\A x \in D : f[x] # d) /\ h.tag[w] \in {"string", "struct"}
  BY <1>4, <1>6, <1>8 DEF Entered, SameBlock
<1>10. ASSUME NEW a \in Addr, \A x \in D \cup {w} : e[x] # a PROVE SameBlock(h, a)'
  <2>1. SameBlock(h, a) /\ a # d
    BY <1>2, <1>10 DEF Extends
  <2>2. QED
    BY <1>8, <2>1 DEF SameBlock, Entered
<1>11. ASSUME NEW x \in D, NEW k \in Slot
       PROVE  /\ tag'[e[x]] = h.tag[x] /\ size'[e[x]] = h.size[x]
              /\ typeId'[e[x]] = h.typeId[x] /\ width'[e[x]] = h.width[x]
              /\ CopyWord(h, e, t, x, k)'
  <2>1. e[x] = f[x] /\ f[x] \in Addr /\ f[x] # d
    BY <1>9 DEF Extends
  <2>2. /\ tag'[e[x]] = h.tag[x] /\ size'[e[x]] = h.size[x]
        /\ typeId'[e[x]] = h.typeId[x] /\ width'[e[x]] = h.width[x]
        /\ fields'[e[x]] = fields[f[x]]
    BY <1>3, <1>8, <2>1 DEF Entered
  <2>3. CopyWord(h, f, stack, x, k)
    BY <1>3
  <2>4. /\ Copied(t, x, k) <=> Copied(stack, x, k)
        /\ InProgress(stack, x, k) => InProgress(t, x, k)
        /\ h.fields[x][k] = w => ~Copied(stack, x, k) /\ InProgress(t, x, k)
    BY DEF Entering
  <2>5. CASE Copied(stack, x, k)
    <3>1. h.fields[x][k] # w
      BY <2>4, <2>5
    <3>2. CloneIn(h, e, h.fields[x][k]) = CloneIn(h, f, h.fields[x][k])
      BY <1>1, <3>1 DEF CloneIn, Extends
    <3>3. fields'[e[x]][k] = CloneIn(h, e, h.fields[x][k])
      BY <2>2, <2>3, <2>5, <3>2 DEF CopyWord
    <3>4. IsCloned(h, h.fields[x][k]) => h.fields[x][k] \in DOMAIN e
      BY <1>1, <2>3, <2>5 DEF CopyWord
    <3>5. QED
      BY <2>2, <2>4, <2>5, <3>3, <3>4 DEF CopyWord
  <2>6. CASE ~Copied(stack, x, k)
    <3>1. fields'[e[x]][k] = Null
      BY <2>2, <2>3, <2>6 DEF CopyWord
    <3>2. h.fields[x][k] \in DOMAIN e => InProgress(t, x, k)
      BY <1>1, <2>3, <2>4, <2>6 DEF CopyWord
    <3>3. QED
      BY <2>2, <2>4, <2>6, <3>1, <3>2 DEF CopyWord
  <2>7. QED
    BY <2>5, <2>6
<1>12. ASSUME NEW k \in Slot
       PROVE  /\ tag'[e[w]] = h.tag[w] /\ size'[e[w]] = h.size[w]
              /\ typeId'[e[w]] = h.typeId[w] /\ width'[e[w]] = h.width[w]
              /\ CopyWord(h, e, t, w, k)'
  <2>1. SameBlock(h, w) /\ e[w] = d
    BY <1>4 DEF Extends
  <2>2. /\ tag'[e[w]] = h.tag[w] /\ size'[e[w]] = h.size[w]
        /\ typeId'[e[w]] = h.typeId[w] /\ width'[e[w]] = h.width[w]
        /\ fields'[e[w]][k] = Null
    BY <1>8, <2>1 DEF Entered, SameBlock
  <2>3. ~Copied(t, w, k) /\ h.fields[w][k] \notin DOMAIN e
    BY <1>1 DEF Entering
  <2>4. QED
    BY <2>2, <2>3 DEF CopyWord
<1>13. /\ tag'[e[w]] = h.tag[w] /\ size'[e[w]] = h.size[w]
       /\ typeId'[e[w]] = h.typeId[w] /\ width'[e[w]] = h.width[w]
  BY <1>4, <1>8 DEF Extends, Entered, SameBlock
<1>14. \A x \in D : /\ tag'[e[x]] = h.tag[x] /\ size'[e[x]] = h.size[x]
                    /\ typeId'[e[x]] = h.typeId[x] /\ width'[e[x]] = h.width[x]
  BY <1>3, <1>8, <1>9 DEF Extends, Entered
<1>15. CopyHeap(h, e, t)'
  BY <1>1, <1>10, <1>11, <1>12, <1>13, <1>14 DEF CopyHeap
<1>16. CopyCounts(h, D \cup {w})'
  <2> DEFINE n == h.size[w]
  <2>1. IsFiniteSet(D)
    BY <1>1, AddrAssumption, FS_Subset
  <2>2. Cardinality(D \cup {w}) = Cardinality(D) + 1 /\ Cardinality(D) \in Nat
    BY <2>1, FS_AddElement, FS_CardinalityType
  <2>3. IsFiniteSet(BytesOf(h.size, D))
    <3>1. BytesOf(h.size, D) \subseteq BytesOf(h.size, TrackedIn(h))
      BY DEF BytesOf
    <3>2. IsFiniteSet(BytesOf(h.size, TrackedIn(h)))
      BY DEF HeapOK, TypedHeap
    <3>3. QED
      BY <3>1, <3>2, FS_Subset
  <2>4. n \in Nat
    BY <1>1 DEF HeapOK, TypedHeap
  <2>5. /\ Cardinality(BytesOf(h.size, D \cup {w})) = Cardinality(BytesOf(h.size, D)) + n
        /\ Cardinality(BytesOf(h.size, D)) \in Nat
    BY <2>3, <2>4, BytesAdd
  <2>6. PICK c1, c2, m1, m2 : /\ c1 = Cardinality(D) /\ c2 = Cardinality(D \cup {w})
                              /\ m1 = Cardinality(BytesOf(h.size, D))
                              /\ m2 = Cardinality(BytesOf(h.size, D \cup {w}))
    OBVIOUS
  <2>7. c1 \in Nat /\ c2 = c1 + 1 /\ m1 \in Nat /\ m2 = m1 + n
    BY <2>2, <2>5, <2>6
  <2>8. PICK x \in Nat, y \in Int : x = h.allocs /\ y = h.live
    BY DEF HeapOK, TypedHeap
  <2>9. allocs = x + c1 /\ live = y + m1
    BY <2>6, <2>8 DEF CopyCounts
  <2> HIDE DEF n
  <2>10. allocs' = (x + c1) + 1 /\ live' = (y + m1) + n
    <3>1. size[w] = n
      BY <1>4 DEF SameBlock, n
    <3>2. QED
      BY <1>8, <2>9, <3>1 DEF Entered
  <2>11. (x + c1) + 1 = x + c2 /\ (y + m1) + n = y + m2
    BY <2>4, <2>7
  <2>12. frees' = h.frees /\ kept' = h.kept /\ keptBytes' = h.keptBytes
    BY <1>8 DEF Entered, CopyCounts
  <2>13. QED
    BY <2>6, <2>8, <2>10, <2>11, <2>12 DEF CopyCounts
<1>17. QED
  BY <1>8, <1>9, <1>15, <1>16

(* What the copy in progress is known by, at the next step. *)
LEMMA CopyGoesOn ==
  ASSUME NEW h, HeapOK(h), NEW D \in SUBSET Addr, NEW e \in [D -> Addr],
         NEW t, CopyStack(h, e, t), CopyCall(h, CopyRoot(t)), CopyMap(h, e, CopyRoot(t)),
         CopyHeap(h, e, t)', CopyCounts(h, D)', Types', stack' = t, seen' = h
  PROVE  StepInv'
<1>1. DOMAIN e = D /\ t # <<>>
  BY DEF CopyStack
<1>2. Copying(e)'
  <2>1. /\ CopyStack(seen', e, stack') /\ CopyCall(seen', CopyRoot(stack'))
        /\ CopyMap(seen', e, CopyRoot(stack'))
    OBVIOUS
  <2>2. CopyHeap(seen, e, stack)' /\ CopyCounts(seen, DOMAIN e)'
    BY <1>1 DEF CopyHeap, CopyWord, CopyCounts, SameBlock
  <2>3. QED
    BY <2>1, <2>2 DEF Copying
<1>3. ~Idle' /\ HeapOK(seen')
  BY <1>1 DEF Idle
<1>4. QED
  BY <1>2, <1>3, HeapNow DEF StepInv

(* Between two calls, what RocaMem computes is what callers can compute.   *)
LEMMA NowIs ==
  ASSUME NEW h, HeapIs(h)
  PROVE  /\ Tracked = TrackedIn(h)
         /\ \A p : Reach(p) = ReachIn(h, p)
         /\ \A p : Cloned(p) = ClonedIn(h, p)
         /\ \A p : IsTree(p) <=> TreeIn(h, p)
<1>1. Tracked = TrackedIn(h) /\ fields = h.fields /\ tag = h.tag
  BY DEF HeapIs, Tracked, TrackedIn
<1>2. \A x : Children(x) = ChildrenIn(h, x)
  BY <1>1 DEF Children, ChildrenIn
<1>3. \A S : ClosedUnderChildren(S) <=> ClosedIn(h, S)
  BY <1>2 DEF ClosedUnderChildren, ClosedIn
<1>4. \A p : Reach(p) = ReachIn(h, p)
  BY <1>1, <1>3 DEF Reach, ReachIn
<1>5. \A p : Cloned(p) = ClonedIn(h, p)
  BY <1>1, <1>4 DEF Cloned, ClonedIn
<1>6. \A p : IsTree(p) <=> TreeIn(h, p)
  BY <1>1, <1>4 DEF IsTree, TreeIn
<1>7. QED
  BY <1>1, <1>4, <1>5, <1>6

LEMMA NewCopyFrame ==
  ASSUME NEW s \in Addr, NEW d \in Addr
  PROVE  /\ CopyFrame(s, d) \in CopyRecord /\ CopyFrame(s, d).src = s
         /\ CopyFrame(s, d).dst = d /\ CopyFrame(s, d).next = 0
  BY DEF CopyFrame, CopyRecord

LEMMA OneCopyFrame ==
  ASSUME NEW h, NEW f, NEW r \in CopyRecord
  PROVE  /\ Push(r, <<>>) \in Seq(CopyRecord) /\ Push(r, <<>>) # <<>>
         /\ DistinctSources(Push(r, <<>>)) /\ Linked(h, Push(r, <<>>))
         /\ Mapped(f, Push(r, <<>>)) <=> r.src \in DOMAIN f /\ r.dst = f[r.src]
         /\ CopyRoot(Push(r, <<>>)) = r.src
         /\ \A x, k : Copied(Push(r, <<>>), x, k) <=> (r.src = x => k < r.next)
<1>1. <<>> \in Seq(CopyRecord) /\ Len(<<>>) = 0
  OBVIOUS
<1>2. /\ DistinctSources(<<>>) /\ Mapped(f, <<>>) /\ Linked(h, <<>>)
      /\ \A x, k : Copied(<<>>, x, k)
      /\ \A i \in 1 .. Len(<<>>) : <<>>[i].src # r.src
  BY <1>1 DEF DistinctSources, Mapped, Linked, Copied
<1>3. Push(r, <<>>) \in Seq(CopyRecord) /\ Push(r, <<>>) # <<>>
  BY <1>1, PushOnTop
<1>4. CopyPushed(h, f, Push(r, <<>>), r, <<>>)
  BY <1>1, CopyPush
<1>5. QED
  BY <1>2, <1>3, <1>4 DEF CopyPushed

LEMMA BeginCopyStep == ASSUME StepInv, BeginCopy PROVE StepInv' /\ seen' = seen
<1>1. PICK s \in Tracked, d \in Addr :
        /\ IsTree(s) /\ allocs + Cardinality(Cloned(s)) <= MaxAllocs
        /\ CopyEntry(s, d) /\ stack' = <<CopyFrame(s, d)>>
  BY DEF BeginCopy
<1>2. Idle /\ seen' = seen
  BY DEF BeginCopy
<1>3. HeapIs(seen) /\ Types /\ Blocks /\ HeapOK(seen) /\ s \in Addr
  BY <1>2, IdleHeap DEF StepInv, Tracked
<1>4. PICK h : h = seen
  OBVIOUS
<1>5. /\ HeapIs(h) /\ HeapOK(h) /\ s \in TrackedIn(h) /\ TreeIn(h, s)
      /\ h.allocs + Cardinality(ClonedIn(h, s)) <= MaxAllocs
  BY <1>1, <1>3, <1>4, NowIs DEF HeapIs
<1>6. PICK r \in CopyRecord : /\ r.src = s /\ r.dst = d /\ r.next = 0
                              /\ stack' = <<r>>
  BY <1>1, <1>3, NewCopyFrame
<1> DEFINE t == Push(r, <<>>)
           e == [x \in {} \cup {s} |-> d]
           f == [x \in {} |-> d]
<1>7. stack' = t
  BY <1>6 DEF Push
<1>8. /\ t \in Seq(CopyRecord) /\ t # <<>>
      /\ DistinctSources(t) /\ Linked(h, t)
      /\ Mapped(e, t) <=> r.src \in DOMAIN e /\ r.dst = e[r.src]
      /\ CopyRoot(t) = r.src
      /\ \A x, k : Copied(t, x, k) <=> (r.src = x => k < r.next)
  BY <1>6, OneCopyFrame
<1>9. /\ e \in [{s} -> Addr] /\ DOMAIN e = {s} /\ e[s] = d
      /\ Extends(e, f, {}, s, d) /\ f \in [{} -> Addr] /\ DOMAIN f = {}
  BY <1>1, <1>3 DEF Extends
<1> HIDE DEF t, e, f
<1>10. Entering(h, {}, stack, t, s)
  <2>1. \A k \in Slot : ~(k < 0)
    BY DEF Slot
  <2>2. ASSUME NEW k \in Slot PROVE h.fields[s][k] # s
    <3>1. s \in ReachIn(h, s)
      BY <1>5, LeastIn
    <3>2. QED
      BY <1>3, <1>5, <3>1 DEF TreeIn
  <2>3. QED
    BY <1>6, <1>8, <2>1, <2>2 DEF Entering
<1>11. CopyHeap(h, f, stack)
  BY <1>5, <1>9 DEF CopyHeap, HeapIs, SameBlock
<1>12. CopyCounts(h, {})
  <2>1. BytesOf(h.size, {}) = {} /\ Cardinality({}) = 0
    BY FS_EmptySet DEF BytesOf
  <2>2. /\ allocs = h.allocs /\ kept = h.kept /\ keptBytes = h.keptBytes
        /\ frees = h.frees /\ live = h.live /\ allocs \in Nat /\ live \in Int
    BY <1>3, <1>5 DEF HeapIs, Types, TypeOK
  <2>3. Cardinality(BytesOf(h.size, {})) = 0
    BY <2>1
  <2>4. allocs = h.allocs + 0 /\ live = h.live + 0
    BY <2>2
  <2>5. QED
    BY <2>1, <2>2, <2>3, <2>4 DEF CopyCounts
<1>13. /\ CopyHeap(h, e, t)' /\ CopyCounts(h, {} \cup {s})' /\ Types'
       /\ d \notin TrackedIn(h) /\ h.tag[s] \in {"string", "struct"}
  <2>1. {} \in SUBSET TrackedIn(h) /\ s \notin {} /\ \A x \in {} : f[x] \notin TrackedIn(h)
    OBVIOUS
  <2>2. QED
    BY <1>1, <1>3, <1>5, <1>9, <1>10, <1>11, <1>12, <2>1, CopyGrows
<1>14. CopyMap(h, e, s)
  <2>1. s \in ClonedIn(h, s)
    BY <1>5, <1>13, LeastIn DEF ClonedIn
  <2>2. QED
    BY <1>1, <1>9, <1>13, <2>1 DEF CopyMap
<1>15. CopyStack(h, e, t) /\ CopyRoot(t) = s
  BY <1>6, <1>8, <1>9 DEF CopyStack
<1>16. CopyCall(h, s)
  BY <1>5 DEF CopyCall
<1>17. StepInv'
  <2>1. {} \cup {s} = {s} /\ {s} \in SUBSET Addr
    BY <1>3
  <2>2. CopyCounts(h, {s})'
    BY <1>13, <2>1
  <2>3. QED
    BY <1>2, <1>4, <1>5, <1>7, <1>9, <1>13, <1>14, <1>15, <1>16, <2>1, <2>2, CopyGoesOn
<1>18. QED
  BY <1>2, <1>17

(* No block of the copy so far refers to w, but the running one does, at   *)
(* the slot it has reached: in a tree each block has one reference.        *)
LEMMA OneReference ==
  ASSUME NEW h, NEW p, TreeIn(h, p), NEW D, D \subseteq ReachIn(h, p), p \in D,
         D \subseteq Addr,
         \A x \in D \ {p} : \E y \in D, k \in Slot : h.fields[y][k] = x,
         NEW x0 \in D, NEW k0 \in Slot, NEW w \in ReachIn(h, p), w \notin D, w \in Addr,
         h.fields[x0][k0] = w
  PROVE  /\ \A x \in D, k \in Slot : h.fields[x][k] = w => x = x0 /\ k = k0
         /\ \A k \in Slot : h.fields[w][k] \notin D \cup {w}
<1>1. \A x \in D, k \in Slot : h.fields[x][k] = w => x = x0 /\ k = k0
  BY DEF TreeIn
<1>2. ASSUME NEW k \in Slot, h.fields[w][k] = w PROVE FALSE
  <2>1. w = x0
    BY <1>2 DEF TreeIn
  <2>2. QED
    BY <2>1
<1>3. ASSUME NEW k \in Slot, NEW x \in D, h.fields[w][k] = x PROVE FALSE
  <2>1. x # p
    BY <1>3 DEF TreeIn
  <2>2. PICK y \in D, j \in Slot : h.fields[y][j] = x
    BY <1>3, <2>1
  <2>3. w = y
    BY <1>3, <2>2 DEF TreeIn
  <2>4. QED
    BY <2>2, <2>3
<1>4. QED
  BY <1>1, <1>2, <1>3

LEMMA CopyRecurseStep == ASSUME StepInv, CopyRecurse PROVE StepInv' /\ seen' = seen
<1>1. ~Idle /\ Top.op = "copy" /\ Top.next < width[Top.src] /\ seen' = seen
  BY DEF CopyRecurse
<1>2. Types /\ HeapOK(seen)
  BY <1>1, CopyRuns
<1>3. PICK D \in SUBSET Addr : \E f \in [D -> Addr] : Copying(f)
  BY <1>1, CopyRuns
<1>4. PICK f \in [D -> Addr] : Copying(f)
  BY <1>3
<1>5. PICK h, s, r, q, p : /\ h = seen /\ s = stack /\ r = Top /\ q = Tail(stack)
                           /\ p = CopyRoot(stack)
  OBVIOUS
<1>6. CopyAt(f, r, q) /\ r \in CopyRecord /\ q \in Seq(CopyRecord) /\ DOMAIN f = D
  BY <1>4, <1>5, CopyTop DEF CopyAt
<1>7. /\ D \subseteq ClonedIn(h, p) /\ ClonedIn(h, p) \subseteq ReachIn(h, p)
      /\ ReachIn(h, p) \subseteq TrackedIn(h) /\ p \in TrackedIn(h) /\ p \in D
      /\ TreeIn(h, p)
      /\ \A x \in D : f[x] \in Addr /\ f[x] \notin TrackedIn(h)
      /\ \A a \in TrackedIn(h) : SameBlock(h, a)
      /\ \A x \in D, k \in Slot :
           IsTracked(h.fields[x][k]) <=> h.fields[x][k] \in TrackedIn(h)
  BY <1>2, <1>4, <1>5, CopyReads
<1>8. PICK x0, k0 : x0 = r.src /\ k0 = r.next
  OBVIOUS
<1>9. /\ x0 \in D /\ k0 \in Nat /\ width[x0] = h.width[x0]
      /\ fields[x0] = h.fields[x0]
  BY <1>6, <1>7, <1>8 DEF CopyAt, CopyRecord, SameBlock
<1>10. k0 \in Slot
  <2>1. width[x0] \in 0 .. MaxFields
    BY <1>2, <1>9 DEF Types, TypeOK
  <2>2. QED
    BY <1>1, <1>5, <1>8, <1>9, <2>1, BoundAssumption DEF Slot
<1>11. PICK w : w = h.fields[x0][k0]
  OBVIOUS
<1>12. PICK d \in Addr : CopyEntry(w, d) /\ stack' = <<CopyFrame(w, d)>> \o stack
  BY <1>5, <1>8, <1>9, <1>11 DEF CopyRecurse
<1>13. w \in TrackedIn(h) /\ w \in Addr
  <2>1. IsTracked(w)
    BY <1>5, <1>8, <1>9, <1>11 DEF CopyRecurse
  <2>2. QED
    BY <1>7, <1>9, <1>10, <1>11, <2>1 DEF TrackedIn
<1>14. w \in ReachIn(h, p)
  <2>1. w \in ChildrenIn(h, x0)
    BY <1>10, <1>11, <1>13 DEF ChildrenIn
  <2>2. ClosedIn(h, ReachIn(h, p)) /\ x0 \in ReachIn(h, p)
    BY <1>7, <1>9, LeastIn
  <2>3. QED
    BY <2>1, <2>2 DEF ClosedIn
<1>15. /\ s \in Seq(CopyRecord) /\ s # <<>> /\ DistinctSources(s) /\ Mapped(f, s)
       /\ Linked(h, s) /\ CopyRoot(s) = p
  BY <1>4, <1>5 DEF Copying, CopyStack
<1>16. ~Copied(s, x0, k0) /\ ~InProgress(s, x0, k0)
  <2>1. ~Copied(s, x0, k0)
    BY <1>5, <1>6, <1>8, <1>9 DEF CopyAt
  <2>2. \A i \in 1 .. Len(q) : q[i].src # x0
    BY <1>6, <1>8 DEF CopyAt
  <2>3. ~InProgress(q, x0, k0)
    <3>1. \A i \in 2 .. Len(q) : i \in 1 .. Len(q)
      BY <1>6
    <3>2. QED
      BY <2>2, <3>1 DEF InProgress
  <2>4. q # <<>> => Head(q).src # x0
    <3>1. q # <<>> => 1 \in 1 .. Len(q) /\ Head(q) = q[1]
      BY <1>6, EmptySeq, LenProperties
    <3>2. QED
      BY <2>2, <3>1
  <2>5. QED
    BY <1>5, <1>6, <2>1, <2>3, <2>4 DEF CopyAt
<1>17. w \notin D
  BY <1>4, <1>5, <1>6, <1>9, <1>10, <1>11, <1>16 DEF Copying, CopyHeap, CopyWord
<1>18. CopyMap(h, f, p) /\ CopyCall(h, p) /\ CopyHeap(h, f, s) /\ CopyCounts(h, D)
  BY <1>4, <1>5, <1>6 DEF Copying
<1>19. /\ \A x \in D, k \in Slot : h.fields[x][k] = w => x = x0 /\ k = k0
       /\ \A k \in Slot : h.fields[w][k] \notin D \cup {w}
  <2>1. D \subseteq ReachIn(h, p) /\ D \subseteq Addr
    BY <1>7
  <2>2. \A x \in D \ {p} : \E y \in D, k \in Slot : h.fields[y][k] = x
    BY <1>6, <1>18 DEF CopyMap
  <2>3. QED
    BY <1>7, <1>9, <1>10, <1>11, <1>13, <1>14, <1>17, <2>1, <2>2, OneReference
<1>20. PICK c \in CopyRecord : /\ c.src = w /\ c.dst = d /\ c.next = 0
                               /\ stack' = <<c>> \o stack
  BY <1>12, <1>13, NewCopyFrame
<1> DEFINE t == Push(c, s)
           e == [x \in D \cup {w} |-> IF x = w THEN d ELSE f[x]]
<1>21. stack' = t
  BY <1>5, <1>20 DEF Push
<1>22. /\ e \in [D \cup {w} -> Addr] /\ DOMAIN e = D \cup {w} /\ e[w] = d
       /\ \A x \in D : e[x] = f[x]
  BY <1>12, <1>17
<1>23. t \in Seq(CopyRecord) /\ t # <<>> /\ CopyPushed(h, e, t, c, s)
  BY <1>15, <1>20, PushOnTop, CopyPush
<1> HIDE DEF t, e
<1>24. \A i \in 1 .. Len(s) : s[i].src \in D /\ s[i].dst = f[s[i].src]
  BY <1>6, <1>15 DEF Mapped
<1>25. Head(s) = r
  BY <1>5 DEF Top
<1>26. DistinctSources(t) /\ Mapped(e, t) /\ Linked(h, t) /\ CopyRoot(t) = p
  <2>1. DistinctSources(t)
    BY <1>15, <1>17, <1>20, <1>23, <1>24 DEF CopyPushed
  <2>2. Mapped(e, s)
    BY <1>22, <1>24 DEF Mapped
  <2>3. Mapped(e, t)
    BY <1>20, <1>22, <1>23, <2>2 DEF CopyPushed
  <2>4. Linked(h, t)
    BY <1>8, <1>10, <1>11, <1>15, <1>20, <1>23, <1>25 DEF CopyPushed
  <2>5. CopyRoot(t) = p
    BY <1>15, <1>23 DEF CopyPushed
  <2>6. QED
    BY <2>1, <2>3, <2>4, <2>5
<1>27. Entering(h, D, s, t, w)
  <2>1. ASSUME NEW k \in Slot PROVE ~Copied(t, w, k)
    <3>1. ~(k < 0)
      BY DEF Slot
    <3>2. QED
      BY <1>20, <1>23, <3>1 DEF CopyPushed
  <2>2. ASSUME NEW x \in D, NEW k \in Slot
        PROVE  /\ Copied(t, x, k) <=> Copied(s, x, k)
               /\ InProgress(s, x, k) => InProgress(t, x, k)
               /\ h.fields[x][k] = w => ~Copied(s, x, k) /\ InProgress(t, x, k)
    <3>1. Copied(t, x, k) <=> Copied(s, x, k)
      BY <1>17, <1>20, <1>23 DEF CopyPushed
    <3>2. InProgress(s, x, k) => InProgress(t, x, k)
      BY <1>23 DEF CopyPushed
    <3>3. InProgress(t, x0, k0)
      BY <1>8, <1>15, <1>23, <1>25 DEF CopyPushed
    <3>4. QED
      BY <1>16, <1>19, <3>1, <3>2, <3>3
  <2>3. QED
    BY <1>19, <2>1, <2>2 DEF Entering
<1>28. /\ CopyHeap(h, e, t)' /\ CopyCounts(h, D \cup {w})' /\ Types'
       /\ d \notin TrackedIn(h) /\ (\A x \in D : f[x] # d)
       /\ h.tag[w] \in {"string", "struct"}
  <2>1. D \in SUBSET TrackedIn(h) /\ \A x \in D : f[x] \notin TrackedIn(h)
    BY <1>7
  <2>2. Extends(e, f, D, w, d)
    BY <1>22 DEF Extends
  <2>3. CopyHeap(h, f, stack) /\ Entering(h, D, stack, t, w) /\ HeapOK(h)
    BY <1>2, <1>5, <1>18, <1>27
  <2>4. QED
    BY <1>2, <1>12, <1>13, <1>17, <1>18, <2>1, <2>2, <2>3, CopyGrows
<1>29. CopyMap(h, e, p)
  <2>1. D \cup {w} \subseteq ClonedIn(h, p)
    BY <1>7, <1>14, <1>28 DEF ClonedIn
  <2>2. \A x \in D \cup {w} : e[x] \in Addr \ TrackedIn(h)
    BY <1>7, <1>12, <1>22, <1>28
  <2>3. \A x, y \in D \cup {w} : e[x] = e[y] => x = y
    <3>1. \A x, y \in D : f[x] = f[y] => x = y
      BY <1>6, <1>18 DEF CopyMap
    <3>2. QED
      BY <1>22, <1>28, <3>1
  <2>4. \A x \in (D \cup {w}) \ {p} : \E y \in D \cup {w}, k \in Slot : h.fields[y][k] = x
    <3>1. \A x \in D \ {p} : \E y \in D, k \in Slot : h.fields[y][k] = x
      BY <1>6, <1>18 DEF CopyMap
    <3>2. QED
      BY <1>9, <1>10, <1>11, <3>1
  <2>5. QED
    BY <1>7, <1>22, <2>1, <2>2, <2>3, <2>4 DEF CopyMap
<1>30. StepInv'
  <2>1. CopyStack(h, e, t)
    BY <1>23, <1>26 DEF CopyStack
  <2>2. D \cup {w} \in SUBSET Addr
    BY <1>13
  <2>3. HeapOK(h) /\ seen' = h /\ CopyCall(h, CopyRoot(t)) /\ CopyMap(h, e, CopyRoot(t))
    BY <1>1, <1>2, <1>5, <1>18, <1>26, <1>29
  <2>4. QED
    BY <1>21, <1>22, <1>28, <2>1, <2>2, <2>3, CopyGoesOn
<1>31. QED
  BY <1>1, <1>30

-----------------------------------------------------------------------------
(* The specification. *)
LEMMA StepKeeps ==
  ASSUME StepInv, [StepNext]_stepVars
  PROVE  StepInv' /\ (Mem!Next \/ seen' = seen)
<1>1. CASE SimpleCall
  BY <1>1, SimpleStep
<1>2. CASE BeginFree
  BY <1>2, BeginFreeStep
<1>3. CASE BeginCopy
  BY <1>3, BeginCopyStep
<1>4. CASE FreeVisit
  BY <1>4, FreeVisitStep
<1>5. CASE FreeReturn
  BY <1>5, FreeInnerStep, FreeOuterStep
<1>6. CASE CopyPlain
  BY <1>6, CopyPlainStep
<1>7. CASE CopyRecurse
  BY <1>7, CopyRecurseStep
<1>8. CASE CopyReturn
  BY <1>8, CopyInnerStep, CopyOuterStep
<1>9. CASE UNCHANGED stepVars
  <2>1. /\ UNCHANGED <<tag, size, typeId, width, fields, allocs, frees, live, kept, keptBytes>>
        /\ stack' = stack /\ seen' = seen
    BY <1>9 DEF stepVars, memVars, heapVars, countVars
  <2>2. Heap' = Heap
    BY <2>1 DEF Heap
  <2>3. \A F : Freeing(F) => Freeing(F)'
    BY <2>1 DEF Freeing, FreeHeap, FreeCounts, SameBlock
  <2>4. \A f : Copying(f) => Copying(f)'
    BY <2>1 DEF Copying, CopyHeap, CopyWord, CopyCounts, SameBlock
  <2>5. QED
    BY <2>1, <2>2, <2>3, <2>4 DEF StepInv, Idle
<1>10. QED
  BY <1>1, <1>2, <1>3, <1>4, <1>5, <1>6, <1>7, <1>8, <1>9 DEF StepNext, Running

(* At every step of mem_free and of copy, the heap is the one callers know *)
(* with the effect of exactly what the call has done so far: the blocks    *)
(* untagged and given back, or the clones entered and the words stored.    *)
THEOREM StepInvariant == StepSpec => []StepInv
<1>1. StepInit => StepInv
  BY InitStep
<1>2. StepInv /\ [StepNext]_stepVars => StepInv'
  BY StepKeeps
<1>3. QED
  BY <1>1, <1>2, PTL DEF StepSpec

LEMMA NoReentryNow == StepInv => NoReentry
<1>1. CASE Idle
  <2>1. DOMAIN stack = {}
    BY <1>1 DEF Idle
  <2>2. QED
    BY <2>1 DEF NoReentry
<1>2. ASSUME NEW F, Freeing(F) PROVE NoReentry
  <2>1. stack \in Seq(FreeRecord) /\ DistinctBlocks(stack) /\ Begun(stack) \subseteq F
    BY <1>2 DEF Freeing, FreeStack
  <2>2. DOMAIN stack = 1 .. Len(stack)
    BY <2>1, LenProperties
  <2>3. \A a \in F : tag[a] = "none"
    BY <1>2 DEF Freeing, FreeHeap
  <2>4. \A i \in DOMAIN stack : stack[i].block \in F
    BY <2>1, <2>2 DEF Begun
  <2>5. \A i \in DOMAIN stack : ~IsTracked(stack[i].block)
    BY <2>3, <2>4 DEF IsTracked, Tracked
  <2>6. QED
    BY <2>1, <2>2, <2>5 DEF NoReentry, DistinctBlocks
<1>3. ASSUME NEW f, Copying(f) PROVE NoReentry
  <2>1. stack \in Seq(CopyRecord)
    BY <1>3 DEF Copying, CopyStack
  <2>2. \A i \in DOMAIN stack : stack[i] \in CopyRecord
    BY <2>1, LenProperties, ElementOfSeq
  <2>3. \A i \in DOMAIN stack : stack[i].op # "free"
    BY <2>2 DEF CopyRecord
  <2>4. QED
    BY <2>3 DEF NoReentry
<1>4. QED
  BY <1>1, <1>2, <1>3 DEF StepInv

(* mem_free enters no block twice, on every heap, shared blocks and cycles *)
(* included: the blocks of its activation records are distinct and already *)
(* untagged, which is what the untagging before the descent is for.        *)
THEOREM FreeEntersNoBlockTwice == StepSpec => []NoReentry
<1>1. StepInv => NoReentry
  BY NoReentryNow
<1>2. QED
  BY <1>1, StepInvariant, PTL

(* The recursion of mem_free and of copy, word by word, implements the     *)
(* calls as RocaMem describes them: mem_free gives back exactly what its   *)
(* argument reaches, each block once, and copy builds one disjoint clone   *)
(* of a tree, with the counters to match.                                  *)
THEOREM RecursionImplementsCalls == StepSpec => ImplementsRocaMem
<1>1. StepInit => Mem!Init
  BY InitStep
<1>2. StepInv /\ [StepNext]_stepVars => [Mem!Next]_(Mem!memVars)
  BY StepKeeps DEF Mem!memVars, Mem!heapVars, Mem!countVars
<1>3. QED
  BY <1>1, <1>2, StepInvariant, PTL DEF StepSpec, ImplementsRocaMem, Mem!Spec
=============================================================================
