--------------------------- MODULE MemClientProofs ---------------------------
(***************************************************************************)
(* Proofs about MemClient: a caller that keeps the ownership rules never   *)
(* meets a freed block, for any number of blocks and fields.               *)
(*                                                                         *)
(* The heart is mem_free of a held block p.  It frees R = Reach(p).  If a  *)
(* block outside R had a field r in R, or the caller held an r in R other  *)
(* than p, then that would be r's only owner, R \ {r} would still hold p   *)
(* and be closed under Children, and R would not be the least such set.    *)
(***************************************************************************)
EXTENDS MemClient, RocaMemProofs

(* Only a struct has fields that refer to blocks: an address that is free, *)
(* a string, a vec or a map has none.                                      *)
OnlyStructsOwn ==
  \A a \in Addr, i \in Slot : fields[a][i] \in Addr => tag[a] = "struct"

CInv == MemInv /\ HeldLive /\ NoDangling /\ OneOwner /\ OnlyStructsOwn

LEMMA CInitInv == CInit => CInv
<1> SUFFICES ASSUME CInit PROVE CInv
  OBVIOUS
<1>1. MemInv
  BY InitInv DEF CInit
<1>2. Tracked = {} /\ held = {}
  BY DEF CInit, Init, Tracked
<1>3. \A a \in Addr, i \in Slot : fields[a][i] \notin Addr
  BY WordAssumption DEF CInit, Init, NoFields
<1>4. QED
  BY <1>1, <1>2, <1>3 DEF CInv, HeldLive, NoDangling, OneOwner, OnlyStructsOwn

(* A caller's step is a registry step. *)
LEMMA ClientStep == ASSUME [CNext]_clientVars PROVE [Next]_memVars
<1>1. CASE CNew
  BY <1>1 DEF CNew, Next, Allocate
<1>2. CASE CMove
  <2>1. PICK p \in Tracked, i \in Slot, v \in held : SetOwnedMove(p, i, v)
    BY <1>2 DEF CMove
  <2>2. i \in 0 .. MaxFields /\ v \in Addr
    BY <2>1, BoundAssumption DEF Slot, SetOwnedMove, IsTracked, Tracked
  <2>3. QED
    BY <2>1, <2>2 DEF Next, Store
<1>3. CASE CStoreBorrowed
  <2>1. PICK p \in Tracked, i \in Slot, c \in CStr, len \in StrLen, a \in Addr :
          SetOwnedCopy(p, i, c, len, a)
    BY <1>3 DEF CStoreBorrowed
  <2>2. i \in 0 .. MaxFields
    BY <2>1, BoundAssumption DEF Slot
  <2>3. QED
    BY <2>1, <2>2 DEF Next, Store
<1>4. CASE CStoreNumber
  <2>1. PICK p \in Tracked, i \in Slot, w \in Num \cup {Null} : SetF64(p, i, w)
    BY <1>4 DEF CStoreNumber
  <2>2. i \in 0 .. MaxFields
    BY <2>1, BoundAssumption DEF Slot
  <2>3. QED
    BY <2>1, <2>2 DEF Next, Store
<1>5. ASSUME NEW w, MemFree(w) PROVE Next \/ UNCHANGED memVars
  <2>1. CASE IsTracked(w)
    BY <1>5, <2>1 DEF Next, IsTracked, Tracked, Word
  <2>2. CASE ~IsTracked(w)
    BY <1>5, <2>2 DEF MemFree
  <2>3. QED
    BY <2>1, <2>2
<1>6. CASE CFree \/ CFreeAgain
  BY <1>5, <1>6 DEF CFree, CFreeAgain
<1>7. CASE CCopy
  BY <1>7 DEF CCopy, Next, Clone
<1>8. CASE CReset
  BY <1>8 DEF CReset, Next
<1>9. CASE UNCHANGED clientVars
  BY <1>9 DEF clientVars
<1>10. QED
  BY <1>1, <1>2, <1>3, <1>4, <1>6, <1>7, <1>8, <1>9 DEF CNext

-----------------------------------------------------------------------------
(* A new block that owns nothing and is owned by nobody changes no owner. *)
LEMMA NewBlockInv ==
  ASSUME CInv, MemInv', NEW a \in Addr \ Tracked,
         Tracked' = Tracked \cup {a},
         \A b \in Addr : b # a => tag'[b] = tag[b] /\ fields'[b] = fields[b],
         \A i \in Slot : fields'[a][i] \notin Addr,
         held' = held \cup {a}
  PROVE  CInv'
<1>1. \A b \in Addr, i \in Slot :
        fields'[b][i] \in Addr =>
          b \in Tracked /\ fields'[b][i] = fields[b][i] /\ fields[b][i] \in Tracked
  <2> SUFFICES ASSUME NEW b \in Addr, NEW i \in Slot, fields'[b][i] \in Addr
               PROVE  b \in Tracked /\ fields'[b][i] = fields[b][i]
                      /\ fields[b][i] \in Tracked
    OBVIOUS
  <2>1. fields'[b][i] = fields[b][i]
    OBVIOUS
  <2>2. b \in Tracked
    BY <2>1 DEF CInv, OnlyStructsOwn, Tracked
  <2>3. QED
    BY <2>1, <2>2 DEF CInv, NoDangling
<1>2. HeldLive' /\ a \notin held
  BY DEF CInv, HeldLive
<1>3. NoDangling'
  <2>1. Tracked' \subseteq Addr
    BY DEF Tracked
  <2>2. QED
    BY <1>1, <2>1 DEF NoDangling
<1>4. OneOwner'
  <2> SUFFICES ASSUME NEW b \in Tracked', NEW c \in Tracked',
                      NEW i \in Slot, NEW j \in Slot, fields'[b][i] \in Addr
               PROVE  /\ fields'[b][i] \notin held'
                      /\ fields'[b][i] = fields'[c][j] => b = c /\ i = j
    BY DEF OneOwner
  <2>1. b \in Addr /\ c \in Addr
    BY DEF Tracked
  <2>2. QED
    BY <1>1, <1>2, <2>1 DEF CInv, OneOwner
<1>5. OnlyStructsOwn'
  BY <1>1 DEF CInv, OnlyStructsOwn
<1>6. QED
  BY <1>2, <1>3, <1>4, <1>5 DEF CInv

LEMMA CNewInv == ASSUME CInv, MemInv', CNew PROVE CInv'
<1>1. PICK a \in Addr :
        /\ \/ \E len \in StrLen : StringNew(a, len)
           \/ \E n \in 0 .. MaxFields, tid \in TypeIds : StructNew(a, n, tid)
           \/ ArrayNew(a)
           \/ MapNew(a)
        /\ held' = held \cup {a}
  BY DEF CNew
<1>2. \E t \in Tag : \E sz : Register(a, t, sz)
  BY <1>1 DEF StringNew, StructNew, ArrayNew, MapNew, Tag
<1>3. /\ a \in Addr \ Tracked
      /\ Tracked' = Tracked \cup {a}
      /\ \A b \in Addr : b # a => tag'[b] = tag[b]
  BY <1>2, RegisterCounts DEF CInv, MemInv, TypeOK, Register
<1>4. \A i \in Slot : fields[a][i] \notin Addr
  BY <1>3 DEF CInv, OnlyStructsOwn, Tracked
<1>5. CASE UNCHANGED fields
  BY <1>1, <1>3, <1>4, <1>5, NewBlockInv
<1>6. CASE fields' = [fields EXCEPT ![a] = NoFields]
  <2>1. \A i \in Slot : fields'[a][i] \notin Addr
    BY <1>3, <1>6, WordAssumption DEF NoFields, CInv, MemInv, TypeOK
  <2>2. \A b \in Addr : b # a => fields'[b] = fields[b]
    BY <1>6 DEF CInv, MemInv, TypeOK
  <2>3. QED
    BY <1>1, <1>3, <2>1, <2>2, NewBlockInv
<1>7. QED
  BY <1>1, <1>5, <1>6 DEF StringNew, StructNew, ArrayNew, MapNew

-----------------------------------------------------------------------------
(* Writing a word that refers to no block, over one that does not either. *)
LEMMA CStoreNumberInv == ASSUME CInv, MemInv', CStoreNumber PROVE CInv'
<1>1. PICK p \in Tracked, i \in Slot, w \in Num \cup {Null} :
        OwnsNothing(p, i) /\ SetF64(p, i, w) /\ UNCHANGED <<held, stale>>
  BY DEF CStoreNumber
<1>2. w \notin Addr /\ fields[p][i] \notin Addr
  BY <1>1, WordAssumption DEF OwnsNothing
<1>3. Tracked' = Tracked /\ tag' = tag /\ Tracked \subseteq Addr
  BY <1>1 DEF SetF64, Tracked
<1>4. \A b \in Addr, j \in Slot :
        fields'[b][j] \in Addr => fields'[b][j] = fields[b][j]
  BY <1>1, <1>2 DEF SetF64, Write, CInv, MemInv, TypeOK
<1>5. HeldLive' /\ NoDangling' /\ OnlyStructsOwn'
  BY <1>1, <1>3, <1>4 DEF CInv, HeldLive, NoDangling, OnlyStructsOwn
<1>6. OneOwner'
  <2> SUFFICES ASSUME NEW b \in Tracked, NEW c \in Tracked,
                      NEW j \in Slot, NEW k \in Slot, fields'[b][j] \in Addr
               PROVE  /\ fields'[b][j] \notin held
                      /\ fields'[b][j] = fields'[c][k] => b = c /\ j = k
    BY <1>1, <1>3 DEF OneOwner
  <2>1. b \in Addr /\ c \in Addr
    BY <1>3
  <2>2. QED
    BY <1>4, <2>1 DEF CInv, OneOwner
<1>7. QED
  BY <1>5, <1>6 DEF CInv

(* A block without an owner gets one: slot i of p, which owned nothing.    *)
(* The block is v, moved by the caller, or the copy of a borrowed string.  *)
LEMMA NewOwnerInv ==
  ASSUME CInv, MemInv', NEW p \in Tracked, NEW i \in Slot, NEW v \in Addr,
         fields[p][i] \notin Addr, tag[p] = "struct",
         fields' = [fields EXCEPT ![p][i] = v],
         \A b \in Tracked, j \in Slot : fields[b][j] # v,
         Tracked' = Tracked \cup {v},
         \A b \in Tracked : tag'[b] = tag[b],
         held' = held \ {v}
  PROVE  CInv'
<1>1. Tracked \subseteq Addr /\ Tracked' \subseteq Addr
  BY DEF Tracked
<1>2. \A b \in Addr, j \in Slot :
        fields'[b][j] = IF b = p /\ j = i THEN v ELSE fields[b][j]
  BY <1>1 DEF CInv, MemInv, TypeOK
<1>3. \A b \in Addr, j \in Slot : fields[b][j] \in Addr => b \in Tracked
  BY DEF CInv, OnlyStructsOwn, Tracked
<1>4. HeldLive' /\ NoDangling' /\ OnlyStructsOwn'
  BY <1>1, <1>2, <1>3 DEF CInv, HeldLive, NoDangling, OnlyStructsOwn
<1>5. OneOwner'
  <2> SUFFICES ASSUME NEW b \in Tracked', NEW c \in Tracked',
                      NEW j \in Slot, NEW k \in Slot, fields'[b][j] \in Addr
               PROVE  /\ fields'[b][j] \notin held'
                      /\ fields'[b][j] = fields'[c][k] => b = c /\ j = k
    BY DEF OneOwner
  <2>1. b \in Addr /\ c \in Addr
    BY <1>1
  <2>2. CASE b = p /\ j = i
    BY <1>2, <1>3, <2>1, <2>2
  <2>3. CASE ~(b = p /\ j = i)
    <3>1. fields'[b][j] = fields[b][j] /\ b \in Tracked
      BY <1>2, <1>3, <2>1, <2>3
    <3>2. fields[b][j] \notin held
      BY <3>1 DEF CInv, OneOwner
    <3>3. ASSUME fields'[b][j] = fields'[c][k] PROVE b = c /\ j = k
      <4>1. ASSUME c = p, k = i PROVE FALSE
        <5>1. fields'[c][k] = v
          BY <1>2, <2>1, <4>1
        <5>2. fields[b][j] = v
          BY <3>1, <3>3, <5>1
        <5>3. QED
          BY <3>1, <5>2
      <4>2. fields'[c][k] = fields[c][k] /\ c \in Tracked
        BY <1>2, <1>3, <2>1, <3>1, <3>3, <4>1
      <4>3. QED
        BY <3>1, <3>3, <4>2 DEF CInv, OneOwner
    <3>4. QED
      BY <3>1, <3>2, <3>3
  <2>4. QED
    BY <2>2, <2>3
<1>6. QED
  BY <1>4, <1>5 DEF CInv

LEMMA CMoveInv == ASSUME CInv, MemInv', CMove PROVE CInv'
<1>1. PICK p \in Tracked, i \in Slot, v \in held :
        OwnsNothing(p, i) /\ SetOwnedMove(p, i, v) /\ held' = held \ {v}
  BY DEF CMove
<1>2. v \in Tracked /\ v \in Addr
  BY <1>1 DEF CInv, HeldLive, Tracked
<1>3. fields' = [fields EXCEPT ![p][i] = v] /\ tag[p] = "struct" /\ tag' = tag
  BY <1>1 DEF SetOwnedMove, Write, OwnsNothing, InRange
<1>4. fields[p][i] \notin Addr
  BY <1>1 DEF OwnsNothing
<1>5. \A b \in Tracked, j \in Slot : fields[b][j] # v
  BY <1>2 DEF CInv, OneOwner
<1>6. Tracked' = Tracked \cup {v}
  BY <1>2, <1>3 DEF Tracked
<1>7. QED
  BY <1>1, <1>2, <1>3, <1>4, <1>5, <1>6, NewOwnerInv

LEMMA CStoreBorrowedInv == ASSUME CInv, MemInv', CStoreBorrowed PROVE CInv'
<1>1. PICK p \in Tracked, i \in Slot, c \in CStr, len \in StrLen, a \in Addr :
        OwnsNothing(p, i) /\ SetOwnedCopy(p, i, c, len, a)
          /\ UNCHANGED <<held, stale>>
  BY DEF CStoreBorrowed
<1>2. Register(a, "string", len + 1)
  BY <1>1 DEF SetOwnedCopy
<1>3. Tracked' = Tracked \cup {a} /\ a \notin Tracked
  BY <1>2, RegisterCounts DEF CInv, Tag, Register
<1>4. fields' = [fields EXCEPT ![p][i] = a] /\ tag[p] = "struct"
  BY <1>1 DEF SetOwnedCopy, Write, OwnsNothing, InRange
<1>5. fields[p][i] \notin Addr
  BY <1>1 DEF OwnsNothing
<1>6. \A b \in Tracked, j \in Slot : fields[b][j] # a
  BY <1>3 DEF CInv, NoDangling
<1>7. \A b \in Tracked : tag'[b] = tag[b]
  BY <1>2, <1>3 DEF Register, CInv, MemInv, TypeOK, Tracked
<1>8. held' = held \ {a}
  BY <1>1, <1>3 DEF CInv, HeldLive
<1>9. QED
  BY <1>3, <1>4, <1>5, <1>6, <1>7, <1>8, NewOwnerInv

-----------------------------------------------------------------------------
(* mem_free of a held block. *)

(* No field of a surviving block refers into what is freed. *)
LEMMA NobodyPointsIn ==
  ASSUME CInv, NEW p \in held, NEW q \in Tracked, q \notin Reach(p),
         NEW i \in Slot, fields[q][i] \in Reach(p)
  PROVE  FALSE
<1> DEFINE r == fields[q][i]
           S == Reach(p) \ {r}
<1>1. p \in Tracked /\ Tracked \subseteq Addr
  BY DEF CInv, HeldLive, Tracked
<1>2. /\ p \in Reach(p) /\ Reach(p) \subseteq Tracked
      /\ ClosedUnderChildren(Reach(p))
      /\ \A T \in SUBSET Tracked :
           p \in T /\ ClosedUnderChildren(T) => Reach(p) \subseteq T
  BY <1>1, ReachIsLeast
<1>3. r \in Addr /\ p # r
  BY <1>1, <1>2 DEF CInv, OneOwner
<1>4. ClosedUnderChildren(S)
  <2> SUFFICES ASSUME NEW b \in S, NEW c \in Children(b) PROVE c \in S
    BY DEF ClosedUnderChildren
  <2>1. c \in Reach(p)
    BY <1>2 DEF ClosedUnderChildren
  <2>2. PICK j \in Slot : fields[b][j] = c
    BY DEF Children
  <2>3. c # r
    BY <1>2, <1>3, <2>2 DEF CInv, OneOwner
  <2>4. QED
    BY <2>1, <2>3
<1>5. S \in SUBSET Tracked /\ p \in S
  BY <1>2, <1>3
<1>6. Reach(p) \subseteq S
  BY <1>2, <1>4, <1>5
<1>7. QED
  BY <1>6

(* Nothing else the caller holds is freed. *)
LEMMA OtherHandlesSurvive ==
  ASSUME CInv, NEW p \in held, NEW h \in held, h # p
  PROVE  h \notin Reach(p)
<1> DEFINE S == Reach(p) \ {h}
<1>1. p \in Tracked
  BY DEF CInv, HeldLive
<1>2. /\ p \in Reach(p) /\ Reach(p) \subseteq Tracked
      /\ ClosedUnderChildren(Reach(p))
      /\ \A T \in SUBSET Tracked :
           p \in T /\ ClosedUnderChildren(T) => Reach(p) \subseteq T
  BY <1>1, ReachIsLeast
<1>3. ClosedUnderChildren(S)
  <2> SUFFICES ASSUME NEW b \in S, NEW c \in Children(b) PROVE c \in S
    BY DEF ClosedUnderChildren
  <2>1. c \in Reach(p) /\ b \in Tracked
    BY <1>2 DEF ClosedUnderChildren
  <2>2. (\E j \in Slot : fields[b][j] = c) /\ c \in Addr
    BY DEF Children, Tracked
  <2>3. c # h
    BY <2>1, <2>2 DEF CInv, OneOwner
  <2>4. QED
    BY <2>1, <2>3
<1>4. S \in SUBSET Tracked /\ p \in S
  BY <1>2
<1>5. QED
  BY <1>2, <1>3, <1>4

LEMMA CFreeInv == ASSUME CInv, MemInv', CFree PROVE CInv'
<1>1. PICK p \in held : MemFree(p) /\ held' = held \ {p}
  BY DEF CFree
<1> DEFINE R == Reach(p)
<1>2. FreeSet(R) /\ R \subseteq Tracked /\ Tracked \subseteq Addr
  BY <1>1, ReachIsLeast DEF MemFree, IsTracked, CInv, HeldLive, Tracked
<1>3. \A q \in Tracked \ R, i \in Slot : fields[q][i] \notin R
  BY NobodyPointsIn
<1>4. \A h \in held \ {p} : h \notin R
  BY OtherHandlesSurvive
<1> HIDE DEF R
<1>5. Tracked' = Tracked \ R
  BY <1>2 DEF FreeSet, CInv, MemInv, TypeOK, Tracked
<1>6. \A b \in Addr \ R : fields'[b] = fields[b] /\ tag'[b] = tag[b]
  BY <1>2 DEF FreeSet, CInv, MemInv, TypeOK
<1>7. \A b \in R, i \in Slot : fields'[b][i] \notin Addr
  BY <1>2, WordAssumption DEF FreeSet, NoFields
<1>8. HeldLive'
  BY <1>1, <1>4, <1>5 DEF CInv, HeldLive
<1>9. NoDangling'
  BY <1>2, <1>3, <1>5, <1>6 DEF CInv, NoDangling
<1>10. OneOwner'
  <2> SUFFICES ASSUME NEW b \in Tracked \ R, NEW c \in Tracked \ R,
                      NEW i \in Slot, NEW j \in Slot, fields[b][i] \in Addr
               PROVE  /\ fields[b][i] \notin held \ {p}
                      /\ fields[b][i] = fields[c][j] => b = c /\ i = j
    BY <1>1, <1>2, <1>5, <1>6 DEF OneOwner
  <2>1. QED
    BY DEF CInv, OneOwner
<1>11. OnlyStructsOwn'
  BY <1>6, <1>7 DEF CInv, OnlyStructsOwn
<1>12. QED
  BY <1>8, <1>9, <1>10, <1>11 DEF CInv

-----------------------------------------------------------------------------
(* copy: the clones own each other as the originals do, and nothing else. *)
LEMMA CCopyInv == ASSUME CInv, MemInv', CCopy PROVE CInv'
<1>0. PICK p \in Tracked : \E f \in [Cloned(p) -> Addr \ Tracked] :
        Copy(p, f) /\ held' = held \cup {f[p]}
  BY DEF CCopy
<1>1. PICK f \in [Cloned(p) -> Addr \ Tracked] :
        Copy(p, f) /\ held' = held \cup {f[p]}
  BY <1>0
<1> DEFINE D == Cloned(p)
           N == {f[s] : s \in D}
           src(a) == CHOOSE s \in D : f[s] = a
<1>2. /\ DOMAIN f = D /\ CopyBlocks(p, f) /\ IsTree(p)
      /\ \A a, b \in D : f[a] = f[b] => a = b
  BY <1>1 DEF Copy
<1>3. D \subseteq Tracked /\ D \subseteq Reach(p) /\ D \subseteq Addr /\ p \in D
  BY <1>1, ReachIsLeast DEF Cloned, Tracked, Copy
<1>4. /\ N \subseteq Addr \ Tracked
      /\ \A a \in N : src(a) \in D /\ f[src(a)] = a
  OBVIOUS
<1>5. /\ tag' = [a \in Addr |-> IF a \in N THEN tag[src(a)] ELSE tag[a]]
      /\ fields' = [a \in Addr |->
           IF a \in N THEN [i \in Slot |-> CloneWord(f, fields[src(a)][i])]
           ELSE fields[a]]
  BY <1>2 DEF CopyBlocks
<1>6. \A s \in D : f[s] \in N
  OBVIOUS
<1>7. \A s \in D : tag[s] \in {"string", "struct"}
  BY DEF Cloned
<1> HIDE DEF D, N, src
<1>8. Tracked' = Tracked \cup N /\ Tracked \subseteq Addr
  BY <1>3, <1>4, <1>5, <1>7 DEF Tracked
(* A field of a clone refers to the clone of what the original owns there. *)
<1>9. ASSUME NEW a \in N, NEW i \in Slot, fields'[a][i] \in Addr
      PROVE  /\ fields[src(a)][i] \in D
             /\ fields'[a][i] = f[fields[src(a)][i]]
             /\ fields'[a][i] \in N
  <2>1. fields'[a][i] = CloneWord(f, fields[src(a)][i])
    BY <1>4, <1>5
  <2>2. src(a) \in D /\ src(a) \in Tracked
    BY <1>3, <1>4
  <2>3. fields[src(a)][i] \in D
    BY <1>2, <1>9, <2>1, <2>2, WordAssumption DEF CloneWord, CInv, NoDangling
  <2>4. QED
    BY <1>2, <1>6, <2>1, <2>3 DEF CloneWord
<1>10. \A b \in Addr \ N : fields'[b] = fields[b] /\ tag'[b] = tag[b]
  BY <1>5
<1>11. \A b \in Addr, i \in Slot : fields[b][i] \in Addr =>
          b \in Tracked /\ fields[b][i] \in Tracked
  BY DEF CInv, NoDangling, OnlyStructsOwn, Tracked
<1>12. HeldLive'
  BY <1>1, <1>3, <1>6, <1>8 DEF CInv, HeldLive
<1>13. NoDangling'
  BY <1>8, <1>9, <1>10, <1>11 DEF NoDangling
<1>14. OnlyStructsOwn'
  <2> SUFFICES ASSUME NEW b \in Addr, NEW i \in Slot, fields'[b][i] \in Addr
               PROVE  tag'[b] = "struct"
    BY DEF OnlyStructsOwn
  <2>1. CASE b \in N
    <3>1. fields[src(b)][i] \in Addr /\ src(b) \in Addr
      BY <1>3, <1>4, <1>9, <2>1
    <3>2. tag'[b] = tag[src(b)]
      BY <1>5, <2>1
    <3>3. QED
      BY <3>1, <3>2 DEF CInv, OnlyStructsOwn
  <2>2. CASE b \notin N
    BY <1>10, <2>2 DEF CInv, OnlyStructsOwn
  <2>3. QED
    BY <2>1, <2>2
<1>15. OneOwner'
  <2> SUFFICES ASSUME NEW b \in Tracked', NEW c \in Tracked',
                      NEW i \in Slot, NEW j \in Slot, fields'[b][i] \in Addr
               PROVE  /\ fields'[b][i] \notin held'
                      /\ fields'[b][i] = fields'[c][j] => b = c /\ i = j
    BY DEF OneOwner
  <2>1. b \in Addr /\ c \in Addr
    BY <1>4, <1>8
  <2>2. f[p] \in N /\ held \subseteq Tracked
    BY <1>3, <1>6 DEF CInv, HeldLive
  <2>3. CASE b \in N
    <3>1. /\ fields[src(b)][i] \in D /\ fields'[b][i] = f[fields[src(b)][i]]
          /\ fields'[b][i] \in N /\ src(b) \in Reach(p)
      BY <1>3, <1>4, <1>9, <2>3
    <3>2. fields[src(b)][i] # p
      BY <1>2, <1>3, <3>1 DEF IsTree
    <3>3. fields'[b][i] \notin held'
      BY <1>1, <1>2, <1>3, <1>4, <2>2, <3>1, <3>2
    <3>4. ASSUME fields'[b][i] = fields'[c][j] PROVE b = c /\ i = j
      <4>1. CASE c \in N
        <5>1. /\ fields[src(c)][j] \in D /\ fields'[c][j] = f[fields[src(c)][j]]
              /\ src(c) \in Reach(p)
          BY <1>3, <1>4, <1>9, <3>4, <4>1
        <5>2. fields[src(b)][i] = fields[src(c)][j]
          BY <1>2, <3>1, <3>4, <5>1
        <5>3. src(b) = src(c) /\ i = j
          BY <1>2, <1>3, <3>1, <5>1, <5>2 DEF IsTree
        <5>4. QED
          BY <1>4, <2>3, <4>1, <5>3
      <4>2. CASE c \notin N
        <5>1. fields[c][j] \in N
          BY <1>10, <2>1, <3>1, <3>4, <4>2
        <5>2. fields[c][j] \in Addr /\ fields[c][j] \notin Tracked
          BY <1>4, <5>1
        <5>3. QED
          BY <1>11, <2>1, <5>2
      <4>3. QED
        BY <4>1, <4>2
    <3>5. QED
      BY <3>3, <3>4
  <2>4. CASE b \notin N
    <3>1. fields'[b][i] = fields[b][i] /\ b \in Tracked /\ fields[b][i] \in Tracked
      BY <1>10, <1>11, <2>1, <2>4
    <3>2. fields[b][i] \notin held'
      BY <1>1, <1>4, <2>1, <2>2, <3>1 DEF CInv, OneOwner
    <3>3. ASSUME fields'[b][i] = fields'[c][j] PROVE b = c /\ i = j
      <4>1. c \notin N
        BY <1>4, <1>9, <3>1, <3>3
      <4>2. fields'[c][j] = fields[c][j] /\ c \in Tracked
        BY <1>8, <1>10, <2>1, <4>1
      <4>3. fields[b][i] = fields[c][j] /\ fields[b][i] \in Addr
        BY <3>1, <3>3, <4>2
      <4>4. b \in Tracked
        BY <3>1
      <4>5. OneOwner
        BY DEF CInv
      <4>6. QED
        BY <4>2, <4>3, <4>4, <4>5 DEF OneOwner
    <3>4. QED
      BY <3>1, <3>2, <3>3
  <2>5. QED
    BY <2>3, <2>4
<1>16. QED
  BY <1>12, <1>13, <1>14, <1>15 DEF CInv

-----------------------------------------------------------------------------
LEMMA CNextInv == ASSUME CInv, [CNext]_clientVars PROVE CInv'
<1>1. MemInv'
  BY ClientStep, NextInv DEF CInv
<1>2. ASSUME UNCHANGED <<heapVars, held>> PROVE CInv'
  <2>1. Tracked' = Tracked
    BY <1>2 DEF heapVars, Tracked
  <2>2. QED
    BY <1>1, <1>2, <2>1
       DEF heapVars, CInv, HeldLive, NoDangling, OneOwner, OnlyStructsOwn
<1>3. CASE CFreeAgain \/ CReset \/ UNCHANGED clientVars
  <2>1. UNCHANGED <<heapVars, held>>
    BY <1>3 DEF CFreeAgain, MemFree, CReset, Reset, clientVars, memVars, heapVars
  <2>2. QED
    BY <1>1, <1>2, <2>1
<1>4. QED
  BY <1>1, <1>3, CNewInv, CMoveInv, CStoreBorrowedInv, CStoreNumberInv,
     CFreeInv, CCopyInv DEF CNext

(* What the caller holds stays allocated until the caller frees or moves   *)
(* it: no mem_free of something else takes it away.                        *)
THEOREM HandlesStayLive == CSpec => []HeldLive
<1>1. CInv => HeldLive
  BY DEF CInv
<1>2. QED
  BY <1>1, CInitInv, CNextInv, PTL DEF CSpec

(* No live block has a field that refers to freed memory. *)
THEOREM NeverDangling == CSpec => []NoDangling
<1>1. CInv => NoDangling
  BY DEF CInv
<1>2. QED
  BY <1>1, CInitInv, CNextInv, PTL DEF CSpec

(* Ownership is exclusive: a block is in at most one field of one block,   *)
(* and in none if the caller holds it.                                     *)
THEOREM OwnershipIsExclusive == CSpec => []OneOwner
<1>1. CInv => OneOwner
  BY DEF CInv
<1>2. QED
  BY <1>1, CInitInv, CNextInv, PTL DEF CSpec

(* Keeping the rules is a way of using the registry. *)
THEOREM ClientUsesRegistry == CSpec => Spec
<1>1. CInit => Init
  BY DEF CInit
<1>2. QED
  BY <1>1, ClientStep, PTL DEF CSpec, Spec

-----------------------------------------------------------------------------
(* Nothing is lost.  NoLeak says of each block which handle it hangs       *)
(* below; what a step keeps is easier said of all blocks at once: no       *)
(* proper part of the registry holds every handle and is closed under      *)
(* Children.                                                               *)
AllOwned ==
  \A S \in SUBSET Tracked : held \subseteq S /\ ClosedUnderChildren(S) => S = Tracked

LEMMA AllOwnedMeansNoLeak == ASSUME HeldLive, AllOwned PROVE NoLeak
<1> DEFINE S == UNION {Reach(h) : h \in held}
<1>1. \A h \in held : /\ h \in Reach(h) /\ Reach(h) \subseteq Tracked
                      /\ ClosedUnderChildren(Reach(h))
  BY ReachIsLeast DEF HeldLive
<1>2. S \in SUBSET Tracked /\ held \subseteq S
  BY <1>1
<1>3. ClosedUnderChildren(S)
  BY <1>1 DEF ClosedUnderChildren
<1>4. S = Tracked
  BY <1>2, <1>3 DEF AllOwned
<1>5. QED
  BY <1>4 DEF NoLeak

(* A part of the new registry that holds the handles and is closed holds,  *)
(* of the old one, a part that does: the blocks there were keep what they  *)
(* own.                                                                    *)
LEMMA OldPart ==
  ASSUME AllOwned, NEW S \in SUBSET Tracked', ClosedUnderChildren(S)',
         Tracked \subseteq Tracked', held \subseteq S \cap Tracked,
         \A b \in Tracked, i \in Slot :
           fields[b][i] \in Tracked => fields'[b][i] = fields[b][i]
  PROVE  Tracked \subseteq S
<1> DEFINE T == S \cap Tracked
<1>1. ASSUME NEW b \in T, NEW c \in Children(b) PROVE c \in T
  <2>1. PICK i \in Slot : fields[b][i] = c
    BY DEF Children
  <2>2. c \in Tracked /\ fields'[b][i] = c
    BY <2>1 DEF Children
  <2>3. c \in Children(b)'
    BY <2>2 DEF Children
  <2>4. QED
    BY <2>2, <2>3 DEF ClosedUnderChildren
<1>2. T \in SUBSET Tracked /\ held \subseteq T /\ ClosedUnderChildren(T)
  BY <1>1 DEF ClosedUnderChildren
<1>3. QED
  BY <1>2 DEF AllOwned

(* Freeing p: what is left and closed is, with what p reaches, everything. *)
LEMMA CFreeOwned == ASSUME CInv, AllOwned, CFree PROVE AllOwned'
<1>1. PICK p \in held : MemFree(p) /\ held' = held \ {p}
  BY DEF CFree
<1> DEFINE R == Reach(p)
<1>2. FreeSet(R) /\ p \in R /\ R \subseteq Tracked /\ ClosedUnderChildren(R)
  BY <1>1, ReachIsLeast DEF MemFree, IsTracked, CInv, HeldLive
<1>3. \A q \in Tracked \ R, i \in Slot : fields[q][i] \notin R
  BY NobodyPointsIn
<1> HIDE DEF R
<1>4. Tracked' = Tracked \ R
  BY <1>2 DEF FreeSet, CInv, MemInv, TypeOK, Tracked
<1>5. \A b \in Addr \ R : fields'[b] = fields[b]
  BY <1>2 DEF FreeSet, CInv, MemInv, TypeOK
<1>6. SUFFICES ASSUME NEW S \in SUBSET Tracked', held' \subseteq S,
                      ClosedUnderChildren(S)'
               PROVE  S = Tracked'
  BY DEF AllOwned
<1> DEFINE T == S \cup R
<1>7. ASSUME NEW b \in T, NEW c \in Children(b) PROVE c \in T
  <2>1. CASE b \in R
    BY <1>2, <1>7, <2>1 DEF ClosedUnderChildren
  <2>2. CASE b \in S
    <3>1. PICK i \in Slot : fields[b][i] = c
      BY <1>7 DEF Children
    <3>2. b \in Tracked /\ b \notin R /\ b \in Addr
      BY <1>4, <2>2 DEF Tracked
    <3>3. c \in Tracked \ R
      BY <1>3, <1>7, <3>1, <3>2 DEF Children
    <3>4. c \in Children(b)'
      BY <1>4, <1>5, <3>1, <3>2, <3>3 DEF Children
    <3>5. QED
      BY <1>6, <2>2, <3>4 DEF ClosedUnderChildren
  <2>3. QED
    BY <1>7, <2>1, <2>2
<1>8. T \in SUBSET Tracked /\ held \subseteq T /\ ClosedUnderChildren(T)
  BY <1>1, <1>2, <1>4, <1>6, <1>7 DEF ClosedUnderChildren
<1>9. T = Tracked
  BY <1>8 DEF AllOwned
<1>10. QED
  BY <1>4, <1>6, <1>9

(* Moving v into p: a part that misses v misses p, and with what v reaches *)
(* would be everything but p.                                              *)
LEMMA CMoveOwned == ASSUME CInv, AllOwned, CMove PROVE AllOwned'
<1>1. PICK p \in Tracked, i \in Slot, v \in held :
        /\ OwnsNothing(p, i) /\ p \notin Reach(v) /\ SetOwnedMove(p, i, v)
        /\ held' = held \ {v}
  BY DEF CMove
<1>2. Tracked' = Tracked /\ v \in Tracked /\ p \in Addr
  BY <1>1 DEF SetOwnedMove, CInv, HeldLive, Tracked
<1>3. \A b \in Addr, j \in Slot :
        fields'[b][j] = IF b = p /\ j = i THEN v ELSE fields[b][j]
  BY <1>1 DEF SetOwnedMove, Write, OwnsNothing, InRange, CInv, MemInv, TypeOK
<1>4. \A b \in Tracked : Children(b) \subseteq Children(b)'
  BY <1>1, <1>2, <1>3 DEF Children, OwnsNothing, Tracked
<1>5. v \in Children(p)'
  BY <1>2, <1>3 DEF Children
<1>6. /\ v \in Reach(v) /\ Reach(v) \subseteq Tracked
      /\ ClosedUnderChildren(Reach(v))
  BY <1>2, ReachIsLeast
<1>7. SUFFICES ASSUME NEW S \in SUBSET Tracked, held \ {v} \subseteq S,
                      ClosedUnderChildren(S)'
               PROVE  S = Tracked
  BY <1>1, <1>2 DEF AllOwned
<1>8. ClosedUnderChildren(S)
  BY <1>4, <1>7 DEF ClosedUnderChildren
<1>9. CASE v \in S
  BY <1>7, <1>8, <1>9 DEF AllOwned
<1>10. CASE v \notin S
  <2>1. p \notin S
    BY <1>5, <1>7, <1>10 DEF ClosedUnderChildren
  <2>2. ClosedUnderChildren(S \cup Reach(v))
    BY <1>6, <1>8 DEF ClosedUnderChildren
  <2>3. S \cup Reach(v) = Tracked
    BY <1>6, <1>7, <2>2 DEF AllOwned
  <2>4. QED
    BY <1>1, <2>1, <2>3
<1>11. QED
  BY <1>9, <1>10

(* A new block belongs to the caller, or to the field it is stored in.     *)
LEMMA CNewOwned == ASSUME CInv, AllOwned, CNew PROVE AllOwned'
<1>1. PICK a \in Addr :
        /\ \/ \E len \in StrLen : StringNew(a, len)
           \/ \E n \in 0 .. MaxFields, tid \in TypeIds : StructNew(a, n, tid)
           \/ ArrayNew(a)
           \/ MapNew(a)
        /\ held' = held \cup {a}
  BY DEF CNew
<1>2. /\ Tracked' = Tracked \cup {a} /\ a \notin Tracked
      /\ \A b \in Addr : b # a => fields'[b] = fields[b]
  <2>1. CASE \E len \in StrLen : StringNew(a, len)
    BY <2>1, RegisterCounts DEF StringNew, Register, Tag, CInv
  <2>2. CASE \E n \in 0 .. MaxFields, tid \in TypeIds : StructNew(a, n, tid)
    <3>1. PICK n \in 0 .. MaxFields, tid \in TypeIds : StructNew(a, n, tid)
      BY <2>2
    <3>2. Tracked' = Tracked \cup {a} /\ a \notin Tracked
      BY <3>1, RegisterCounts DEF StructNew, Register, Tag, CInv
    <3>3. QED
      BY <3>1, <3>2 DEF StructNew, CInv, MemInv, TypeOK
  <2>3. CASE ArrayNew(a)
    BY <2>3, RegisterCounts DEF ArrayNew, Register, Tag, CInv
  <2>4. CASE MapNew(a)
    BY <2>4, RegisterCounts DEF MapNew, Register, Tag, CInv
  <2>5. QED
    BY <1>1, <2>1, <2>2, <2>3, <2>4
<1>3. SUFFICES ASSUME NEW S \in SUBSET Tracked', held' \subseteq S,
                      ClosedUnderChildren(S)'
               PROVE  S = Tracked'
  BY DEF AllOwned
<1>4. \A b \in Tracked : fields'[b] = fields[b]
  BY <1>2 DEF Tracked
<1>5. Tracked \subseteq S
  BY <1>1, <1>2, <1>3, <1>4, OldPart DEF CInv, HeldLive
<1>6. QED
  BY <1>1, <1>2, <1>3, <1>5

LEMMA CStoreBorrowedOwned ==
  ASSUME CInv, AllOwned, CStoreBorrowed PROVE AllOwned'
<1>1. PICK p \in Tracked, i \in Slot, c \in CStr, len \in StrLen, a \in Addr :
        OwnsNothing(p, i) /\ SetOwnedCopy(p, i, c, len, a) /\ held' = held
  BY DEF CStoreBorrowed
<1>2. Tracked' = Tracked \cup {a} /\ a \notin Tracked /\ p \in Addr
  BY <1>1, RegisterCounts DEF SetOwnedCopy, Register, Tag, CInv, Tracked
<1>3. \A b \in Addr, j \in Slot :
        fields'[b][j] = IF b = p /\ j = i THEN a ELSE fields[b][j]
  BY <1>1 DEF SetOwnedCopy, Write, OwnsNothing, InRange, CInv, MemInv, TypeOK
<1>4. \A b \in Tracked, j \in Slot :
        fields[b][j] \in Tracked => fields'[b][j] = fields[b][j]
  BY <1>1, <1>3 DEF OwnsNothing, Tracked
<1>5. a \in Children(p)'
  BY <1>2, <1>3 DEF Children
<1>6. SUFFICES ASSUME NEW S \in SUBSET Tracked', held \subseteq S,
                      ClosedUnderChildren(S)'
               PROVE  S = Tracked'
  BY <1>1 DEF AllOwned
<1>7. Tracked \subseteq S
  BY <1>2, <1>4, <1>6, OldPart DEF CInv, HeldLive
<1>8. a \in S
  BY <1>5, <1>6, <1>7 DEF ClosedUnderChildren
<1>9. QED
  BY <1>2, <1>6, <1>7, <1>8

LEMMA CStoreNumberOwned ==
  ASSUME CInv, AllOwned, CStoreNumber PROVE AllOwned'
<1>1. PICK p \in Tracked, i \in Slot, w \in Num \cup {Null} :
        OwnsNothing(p, i) /\ SetF64(p, i, w) /\ held' = held
  BY DEF CStoreNumber
<1>2. Tracked' = Tracked
  BY <1>1 DEF SetF64, Tracked
<1>3. \A b \in Addr, j \in Slot :
        fields[b][j] \in Addr => fields'[b][j] = fields[b][j]
  BY <1>1 DEF SetF64, Write, OwnsNothing, InRange, CInv, MemInv, TypeOK
<1>4. SUFFICES ASSUME NEW S \in SUBSET Tracked', held \subseteq S,
                      ClosedUnderChildren(S)'
               PROVE  S = Tracked'
  BY <1>1 DEF AllOwned
<1>5. Tracked \subseteq S
  BY <1>2, <1>3, <1>4, OldPart DEF CInv, HeldLive, Tracked
<1>6. QED
  BY <1>2, <1>4, <1>5

(* copy: what is closed and holds the new handle holds, with the clone of  *)
(* a block, the clones of the blocks it owns, and so the clone of all that *)
(* p reaches.                                                              *)
LEMMA CCopyOwned == ASSUME CInv, AllOwned, CCopy PROVE AllOwned'
<1>1. PICK p \in Tracked : \E f \in [Cloned(p) -> Addr \ Tracked] :
        Copy(p, f) /\ held' = held \cup {f[p]}
  BY DEF CCopy
<1>2. PICK f \in [Cloned(p) -> Addr \ Tracked] :
        Copy(p, f) /\ held' = held \cup {f[p]}
  BY <1>1
<1> DEFINE D == Cloned(p)
           N == {f[s] : s \in D}
           src(a) == CHOOSE s \in D : f[s] = a
<1>3. /\ DOMAIN f = D /\ CopyBlocks(p, f)
      /\ \A a, b \in D : f[a] = f[b] => a = b
  BY <1>2 DEF Copy
<1>4. /\ p \in Reach(p) /\ Reach(p) \subseteq Tracked
      /\ ClosedUnderChildren(Reach(p))
      /\ \A T \in SUBSET Tracked :
           p \in T /\ ClosedUnderChildren(T) => Reach(p) \subseteq T
  BY ReachIsLeast
<1>5. /\ D = {a \in Reach(p) : tag[a] \in {"string", "struct"}}
      /\ p \in D /\ D \subseteq Addr
  BY <1>2, <1>4 DEF Cloned, Copy, Tracked
<1>6. /\ N \subseteq Addr \ Tracked
      /\ \A s \in D : f[s] \in N
      /\ \A a \in N : src(a) \in D /\ f[src(a)] = a
  OBVIOUS
<1>7. /\ tag' = [a \in Addr |-> IF a \in N THEN tag[src(a)] ELSE tag[a]]
      /\ fields' = [a \in Addr |->
           IF a \in N THEN [i \in Slot |-> CloneWord(f, fields[src(a)][i])]
           ELSE fields[a]]
  BY <1>3 DEF CopyBlocks
<1>8. \A s \in D : src(f[s]) = s
  BY <1>3, <1>6
<1> HIDE DEF D, N, src
<1>9. Tracked' = Tracked \cup N
  BY <1>5, <1>6, <1>7 DEF Tracked
<1>10. \A b \in Tracked : fields'[b] = fields[b]
  BY <1>6, <1>7 DEF Tracked
<1>11. SUFFICES ASSUME NEW S \in SUBSET Tracked', held' \subseteq S,
                       ClosedUnderChildren(S)'
                PROVE  S = Tracked'
  BY DEF AllOwned
<1>12. Tracked \subseteq S
  BY <1>2, <1>9, <1>10, <1>11, OldPart DEF CInv, HeldLive
<1> DEFINE Q == {s \in D : f[s] \in S} \cup (Reach(p) \ D)
<1>13. ASSUME NEW b \in Q, NEW c \in Children(b) PROVE c \in Q
  <2>1. c \in Reach(p) /\ b \in Reach(p) /\ b \in Addr /\ c \in Addr
    BY <1>4, <1>5, <1>13 DEF ClosedUnderChildren, Tracked
  <2>2. PICK i \in Slot : fields[b][i] = c
    BY <1>13 DEF Children
  <2>3. tag[b] = "struct"
    BY <2>1, <2>2 DEF CInv, OnlyStructsOwn
  <2>4. b \in D /\ f[b] \in S /\ f[b] \in N
    BY <1>5, <1>6, <1>13, <2>1, <2>3
  <2>5. CASE c \in D
    <3>1. fields'[f[b]][i] = CloneWord(f, fields[b][i])
      BY <1>6, <1>7, <1>8, <2>4
    <3>2. fields'[f[b]][i] = f[c] /\ f[c] \in Tracked'
      BY <1>3, <1>6, <1>9, <2>2, <2>5, <3>1 DEF CloneWord
    <3>3. f[c] \in Children(f[b])'
      BY <3>2 DEF Children
    <3>4. QED
      BY <1>11, <2>4, <2>5, <3>3 DEF ClosedUnderChildren
  <2>6. QED
    BY <2>1, <2>5
<1>14. p \in Q
  BY <1>2, <1>5, <1>11
<1>15. Q \in SUBSET Tracked
  BY <1>4, <1>5
<1>16. Reach(p) \subseteq Q
  BY <1>4, <1>13, <1>14, <1>15 DEF ClosedUnderChildren
<1>17. N \subseteq S
  BY <1>5, <1>6, <1>16
<1>18. QED
  BY <1>9, <1>11, <1>12, <1>17

(* CInv, with AllOwned, is inductive as well.                              *)
COwnedInv == CInv /\ AllOwned

LEMMA CInitOwned == CInit => COwnedInv
<1> SUFFICES ASSUME CInit PROVE COwnedInv
  OBVIOUS
<1>1. Tracked = {}
  BY DEF CInit, Init, Tracked
<1>2. QED
  BY <1>1, CInitInv DEF COwnedInv, AllOwned

LEMMA CNextOwned == ASSUME COwnedInv, [CNext]_clientVars PROVE COwnedInv'
<1> USE DEF COwnedInv
<1>1. CInv'
  BY CNextInv
<1>2. ASSUME UNCHANGED <<heapVars, held>> PROVE AllOwned'
  <2>1. Tracked' = Tracked
    BY <1>2 DEF heapVars, Tracked
  <2>2. \A S : ClosedUnderChildren(S)' <=> ClosedUnderChildren(S)
    BY <1>2, <2>1 DEF heapVars, ClosedUnderChildren, Children
  <2>3. QED
    BY <1>2, <2>1, <2>2 DEF AllOwned
<1>3. CASE CFreeAgain \/ CReset \/ UNCHANGED clientVars
  <2>1. UNCHANGED <<heapVars, held>>
    BY <1>3 DEF CFreeAgain, MemFree, CReset, Reset, clientVars, memVars, heapVars
  <2>2. QED
    BY <1>1, <1>2, <2>1
<1>4. QED
  BY <1>1, <1>3, CNewOwned, CMoveOwned, CStoreBorrowedOwned, CStoreNumberOwned,
     CFreeOwned, CCopyOwned DEF CNext

(* Whatever is allocated hangs below something the caller holds, so that   *)
(* freeing what it holds frees everything: a caller that keeps the rules   *)
(* of ownership cannot leak (mem_free, mem_struct_set_owned, copy).        *)
THEOREM NothingLeaks == CSpec => []NoLeak
<1>1. COwnedInv => NoLeak
  BY AllOwnedMeansNoLeak DEF COwnedInv, CInv
<1>2. QED
  BY <1>1, CInitOwned, CNextOwned, PTL DEF CSpec

(* Blocks on a cycle would own each other, reach no handle, and be lost;   *)
(* so there is none.                                                       *)
LEMMA NoCycle ==
  ASSUME COwnedInv, NEW p \in Tracked, NEW b \in Reach(p), NEW i \in Slot
  PROVE  fields[b][i] # p
<1> USE DEF COwnedInv
<1>1. SUFFICES ASSUME fields[b][i] = p PROVE FALSE
  OBVIOUS
<1>2. /\ p \in Reach(p) /\ Reach(p) \subseteq Tracked /\ Tracked \subseteq Addr
      /\ ClosedUnderChildren(Reach(p))
      /\ \A T \in SUBSET Tracked :
           p \in T /\ ClosedUnderChildren(T) => Reach(p) \subseteq T
  BY ReachIsLeast DEF Tracked
<1>3. p \notin held
  BY <1>1, <1>2 DEF CInv, OneOwner
(* A block that p reaches, and that is not p, is owned by one that p       *)
(* reaches.                                                                *)
<1>4. ASSUME NEW c \in Reach(p), c # p
      PROVE  \E d \in Reach(p), j \in Slot : fields[d][j] = c
  <2> DEFINE T == Reach(p) \ {c}
  <2>1. SUFFICES ASSUME \A d \in Reach(p), j \in Slot : fields[d][j] # c
                 PROVE  FALSE
    OBVIOUS
  <2>2. ClosedUnderChildren(T)
    BY <1>2, <2>1 DEF ClosedUnderChildren, Children
  <2>3. T \in SUBSET Tracked /\ p \in T
    BY <1>2, <1>4
  <2>4. Reach(p) \subseteq T
    BY <1>2, <2>2, <2>3
  <2>5. QED
    BY <1>4, <2>4
<1> DEFINE S == Tracked \ Reach(p)
<1>5. \A c \in Reach(p) : \E d \in Reach(p), j \in Slot : fields[d][j] = c
  BY <1>1, <1>4
<1>6. held \subseteq S
  <2>1. ASSUME NEW h \in held, h \in Reach(p) PROVE FALSE
    <3>1. PICK d \in Reach(p), j \in Slot : fields[d][j] = h
      BY <1>5, <2>1
    <3>2. d \in Tracked /\ h \in Tracked
      BY <1>2, <2>1
    <3>3. QED
      BY <2>1, <3>1, <3>2 DEF CInv, OneOwner, Tracked
  <2>2. QED
    BY <2>1 DEF CInv, HeldLive
<1>7. ASSUME NEW d \in S, NEW c \in Children(d) PROVE c \in S
  <2>1. c \in Tracked /\ \E j \in Slot : fields[d][j] = c
    BY <1>7 DEF Children
  <2>2. ASSUME c \in Reach(p) PROVE FALSE
    <3>1. PICK e \in Reach(p), k \in Slot : fields[e][k] = c
      BY <1>5, <2>2
    <3>2. e = d
      BY <1>2, <1>7, <2>1, <3>1 DEF CInv, OneOwner
    <3>3. QED
      BY <1>7, <3>2
  <2>3. QED
    BY <2>1, <2>2
<1>8. S = Tracked
  BY <1>6, <1>7 DEF AllOwned, ClosedUnderChildren
<1>9. QED
  BY <1>2, <1>8

(* What copy is given is always a tree of live blocks, on which its result *)
(* is defined and its recursion ends (copy, alloc.rs).                     *)
THEOREM CopyMeetsTrees == CSpec => []AlwaysTrees
<1>1. ASSUME COwnedInv, NEW p \in Tracked, NEW b \in Reach(p), NEW c \in Reach(p),
             NEW i \in Slot, NEW j \in Slot, fields[b][i] \in Addr
      PROVE  /\ fields[b][i] \in Tracked \ {p}
             /\ fields[b][i] = fields[c][j] => b = c /\ i = j
  <2>1. b \in Tracked /\ c \in Tracked
    BY ReachIsLeast
  <2>2. QED
    BY <1>1, <2>1, NoCycle DEF COwnedInv, CInv, NoDangling, OneOwner
<1>2. COwnedInv => AlwaysTrees
  BY <1>1 DEF AlwaysTrees, IsTree
<1>3. QED
  BY <1>2, CInitOwned, CNextOwned, PTL DEF CSpec

(* What one handle reaches and what another does are apart.                *)
LEMMA ReachApart ==
  ASSUME CInv, NEW p \in held, NEW h \in held, h # p
  PROVE  Reach(h) \subseteq Tracked \ Reach(p)
<1> DEFINE S == Tracked \ Reach(p)
<1>1. h \in Tracked /\ p \in Tracked
  BY DEF CInv, HeldLive
<1>2. \A T \in SUBSET Tracked :
        h \in T /\ ClosedUnderChildren(T) => Reach(h) \subseteq T
  BY <1>1, ReachIsLeast
<1>3. h \in S
  BY <1>1, OtherHandlesSurvive
<1>4. ASSUME NEW b \in S, NEW c \in Children(b) PROVE c \in S
  BY <1>4, NobodyPointsIn DEF Children
<1>5. ClosedUnderChildren(S)
  BY <1>4 DEF ClosedUnderChildren
<1>6. QED
  BY <1>2, <1>3, <1>5

(* mem_free takes only what hangs below the handle it is given: blocks     *)
(* below another handle stay, of their tag and type, and no other call     *)
(* changes them either.                                                    *)
THEOREM FreesAreLocal == CSpec => FreeIsLocal
<1> DEFINE Local == \A h \in held \cap held' : \A a \in Reach(h) :
                      a \in Tracked' /\ tag'[a] = tag[a] /\ typeId'[a] = typeId[a]
<1>1. ASSUME CInv, CFree PROVE Local
  <2>1. PICK p \in held : MemFree(p) /\ held' = held \ {p}
    BY <1>1 DEF CFree
  <2>2. FreeSet(Reach(p))
    BY <1>1, <2>1 DEF MemFree, IsTracked, CInv, HeldLive
  <2>3. SUFFICES ASSUME NEW h \in held, h # p, NEW a \in Reach(h)
                 PROVE  a \in Tracked' /\ tag'[a] = tag[a] /\ typeId'[a] = typeId[a]
    BY <2>1
  <2>4. a \in Tracked /\ a \notin Reach(p) /\ a \in Addr
    BY <1>1, <2>3, ReachApart DEF Tracked
  <2>5. QED
    BY <2>2, <2>4 DEF FreeSet, Tracked
<1>2. ASSUME CInv,
             \A a \in Tracked : tag'[a] = tag[a] /\ typeId'[a] = typeId[a]
      PROVE  Local
  <2>1. \A h \in held : Reach(h) \subseteq Tracked
    BY <1>2, ReachIsLeast DEF CInv, HeldLive
  <2>2. \A a \in Tracked : a \in Tracked'
    BY <1>2 DEF Tracked
  <2>3. QED
    BY <1>2, <2>1, <2>2
<1>3. ASSUME CInv, CNew \/ CStoreBorrowed PROVE Local
  BY <1>2, <1>3
     DEF CNew, CStoreBorrowed, StringNew, StructNew, ArrayNew, MapNew,
         SetOwnedCopy, Register, CInv, MemInv, TypeOK, Tracked
<1>4. ASSUME CInv, CMove \/ CStoreNumber PROVE Local
  BY <1>2, <1>4 DEF CMove, CStoreNumber, SetOwnedMove, SetF64
<1>5. ASSUME CInv, CCopy PROVE Local
  <2>1. PICK p \in Tracked : \E f \in [Cloned(p) -> Addr \ Tracked] : Copy(p, f)
    BY <1>5 DEF CCopy
  <2>2. PICK f \in [Cloned(p) -> Addr \ Tracked] : Copy(p, f)
    BY <2>1
  <2>3. CopyBlocks(p, f) /\ DOMAIN f = Cloned(p)
    BY <2>2 DEF Copy
  <2>4. \A a \in Tracked : a \notin {f[s] : s \in DOMAIN f}
    BY <2>3
  <2>5. QED
    BY <1>2, <1>5, <2>3, <2>4 DEF CopyBlocks, Tracked
<1>6. ASSUME CInv, CFreeAgain \/ CReset \/ UNCHANGED clientVars PROVE Local
  BY <1>2, <1>6
     DEF CFreeAgain, MemFree, CReset, Reset, clientVars, memVars, heapVars
<1>7. CInv /\ [CNext]_clientVars => [Local]_clientVars
  BY <1>1, <1>3, <1>4, <1>5, <1>6 DEF CNext
<1>8. QED
  BY <1>7, CInitInv, CNextInv, PTL DEF CSpec, FreeIsLocal
=============================================================================
