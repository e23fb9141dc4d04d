--------------------------- MODULE OwnershipProofs ---------------------------
(***************************************************************************)
(* Proofs about Ownership and OwnershipRun: of a body of any length and    *)
(* nesting that the checker accepts, every execution, with any branches    *)
(* and any number of turns, is clean, and the one table the walker keeps   *)
(* describes all of them.                                                  *)
(*                                                                         *)
(* The first part is about the walker alone: p is the list of what was     *)
(* walked, t the table after it, fs the frames of the recursion.           *)
(***************************************************************************)
EXTENDS OwnershipRun, FiniteSetTheorems, SequenceTheorems, WellFoundedInduction, TLAPS

Ops == {"const", "let", "var", "assign", "expr", "set", "return", "break",
        "continue", "if", "loop", "for", "else", "end"}
Codes == {"E-OWN-001", "E-OWN-002", "E-OWN-003", "E-OWN-004", "E-OWN-006", "E-OWN-009",
          "E-OWN-010"}
EntryType == [op : Ops, var : Vars \cup {NoVar}, expr : Expr, codes : SUBSET Codes,
              depth : Nat, pre : Table]
FrameType == [kind : {"if", "else", "loop", "for"}, before : Table,
              consumed : SUBSET Vars, reassigned : SUBSET Vars]

IsOpener(s) == s.op \in {"if", "loop", "for"}
IsLoop(s) == s.op \in {"loop", "for"}
IsDivider(s) == s.op \in {"else", "end"}
Known(t) == {v \in Vars : t[v] # "absent"}

(* The table before the j-th entry, which may be the next one to come.     *)
Before(p, t, j) == IF j \in 1 .. Len(p) THEN p[j].pre ELSE t

(* The entry o opens a block, and j is in it or its end: it has not ended  *)
(* before j.                                                               *)
Block(p, o, j) ==
  /\ o \in 1 .. Len(p) /\ IsOpener(p[o]) /\ o < j
  /\ \A m \in o + 1 .. j - 1 : ~ (p[m].op = "end" /\ p[m].depth = p[o].depth)

(* p2 is p with one more entry. *)
Grown(p, p2, s) ==
  /\ p2 \in Seq(EntryType) /\ Len(p2) = Len(p) + 1
  /\ p2[Len(p) + 1] = s
  /\ \A i \in 1 .. Len(p) : p2[i] = p[i]

LEMMA AppendGrows ==
  ASSUME NEW p \in Seq(EntryType), NEW s \in EntryType
  PROVE  Grown(p, Append(p, s), s)
  BY AppendProperties DEF Grown

LEMMA BlockGrows ==
  ASSUME NEW p \in Seq(EntryType), NEW p2, NEW s, Grown(p, p2, s)
  PROVE  /\ \A o \in Nat, j \in 1 .. Len(p) + 1 : Block(p2, o, j) <=> Block(p, o, j)
         /\ \A o \in Nat : Block(p2, o, Len(p) + 2) <=>
              \/ Block(p, o, Len(p) + 1) /\ ~ (s.op = "end" /\ s.depth = p[o].depth)
              \/ o = Len(p) + 1 /\ IsOpener(s)
<1>1. /\ Len(p) \in Nat /\ Len(p2) = Len(p) + 1 /\ p2[Len(p) + 1] = s
      /\ \A i \in 1 .. Len(p) : p2[i] = p[i]
  BY LenProperties DEF Grown
<1>2. ASSUME NEW o \in Nat, NEW j \in 1 .. Len(p) + 1
      PROVE  Block(p2, o, j) <=> Block(p, o, j)
  <2>1. CASE o \in 1 .. Len(p)
    <3>1. \A m \in o + 1 .. j - 1 : p2[m] = p[m]
      BY <1>1, <2>1
    <3>2. p2[o] = p[o] /\ o \in 1 .. Len(p2)
      BY <1>1, <2>1
    <3>3. QED
      BY <2>1, <3>1, <3>2 DEF Block
  <2>2. CASE o \notin 1 .. Len(p)
    <3>1. ~ (o \in 1 .. Len(p2) /\ o < j)
      BY <1>1, <2>2
    <3>2. QED
      BY <2>2, <3>1 DEF Block
  <2>3. QED
    BY <2>1, <2>2
<1>3. ASSUME NEW o \in Nat
      PROVE  Block(p2, o, Len(p) + 2) <=>
               \/ Block(p, o, Len(p) + 1) /\ ~ (s.op = "end" /\ s.depth = p[o].depth)
               \/ o = Len(p) + 1 /\ IsOpener(s)
  <2>1. CASE o \in 1 .. Len(p)
    <3>1. p2[o] = p[o] /\ o \in 1 .. Len(p2) /\ o < Len(p) + 1 /\ o < Len(p) + 2
      BY <1>1, <2>1
    <3>2. \A m \in o + 1 .. (Len(p) + 2) - 1 : m \in o + 1 .. (Len(p) + 1) - 1 \/ m = Len(p) + 1
      BY <1>1, <2>1
    <3>3. /\ Len(p) + 1 \in o + 1 .. (Len(p) + 2) - 1
          /\ \A m \in o + 1 .. (Len(p) + 1) - 1 : m \in o + 1 .. (Len(p) + 2) - 1 /\ p2[m] = p[m]
      BY <1>1, <2>1
    <3>4. o # Len(p) + 1
      BY <1>1, <2>1
    <3>5. QED
      BY <1>1, <2>1, <3>1, <3>2, <3>3, <3>4 DEF Block
  <2>2. CASE o = Len(p) + 1
    <3>1. o \in 1 .. Len(p2) /\ o < Len(p) + 2 /\ o \notin 1 .. Len(p) /\ p2[o] = s
          /\ \A m \in o + 1 .. (Len(p) + 2) - 1 : FALSE
      BY <1>1, <2>2
    <3>2. QED
      BY <2>2, <3>1 DEF Block
  <2>3. CASE o \notin 1 .. Len(p) + 1
    BY <1>1, <2>3 DEF Block
  <2>4. QED
    BY <1>1, <2>1, <2>2, <2>3
<1>4. QED
  BY <1>2, <1>3

(* The entry s was made when the walker had the table t. *)
Notes(s, t) == s.pre = t

LEMMA BeforeGrows ==
  ASSUME NEW p \in Seq(EntryType), NEW p2, NEW s, Grown(p, p2, s), NEW t, NEW t2, Notes(s, t),
         NEW j \in 1 .. Len(p) + 1
  PROVE  Before(p2, t2, j) = Before(p, t, j)
<1>1. /\ Len(p) \in Nat /\ Len(p2) = Len(p) + 1 /\ p2[Len(p) + 1] = s
      /\ \A i \in 1 .. Len(p) : p2[i] = p[i]
  BY LenProperties DEF Grown
<1>2. CASE j \in 1 .. Len(p)
  BY <1>1, <1>2 DEF Before
<1>3. CASE j = Len(p) + 1
  BY <1>1, <1>3 DEF Before, Notes
<1>4. QED
  BY <1>1, <1>2, <1>3

LEMMA BeforeNext ==
  ASSUME NEW p \in Seq(EntryType), NEW p2, NEW s, Grown(p, p2, s), NEW t2
  PROVE  Before(p2, t2, Len(p) + 2) = t2
<1>1. Len(p) \in Nat /\ Len(p2) = Len(p) + 1
  BY LenProperties DEF Grown
<1>2. QED
  BY <1>1 DEF Before

(* A block is around what is in it. *)
LEMMA BlockEarlier ==
  ASSUME NEW p \in Seq(EntryType), NEW o, NEW i \in Nat, NEW j \in Nat,
         Block(p, o, j), o < i, i <= j
  PROVE  Block(p, o, i)
  BY DEF Block

-----------------------------------------------------------------------------
(* Brackets nest: what is in a block is deeper than what opens it, up to   *)
(* what divides or ends it.                                                *)
Nests(p) ==
  \A o, j \in 1 .. Len(p) : Block(p, o, j) =>
    p[j].depth > p[o].depth \/ (p[j].depth = p[o].depth /\ IsDivider(p[j]))

(* m divides or ends the block that o opens.                               *)
Divides(p, o, m) ==
  m \in 1 .. Len(p) /\ Block(p, o, m) /\ IsDivider(p[m]) /\ p[m].depth = p[o].depth
ElseOf(p, o, m) == Divides(p, o, m) /\ p[m].op = "else"
EndOfBlock(p, o, m) == Divides(p, o, m) /\ p[m].op = "end"
OpenBlock(p, o) == Block(p, o, Len(p) + 1)

(* Every else and every end has its opener, every jump its loop.           *)
Opened(p) ==
  \A m \in 1 .. Len(p) : IsDivider(p[m]) =>
    \E o \in 1 .. Len(p) : Divides(p, o, m) /\ (p[m].op = "else" => p[o].op = "if")
IsJump(s) == s.op \in {"break", "continue"}
Jumps(p) ==
  \A m \in 1 .. Len(p) : IsJump(p[m]) =>
    \E o \in 1 .. Len(p) : Block(p, o, m) /\ IsLoop(p[o])

(* A name known before a block is known in it.                             *)
Scopes(p, t) ==
  \A o \in 1 .. Len(p), j \in 1 .. Len(p) + 1 :
    Block(p, o, j) => Known(p[o].pre) \subseteq Known(Before(p, t, j))

(* The frames are the blocks still open, one for each depth, and hold what *)
(* the walker had before them.                                             *)
FrameOf(p, o, f) ==
  /\ f.before = p[o].pre
  /\ \/ f.kind = p[o].op /\ f.consumed = {} /\ \A m \in 1 .. Len(p) : ~ ElseOf(p, o, m)
     \/ /\ f.kind = "else" /\ p[o].op = "if"
        /\ \E m \in 1 .. Len(p) : ElseOf(p, o, m)
        /\ \A m \in 1 .. Len(p) : ElseOf(p, o, m) =>
             f.consumed = NewlyConsumed(p[o].pre, p[m].pre)
AllOpen(p, fs) ==
  \A k \in 1 .. Len(fs) : \E o \in 1 .. Len(p) : OpenBlock(p, o) /\ p[o].depth = k - 1
Framed(p, fs) ==
  \A o \in 1 .. Len(p) : OpenBlock(p, o) =>
    p[o].depth < Len(fs) /\ FrameOf(p, o, fs[p[o].depth + 1])

Shape(p, t, fs) ==
  /\ p \in Seq(EntryType) /\ t \in Table /\ fs \in Seq(FrameType)
  /\ Nests(p) /\ Opened(p) /\ Jumps(p) /\ Scopes(p, t)
  /\ AllOpen(p, fs) /\ Framed(p, fs)

LEMMA GrownFacts ==
  ASSUME NEW p \in Seq(EntryType), NEW p2, NEW s, Grown(p, p2, s)
  PROVE  /\ Len(p) \in Nat /\ Len(p2) = Len(p) + 1 /\ p2 \in Seq(EntryType)
         /\ p2[Len(p) + 1] = s /\ s \in EntryType
         /\ \A i \in 1 .. Len(p) : p2[i] = p[i] /\ p[i] \in EntryType
  BY LenProperties, ElementOfSeq DEF Grown

(* The last entry is in no block but the open ones.                        *)
LEMMA NestsGrows ==
  ASSUME NEW p \in Seq(EntryType), NEW p2, NEW s, Grown(p, p2, s), Nests(p),
         \A o \in 1 .. Len(p) : OpenBlock(p, o) =>
           s.depth > p[o].depth \/ (s.depth = p[o].depth /\ IsDivider(s))
  PROVE  Nests(p2)
<1>1. /\ Len(p) \in Nat /\ Len(p2) = Len(p) + 1 /\ p2[Len(p) + 1] = s
      /\ \A i \in 1 .. Len(p) : p2[i] = p[i]
  BY GrownFacts
<1>2. SUFFICES ASSUME NEW o \in 1 .. Len(p2), NEW j \in 1 .. Len(p2), Block(p2, o, j)
               PROVE  p2[j].depth > p2[o].depth
                      \/ (p2[j].depth = p2[o].depth /\ IsDivider(p2[j]))
  BY DEF Nests
<1>3. o < j /\ o \in 1 .. Len(p) /\ j \in 1 .. Len(p) + 1 /\ o \in Nat
  BY <1>1, <1>2 DEF Block
<1>4. Block(p, o, j)
  BY <1>2, <1>3, BlockGrows
<1>5. CASE j \in 1 .. Len(p)
  BY <1>1, <1>3, <1>4, <1>5 DEF Nests
<1>6. CASE j = Len(p) + 1
  BY <1>1, <1>3, <1>4, <1>6 DEF OpenBlock
<1>7. QED
  BY <1>1, <1>3, <1>5, <1>6

LEMMA DividesGrows ==
  ASSUME NEW p \in Seq(EntryType), NEW p2, NEW s, Grown(p, p2, s), NEW o \in 1 .. Len(p)
  PROVE  /\ \A m \in 1 .. Len(p) :
              /\ Divides(p2, o, m) <=> Divides(p, o, m)
              /\ ElseOf(p2, o, m) <=> ElseOf(p, o, m)
              /\ EndOfBlock(p2, o, m) <=> EndOfBlock(p, o, m)
         /\ Divides(p2, o, Len(p) + 1) <=>
              OpenBlock(p, o) /\ IsDivider(s) /\ s.depth = p[o].depth
<1>1. /\ Len(p) \in Nat /\ Len(p2) = Len(p) + 1 /\ p2[Len(p) + 1] = s /\ o \in Nat
      /\ \A i \in 1 .. Len(p) : p2[i] = p[i]
  BY GrownFacts
<1>2. \A m \in 1 .. Len(p) + 1 : Block(p2, o, m) <=> Block(p, o, m)
  BY <1>1, BlockGrows
<1>3. ASSUME NEW m \in 1 .. Len(p)
      PROVE  /\ Divides(p2, o, m) <=> Divides(p, o, m)
             /\ ElseOf(p2, o, m) <=> ElseOf(p, o, m)
             /\ EndOfBlock(p2, o, m) <=> EndOfBlock(p, o, m)
  BY <1>1, <1>2 DEF Divides, ElseOf, EndOfBlock
<1>4. Divides(p2, o, Len(p) + 1) <=>
        OpenBlock(p, o) /\ IsDivider(s) /\ s.depth = p[o].depth
  BY <1>1, <1>2 DEF Divides, OpenBlock
<1>5. QED
  BY <1>3, <1>4

LEMMA OpenedGrows ==
  ASSUME NEW p \in Seq(EntryType), NEW p2, NEW s, Grown(p, p2, s), Opened(p),
         IsDivider(s) => \E o \in 1 .. Len(p) :
           OpenBlock(p, o) /\ s.depth = p[o].depth /\ (s.op = "else" => p[o].op = "if")
  PROVE  Opened(p2)
<1>1. /\ Len(p) \in Nat /\ Len(p2) = Len(p) + 1 /\ p2[Len(p) + 1] = s
      /\ \A i \in 1 .. Len(p) : p2[i] = p[i]
  BY GrownFacts
<1>2. SUFFICES ASSUME NEW m \in 1 .. Len(p2), IsDivider(p2[m])
               PROVE  \E o \in 1 .. Len(p2) :
                        Divides(p2, o, m) /\ (p2[m].op = "else" => p2[o].op = "if")
  BY DEF Opened
<1>3. CASE m \in 1 .. Len(p)
  <2>1. PICK o \in 1 .. Len(p) : Divides(p, o, m) /\ (p[m].op = "else" => p[o].op = "if")
    BY <1>1, <1>2, <1>3 DEF Opened
  <2>2. Divides(p2, o, m) /\ o \in 1 .. Len(p2) /\ p2[o] = p[o] /\ p2[m] = p[m]
    BY <1>1, <1>3, <2>1, DividesGrows
  <2>3. QED
    BY <2>1, <2>2
<1>4. CASE m = Len(p) + 1
  <2>1. PICK o \in 1 .. Len(p) :
          OpenBlock(p, o) /\ s.depth = p[o].depth /\ (s.op = "else" => p[o].op = "if")
    BY <1>1, <1>2, <1>4
  <2>2. Divides(p2, o, m) /\ o \in 1 .. Len(p2) /\ p2[o] = p[o] /\ p2[m] = s
    BY <1>1, <1>2, <1>4, <2>1, DividesGrows
  <2>3. QED
    BY <2>1, <2>2
<1>5. QED
  BY <1>1, <1>3, <1>4

LEMMA JumpsGrows ==
  ASSUME NEW p \in Seq(EntryType), NEW p2, NEW s, Grown(p, p2, s), Jumps(p),
         IsJump(s) => \E o \in 1 .. Len(p) : OpenBlock(p, o) /\ IsLoop(p[o])
  PROVE  Jumps(p2)
<1>1. /\ Len(p) \in Nat /\ Len(p2) = Len(p) + 1 /\ p2[Len(p) + 1] = s
      /\ \A i \in 1 .. Len(p) : p2[i] = p[i]
  BY GrownFacts
<1>2. SUFFICES ASSUME NEW m \in 1 .. Len(p2), IsJump(p2[m])
               PROVE  \E o \in 1 .. Len(p2) : Block(p2, o, m) /\ IsLoop(p2[o])
  BY DEF Jumps
<1>3. CASE m \in 1 .. Len(p)
  <2>1. PICK o \in 1 .. Len(p) : Block(p, o, m) /\ IsLoop(p[o])
    BY <1>1, <1>2, <1>3 DEF Jumps
  <2>2. Block(p2, o, m) /\ o \in 1 .. Len(p2) /\ p2[o] = p[o]
    BY <1>1, <1>3, <2>1, BlockGrows
  <2>3. QED
    BY <2>1, <2>2
<1>4. CASE m = Len(p) + 1
  <2>1. PICK o \in 1 .. Len(p) : OpenBlock(p, o) /\ IsLoop(p[o])
    BY <1>1, <1>2, <1>4
  <2>2. Block(p2, o, m) /\ o \in 1 .. Len(p2) /\ p2[o] = p[o]
    BY <1>1, <1>4, <2>1, BlockGrows DEF OpenBlock
  <2>3. QED
    BY <2>1, <2>2
<1>5. QED
  BY <1>1, <1>3, <1>4

(* The blocks open after one more entry: those it does not end, and its own. *)
Stays(p, o, s) == OpenBlock(p, o) /\ ~ (s.op = "end" /\ s.depth = p[o].depth)

LEMMA OpenGrows ==
  ASSUME NEW p \in Seq(EntryType), NEW p2, NEW s, Grown(p, p2, s)
  PROVE  /\ \A o \in 1 .. Len(p) : OpenBlock(p2, o) <=> Stays(p, o, s)
         /\ OpenBlock(p2, Len(p) + 1) <=> IsOpener(s)
<1>1. /\ Len(p) \in Nat /\ Len(p2) = Len(p) + 1 /\ Len(p2) + 1 = Len(p) + 2
  BY GrownFacts
<1>2. \A o \in Nat : OpenBlock(p2, o) <=> Stays(p, o, s) \/ (o = Len(p) + 1 /\ IsOpener(s))
  BY <1>1, BlockGrows DEF OpenBlock, Stays
<1>3. ~ OpenBlock(p, Len(p) + 1)
  BY <1>1 DEF OpenBlock, Block
<1>4. QED
  BY <1>1, <1>2, <1>3 DEF Stays

LEMMA ScopesGrows ==
  ASSUME NEW p \in Seq(EntryType), NEW p2, NEW s, Grown(p, p2, s), NEW t, NEW t2,
         Scopes(p, t), Notes(s, t),
         \A o \in 1 .. Len(p) : Stays(p, o, s) => Known(p[o].pre) \subseteq Known(t2),
         IsOpener(s) => Known(t) \subseteq Known(t2)
  PROVE  Scopes(p2, t2)
<1>1. /\ Len(p) \in Nat /\ Len(p2) = Len(p) + 1 /\ p2[Len(p) + 1] = s
      /\ \A i \in 1 .. Len(p) : p2[i] = p[i]
  BY GrownFacts
<1>2. SUFFICES ASSUME NEW o \in 1 .. Len(p2), NEW j \in 1 .. Len(p2) + 1, Block(p2, o, j)
               PROVE  Known(p2[o].pre) \subseteq Known(Before(p2, t2, j))
  BY DEF Scopes
<1>3. o < j /\ o \in Nat
  BY <1>2 DEF Block
<1>4. CASE j \in 1 .. Len(p) + 1
  <2>1. o \in 1 .. Len(p) /\ Block(p, o, j)
    BY <1>1, <1>2, <1>3, <1>4, BlockGrows
  <2>2. Before(p2, t2, j) = Before(p, t, j)
    BY <1>4, BeforeGrows
  <2>3. QED
    BY <1>1, <1>4, <2>1, <2>2 DEF Scopes
<1>5. CASE j = Len(p) + 2
  <2>1. Before(p2, t2, j) = t2 /\ OpenBlock(p2, o)
    BY <1>1, <1>2, <1>5, BeforeNext DEF OpenBlock
  <2>2. CASE o \in 1 .. Len(p)
    BY <1>1, <2>1, <2>2, OpenGrows
  <2>3. CASE o = Len(p) + 1
    BY <1>1, <2>1, <2>3, OpenGrows DEF Notes
  <2>4. QED
    BY <1>1, <2>2, <2>3
<1>6. QED
  BY <1>1, <1>4, <1>5

LEMMA EntryFields ==
  ASSUME NEW p \in Seq(EntryType), NEW i \in 1 .. Len(p)
  PROVE  /\ p[i] \in EntryType
         /\ p[i].op \in Ops /\ p[i].depth \in Nat /\ p[i].pre \in Table
         /\ p[i].var \in Vars \cup {NoVar} /\ p[i].expr \in Expr
<1>1. p[i] \in EntryType
  BY ElementOfSeq
<1>2. QED
  BY <1>1 DEF EntryType

(* The innermost of the blocks still open.                                 *)
InnermostOpen(p, fs, o) ==
  /\ o \in 1 .. Len(p) /\ OpenBlock(p, o) /\ p[o].depth = Len(fs) - 1
  /\ FrameOf(p, o, fs[Len(fs)])
  /\ \A o2 \in 1 .. Len(p) : OpenBlock(p, o2) =>
       o2 = o \/ (o2 < o /\ Block(p, o2, o) /\ p[o2].depth < p[o].depth)

LEMMA TopIsInnermost ==
  ASSUME NEW p, NEW t, NEW fs, Shape(p, t, fs), fs # <<>>
  PROVE  Len(fs) \in Nat \ {0} /\ \E o \in 1 .. Len(p) : InnermostOpen(p, fs, o)
<1>1. p \in Seq(EntryType) /\ Nests(p) /\ AllOpen(p, fs) /\ Framed(p, fs)
      /\ Len(p) \in Nat /\ Len(fs) \in Nat /\ Len(fs) # 0
  BY LenProperties, EmptySeq DEF Shape
<1>2. Len(fs) \in 1 .. Len(fs)
  BY <1>1
<1>3. PICK o \in 1 .. Len(p) : OpenBlock(p, o) /\ p[o].depth = Len(fs) - 1
  BY <1>1, <1>2 DEF AllOpen
<1>4. p[o].depth + 1 = Len(fs)
  BY <1>1, <1>3
<1>5. FrameOf(p, o, fs[Len(fs)])
  BY <1>1, <1>3, <1>4 DEF Framed
<1>6. ASSUME NEW o2 \in 1 .. Len(p), OpenBlock(p, o2), o2 # o
      PROVE  o2 < o /\ Block(p, o2, o) /\ p[o2].depth < p[o].depth
  <2>1. p[o2].depth \in Nat /\ p[o].depth \in Nat /\ p[o2].depth < Len(fs)
    BY <1>1, <1>6, EntryFields DEF Framed
  <2>2. ~ IsDivider(p[o]) /\ ~ IsDivider(p[o2])
    BY <1>3, <1>6 DEF OpenBlock, Block, IsOpener, IsDivider
  <2>3. CASE o < o2
    <3>1. Block(p, o, o2)
      BY <1>1, <1>3, <2>3, BlockEarlier DEF OpenBlock
    <3>2. p[o2].depth > p[o].depth
      BY <1>1, <2>2, <3>1 DEF Nests
    <3>3. QED
      BY <1>1, <1>3, <2>1, <3>2
  <2>4. CASE o2 < o
    <3>1. Block(p, o2, o)
      BY <1>1, <1>6, <2>4, BlockEarlier DEF OpenBlock
    <3>2. p[o].depth > p[o2].depth
      BY <1>1, <2>2, <3>1 DEF Nests
    <3>3. QED
      BY <2>1, <2>4, <3>1, <3>2
  <2>5. QED
    BY <1>1, <1>6, <2>3, <2>4
<1>7. QED
  BY <1>1, <1>3, <1>5, <1>6 DEF InnermostOpen

SameFrame(f, f2) == f2.kind = f.kind /\ f2.before = f.before /\ f2.consumed = f.consumed

LEMMA FrameGrows ==
  ASSUME NEW p \in Seq(EntryType), NEW p2, NEW s, Grown(p, p2, s), NEW o \in 1 .. Len(p),
         NEW f, NEW f2, FrameOf(p, o, f), SameFrame(f, f2),
         ~ (OpenBlock(p, o) /\ s.op = "else" /\ s.depth = p[o].depth)
  PROVE  FrameOf(p2, o, f2)
<1>1. /\ Len(p) \in Nat /\ Len(p2) = Len(p) + 1 /\ p2[Len(p) + 1] = s
      /\ \A i \in 1 .. Len(p) : p2[i] = p[i]
  BY GrownFacts
<1>2. \A m \in 1 .. Len(p) : ElseOf(p2, o, m) <=> ElseOf(p, o, m)
  BY DividesGrows
<1>3. ~ ElseOf(p2, o, Len(p) + 1)
  BY <1>1, DividesGrows DEF ElseOf
<1>4. \A m \in 1 .. Len(p2) : ElseOf(p2, o, m) => m \in 1 .. Len(p) /\ ElseOf(p, o, m)
  BY <1>1, <1>2, <1>3
<1>5. f2.kind = f.kind /\ f2.before = p[o].pre /\ f.before = p[o].pre
      /\ f2.consumed = f.consumed /\ p2[o] = p[o]
  BY <1>1 DEF SameFrame, FrameOf
<1>6. CASE f.kind = p[o].op /\ f.consumed = {} /\ \A m \in 1 .. Len(p) : ~ ElseOf(p, o, m)
  BY <1>4, <1>5, <1>6 DEF FrameOf
<1>7. CASE /\ f.kind = "else" /\ p[o].op = "if"
           /\ \E m \in 1 .. Len(p) : ElseOf(p, o, m)
           /\ \A m \in 1 .. Len(p) : ElseOf(p, o, m) =>
                f.consumed = NewlyConsumed(p[o].pre, p[m].pre)
  <2>1. \E m \in 1 .. Len(p2) : ElseOf(p2, o, m)
    BY <1>1, <1>2, <1>7
  <2>2. \A m \in 1 .. Len(p2) : ElseOf(p2, o, m) =>
          f2.consumed = NewlyConsumed(p2[o].pre, p2[m].pre)
    BY <1>1, <1>4, <1>5, <1>7
  <2>3. QED
    BY <1>5, <1>7, <2>1, <2>2 DEF FrameOf
<1>8. QED
  BY <1>6, <1>7 DEF FrameOf

-----------------------------------------------------------------------------
(* What a step of the walker is: an entry without a block, one that opens  *)
(* a block, an else, an end.                                               *)

(* The table after an entry that is no else and no end.                    *)
Effect(s) ==
  [v \in Vars |->
     IF s.op \in {"const", "var", "assign", "for"} /\ v = s.var THEN "Owned"
     ELSE IF s.op = "let" /\ v = s.var THEN "Borrowed"
     ELSE IF s.op \in {"const", "expr", "return"} THEN AfterCall(s.expr, s.pre)[v]
     ELSE s.pre[v]]

Enters(p, t, p2, s, depth) ==
  p \in Seq(EntryType) /\ Grown(p, p2, s) /\ Notes(s, t) /\ s.depth = depth

Straight(p, t, fs, p2, t2, fs2, s) ==
  /\ Enters(p, t, p2, s, Len(fs)) /\ ~ IsOpener(s) /\ ~ IsDivider(s)
  /\ IsJump(s) => \E i \in 1 .. Len(fs) : fs[i].kind \in {"loop", "for"}
  /\ t2 = Effect(s) /\ t2 \in Table
  /\ fs2 \in Seq(FrameType) /\ Len(fs2) = Len(fs)
  /\ \A i \in 1 .. Len(fs) : SameFrame(fs[i], fs2[i])

Opening(p, t, fs, p2, t2, fs2, s) ==
  /\ Enters(p, t, p2, s, Len(fs)) /\ IsOpener(s)
  /\ t2 = Effect(s) /\ t2 \in Table
  /\ fs2 \in Seq(FrameType) /\ Len(fs2) = Len(fs) + 1
  /\ \A i \in 1 .. Len(fs) : SameFrame(fs[i], fs2[i])
  /\ LET f == fs2[Len(fs) + 1] IN f.kind = s.op /\ f.before = t /\ f.consumed = {}

Dividing(p, t, fs, p2, t2, fs2, s) ==
  /\ fs # <<>> /\ Enters(p, t, p2, s, Len(fs) - 1) /\ s.op = "else"
  /\ fs[Len(fs)].kind = "if" /\ t2 = fs[Len(fs)].before
  /\ fs2 \in Seq(FrameType) /\ Len(fs2) = Len(fs)
  /\ \A i \in 1 .. Len(fs) - 1 : SameFrame(fs[i], fs2[i])
  /\ LET f == fs2[Len(fs)] IN
     f.kind = "else" /\ f.before = t2 /\ f.consumed = NewlyConsumed(t2, t)

(* The table after the end of the block f. *)
ClosedTable(f, t) ==
  CASE f.kind \in {"if", "for"} -> f.before
    [] f.kind = "else" ->
         [v \in Vars |-> IF v \in f.consumed \cap NewlyConsumed(f.before, t)
                         THEN "Consumed" ELSE f.before[v]]
    [] f.kind = "loop" ->
         [v \in Vars |-> IF t[v] = "Consumed" /\ f.before[v] # "absent"
                         THEN "Consumed" ELSE f.before[v]]

(* What the walker reports at the end of the block f. *)
ClosedCodes(f, t) ==
  CASE f.kind = "if" -> BranchCodes(NewlyConsumed(f.before, t), {})
    [] f.kind = "else" -> BranchCodes(f.consumed, NewlyConsumed(f.before, t))
    [] f.kind \in {"loop", "for"} -> LoopCodes(f, t)

Closing(p, t, fs, p2, t2, fs2, s) ==
  /\ fs # <<>> /\ Enters(p, t, p2, s, Len(fs) - 1) /\ s.op = "end"
  /\ t2 = ClosedTable(fs[Len(fs)], t) /\ t2 \in Table
  /\ s.codes = ClosedCodes(fs[Len(fs)], t)
  /\ fs2 \in Seq(FrameType) /\ Len(fs2) = Len(fs) - 1
  /\ \A i \in 1 .. Len(fs) - 1 : SameFrame(fs[i], fs2[i])

(* No entry forgets a name. *)
LEMMA EffectKnows ==
  ASSUME NEW s \in EntryType, NEW t, Notes(s, t)
  PROVE  Known(t) \subseteq Known(Effect(s))
<1>1. ASSUME NEW v \in Vars, t[v] # "absent" PROVE Effect(s)[v] # "absent"
  <2>1. AfterCall(s.expr, s.pre)[v] # "absent"
    BY <1>1 DEF AfterCall, Notes
  <2>2. s.pre = t
    BY DEF Notes
  <2>3. QED
    BY <1>1, <2>1, <2>2 DEF Effect
<1>2. QED
  BY <1>1 DEF Known

LEMMA StraightShape ==
  ASSUME NEW p, NEW t, NEW fs, NEW p2, NEW t2, NEW fs2, NEW s,
         Shape(p, t, fs), Straight(p, t, fs, p2, t2, fs2, s)
  PROVE  Shape(p2, t2, fs2)
<1>1. /\ p \in Seq(EntryType) /\ Grown(p, p2, s) /\ Notes(s, t) /\ s.depth = Len(fs)
      /\ ~ IsOpener(s) /\ ~ IsDivider(s) /\ t2 = Effect(s)
      /\ Nests(p) /\ Opened(p) /\ Jumps(p) /\ Scopes(p, t)
      /\ AllOpen(p, fs) /\ Framed(p, fs) /\ Len(fs) \in Nat
  BY LenProperties DEF Straight, Enters, Shape
<1>2. /\ Len(p) \in Nat /\ Len(p2) = Len(p) + 1 /\ s \in EntryType
      /\ \A i \in 1 .. Len(p) : p2[i] = p[i]
  BY <1>1, GrownFacts
<1>3. Nests(p2)
  <2>1. \A o \in 1 .. Len(p) : OpenBlock(p, o) => s.depth > p[o].depth
    BY <1>1, EntryFields DEF Framed
  <2>2. QED
    BY <1>1, <2>1, NestsGrows
<1>4. Opened(p2)
  BY <1>1, OpenedGrows
<1>5. Jumps(p2)
  <2>1. ASSUME IsJump(s) PROVE \E o \in 1 .. Len(p) : OpenBlock(p, o) /\ IsLoop(p[o])
    <3>1. PICK i \in 1 .. Len(fs) : fs[i].kind \in {"loop", "for"}
      BY <2>1 DEF Straight
    <3>2. PICK o \in 1 .. Len(p) : OpenBlock(p, o) /\ p[o].depth = i - 1
      BY <1>1 DEF AllOpen
    <3>3. FrameOf(p, o, fs[i])
      <4>1. p[o].depth + 1 = i
        BY <1>1, <3>2
      <4>2. QED
        BY <1>1, <3>2, <4>1 DEF Framed
    <3>4. fs[i].kind = p[o].op
      BY <3>1, <3>3 DEF FrameOf
    <3>5. QED
      BY <3>1, <3>2, <3>4 DEF IsLoop
  <2>2. QED
    BY <1>1, <2>1, JumpsGrows
<1>6. Scopes(p2, t2)
  <2>1. Known(t) \subseteq Known(t2)
    BY <1>1, <1>2, EffectKnows
  <2>2. ASSUME NEW o \in 1 .. Len(p), Stays(p, o, s)
        PROVE  Known(p[o].pre) \subseteq Known(t2)
    <3>1. Block(p, o, Len(p) + 1) /\ Len(p) + 1 \in 1 .. Len(p) + 1
      BY <1>2, <2>2 DEF Stays, OpenBlock
    <3>2. Before(p, t, Len(p) + 1) = t
      BY <1>2 DEF Before
    <3>3. QED
      BY <1>1, <2>1, <3>1, <3>2 DEF Scopes
  <2>3. QED
    BY <1>1, <2>2, ScopesGrows
<1>7. \A o \in 1 .. Len(p) : OpenBlock(p2, o) <=> OpenBlock(p, o)
  BY <1>1, OpenGrows DEF Stays, IsDivider
<1>8. ~ OpenBlock(p2, Len(p) + 1)
  BY <1>1, OpenGrows
<1>9. AllOpen(p2, fs2)
  <2>1. ASSUME NEW k \in 1 .. Len(fs)
        PROVE  \E o \in 1 .. Len(p2) : OpenBlock(p2, o) /\ p2[o].depth = k - 1
    <3>1. PICK o \in 1 .. Len(p) : OpenBlock(p, o) /\ p[o].depth = k - 1
      BY <1>1 DEF AllOpen
    <3>2. OpenBlock(p2, o) /\ o \in 1 .. Len(p2) /\ p2[o] = p[o]
      BY <1>2, <1>7, <3>1
    <3>3. QED
      BY <3>1, <3>2
  <2>2. Len(fs2) = Len(fs)
    BY DEF Straight
  <2>3. QED
    BY <2>1, <2>2 DEF AllOpen
<1>10. Framed(p2, fs2)
  <2>1. SUFFICES ASSUME NEW o \in 1 .. Len(p2), OpenBlock(p2, o)
                 PROVE  p2[o].depth < Len(fs2) /\ FrameOf(p2, o, fs2[p2[o].depth + 1])
    BY DEF Framed
  <2>2. o \in 1 .. Len(p) /\ OpenBlock(p, o) /\ p2[o] = p[o]
    BY <1>2, <1>7, <1>8, <2>1
  <2>3. p[o].depth < Len(fs) /\ FrameOf(p, o, fs[p[o].depth + 1]) /\ p[o].depth \in Nat
    BY <1>1, <2>2, EntryFields DEF Framed
  <2>4. SameFrame(fs[p[o].depth + 1], fs2[p[o].depth + 1]) /\ Len(fs2) = Len(fs)
    <3>1. p[o].depth + 1 \in 1 .. Len(fs)
      BY <1>1, <2>3
    <3>2. QED
      BY <3>1 DEF Straight
  <2>5. FrameOf(p2, o, fs2[p[o].depth + 1])
    <3>1. s.op # "else"
      BY <1>1 DEF IsDivider
    <3>2. QED
      BY <1>1, <2>2, <2>3, <2>4, <3>1, FrameGrows
  <2>6. QED
    BY <2>2, <2>3, <2>4, <2>5
<1>11. p2 \in Seq(EntryType) /\ t2 \in Table /\ fs2 \in Seq(FrameType)
  BY DEF Straight, Enters, Grown
<1>12. QED
  BY <1>3, <1>4, <1>5, <1>6, <1>9, <1>10, <1>11 DEF Shape

LEMMA OpeningShape ==
  ASSUME NEW p, NEW t, NEW fs, NEW p2, NEW t2, NEW fs2, NEW s,
         Shape(p, t, fs), Opening(p, t, fs, p2, t2, fs2, s)
  PROVE  Shape(p2, t2, fs2)
<1>1. /\ p \in Seq(EntryType) /\ Grown(p, p2, s) /\ Notes(s, t) /\ s.depth = Len(fs)
      /\ IsOpener(s) /\ ~ IsDivider(s) /\ ~ IsJump(s) /\ t2 = Effect(s)
      /\ Nests(p) /\ Opened(p) /\ Jumps(p) /\ Scopes(p, t)
      /\ AllOpen(p, fs) /\ Framed(p, fs) /\ Len(fs) \in Nat /\ Len(fs2) = Len(fs) + 1
  BY LenProperties DEF Opening, Enters, Shape, IsOpener, IsDivider, IsJump
<1>2. /\ Len(p) \in Nat /\ Len(p2) = Len(p) + 1 /\ s \in EntryType /\ p2[Len(p) + 1] = s
      /\ \A i \in 1 .. Len(p) : p2[i] = p[i]
  BY <1>1, GrownFacts
<1>3. Nests(p2)
  <2>1. \A o \in 1 .. Len(p) : OpenBlock(p, o) => s.depth > p[o].depth
    BY <1>1, EntryFields DEF Framed
  <2>2. QED
    BY <1>1, <2>1, NestsGrows
<1>4. Opened(p2)
  BY <1>1, OpenedGrows
<1>5. Jumps(p2)
  BY <1>1, JumpsGrows
<1>6. Scopes(p2, t2)
  <2>1. Known(t) \subseteq Known(t2)
    BY <1>1, <1>2, EffectKnows
  <2>2. ASSUME NEW o \in 1 .. Len(p), Stays(p, o, s)
        PROVE  Known(p[o].pre) \subseteq Known(t2)
    <3>1. Block(p, o, Len(p) + 1) /\ Len(p) + 1 \in 1 .. Len(p) + 1
      BY <1>2, <2>2 DEF Stays, OpenBlock
    <3>2. Before(p, t, Len(p) + 1) = t
      BY <1>2 DEF Before
    <3>3. QED
      BY <1>1, <2>1, <3>1, <3>2 DEF Scopes
  <2>3. QED
    BY <1>1, <2>1, <2>2, ScopesGrows
<1>7. \A o \in 1 .. Len(p) : OpenBlock(p2, o) <=> OpenBlock(p, o)
  BY <1>1, OpenGrows DEF Stays, IsDivider
<1>8. OpenBlock(p2, Len(p) + 1)
  BY <1>1, OpenGrows
<1>9. AllOpen(p2, fs2)
  <2>1. SUFFICES ASSUME NEW k \in 1 .. Len(fs2)
                 PROVE  \E o \in 1 .. Len(p2) : OpenBlock(p2, o) /\ p2[o].depth = k - 1
    BY DEF AllOpen
  <2>2. CASE k \in 1 .. Len(fs)
    <3>1. PICK o \in 1 .. Len(p) : OpenBlock(p, o) /\ p[o].depth = k - 1
      BY <1>1, <2>2 DEF AllOpen
    <3>2. OpenBlock(p2, o) /\ o \in 1 .. Len(p2) /\ p2[o] = p[o]
      BY <1>2, <1>7, <3>1
    <3>3. QED
      BY <3>1, <3>2
  <2>3. CASE k = Len(fs) + 1
    <3>1. Len(p) + 1 \in 1 .. Len(p2) /\ p2[Len(p) + 1].depth = k - 1
      BY <1>1, <1>2, <2>3
    <3>2. QED
      BY <1>8, <3>1
  <2>4. QED
    BY <1>1, <2>2, <2>3
<1>10. Framed(p2, fs2)
  <2>1. SUFFICES ASSUME NEW o \in 1 .. Len(p2), OpenBlock(p2, o)
                 PROVE  p2[o].depth < Len(fs2) /\ FrameOf(p2, o, fs2[p2[o].depth + 1])
    BY DEF Framed
  <2>2. CASE o \in 1 .. Len(p)
    <3>1. OpenBlock(p, o) /\ p2[o] = p[o]
      BY <1>2, <1>7, <2>1, <2>2
    <3>2. p[o].depth < Len(fs) /\ FrameOf(p, o, fs[p[o].depth + 1]) /\ p[o].depth \in Nat
      BY <1>1, <2>2, <3>1, EntryFields DEF Framed
    <3>3. SameFrame(fs[p[o].depth + 1], fs2[p[o].depth + 1])
      <4>1. p[o].depth + 1 \in 1 .. Len(fs)
        BY <1>1, <3>2
      <4>2. QED
        BY <4>1 DEF Opening
    <3>4. FrameOf(p2, o, fs2[p[o].depth + 1])
      <4>1. s.op # "else"
        BY <1>1 DEF IsDivider
      <4>2. QED
        BY <1>1, <2>2, <3>2, <3>3, <4>1, FrameGrows
    <3>5. p[o].depth < Len(fs2)
      BY <1>1, <3>2
    <3>6. QED
      BY <3>1, <3>4, <3>5
  <2>3. CASE o = Len(p) + 1
    <3>1. p2[o] = s /\ p2[o].depth + 1 = Len(fs) + 1 /\ p2[o].depth < Len(fs2)
      BY <1>1, <1>2, <2>3
    <3>2. PICK f : f = fs2[Len(fs) + 1]
      OBVIOUS
    <3>3. f.kind = s.op /\ f.before = s.pre /\ f.consumed = {}
      BY <3>2 DEF Opening, Enters, Notes
    <3>4. \A m \in 1 .. Len(p2) : ~ ElseOf(p2, o, m)
      BY <1>2, <2>3 DEF ElseOf, Divides, Block
    <3>5. FrameOf(p2, o, f)
      BY <3>1, <3>3, <3>4 DEF FrameOf
    <3>6. QED
      BY <3>1, <3>2, <3>5
  <2>4. QED
    BY <1>2, <2>2, <2>3
<1>11. p2 \in Seq(EntryType) /\ t2 \in Table /\ fs2 \in Seq(FrameType)
  BY DEF Opening, Enters, Grown
<1>12. QED
  BY <1>3, <1>4, <1>5, <1>6, <1>9, <1>10, <1>11 DEF Shape

(* What an open block knows, the blocks in it know.                        *)
LEMMA OuterKnowsLess ==
  ASSUME NEW p, NEW t, NEW fs, Shape(p, t, fs), NEW o, InnermostOpen(p, fs, o),
         NEW o2 \in 1 .. Len(p), OpenBlock(p, o2)
  PROVE  Known(p[o2].pre) \subseteq Known(p[o].pre)
<1>1. Len(p) \in Nat
  BY LenProperties DEF Shape
<1>2. CASE o2 = o
  BY <1>2
<1>3. CASE o2 # o
  <2>1. Block(p, o2, o) /\ o \in 1 .. Len(p)
    BY <1>3 DEF InnermostOpen
  <2>2. Before(p, t, o) = p[o].pre /\ o \in 1 .. Len(p) + 1
    BY <1>1, <2>1 DEF Before
  <2>3. QED
    BY <2>1, <2>2 DEF Shape, Scopes
<1>4. QED
  BY <1>2, <1>3

LEMMA DividingShape ==
  ASSUME NEW p, NEW t, NEW fs, NEW p2, NEW t2, NEW fs2, NEW s,
         Shape(p, t, fs), Dividing(p, t, fs, p2, t2, fs2, s)
  PROVE  Shape(p2, t2, fs2)
<1>1. /\ p \in Seq(EntryType) /\ Grown(p, p2, s) /\ Notes(s, t) /\ s.depth = Len(fs) - 1
      /\ ~ IsOpener(s) /\ IsDivider(s) /\ ~ IsJump(s) /\ s.op = "else"
      /\ Nests(p) /\ Opened(p) /\ Jumps(p) /\ Scopes(p, t)
      /\ AllOpen(p, fs) /\ Framed(p, fs) /\ Len(fs2) = Len(fs) /\ fs # <<>>
  BY DEF Dividing, Enters, Shape, IsOpener, IsDivider, IsJump
<1>2. /\ Len(p) \in Nat /\ Len(p2) = Len(p) + 1 /\ s \in EntryType /\ p2[Len(p) + 1] = s
      /\ \A i \in 1 .. Len(p) : p2[i] = p[i]
  BY <1>1, GrownFacts
<1>3. PICK top \in 1 .. Len(p) : InnermostOpen(p, fs, top)
  BY <1>1, TopIsInnermost
<1>4. Len(fs) \in Nat \ {0}
  BY <1>1, TopIsInnermost
<1>5. /\ OpenBlock(p, top) /\ p[top].depth = Len(fs) - 1 /\ FrameOf(p, top, fs[Len(fs)])
      /\ \A o2 \in 1 .. Len(p) : OpenBlock(p, o2) =>
           o2 = top \/ (o2 < top /\ Block(p, o2, top) /\ p[o2].depth < p[top].depth)
  BY <1>3 DEF InnermostOpen
<1>6. fs[Len(fs)].kind = "if" /\ t2 = p[top].pre
  BY <1>5 DEF Dividing, FrameOf
<1>7. p[top].op = "if" /\ \A m \in 1 .. Len(p) : ~ ElseOf(p, top, m)
  BY <1>5, <1>6 DEF FrameOf
<1>8. Nests(p2)
  BY <1>1, <1>5, NestsGrows
<1>9. Opened(p2)
  BY <1>1, <1>5, <1>7, OpenedGrows
<1>10. Jumps(p2)
  BY <1>1, JumpsGrows
<1>11. Scopes(p2, t2)
  <2>1. ASSUME NEW o \in 1 .. Len(p), Stays(p, o, s)
        PROVE  Known(p[o].pre) \subseteq Known(t2)
    BY <1>3, <1>6, <2>1, OuterKnowsLess DEF Stays
  <2>2. QED
    BY <1>1, <2>1, ScopesGrows
<1>12. \A o \in 1 .. Len(p) : OpenBlock(p2, o) <=> OpenBlock(p, o)
  BY <1>1, OpenGrows DEF Stays
<1>13. ~ OpenBlock(p2, Len(p) + 1)
  BY <1>1, OpenGrows
<1>14. AllOpen(p2, fs2)
  <2>1. ASSUME NEW k \in 1 .. Len(fs)
        PROVE  \E o \in 1 .. Len(p2) : OpenBlock(p2, o) /\ p2[o].depth = k - 1
    <3>1. PICK o \in 1 .. Len(p) : OpenBlock(p, o) /\ p[o].depth = k - 1
      BY <1>1 DEF AllOpen
    <3>2. OpenBlock(p2, o) /\ o \in 1 .. Len(p2) /\ p2[o] = p[o]
      BY <1>2, <1>12, <3>1
    <3>3. QED
      BY <3>1, <3>2
  <2>2. QED
    BY <1>1, <2>1 DEF AllOpen
<1>15. Framed(p2, fs2)
  <2>1. SUFFICES ASSUME NEW o \in 1 .. Len(p2), OpenBlock(p2, o)
                 PROVE  p2[o].depth < Len(fs2) /\ FrameOf(p2, o, fs2[p2[o].depth + 1])
    BY DEF Framed
  <2>2. o \in 1 .. Len(p) /\ OpenBlock(p, o) /\ p2[o] = p[o]
    BY <1>2, <1>12, <1>13, <2>1
  <2>3. p[o].depth < Len(fs) /\ FrameOf(p, o, fs[p[o].depth + 1]) /\ p[o].depth \in Nat
    BY <1>1, <2>2, EntryFields DEF Framed
  <2>4. CASE o # top
    <3>1. p[o].depth < Len(fs) - 1
      BY <1>5, <2>2, <2>4
    <3>2. SameFrame(fs[p[o].depth + 1], fs2[p[o].depth + 1])
      <4>1. p[o].depth + 1 \in 1 .. Len(fs) - 1
        BY <1>4, <2>3, <3>1
      <4>2. QED
        BY <4>1 DEF Dividing
    <3>3. s.depth # p[o].depth
      BY <1>1, <1>4, <2>3, <3>1
    <3>4. FrameOf(p2, o, fs2[p[o].depth + 1])
      BY <1>1, <2>2, <2>3, <3>2, <3>3, FrameGrows
    <3>5. QED
      BY <1>1, <2>2, <2>3, <3>4
  <2>5. CASE o = top
    <3>1. PICK f : f = fs2[Len(fs)]
      OBVIOUS
    <3>2. f.kind = "else" /\ f.before = t2 /\ f.consumed = NewlyConsumed(t2, t)
      BY <3>1 DEF Dividing
    <3>3. \A m \in 1 .. Len(p2) : ElseOf(p2, o, m) => m = Len(p) + 1
      BY <1>1, <1>2, <1>7, <2>5, DividesGrows
    <3>4. ElseOf(p2, o, Len(p) + 1) /\ Len(p) + 1 \in 1 .. Len(p2)
      BY <1>1, <1>2, <1>5, <2>5, DividesGrows DEF ElseOf
    <3>5. p2[Len(p) + 1].pre = t
      BY <1>1, <1>2 DEF Notes
    <3>6. p2[o].pre = t2 /\ p2[o].op = "if"
      BY <1>6, <1>7, <2>2, <2>5
    <3>7. \A m \in 1 .. Len(p2) : ElseOf(p2, o, m) =>
            f.consumed = NewlyConsumed(p2[o].pre, p2[m].pre)
      BY <3>2, <3>3, <3>5, <3>6
    <3>8. FrameOf(p2, o, f)
      BY <3>2, <3>4, <3>6, <3>7 DEF FrameOf
    <3>9. p2[o].depth + 1 = Len(fs) /\ p2[o].depth < Len(fs2)
      BY <1>1, <1>4, <1>5, <2>2, <2>5
    <3>10. QED
      BY <3>1, <3>8, <3>9
  <2>6. QED
    BY <2>4, <2>5
<1>16. p2 \in Seq(EntryType) /\ t2 \in Table /\ fs2 \in Seq(FrameType)
  BY <1>6, EntryFields DEF Dividing, Enters, Grown
<1>17. QED
  BY <1>8, <1>9, <1>10, <1>11, <1>14, <1>15, <1>16 DEF Shape

LEMMA ClosingShape ==
  ASSUME NEW p, NEW t, NEW fs, NEW p2, NEW t2, NEW fs2, NEW s,
         Shape(p, t, fs), Closing(p, t, fs, p2, t2, fs2, s)
  PROVE  Shape(p2, t2, fs2)
<1>1. /\ p \in Seq(EntryType) /\ Grown(p, p2, s) /\ Notes(s, t) /\ s.depth = Len(fs) - 1
      /\ ~ IsOpener(s) /\ IsDivider(s) /\ ~ IsJump(s) /\ s.op = "end"
      /\ Nests(p) /\ Opened(p) /\ Jumps(p) /\ Scopes(p, t)
      /\ AllOpen(p, fs) /\ Framed(p, fs) /\ Len(fs2) = Len(fs) - 1 /\ fs # <<>>
  BY DEF Closing, Enters, Shape, IsOpener, IsDivider, IsJump
<1>2. /\ Len(p) \in Nat /\ Len(p2) = Len(p) + 1 /\ s \in EntryType /\ p2[Len(p) + 1] = s
      /\ \A i \in 1 .. Len(p) : p2[i] = p[i]
  BY <1>1, GrownFacts
<1>3. PICK top \in 1 .. Len(p) : InnermostOpen(p, fs, top)
  BY <1>1, TopIsInnermost
<1>4. Len(fs) \in Nat \ {0}
  BY <1>1, TopIsInnermost
<1>5. /\ OpenBlock(p, top) /\ p[top].depth = Len(fs) - 1 /\ FrameOf(p, top, fs[Len(fs)])
      /\ \A o2 \in 1 .. Len(p) : OpenBlock(p, o2) =>
           o2 = top \/ (o2 < top /\ Block(p, o2, top) /\ p[o2].depth < p[top].depth)
  BY <1>3 DEF InnermostOpen
<1>6. PICK f : f = fs[Len(fs)]
  OBVIOUS
<1>7. f.before = p[top].pre /\ t2 = ClosedTable(f, t) /\ f \in FrameType
  <2>1. Len(fs) \in 1 .. Len(fs) /\ fs \in Seq(FrameType)
    BY <1>4 DEF Shape
  <2>2. QED
    BY <1>5, <1>6, <2>1, ElementOfSeq DEF Closing, FrameOf
<1>8. Known(f.before) \subseteq Known(t2)
  <2>1. f.kind \in {"if", "else", "loop", "for"}
    BY <1>7 DEF FrameType
  <2>2. \A v \in Vars : f.before[v] # "absent" => t2[v] # "absent"
    BY <1>7, <2>1 DEF ClosedTable
  <2>3. QED
    BY <2>2 DEF Known
<1>9. Nests(p2)
  BY <1>1, <1>5, NestsGrows
<1>10. Opened(p2)
  BY <1>1, <1>5, OpenedGrows
<1>11. Jumps(p2)
  BY <1>1, JumpsGrows
<1>12. Scopes(p2, t2)
  <2>1. ASSUME NEW o \in 1 .. Len(p), Stays(p, o, s)
        PROVE  Known(p[o].pre) \subseteq Known(t2)
    BY <1>3, <1>7, <1>8, <2>1, OuterKnowsLess DEF Stays
  <2>2. QED
    BY <1>1, <2>1, ScopesGrows
<1>13. \A o \in 1 .. Len(p) :
         OpenBlock(p2, o) <=> OpenBlock(p, o) /\ p[o].depth # Len(fs) - 1
  BY <1>1, OpenGrows DEF Stays
<1>14. ~ OpenBlock(p2, Len(p) + 1)
  BY <1>1, OpenGrows
<1>15. AllOpen(p2, fs2)
  <2>1. SUFFICES ASSUME NEW k \in 1 .. Len(fs2)
                 PROVE  \E o \in 1 .. Len(p2) : OpenBlock(p2, o) /\ p2[o].depth = k - 1
    BY DEF AllOpen
  <2>2. k \in 1 .. Len(fs) /\ k - 1 # Len(fs) - 1
    BY <1>1, <1>4, <2>1
  <2>3. PICK o \in 1 .. Len(p) : OpenBlock(p, o) /\ p[o].depth = k - 1
    BY <1>1, <2>2 DEF AllOpen
  <2>4. OpenBlock(p2, o) /\ o \in 1 .. Len(p2) /\ p2[o] = p[o]
    BY <1>2, <1>13, <2>2, <2>3
  <2>5. QED
    BY <2>3, <2>4
<1>16. Framed(p2, fs2)
  <2>1. SUFFICES ASSUME NEW o \in 1 .. Len(p2), OpenBlock(p2, o)
                 PROVE  p2[o].depth < Len(fs2) /\ FrameOf(p2, o, fs2[p2[o].depth + 1])
    BY DEF Framed
  <2>2. o \in 1 .. Len(p) /\ OpenBlock(p, o) /\ p2[o] = p[o] /\ p[o].depth # Len(fs) - 1
    BY <1>2, <1>13, <1>14, <2>1
  <2>3. p[o].depth < Len(fs) /\ FrameOf(p, o, fs[p[o].depth + 1]) /\ p[o].depth \in Nat
    BY <1>1, <2>2, EntryFields DEF Framed
  <2>4. p[o].depth < Len(fs) - 1
    BY <1>4, <2>2, <2>3
  <2>5. SameFrame(fs[p[o].depth + 1], fs2[p[o].depth + 1])
    <3>1. p[o].depth + 1 \in 1 .. Len(fs) - 1
      BY <1>4, <2>3, <2>4
    <3>2. QED
      BY <3>1 DEF Closing
  <2>6. FrameOf(p2, o, fs2[p[o].depth + 1])
    BY <1>1, <2>2, <2>3, <2>5, FrameGrows
  <2>7. QED
    BY <1>1, <2>2, <2>4, <2>6
<1>17. p2 \in Seq(EntryType) /\ t2 \in Table /\ fs2 \in Seq(FrameType)
  BY DEF Closing, Enters, Grown
<1>18. QED
  BY <1>9, <1>10, <1>11, <1>12, <1>15, <1>16, <1>17 DEF Shape

-----------------------------------------------------------------------------
(* Every action of the walker is one of the four.                          *)
WalkShape == Shape(prog, table, frames)
IsStep(s) ==
  \/ Straight(prog, table, frames, prog', table', frames', s)
  \/ Opening(prog, table, frames, prog', table', frames', s)
  \/ Dividing(prog, table, frames, prog', table', frames', s)
  \/ Closing(prog, table, frames, prog', table', frames', s)

LEMMA ShapeTypes ==
  ASSUME WalkShape
  PROVE  /\ prog \in Seq(EntryType) /\ table \in Table /\ frames \in Seq(FrameType)
         /\ Len(frames) \in Nat /\ Len(prog) \in Nat
  BY LenProperties DEF WalkShape, Shape

(* An entry is written down with the table and the depth of the moment.    *)
LEMMA EntryHas ==
  ASSUME NEW op, NEW x, NEW e, NEW codes, NEW depth, NEW s,
         s = Entry(op, x, e, codes, depth)
  PROVE  /\ s.op = op /\ s.var = x /\ s.expr = e /\ s.codes = codes
         /\ s.pre = table /\ s.depth = depth
  BY DEF Entry

LEMMA EntryEnters ==
  ASSUME WalkShape, NEW op \in Ops, NEW x \in Vars \cup {NoVar}, NEW e \in Expr,
         NEW codes \in SUBSET Codes, NEW depth \in Nat, NEW s,
         s = Entry(op, x, e, codes, depth), prog' = Append(prog, s)
  PROVE  Enters(prog, table, prog', s, depth) /\ s \in EntryType
<1>1. s \in EntryType
  BY ShapeTypes DEF Entry, EntryType
<1>2. Grown(prog, prog', s)
  BY <1>1, AppendGrows, ShapeTypes
<1>3. s.pre = table /\ s.depth = depth
  BY EntryHas
<1>4. QED
  BY <1>1, <1>2, <1>3, ShapeTypes DEF Enters, Notes

LEMMA ValueIsExpr == Value \in Expr
  BY DEF Expr

LEMMA AfterCallIsTable ==
  ASSUME NEW e, NEW t \in Table
  PROVE  AfterCall(e, t) \in Table
  BY DEF AfterCall, Table, Status

(* A name, or none.                                                        *)
IsName(x) == x \in Vars \cup {NoVar}

(* A statement without a block.                                            *)
IsStraightOp(op) ==
  op \in {"const", "let", "var", "assign", "expr", "set", "return", "break", "continue"}

LEMMA PlainIsStraight ==
  ASSUME WalkShape, NEW op, IsStraightOp(op), NEW x, IsName(x), NEW e \in Expr,
         NEW codes \in SUBSET Codes, NEW t \in Table, Plain(op, x, e, codes, t),
         NEW s, s = Entry(op, x, e, codes, Len(frames)), t = Effect(s),
         op \in {"break", "continue"} => InLoop,
         frames' \in Seq(FrameType), Len(frames') = Len(frames),
         \A i \in 1 .. Len(frames) : SameFrame(frames[i], frames'[i])
  PROVE  Straight(prog, table, frames, prog', table', frames', s)
<1>1. /\ op \in Ops /\ Len(frames) \in Nat /\ table' = t
      /\ prog' = Append(prog, s)
  BY ShapeTypes DEF IsStraightOp, Ops, Plain
<1>2. Enters(prog, table, prog', s, Len(frames))
  BY <1>1, EntryEnters DEF IsName
<1>3. s.op = op
  BY EntryHas
<1>4. ~ IsOpener(s) /\ ~ IsDivider(s)
  BY <1>3 DEF IsOpener, IsDivider, IsStraightOp
<1>5. IsJump(s) => \E i \in 1 .. Len(frames) : frames[i].kind \in {"loop", "for"}
  <2>1. DOMAIN frames = 1 .. Len(frames)
    BY ShapeTypes, LenProperties
  <2>2. QED
    BY <1>3, <2>1 DEF IsJump, InLoop
<1>6. QED
  BY <1>1, <1>2, <1>4, <1>5 DEF Straight

SameFrames ==
  /\ frames' \in Seq(FrameType) /\ Len(frames') = Len(frames)
  /\ \A i \in 1 .. Len(frames) : SameFrame(frames[i], frames'[i])

LEMMA UnchangedFrames == ASSUME WalkShape, UNCHANGED frames PROVE SameFrames
  BY ShapeTypes DEF SameFrames, SameFrame

LEMMA CodesAreStrings ==
  ASSUME NEW e, NEW t, NEW typed
  PROVE  /\ UseCodes(e, t) \in SUBSET Codes /\ CallCodes(e, t) \in SUBSET Codes
         /\ ReturnCodes(e, t, typed) \in SUBSET Codes
<1>1. UseCodes(e, t) \in SUBSET Codes
  BY DEF UseCodes, Codes
<1>2. QED
  BY <1>1 DEF CallCodes, ReturnCodes, Codes

(* Entry's fields, as Effect looks at them. *)
LEMMA EffectOf ==
  ASSUME WalkShape, NEW op, NEW x, NEW e, NEW codes, NEW depth
  PROVE  Effect(Entry(op, x, e, codes, depth)) =
           [v \in Vars |->
              IF op \in {"const", "var", "assign", "for"} /\ v = x THEN "Owned"
              ELSE IF op = "let" /\ v = x THEN "Borrowed"
              ELSE IF op \in {"const", "expr", "return"} THEN AfterCall(e, table)[v]
              ELSE table[v]]
  BY DEF Effect, Entry

LEMMA ConstStep ==
  ASSUME WalkShape, NEW x \in Vars, NEW e \in Expr, Const(x, e)
  PROVE  \E s : IsStep(s)
<1> DEFINE codes == UseCodes(e, table) \cup CallCodes(e, table)
           t == [AfterCall(e, table) EXCEPT ![x] = "Owned"]
           s == Entry("const", x, e, codes, Len(frames))
<1>1. codes \in SUBSET Codes
  BY CodesAreStrings
<1>2. AfterCall(e, table) \in Table
  BY ShapeTypes, AfterCallIsTable
<1>3. t \in Table
  BY <1>2 DEF Table, Status
<1>4. t = Effect(s)
  <2>1. Effect(s) = [v \in Vars |-> IF v = x THEN "Owned" ELSE AfterCall(e, table)[v]]
    BY EffectOf
  <2>2. QED
    BY <1>2, <2>1 DEF Table
<1>5. Plain("const", x, e, codes, t) /\ SameFrames
  BY UnchangedFrames DEF Const
<1> HIDE DEF codes, t
<1>6. IsStraightOp("const") /\ IsName(x)
  BY DEF IsStraightOp, IsName
<1>7. Straight(prog, table, frames, prog', table', frames', s)
  BY <1>1, <1>3, <1>4, <1>5, <1>6, PlainIsStraight DEF SameFrames
<1>8. QED
  BY <1>7 DEF IsStep

LEMMA LetStep ==
  ASSUME WalkShape, NEW x \in Vars, NEW e \in Expr, Let(x, e)
  PROVE  \E s : IsStep(s)
<1> DEFINE codes == IF e = Value THEN {"E-OWN-002"} ELSE {}
           t == [table EXCEPT ![x] = "Borrowed"]
           s == Entry("let", x, e, codes, Len(frames))
<1>1. codes \in SUBSET Codes
  BY DEF Codes
<1>2. t \in Table
  BY ShapeTypes DEF Table, Status
<1>3. t = Effect(s)
  <2>1. Effect(s) = [v \in Vars |-> IF v = x THEN "Borrowed" ELSE table[v]]
    BY EffectOf
  <2>2. QED
    BY <2>1, ShapeTypes DEF Table
<1>4. Plain("let", x, e, codes, t) /\ SameFrames
  BY UnchangedFrames DEF Let
<1> HIDE DEF codes, t
<1>5. IsStraightOp("let") /\ IsName(x)
  BY DEF IsStraightOp, IsName
<1>6. Straight(prog, table, frames, prog', table', frames', s)
  BY <1>1, <1>2, <1>3, <1>4, <1>5, PlainIsStraight DEF SameFrames
<1>7. QED
  BY <1>6 DEF IsStep

LEMMA VarStep ==
  ASSUME WalkShape, NEW x \in Vars, NEW e \in Expr, Var(x, e)
  PROVE  \E s : IsStep(s)
<1> DEFINE t == [table EXCEPT ![x] = "Owned"]
           s == Entry("var", x, e, {}, Len(frames))
<1>1. t \in Table
  BY ShapeTypes DEF Table, Status
<1>2. t = Effect(s)
  <2>1. Effect(s) = [v \in Vars |-> IF v = x THEN "Owned" ELSE table[v]]
    BY EffectOf
  <2>2. QED
    BY <2>1, ShapeTypes DEF Table
<1>3. Plain("var", x, e, {}, t) /\ SameFrames
  BY UnchangedFrames DEF Var
<1> HIDE DEF t
<1>4. IsStraightOp("var") /\ IsName(x) /\ {} \in SUBSET Codes
  BY DEF IsStraightOp, IsName
<1>5. Straight(prog, table, frames, prog', table', frames', s)
  BY <1>1, <1>2, <1>3, <1>4, PlainIsStraight DEF SameFrames
<1>6. QED
  BY <1>5 DEF IsStep

LEMMA AssignFrames ==
  ASSUME WalkShape, NEW x \in Vars, NEW e, Assign(x, e) PROVE SameFrames
<1>1. CASE frames = <<>>
  BY <1>1, UnchangedFrames DEF Assign
<1>2. CASE frames # <<>>
  <2>1. Len(frames) \in 1 .. Len(frames)
    BY <1>2, ShapeTypes, EmptySeq
  <2>2. PICK f : f = frames[Len(frames)]
    OBVIOUS
  <2>3. f \in FrameType
    BY <2>1, <2>2, ShapeTypes, ElementOfSeq
  <2>4. PICK g : g = [f EXCEPT !.reassigned = f.reassigned \cup {x}]
    OBVIOUS
  <2>5. g \in FrameType /\ SameFrame(f, g)
    BY <2>3, <2>4 DEF FrameType, SameFrame
  <2>6. frames' = [frames EXCEPT ![Len(frames)] = g]
    BY <1>2, <2>2, <2>4 DEF Assign
  <2>7. frames' \in Seq(FrameType) /\ Len(frames') = Len(frames)
        /\ \A i \in 1 .. Len(frames) : frames'[i] = IF i = Len(frames) THEN g ELSE frames[i]
    BY <2>1, <2>5, <2>6, ShapeTypes, ExceptSeq
  <2>8. QED
    BY <2>2, <2>5, <2>7 DEF SameFrames, SameFrame
<1>3. QED
  BY <1>1, <1>2

LEMMA AssignStep ==
  ASSUME WalkShape, NEW x \in Vars, NEW e \in Expr, Assign(x, e)
  PROVE  \E s : IsStep(s)
<1> DEFINE t == [table EXCEPT ![x] = "Owned"]
           s == Entry("assign", x, e, {}, Len(frames))
<1>1. t \in Table
  BY ShapeTypes DEF Table, Status
<1>2. t = Effect(s)
  <2>1. Effect(s) = [v \in Vars |-> IF v = x THEN "Owned" ELSE table[v]]
    BY EffectOf
  <2>2. QED
    BY <2>1, ShapeTypes DEF Table
<1>3. Plain("assign", x, e, {}, t) /\ SameFrames
  BY AssignFrames DEF Assign
<1> HIDE DEF t
<1>4. IsStraightOp("assign") /\ IsName(x) /\ {} \in SUBSET Codes
  BY DEF IsStraightOp, IsName
<1>5. Straight(prog, table, frames, prog', table', frames', s)
  BY <1>1, <1>2, <1>3, <1>4, PlainIsStraight DEF SameFrames
<1>6. QED
  BY <1>5 DEF IsStep

LEMMA ExprStep ==
  ASSUME WalkShape, NEW e \in Expr, ExprStmt(e)
  PROVE  \E s : IsStep(s)
<1> DEFINE codes == CallCodes(e, table) \cup (IF e = Value THEN {"E-OWN-001"} ELSE {})
           t == AfterCall(e, table)
           s == Entry("expr", NoVar, e, codes, Len(frames))
<1>1. codes \in SUBSET Codes
  <2>1. (IF e = Value THEN {"E-OWN-001"} ELSE {}) \in SUBSET Codes
    BY DEF Codes
  <2>2. QED
    BY <2>1, CodesAreStrings
<1>2. t \in Table
  BY ShapeTypes, AfterCallIsTable
<1>3. t = Effect(s)
  <2>1. Effect(s) = [v \in Vars |-> AfterCall(e, table)[v]]
    BY EffectOf
  <2>2. QED
    BY <1>2, <2>1 DEF Table
<1>4. Plain("expr", NoVar, e, codes, t) /\ SameFrames
  BY UnchangedFrames DEF ExprStmt
<1> HIDE DEF codes, t
<1>5. IsStraightOp("expr") /\ IsName(NoVar)
  BY DEF IsStraightOp, IsName
<1>6. Straight(prog, table, frames, prog', table', frames', s)
  BY <1>1, <1>2, <1>3, <1>4, <1>5, PlainIsStraight DEF SameFrames
<1>7. QED
  BY <1>6 DEF IsStep

LEMMA TableItself ==
  ASSUME WalkShape
  PROVE  [v \in Vars |-> table[v]] = table
  BY ShapeTypes DEF Table

LEMMA SetStep ==
  ASSUME WalkShape, NEW e \in Expr, SetField(e)
  PROVE  \E s : IsStep(s)
<1> DEFINE s == Entry("set", NoVar, e, {}, Len(frames))
<1>1. table \in Table /\ {} \in SUBSET Codes
  BY ShapeTypes
<1>2. table = Effect(s)
  <2>1. Effect(s) = [v \in Vars |-> table[v]]
    BY EffectOf
  <2>2. QED
    BY <2>1, TableItself
<1>3. Plain("set", NoVar, e, {}, table) /\ SameFrames
  BY UnchangedFrames DEF SetField
<1>4. IsStraightOp("set") /\ IsName(NoVar)
  BY DEF IsStraightOp, IsName
<1>5. Straight(prog, table, frames, prog', table', frames', s)
  BY <1>1, <1>2, <1>3, <1>4, PlainIsStraight DEF SameFrames
<1>6. QED
  BY <1>5 DEF IsStep

LEMMA ReturnStep ==
  ASSUME WalkShape, NEW e \in Expr, Return(e)
  PROVE  \E s : IsStep(s)
<1>0. PICK typed \in BOOLEAN :
        Plain("return", NoVar, e,
              UseCodes(e, table) \cup CallCodes(e, table) \cup
                ReturnCodes(e, AfterCall(e, table), typed),
              AfterCall(e, table))
  BY DEF Return
<1> DEFINE t == AfterCall(e, table)
           codes == UseCodes(e, table) \cup CallCodes(e, table) \cup ReturnCodes(e, t, typed)
           s == Entry("return", NoVar, e, codes, Len(frames))
<1>1. codes \in SUBSET Codes
  BY CodesAreStrings
<1>2. t \in Table
  BY ShapeTypes, AfterCallIsTable
<1>3. t = Effect(s)
  <2>1. Effect(s) = [v \in Vars |-> AfterCall(e, table)[v]]
    BY EffectOf
  <2>2. QED
    BY <1>2, <2>1 DEF Table
<1>4. Plain("return", NoVar, e, codes, t) /\ SameFrames
  BY <1>0, UnchangedFrames DEF Return
<1> HIDE DEF codes, t
<1>5. IsStraightOp("return") /\ IsName(NoVar)
  BY DEF IsStraightOp, IsName
<1>6. Straight(prog, table, frames, prog', table', frames', s)
  BY <1>1, <1>2, <1>3, <1>4, <1>5, PlainIsStraight DEF SameFrames
<1>7. QED
  BY <1>6 DEF IsStep

LEMMA JumpStep ==
  ASSUME WalkShape, NEW op \in {"break", "continue"}, Jump(op)
  PROVE  \E s : IsStep(s)
<1> DEFINE s == Entry(op, NoVar, Value, {}, Len(frames))
<1>1. table \in Table /\ {} \in SUBSET Codes
  BY ShapeTypes
<1>2. table = Effect(s)
  <2>1. Effect(s) = [v \in Vars |-> table[v]]
    BY EffectOf
  <2>2. QED
    BY <2>1, TableItself
<1>3. Plain(op, NoVar, Value, {}, table) /\ SameFrames /\ InLoop
  BY UnchangedFrames DEF Jump
<1>4. IsStraightOp(op) /\ IsName(NoVar)
  BY DEF IsStraightOp, IsName
<1>5. Straight(prog, table, frames, prog', table', frames', s)
  BY <1>1, <1>2, <1>3, <1>4, PlainIsStraight, ValueIsExpr DEF SameFrames
<1>6. QED
  BY <1>5 DEF IsStep

(* What opens a block. *)
LEMMA OpenStep ==
  ASSUME WalkShape, NEW kind \in {"if", "loop", "for"}, NEW x \in Vars \cup {NoVar},
         NEW e \in Expr, NEW t \in Table, Open(kind, x, e, t),
         t = Effect(Entry(kind, x, e, {}, Len(frames)))
  PROVE  \E s : IsStep(s)
<1>1. PICK s : s = Entry(kind, x, e, {}, Len(frames))
  OBVIOUS
<1>2. PICK f : f = [kind |-> kind, before |-> table, consumed |-> {}, reassigned |-> {}]
  OBVIOUS
<1>3. /\ prog' = Append(prog, s) /\ table' = t /\ frames' = Append(frames, f)
      /\ kind \in Ops /\ {} \in SUBSET Codes /\ Len(frames) \in Nat
      /\ frames \in Seq(FrameType) /\ table \in Table
  BY <1>1, <1>2, ShapeTypes DEF Open, Plain, Ops
<1>4. Enters(prog, table, prog', s, Len(frames))
  BY <1>1, <1>3, EntryEnters
<1>5. s.op = kind /\ IsOpener(s)
  BY <1>1, EntryHas DEF IsOpener
<1>6. f \in FrameType /\ f.kind = kind /\ f.before = table /\ f.consumed = {}
  BY <1>2, <1>3 DEF FrameType
<1>7. /\ frames' \in Seq(FrameType) /\ Len(frames') = Len(frames) + 1
      /\ frames'[Len(frames) + 1] = f
      /\ \A i \in 1 .. Len(frames) : frames'[i] = frames[i]
  BY <1>3, <1>6, AppendProperties
<1>8. \A i \in 1 .. Len(frames) : SameFrame(frames[i], frames'[i])
  BY <1>7 DEF SameFrame
<1>9. Opening(prog, table, frames, prog', table', frames', s)
  BY <1>1, <1>3, <1>4, <1>5, <1>6, <1>7, <1>8 DEF Opening
<1>10. QED
  BY <1>9 DEF IsStep

LEMMA IfStep ==
  ASSUME WalkShape, NEW e \in Expr, If(e)
  PROVE  \E s : IsStep(s)
<1>1. table = Effect(Entry("if", NoVar, e, {}, Len(frames)))
  <2>1. Effect(Entry("if", NoVar, e, {}, Len(frames))) = [v \in Vars |-> table[v]]
    BY EffectOf
  <2>2. QED
    BY <2>1, TableItself
<1>2. Open("if", NoVar, e, table) /\ table \in Table /\ NoVar \in Vars \cup {NoVar}
  BY ShapeTypes DEF If
<1>3. QED
  BY <1>1, <1>2, OpenStep

LEMMA LoopStep ==
  ASSUME WalkShape, Loop
  PROVE  \E s : IsStep(s)
<1>1. table = Effect(Entry("loop", NoVar, Value, {}, Len(frames)))
  <2>1. Effect(Entry("loop", NoVar, Value, {}, Len(frames))) = [v \in Vars |-> table[v]]
    BY EffectOf
  <2>2. QED
    BY <2>1, TableItself
<1>2. Open("loop", NoVar, Value, table) /\ table \in Table /\ NoVar \in Vars \cup {NoVar}
  BY ShapeTypes DEF Loop
<1>3. QED
  BY <1>1, <1>2, OpenStep, ValueIsExpr

LEMMA ForStep ==
  ASSUME WalkShape, NEW x \in Vars, NEW e \in Expr, For(x, e)
  PROVE  \E s : IsStep(s)
<1>1. PICK t : t = [table EXCEPT ![x] = "Owned"]
  OBVIOUS
<1>2. t \in Table
  BY <1>1, ShapeTypes DEF Table, Status
<1>3. t = Effect(Entry("for", x, e, {}, Len(frames)))
  <2>1. Effect(Entry("for", x, e, {}, Len(frames)))
          = [v \in Vars |-> IF v = x THEN "Owned" ELSE table[v]]
    BY EffectOf
  <2>2. QED
    BY <1>1, <2>1, ShapeTypes DEF Table
<1>4. Open("for", x, e, t) /\ x \in Vars \cup {NoVar}
  BY <1>1 DEF For
<1>5. QED
  BY <1>2, <1>3, <1>4, OpenStep

(* The innermost frame and those around it. *)
LEMMA TopAndFront ==
  ASSUME WalkShape, frames # <<>>
  PROVE  /\ Len(frames) \in Nat \ {0} /\ Top \in FrameType /\ Top = frames[Len(frames)]
         /\ Front(frames) \in Seq(FrameType) /\ Len(Front(frames)) = Len(frames) - 1
         /\ \A i \in 1 .. Len(frames) - 1 : Front(frames)[i] = frames[i]
<1>1. Len(frames) \in Nat \ {0} /\ frames \in Seq(FrameType)
  BY ShapeTypes, EmptySeq
<1>2. Len(frames) \in 1 .. Len(frames)
  BY <1>1
<1>3. Top \in FrameType /\ Top = frames[Len(frames)]
  BY <1>1, <1>2, ElementOfSeq DEF Top
<1>4. /\ Front(frames) \in Seq(FrameType) /\ Len(Front(frames)) = Len(frames) - 1
      /\ \A i \in 1 .. Len(frames) - 1 : Front(frames)[i] = frames[i]
  <2>1. Front(frames) = SubSeq(frames, 1, Len(frames) - 1)
    BY DEF Front
  <2>2. \A i \in 1 .. Len(frames) - 1 : frames[i] \in FrameType
    BY <1>1, ElementOfSeq
  <2>3. 1 \in Int /\ Len(frames) - 1 \in Int
    BY <1>1
  <2>4. PICK n : n = Len(frames) - 1
    OBVIOUS
  <2>5. n \in Int /\ 0 <= n /\ n - 1 + 1 = n /\ \A i \in 1 .. n : 1 + i - 1 = i
    BY <1>1, <2>4
  <2>6. /\ SubSeq(frames, 1, n) \in Seq(FrameType)
        /\ Len(SubSeq(frames, 1, n)) = (IF 1 <= n THEN n - 1 + 1 ELSE 0)
        /\ \A i \in 1 .. n - 1 + 1 : SubSeq(frames, 1, n)[i] = frames[1 + i - 1]
    BY <2>2, <2>3, <2>4, SubSeqProperties
  <2>7. Len(SubSeq(frames, 1, n)) = n
    BY <2>5, <2>6
  <2>8. \A i \in 1 .. n : SubSeq(frames, 1, n)[i] = frames[i]
    BY <2>5, <2>6
  <2>9. QED
    BY <2>1, <2>4, <2>6, <2>7, <2>8
<1>5. QED
  BY <1>1, <1>3, <1>4

LEMMA ElseStep ==
  ASSUME WalkShape, Else
  PROVE  \E s : IsStep(s)
<1>1. PICK s : s = Entry("else", NoVar, Value, {}, Len(frames) - 1)
  OBVIOUS
<1>2. PICK g : g = [Top EXCEPT !.kind = "else",
                               !.consumed = NewlyConsumed(Top.before, table)]
  OBVIOUS
<1>3. PICK top : top = Top
  OBVIOUS
<1>4. /\ frames # <<>> /\ top.kind = "if" /\ prog' = Append(prog, s) /\ table' = top.before
      /\ frames' = Append(Front(frames), g)
  BY <1>1, <1>2, <1>3 DEF Else, Close
<1>5. /\ Len(frames) \in Nat \ {0} /\ top \in FrameType /\ top = frames[Len(frames)]
      /\ Front(frames) \in Seq(FrameType) /\ Len(Front(frames)) = Len(frames) - 1
      /\ \A i \in 1 .. Len(frames) - 1 : Front(frames)[i] = frames[i]
  BY <1>3, <1>4, TopAndFront
<1>6. Enters(prog, table, prog', s, Len(frames) - 1)
  <2>1. /\ "else" \in Ops /\ {} \in SUBSET Codes /\ Len(frames) - 1 \in Nat
        /\ NoVar \in Vars \cup {NoVar}
    BY <1>5 DEF Ops
  <2>2. QED
    BY <1>1, <1>4, <2>1, EntryEnters, ValueIsExpr
<1>7. s.op = "else"
  BY <1>1, EntryHas
<1>8. /\ g \in FrameType /\ g.kind = "else" /\ g.before = top.before
      /\ g.consumed = NewlyConsumed(top.before, table)
  <2>1. NewlyConsumed(top.before, table) \in SUBSET Vars
    BY DEF NewlyConsumed
  <2>2. g = [top EXCEPT !.kind = "else", !.consumed = NewlyConsumed(top.before, table)]
    BY <1>2, <1>3
  <2>3. QED
    BY <1>5, <2>1, <2>2 DEF FrameType
<1>9. /\ frames' \in Seq(FrameType) /\ Len(frames') = Len(frames) /\ frames'[Len(frames)] = g
      /\ \A i \in 1 .. Len(frames) - 1 : frames'[i] = frames[i]
  <2>1. Len(Front(frames)) + 1 = Len(frames)
    BY <1>5
  <2>2. QED
    BY <1>4, <1>5, <1>8, <2>1, AppendProperties
<1>10. \A i \in 1 .. Len(frames) - 1 : SameFrame(frames[i], frames'[i])
  BY <1>9 DEF SameFrame
<1>11. Dividing(prog, table, frames, prog', table', frames', s)
  BY <1>4, <1>5, <1>6, <1>7, <1>8, <1>9, <1>10 DEF Dividing
<1>12. QED
  BY <1>11 DEF IsStep

(* What ends a block. *)
LEMMA CloseStep ==
  ASSUME WalkShape, NEW codes, NEW kinds, NEW t, Close(kinds, "end", codes, t),
         codes = ClosedCodes(Top, table), t = ClosedTable(Top, table),
         codes \in SUBSET Codes, t \in Table, frames' = Front(frames)
  PROVE  \E s : IsStep(s)
<1>1. PICK s : s = Entry("end", NoVar, Value, codes, Len(frames) - 1)
  OBVIOUS
<1>2. frames # <<>> /\ prog' = Append(prog, s) /\ table' = t
  BY <1>1 DEF Close
<1>3. /\ Len(frames) \in Nat \ {0} /\ Top \in FrameType /\ Top = frames[Len(frames)]
      /\ Front(frames) \in Seq(FrameType) /\ Len(Front(frames)) = Len(frames) - 1
      /\ \A i \in 1 .. Len(frames) - 1 : Front(frames)[i] = frames[i]
  BY <1>2, TopAndFront
<1>4. Enters(prog, table, prog', s, Len(frames) - 1)
  <2>1. "end" \in Ops /\ Len(frames) - 1 \in Nat /\ NoVar \in Vars \cup {NoVar}
    BY <1>3 DEF Ops
  <2>2. QED
    BY <1>1, <1>2, <2>1, EntryEnters, ValueIsExpr
<1>5. s.op = "end" /\ s.codes = codes
  BY <1>1, EntryHas
<1>6. \A i \in 1 .. Len(frames) - 1 : SameFrame(frames[i], frames'[i])
  BY <1>3 DEF SameFrame
<1>7. Closing(prog, table, frames, prog', table', frames', s)
  BY <1>2, <1>3, <1>4, <1>5, <1>6 DEF Closing
<1>8. QED
  BY <1>7 DEF IsStep

LEMMA ClosedTyped ==
  ASSUME NEW f \in FrameType, NEW t \in Table
  PROVE  ClosedTable(f, t) \in Table /\ ClosedCodes(f, t) \in SUBSET Codes
<1>1. f.kind \in {"if", "else", "loop", "for"} /\ f.before \in Table
  BY DEF FrameType
<1>2. ClosedTable(f, t) \in Table
  BY <1>1 DEF ClosedTable, Table, Status
<1>3. \A a, b : BranchCodes(a, b) \in SUBSET Codes
  BY DEF BranchCodes, Codes
<1>4. LoopCodes(f, t) \in SUBSET Codes
  BY DEF LoopCodes, Codes
<1>5. ClosedCodes(f, t) \in SUBSET Codes
  BY <1>1, <1>3, <1>4 DEF ClosedCodes
<1>6. QED
  BY <1>2, <1>5

LEMMA TopTyped ==
  ASSUME WalkShape, frames # <<>>
  PROVE  /\ Top \in FrameType /\ table \in Table
         /\ ClosedTable(Top, table) \in Table /\ ClosedCodes(Top, table) \in SUBSET Codes
  BY TopAndFront, ShapeTypes, ClosedTyped

LEMMA EndIfStep ==
  ASSUME WalkShape, EndIf
  PROVE  \E s : IsStep(s)
<1> DEFINE new == NewlyConsumed(Top.before, table)
           t == [v \in Vars |-> IF v \in Top.consumed \cap new
                                THEN "Consumed" ELSE Top.before[v]]
<1>1. CASE Close({"if"}, "end", BranchCodes(new, {}), Top.before)
  <2>1. Top.kind = "if" /\ frames # <<>>
    BY <1>1 DEF Close
  <2>2. /\ BranchCodes(new, {}) = ClosedCodes(Top, table)
        /\ Top.before = ClosedTable(Top, table)
    BY <2>1 DEF ClosedCodes, ClosedTable
  <2>3. frames' = Front(frames)
    BY DEF EndIf
  <2>4. QED
    BY <1>1, <2>1, <2>2, <2>3, TopTyped, CloseStep
<1>2. CASE Close({"else"}, "end", BranchCodes(Top.consumed, new), t)
  <2>1. Top.kind = "else" /\ frames # <<>>
    BY <1>2 DEF Close
  <2>2. BranchCodes(Top.consumed, new) = ClosedCodes(Top, table)
        /\ t = ClosedTable(Top, table)
    BY <2>1 DEF ClosedCodes, ClosedTable
  <2>3. frames' = Front(frames)
    BY DEF EndIf
  <2>4. QED
    BY <1>2, <2>1, <2>2, <2>3, TopTyped, CloseStep
<1>3. QED
  BY <1>1, <1>2 DEF EndIf

LEMMA EndLoopStep ==
  ASSUME WalkShape, EndLoop
  PROVE  \E s : IsStep(s)
<1> DEFINE t == [v \in Vars |-> IF table[v] = "Consumed" /\ Top.before[v] # "absent"
                                THEN "Consumed" ELSE Top.before[v]]
<1>1. Close({"loop"}, "end", LoopCodes(Top, table), t) /\ frames' = Front(frames)
  BY DEF EndLoop
<1>2. Top.kind = "loop" /\ frames # <<>>
  BY <1>1 DEF Close
<1>3. LoopCodes(Top, table) = ClosedCodes(Top, table) /\ t = ClosedTable(Top, table)
  BY <1>2 DEF ClosedCodes, ClosedTable
<1>4. QED
  BY <1>1, <1>2, <1>3, TopTyped, CloseStep

LEMMA EndForStep ==
  ASSUME WalkShape, EndFor
  PROVE  \E s : IsStep(s)
<1>1. Close({"for"}, "end", LoopCodes(Top, table), Top.before) /\ frames' = Front(frames)
  BY DEF EndFor
<1>2. Top.kind = "for" /\ frames # <<>>
  BY <1>1 DEF Close
<1>3. LoopCodes(Top, table) = ClosedCodes(Top, table) /\ Top.before = ClosedTable(Top, table)
  BY <1>2 DEF ClosedCodes, ClosedTable
<1>4. QED
  BY <1>1, <1>2, <1>3, TopTyped, CloseStep

LEMMA WalkSteps ==
  ASSUME WalkShape, Walk
  PROVE  \E s : IsStep(s)
<1>1. CASE \E x \in Vars, e \in Expr : Bind(x, e) \/ For(x, e)
  BY <1>1, ConstStep, LetStep, VarStep, AssignStep, ForStep DEF Bind
<1>2. CASE \E e \in Expr : ExprStmt(e) \/ SetField(e) \/ Return(e) \/ If(e)
  BY <1>2, ExprStep, SetStep, ReturnStep, IfStep
<1>3. CASE Loop \/ Else \/ EndIf \/ EndLoop \/ EndFor
  BY <1>3, LoopStep, ElseStep, EndIfStep, EndLoopStep, EndForStep
<1>4. CASE \E op \in {"break", "continue"} : Jump(op)
  BY <1>4, JumpStep
<1>5. QED
  BY <1>1, <1>2, <1>3, <1>4 DEF Walk

LEMMA WalkKeepsShape ==
  ASSUME WalkShape, Walk
  PROVE  WalkShape'
<1>1. PICK s : IsStep(s)
  BY WalkSteps
<1>2. PICK p, t, fs, p2, t2, fs2 :
        p = prog /\ t = table /\ fs = frames /\ p2 = prog' /\ t2 = table' /\ fs2 = frames'
  OBVIOUS
<1>3. Shape(p, t, fs)
  BY <1>2 DEF WalkShape
<1>4. \/ Straight(p, t, fs, p2, t2, fs2, s) \/ Opening(p, t, fs, p2, t2, fs2, s)
      \/ Dividing(p, t, fs, p2, t2, fs2, s) \/ Closing(p, t, fs, p2, t2, fs2, s)
  BY <1>1, <1>2 DEF IsStep
<1>5. Shape(p2, t2, fs2)
  BY <1>3, <1>4, StraightShape, OpeningShape, DividingShape, ClosingShape
<1>6. QED
  BY <1>2, <1>5 DEF WalkShape

-----------------------------------------------------------------------------
(* The forms of statement whose ownership no rule looks at: a name twice   *)
(* in one call, a borrowed name or one that was lent passed to `o`, a move *)
(* or a use of a consumed name where the walker does not look, a copy of a *)
(* name to a name that owns, an assignment in a block, a name bound again  *)
(* in a block, a borrowed name whose type was not inferred in a return.    *)
Gaps == {"dupArg", "moveBorrow", "moveLent", "uncheckedMove", "uncheckedUse", "alias",
         "assignInBlock", "rebindInBlock", "untyped"}
Tame == \A i \in DOMAIN Forms : Forms[i] \cap Gaps = {}

LEMMA NumStmtsType == ASSUME WalkShape PROVE NumStmts \in Nat
<1>1. PICK S : S = {i \in DOMAIN prog : prog[i].op \notin {"else", "end"}}
  OBVIOUS
<1>2. Len(prog) \in Nat /\ DOMAIN prog = 1 .. Len(prog)
  BY ShapeTypes, LenProperties
<1>3. IsFiniteSet(1 .. Len(prog))
  BY <1>2, FS_Interval
<1>4. S \subseteq 1 .. Len(prog)
  BY <1>1, <1>2
<1>5. IsFiniteSet(S)
  BY <1>3, <1>4, FS_Subset
<1>6. Cardinality(S) \in Nat
  BY <1>5, FS_CardinalityType
<1>7. QED
  BY <1>1, <1>6 DEF NumStmts

LEMMA NoGap == ASSUME WalkShape, Tame, NEW g \in Gaps PROVE ~ Form(g)
<1>1. SUFFICES ASSUME Form(g) PROVE FALSE
  OBVIOUS
<1>2. NumStmts \in Nat /\ NumStmts < Len(Forms) /\ g \in Forms[NumStmts + 1]
  BY <1>1, NumStmtsType DEF Form
<1>3. DOMAIN Forms = 1 .. Len(Forms) /\ Len(Forms) \in Nat
  BY FormAssumption, LenProperties
<1>4. NumStmts + 1 \in DOMAIN Forms
  BY <1>2, <1>3
<1>5. QED
  BY <1>2, <1>4 DEF Tame

(* The names that a let before the i-th entry borrowed from.               *)
Lends(s, v) == s.op = "let" /\ Copies(s.expr) /\ v \in Uses(s.expr)
LentUpTo(p, i) == {v \in Vars : \E k \in 1 .. i - 1 : Lends(p[k], v)}

(* The expression e where the table is t and the names of L were lent.     *)
GentleExpr(e, t, L) ==
  /\ \A v \in Uses(e) : t[v] # "absent"
  /\ \A a, b \in DOMAIN e.args : e.args[a].var = e.args[b].var => a = b
  /\ \A v \in Moves(e) : t[v] # "Borrowed" /\ v \notin L
  /\ Moves(e) # {} => e.kind = "call"
GentleUses(s) ==
  /\ \A v \in Uses(s.expr) : s.pre[v] # "Consumed"
  /\ s.op = "return" /\ Copies(s.expr) => \A v \in Uses(s.expr) : s.pre[v] # "Borrowed"
IsBinder(s) == s.op \in {"const", "let", "var", "assign", "for"}
Adds(s) == IsBinder(s) => s.pre[s.var] = "absent"
GentleBinder(s) ==
  /\ IsBinder(s) => s.var \in Vars
  /\ s.depth # 0 \/ s.op = "for" => Adds(s)
  /\ Copies(s.expr) => s.op \notin {"const", "var", "assign"}
GentleEntry(s, L) ==
  /\ GentleExpr(s.expr, s.pre, L)
  /\ Moves(s.expr) # {} => s.op \in {"const", "expr", "return"}
  /\ s.codes = {} => GentleUses(s)
  /\ GentleBinder(s)
Gentle(p) == \A i \in 1 .. Len(p) : GentleEntry(p[i], LentUpTo(p, i))

LEMMA LentGrows ==
  ASSUME NEW p \in Seq(EntryType), NEW p2, NEW s, Grown(p, p2, s), NEW i \in 1 .. Len(p) + 1
  PROVE  LentUpTo(p2, i) = LentUpTo(p, i)
<1>1. Len(p) \in Nat /\ \A k \in 1 .. Len(p) : p2[k] = p[k]
  BY GrownFacts
<1>2. \A k \in 1 .. i - 1 : p2[k] = p[k]
  BY <1>1
<1>3. \A v : (\E k \in 1 .. i - 1 : Lends(p2[k], v)) <=> (\E k \in 1 .. i - 1 : Lends(p[k], v))
  BY <1>2
<1>4. QED
  BY <1>3 DEF LentUpTo

LEMMA GentleGrows ==
  ASSUME NEW p \in Seq(EntryType), NEW p2, NEW s, Grown(p, p2, s), Gentle(p),
         GentleEntry(s, LentUpTo(p, Len(p) + 1))
  PROVE  Gentle(p2)
<1>1. /\ Len(p) \in Nat /\ Len(p2) = Len(p) + 1 /\ p2[Len(p) + 1] = s
      /\ \A k \in 1 .. Len(p) : p2[k] = p[k]
  BY GrownFacts
<1>2. SUFFICES ASSUME NEW i \in 1 .. Len(p2) PROVE GentleEntry(p2[i], LentUpTo(p2, i))
  BY DEF Gentle
<1>3. LentUpTo(p2, i) = LentUpTo(p, i)
  BY <1>1, LentGrows
<1>4. CASE i \in 1 .. Len(p)
  BY <1>1, <1>3, <1>4 DEF Gentle
<1>5. CASE i = Len(p) + 1
  BY <1>1, <1>3, <1>5
<1>6. QED
  BY <1>1, <1>4, <1>5

(* Arguments of an expression, and what they move.                         *)
LEMMA ArgListFacts ==
  ASSUME NEW e \in Expr
  PROVE  /\ DOMAIN e.args = 1 .. Len(e.args) /\ Len(e.args) \in Nat
         /\ \A i \in DOMAIN e.args : e.args[i].var \in Vars
         /\ Uses(e) \subseteq Vars /\ Moves(e) \subseteq Uses(e)
         /\ e.kind \in {"value", "ident", "field", "call", "wrapped", "opaque"}
         /\ e.kind \in {"value", "ident", "field"} => Moves(e) = {}
         /\ e.kind = "value" => Uses(e) = {}
         /\ Copies(e) => e.kind \in {"ident", "field"}
<1>1. /\ DOMAIN e.args = 1 .. Len(e.args) /\ Len(e.args) \in Nat
      /\ \A i \in DOMAIN e.args : e.args[i].var \in Vars
      /\ e.kind \in {"value", "ident", "field", "call", "wrapped", "opaque"}
      /\ e.kind = "value" => e.args = <<>>
      /\ e.kind \in {"ident", "field"} => \A i \in DOMAIN e.args : e.args[i].own = "none"
  <2>1. CASE e = Value
    BY <2>1 DEF Value
  <2>2. ASSUME NEW k \in {"ident", "field"}, e \in Reads(k)
        PROVE  <1>1!1 /\ <1>1!2 /\ <1>1!3 /\ e.kind \in {"ident", "field"}
               /\ \A i \in DOMAIN e.args : e.args[i].own = "none"
    <3>1. PICK v \in Vars : e = [kind |-> k, args |-> <<[var |-> v, own |-> "none"]>>]
      BY <2>2 DEF Reads
    <3>2. e.args = <<[var |-> v, own |-> "none"]>> /\ e.kind = k
      BY <3>1
    <3>3. PICK a : a = e.args
      OBVIOUS
    <3>4. Len(a) = 1 /\ DOMAIN a = 1 .. 1 /\ a[1].var = v /\ a[1].own = "none"
      BY <3>2, <3>3
    <3>5. QED
      BY <3>2, <3>3, <3>4
  <2>3. ASSUME NEW k \in {"call", "wrapped", "opaque"}, NEW sh \in Shapes, NEW a \in ArgLists(sh),
               e = [kind |-> k, args |-> a]
        PROVE  <1>1!1 /\ <1>1!2 /\ <1>1!3 /\ e.kind \in {"call", "wrapped", "opaque"}
    <3>1. PICK f \in [DOMAIN sh -> Vars] :
            a = [i \in DOMAIN sh |-> [var |-> f[i], own |-> sh[i]]]
      BY <2>3 DEF ArgLists
    <3>2. sh \in Seq({"o", "b", "none", "part"})
      BY ShapeAssumption
    <3>3. DOMAIN sh = 1 .. Len(sh) /\ Len(sh) \in Nat
      BY <3>2, LenProperties
    <3>4. DOMAIN a = 1 .. Len(sh) /\ Len(a) = Len(sh)
      BY <3>1, <3>3
    <3>5. \A i \in DOMAIN a : a[i].var \in Vars
      BY <3>1, <3>3
    <3>6. QED
      BY <2>3, <3>3, <3>4, <3>5
  <2>4. QED
    BY <2>1, <2>2, <2>3 DEF Expr
<1>2. Uses(e) \subseteq Vars /\ Moves(e) \subseteq Uses(e)
  BY <1>1 DEF Uses, Moves
<1>3. e.kind \in {"value", "ident", "field"} => Moves(e) = {}
  BY <1>1 DEF Moves
<1>4. e.kind = "value" => Uses(e) = {}
  BY <1>1 DEF Uses
<1>5. QED
  BY <1>1, <1>2, <1>3, <1>4 DEF Copies

(* What the walker allows is gentle, but for the gaps.                     *)
LentNow == LentUpTo(prog, Len(prog) + 1)

LEMMA LentIsLentNow ==
  ASSUME WalkShape, NEW v \in Vars PROVE v \in LentNow <=> Lent(v)
<1>1. DOMAIN prog = 1 .. Len(prog) /\ Len(prog) \in Nat
  BY ShapeTypes, LenProperties
<1>2. 1 .. (Len(prog) + 1) - 1 = DOMAIN prog
  BY <1>1
<1>3. QED
  BY <1>2 DEF LentNow, LentUpTo, Lends, Lent

LEMMA AllowedIsGentle ==
  ASSUME WalkShape, Tame, NEW e \in Expr, Allowed(e)
  PROVE  /\ GentleExpr(e, table, LentNow)
         /\ e.kind = "opaque" => \A v \in Uses(e) : table[v] # "Consumed"
<1>1. ~ Form("dupArg") /\ ~ Form("moveBorrow") /\ ~ Form("moveLent") /\ ~ Form("uncheckedMove")
  BY NoGap DEF Gaps
<1>2. \A v \in Uses(e) : table[v] # "absent"
  BY DEF Allowed, InScope
<1>3. \A a, b \in DOMAIN e.args : e.args[a].var = e.args[b].var => a = b
  BY <1>1 DEF Allowed
<1>4. \A v \in Moves(e) : table[v] # "Borrowed" /\ v \notin LentNow
  <2>1. \A v \in Moves(e) : v \in Vars
    BY ArgListFacts
  <2>2. QED
    BY <1>1, <2>1, LentIsLentNow DEF Allowed
<1>5. Moves(e) # {} => e.kind = "call"
  <2>1. e.kind \in {"value", "ident", "field", "call", "wrapped", "opaque"}
    BY ArgListFacts
  <2>2. e.kind \in {"value", "ident", "field"} => Moves(e) = {}
    BY ArgListFacts
  <2>3. ~ (e.kind \in {"wrapped", "opaque"} /\ Moves(e) # {})
    BY <1>1 DEF Allowed
  <2>4. QED
    BY <2>1, <2>2, <2>3
<1>6. e.kind = "opaque" => \A v \in Uses(e) : table[v] # "Consumed"
  <2>1. ~ Form("uncheckedUse")
    BY NoGap DEF Gaps
  <2>2. QED
    BY <2>1 DEF Allowed, Unseen
<1>7. QED
  BY <1>2, <1>3, <1>4, <1>5, <1>6 DEF GentleExpr

LEMMA NoUseCodes ==
  ASSUME NEW e, NEW t, e.kind = "opaque" => \A v \in Uses(e) : t[v] # "Consumed",
         UseCodes(e, t) = {}
  PROVE  \A v \in Uses(e) : t[v] # "Consumed"
  BY DEF UseCodes

LEMMA UncheckedIsGentle ==
  ASSUME WalkShape, Tame, NEW e \in Expr, Unchecked(e)
  PROVE  /\ GentleExpr(e, table, LentNow) /\ Moves(e) = {}
         /\ \A v \in Uses(e) : table[v] # "Consumed"
<1>1. ~ Form("uncheckedMove") /\ ~ Form("uncheckedUse")
  BY NoGap DEF Gaps
<1>2. QED
  BY <1>1, AllowedIsGentle DEF Unchecked, Unseen

ReturnsOwn(op, e) ==
  op = "return" /\ Copies(e) => \A v \in Uses(e) : table[v] # "Borrowed"
BindsGently(op, x, e, depth) ==
  /\ op \in {"const", "let", "var", "assign", "for"} =>
       /\ x \in Vars
       /\ depth # 0 \/ op = "for" => table[x] = "absent"
  /\ Copies(e) => op \notin {"const", "var", "assign"}

LEMMA GentleOf ==
  ASSUME WalkShape, NEW op, NEW x, NEW e, NEW codes, NEW depth,
         prog' = Append(prog, Entry(op, x, e, codes, depth)),
         GentleExpr(e, table, LentNow),
         Moves(e) # {} => op \in {"const", "expr", "return"},
         codes = {} => (\A v \in Uses(e) : table[v] # "Consumed") /\ ReturnsOwn(op, e),
         BindsGently(op, x, e, depth)
  PROVE  GentleEntry(prog'[Len(prog) + 1], LentNow)
<1>1. PICK s : s = Entry(op, x, e, codes, depth)
  OBVIOUS
<1>2. prog'[Len(prog) + 1] = s
  BY <1>1, ShapeTypes
<1>3. /\ s.op = op /\ s.var = x /\ s.expr = e /\ s.codes = codes
      /\ s.pre = table /\ s.depth = depth
  BY <1>1, EntryHas
<1>4. s.codes = {} => GentleUses(s)
  BY <1>3 DEF GentleUses, ReturnsOwn
<1>5. GentleBinder(s)
  BY <1>3 DEF GentleBinder, BindsGently, IsBinder, Adds
<1>6. GentleEntry(s, LentNow)
  BY <1>3, <1>4, <1>5 DEF GentleEntry
<1>7. QED
  BY <1>2, <1>6

LEMMA ConstGentle ==
  ASSUME WalkShape, Tame, NEW x \in Vars, NEW e \in Expr, Const(x, e)
  PROVE  GentleEntry(prog'[Len(prog) + 1], LentNow)
<1>1. PICK codes : codes = UseCodes(e, table) \cup CallCodes(e, table)
  OBVIOUS
<1>2. prog' = Append(prog, Entry("const", x, e, codes, Len(frames)))
  BY <1>1 DEF Const, Plain
<1>3. GentleExpr(e, table, LentNow) /\ (e.kind = "opaque" => \A v \in Uses(e) : table[v] # "Consumed")
  BY AllowedIsGentle DEF Const
<1>4. codes = {} => \A v \in Uses(e) : table[v] # "Consumed"
  BY <1>1, <1>3, NoUseCodes
<1>5. BindsGently("const", x, e, Len(frames))
  BY NoGap DEF BindsGently, Const, Rebinds, Gaps
<1>6. QED
  BY <1>2, <1>3, <1>4, <1>5, GentleOf DEF ReturnsOwn

LEMMA LetGentle ==
  ASSUME WalkShape, Tame, NEW x \in Vars, NEW e \in Expr, Let(x, e)
  PROVE  GentleEntry(prog'[Len(prog) + 1], LentNow)
<1>1. PICK codes : codes = IF e = Value THEN {"E-OWN-002"} ELSE {}
  OBVIOUS
<1>2. prog' = Append(prog, Entry("let", x, e, codes, Len(frames)))
  BY <1>1 DEF Let, Plain
<1>3. /\ GentleExpr(e, table, LentNow) /\ Moves(e) = {}
      /\ \A v \in Uses(e) : table[v] # "Consumed"
  BY UncheckedIsGentle DEF Let
<1>4. BindsGently("let", x, e, Len(frames))
  BY NoGap DEF BindsGently, Let, Rebinds, Gaps
<1>5. QED
  BY <1>2, <1>3, <1>4, GentleOf DEF ReturnsOwn

LEMMA VarGentle ==
  ASSUME WalkShape, Tame, NEW x \in Vars, NEW e \in Expr, Var(x, e)
  PROVE  GentleEntry(prog'[Len(prog) + 1], LentNow)
<1>1. prog' = Append(prog, Entry("var", x, e, {}, Len(frames)))
  BY DEF Var, Plain
<1>2. /\ GentleExpr(e, table, LentNow) /\ Moves(e) = {}
      /\ \A v \in Uses(e) : table[v] # "Consumed"
  BY UncheckedIsGentle DEF Var
<1>3. BindsGently("var", x, e, Len(frames))
  BY NoGap DEF BindsGently, Var, Rebinds, Gaps
<1>4. QED
  BY <1>1, <1>2, <1>3, GentleOf DEF ReturnsOwn

LEMMA AssignGentle ==
  ASSUME WalkShape, Tame, NEW x \in Vars, NEW e \in Expr, Assign(x, e)
  PROVE  GentleEntry(prog'[Len(prog) + 1], LentNow) /\ frames = <<>>
<1>1. prog' = Append(prog, Entry("assign", x, e, {}, Len(frames)))
  BY DEF Assign, Plain
<1>2. /\ GentleExpr(e, table, LentNow) /\ Moves(e) = {}
      /\ \A v \in Uses(e) : table[v] # "Consumed"
  BY UncheckedIsGentle DEF Assign
<1>3. frames = <<>> /\ Len(frames) = 0
  <2>1. frames = <<>>
    BY NoGap DEF Assign, Gaps
  <2>2. QED
    BY <2>1
<1>4. BindsGently("assign", x, e, Len(frames))
  BY <1>3, NoGap DEF BindsGently, Assign, Gaps
<1>5. QED
  BY <1>1, <1>2, <1>3, <1>4, GentleOf DEF ReturnsOwn

LEMMA ExprGentle ==
  ASSUME WalkShape, Tame, NEW e \in Expr, ExprStmt(e)
  PROVE  GentleEntry(prog'[Len(prog) + 1], LentNow)
<1>1. PICK codes : codes = CallCodes(e, table) \cup (IF e = Value THEN {"E-OWN-001"} ELSE {})
  OBVIOUS
<1>2. prog' = Append(prog, Entry("expr", NoVar, e, codes, Len(frames)))
  BY <1>1 DEF ExprStmt, Plain
<1>3. GentleExpr(e, table, LentNow)
  BY AllowedIsGentle, UncheckedIsGentle DEF ExprStmt
<1>4. codes = {} => \A v \in Uses(e) : table[v] # "Consumed"
  <2>1. CASE e.kind = "call"
    <3>1. CallCodes(e, table) = {} => \A v \in Names(e) : table[v] # "Consumed"
      BY <2>1 DEF CallCodes
    <3>2. \A v \in Uses(e) \ Names(e) : table[v] # "Consumed"
      BY <2>1, NoGap DEF ExprStmt, Unseen, Gaps
    <3>3. QED
      BY <1>1, <3>1, <3>2
  <2>2. CASE e.kind # "call"
    BY <2>2, UncheckedIsGentle DEF ExprStmt
  <2>3. QED
    BY <2>1, <2>2
<1>5. BindsGently("expr", NoVar, e, Len(frames))
  BY DEF BindsGently
<1>6. QED
  BY <1>2, <1>3, <1>4, <1>5, GentleOf DEF ReturnsOwn

LEMMA SetGentle ==
  ASSUME WalkShape, Tame, NEW e \in Expr, SetField(e)
  PROVE  GentleEntry(prog'[Len(prog) + 1], LentNow)
<1>1. prog' = Append(prog, Entry("set", NoVar, e, {}, Len(frames)))
  BY DEF SetField, Plain
<1>2. /\ GentleExpr(e, table, LentNow) /\ Moves(e) = {}
      /\ \A v \in Uses(e) : table[v] # "Consumed"
  BY UncheckedIsGentle DEF SetField
<1>3. BindsGently("set", NoVar, e, Len(frames))
  BY DEF BindsGently
<1>4. QED
  BY <1>1, <1>2, <1>3, GentleOf DEF ReturnsOwn

LEMMA ReturnGentle ==
  ASSUME WalkShape, Tame, NEW e \in Expr, Return(e)
  PROVE  GentleEntry(prog'[Len(prog) + 1], LentNow)
<1>1. PICK t : t = AfterCall(e, table)
  OBVIOUS
<1>2. PICK codes :
        /\ codes = UseCodes(e, table) \cup CallCodes(e, table) \cup ReturnCodes(e, t, TRUE)
        /\ Plain("return", NoVar, e, codes, t)
  <2>1. ~ Form("untyped")
    BY NoGap DEF Gaps
  <2>2. QED
    BY <1>1, <2>1 DEF Return
<1>3. prog' = Append(prog, Entry("return", NoVar, e, codes, Len(frames)))
  BY <1>2 DEF Plain
<1>4. GentleExpr(e, table, LentNow) /\ (e.kind = "opaque" => \A v \in Uses(e) : table[v] # "Consumed")
  BY AllowedIsGentle DEF Return
<1>5. codes = {} => \A v \in Uses(e) : table[v] # "Consumed"
  BY <1>2, <1>4, NoUseCodes
<1>6. codes = {} => ReturnsOwn("return", e)
  <2>1. SUFFICES ASSUME codes = {}, Copies(e), NEW v \in Uses(e)
                 PROVE  table[v] # "Borrowed"
    BY DEF ReturnsOwn
  <2>2. ReturnCodes(e, t, TRUE) = {} /\ e.kind \in {"ident", "field"} /\ v \in Vars
    BY <1>2, <2>1, ArgListFacts
  <2>3. t[v] # "Borrowed"
    BY <2>1, <2>2 DEF ReturnCodes
  <2>4. t[v] = table[v]
    BY <1>1, <2>2 DEF AfterCall
  <2>5. QED
    BY <2>3, <2>4
<1>7. BindsGently("return", NoVar, e, Len(frames))
  BY DEF BindsGently
<1>8. QED
  BY <1>3, <1>4, <1>5, <1>6, <1>7, GentleOf

(* An entry without an expression.                                         *)
LEMMA ValueGentle ==
  ASSUME WalkShape, NEW op \in {"loop", "break", "continue", "else", "end"}, NEW codes,
         NEW depth, prog' = Append(prog, Entry(op, NoVar, Value, codes, depth))
  PROVE  GentleEntry(prog'[Len(prog) + 1], LentNow)
<1>1. Uses(Value) = {} /\ Moves(Value) = {} /\ ~ Copies(Value)
  BY DEF Uses, Moves, Value, Copies
<1>2. DOMAIN Value.args = {}
  BY DEF Value
<1>3. GentleExpr(Value, table, LentNow)
  BY <1>1, <1>2 DEF GentleExpr
<1>4. BindsGently(op, NoVar, Value, depth)
  BY <1>1 DEF BindsGently
<1>5. ReturnsOwn(op, Value)
  BY DEF ReturnsOwn
<1>6. QED
  BY <1>1, <1>3, <1>4, <1>5, GentleOf

LEMMA IfGentle ==
  ASSUME WalkShape, Tame, NEW e \in Expr, If(e)
  PROVE  GentleEntry(prog'[Len(prog) + 1], LentNow)
<1>1. prog' = Append(prog, Entry("if", NoVar, e, {}, Len(frames)))
  BY DEF If, Open, Plain
<1>2. /\ GentleExpr(e, table, LentNow) /\ Moves(e) = {}
      /\ \A v \in Uses(e) : table[v] # "Consumed"
  BY UncheckedIsGentle DEF If
<1>3. BindsGently("if", NoVar, e, Len(frames))
  BY DEF BindsGently
<1>4. QED
  BY <1>1, <1>2, <1>3, GentleOf DEF ReturnsOwn

LEMMA ForGentle ==
  ASSUME WalkShape, Tame, NEW x \in Vars, NEW e \in Expr, For(x, e)
  PROVE  GentleEntry(prog'[Len(prog) + 1], LentNow)
<1>1. prog' = Append(prog, Entry("for", x, e, {}, Len(frames)))
  BY DEF For, Open, Plain
<1>2. /\ GentleExpr(e, table, LentNow) /\ Moves(e) = {}
      /\ \A v \in Uses(e) : table[v] # "Consumed"
  BY UncheckedIsGentle DEF For
<1>3. BindsGently("for", x, e, Len(frames))
  <2>1. Len(frames) + 1 # 0
    BY ShapeTypes, LenProperties
  <2>2. table[x] = "absent"
    BY <2>1, NoGap DEF For, Rebinds, Gaps
  <2>3. QED
    BY <2>2 DEF BindsGently
<1>4. QED
  BY <1>1, <1>2, <1>3, GentleOf DEF ReturnsOwn

LEMMA WalkIsGentle ==
  ASSUME WalkShape, Tame, Walk
  PROVE  GentleEntry(prog'[Len(prog) + 1], LentNow)
<1>1. CASE \E x \in Vars, e \in Expr : Bind(x, e) \/ For(x, e)
  BY <1>1, ConstGentle, LetGentle, VarGentle, AssignGentle, ForGentle DEF Bind
<1>2. CASE \E e \in Expr : ExprStmt(e) \/ SetField(e) \/ Return(e) \/ If(e)
  BY <1>2, ExprGentle, SetGentle, ReturnGentle, IfGentle
<1>3. CASE Loop
  BY <1>3, ValueGentle DEF Loop, Open, Plain
<1>4. CASE Else
  BY <1>4, ValueGentle DEF Else, Close
<1>5. CASE EndIf \/ EndLoop \/ EndFor
  <2>1. \E codes : prog' = Append(prog, Entry("end", NoVar, Value, codes, Len(frames) - 1))
    BY <1>5 DEF EndIf, EndLoop, EndFor, Close
  <2>2. QED
    BY <2>1, ValueGentle
<1>6. CASE \E op \in {"break", "continue"} : Jump(op)
  BY <1>6, ValueGentle DEF Jump, Plain
<1>7. QED
  BY <1>1, <1>2, <1>3, <1>4, <1>5, <1>6 DEF Walk

(* Nothing is assigned in a block, so no frame has a name to forgive.      *)
Calm(fs) == \A i \in 1 .. Len(fs) : fs[i].reassigned = {}

LEMMA WalkIsCalm ==
  ASSUME WalkShape, Tame, Walk, Calm(frames)
  PROVE  Calm(frames')
<1>1. CASE UNCHANGED frames
  BY <1>1 DEF Calm
<1>2. ASSUME NEW kind, NEW x, NEW e, NEW t, Open(kind, x, e, t) PROVE Calm(frames')
  <2>1. PICK f : f = [kind |-> kind, before |-> table, consumed |-> {}, reassigned |-> {}]
    OBVIOUS
  <2>2. frames' = Append(frames, f) /\ f.reassigned = {}
    BY <1>2, <2>1 DEF Open
  <2>3. /\ Len(frames') = Len(frames) + 1 /\ frames'[Len(frames) + 1] = f
        /\ \A i \in 1 .. Len(frames) : frames'[i] = frames[i]
    BY <2>2, ShapeTypes
  <2>4. QED
    BY <2>2, <2>3, ShapeTypes DEF Calm
<1>3. CASE frames # <<>> /\ frames' = Front(frames)
  BY <1>3, TopAndFront DEF Calm
<1>4. CASE Else
  <2>1. PICK top : top = Top
    OBVIOUS
  <2>2. PICK g : g = [top EXCEPT !.kind = "else", !.consumed = NewlyConsumed(top.before, table)]
    OBVIOUS
  <2>3. frames # <<>> /\ frames' = Append(Front(frames), g)
    BY <1>4, <2>1, <2>2 DEF Else, Close
  <2>4. /\ Len(frames) \in Nat \ {0} /\ top \in FrameType /\ top = frames[Len(frames)]
        /\ Front(frames) \in Seq(FrameType) /\ Len(Front(frames)) = Len(frames) - 1
        /\ \A i \in 1 .. Len(frames) - 1 : Front(frames)[i] = frames[i]
    BY <2>1, <2>3, TopAndFront
  <2>5. g.reassigned = {}
    <3>1. top.reassigned = {}
      BY <2>4 DEF Calm
    <3>2. QED
      BY <2>2, <2>4, <3>1 DEF FrameType
  <2>6. Len(frames') = Len(frames) /\ frames'[Len(frames)] = g
        /\ \A i \in 1 .. Len(frames) - 1 : frames'[i] = frames[i]
    <3>1. PICK fr : fr = Front(frames)
      OBVIOUS
    <3>2. Len(fr) + 1 = Len(frames) /\ fr \in Seq(FrameType)
      BY <2>4, <3>1
    <3>3. QED
      BY <2>3, <2>4, <3>1, <3>2
  <2>7. QED
    BY <2>4, <2>5, <2>6 DEF Calm
<1>5. CASE \E x \in Vars, e \in Expr : Bind(x, e) \/ For(x, e)
  <2>1. PICK x \in Vars, e \in Expr : Bind(x, e) \/ For(x, e)
    BY <1>5
  <2>2. CASE Const(x, e) \/ Let(x, e) \/ Var(x, e)
    BY <1>1, <2>2 DEF Const, Let, Var
  <2>3. CASE Assign(x, e)
    BY <1>1, <2>3, AssignGentle DEF Assign
  <2>4. CASE For(x, e)
    BY <1>2, <2>4 DEF For
  <2>5. QED
    BY <2>1, <2>2, <2>3, <2>4 DEF Bind
<1>6. CASE \E e \in Expr : ExprStmt(e) \/ SetField(e) \/ Return(e) \/ If(e)
  BY <1>1, <1>2, <1>6 DEF ExprStmt, SetField, Return, If
<1>7. CASE Loop
  BY <1>2, <1>7 DEF Loop
<1>8. CASE EndIf \/ EndLoop \/ EndFor
  BY <1>3, <1>8 DEF EndIf, EndLoop, EndFor, Close
<1>9. CASE \E op \in {"break", "continue"} : Jump(op)
  BY <1>1, <1>9 DEF Jump
<1>10. QED
  BY <1>4, <1>5, <1>6, <1>7, <1>8, <1>9 DEF Walk

-----------------------------------------------------------------------------
(* The heart: what a body without a report does to a name known before a   *)
(* block.  Inside the block the name is as it was, or it was owned and is  *)
(* consumed.  In a loop that is still open, a name that was consumed on    *)
(* one path is consumed still, or held by the frame of an if whose other   *)
(* branch has to consume it too; so it is consumed at the end of the loop, *)
(* which is reported.  In a loop that has ended, all is as it was.         *)
Clean(p) == \A i \in 1 .. Len(p) : p[i].codes = {}
Later(a, b, v) == b[v] = a[v] \/ (a[v] = "Owned" /\ b[v] = "Consumed")

Moved(p, t) ==
  \A o \in 1 .. Len(p), j \in 1 .. Len(p) + 1 : Block(p, o, j) =>
    \A v \in Known(p[o].pre) : Later(p[o].pre, Before(p, t, j), v)

Pending(t, fs, k, v) == t[v] = "Consumed" \/ \E i \in k .. Len(fs) : v \in fs[i].consumed
Pends(p, t, fs) ==
  \A o \in 1 .. Len(p) : IsLoop(p[o]) /\ OpenBlock(p, o) =>
    \A j \in 1 .. Len(p) + 1 : Block(p, o, j) =>
      \A v \in Known(p[o].pre) :
        Before(p, t, j)[v] = p[o].pre[v] \/ Pending(t, fs, p[o].depth + 1, v)

LoopsKeep(p, t) ==
  \A o \in 1 .. Len(p) : IsLoop(p[o]) /\ ~ OpenBlock(p, o) =>
    \A j \in 1 .. Len(p) + 1 : Block(p, o, j) =>
      \A v \in Known(p[o].pre) : Before(p, t, j)[v] = p[o].pre[v]

(* What is known in u is so in a too. *)
Below(a, u) == \A v \in Known(u) : a[v] = u[v]

(* Where the paths around a block meet, the table is that of each of them. *)
JoinsAt(p, o, e, u) ==
  /\ IsLoop(p[o]) \/ (\A m \in 1 .. Len(p) : ~ ElseOf(p, o, m)) => Below(p[o].pre, u)
  /\ p[o].op = "if" => Below(p[e].pre, u)
  /\ \A m \in 1 .. Len(p) : ElseOf(p, o, m) => Below(p[m].pre, u)
Joins(p, t) ==
  \A o, e \in 1 .. Len(p) : EndOfBlock(p, o, e) => JoinsAt(p, o, e, Before(p, t, e + 1))

(* The order of the list, whatever was reported. *)
Follows(p, t) ==
  /\ \A i \in 1 .. Len(p) : ~ IsDivider(p[i]) => Before(p, t, i + 1) = Effect(p[i])
  /\ \A o, m \in 1 .. Len(p) : ElseOf(p, o, m) => Before(p, t, m + 1) = p[o].pre

SoundTable(p, t, fs) == Moved(p, t) /\ Pends(p, t, fs) /\ LoopsKeep(p, t) /\ Joins(p, t)

LEMMA CleanGrows ==
  ASSUME NEW p \in Seq(EntryType), NEW p2, NEW s, Grown(p, p2, s), Clean(p2)
  PROVE  Clean(p) /\ s.codes = {}
<1>1. /\ Len(p) \in Nat /\ Len(p2) = Len(p) + 1 /\ p2[Len(p) + 1] = s
      /\ \A k \in 1 .. Len(p) : p2[k] = p[k]
  BY GrownFacts
<1>2. \A k \in 1 .. Len(p) : k \in 1 .. Len(p2)
  BY <1>1
<1>3. Len(p) + 1 \in 1 .. Len(p2)
  BY <1>1
<1>4. QED
  BY <1>1, <1>2, <1>3 DEF Clean

(* The entries of a block of the longer list: those it had, and the next.  *)
GrownBlock(p, p2, s, t, t2, o, j) ==
  \/ /\ o \in 1 .. Len(p) /\ j \in 1 .. Len(p) + 1 /\ Block(p, o, j)
     /\ p2[o] = p[o] /\ Before(p2, t2, j) = Before(p, t, j)
  \/ /\ o \in 1 .. Len(p) /\ j = Len(p) + 2 /\ Stays(p, o, s)
     /\ p2[o] = p[o] /\ Before(p2, t2, j) = t2
  \/ /\ o = Len(p) + 1 /\ j = Len(p) + 2 /\ IsOpener(s)
     /\ p2[o] = s /\ s.pre = t /\ Before(p2, t2, j) = t2

LEMMA BlockOfGrown ==
  ASSUME NEW p \in Seq(EntryType), NEW p2, NEW s, Grown(p, p2, s), NEW t, NEW t2, Notes(s, t),
         NEW o \in 1 .. Len(p2), NEW j \in 1 .. Len(p2) + 1, Block(p2, o, j)
  PROVE  GrownBlock(p, p2, s, t, t2, o, j)
<1>1. /\ Len(p) \in Nat /\ Len(p2) = Len(p) + 1 /\ p2[Len(p) + 1] = s
      /\ \A i \in 1 .. Len(p) : p2[i] = p[i]
  BY GrownFacts
<1>2. o < j /\ o \in Nat
  BY DEF Block
<1>3. CASE j \in 1 .. Len(p) + 1
  <2>1. o \in 1 .. Len(p) /\ Block(p, o, j)
    BY <1>1, <1>2, <1>3, BlockGrows
  <2>2. Before(p2, t2, j) = Before(p, t, j)
    BY <1>3, BeforeGrows
  <2>3. p2[o] = p[o]
    BY <1>1, <2>1
  <2>4. QED
    BY <1>3, <2>1, <2>2, <2>3 DEF GrownBlock
<1>4. CASE j = Len(p) + 2
  <2>1. Before(p2, t2, j) = t2
    BY <1>4, BeforeNext
  <2>2. OpenBlock(p2, o)
    BY <1>1, <1>4 DEF OpenBlock
  <2>3. CASE o \in 1 .. Len(p)
    <3>1. Stays(p, o, s) /\ p2[o] = p[o]
      BY <1>1, <2>2, <2>3, OpenGrows
    <3>2. QED
      BY <1>4, <2>1, <2>3, <3>1 DEF GrownBlock
  <2>4. CASE o = Len(p) + 1
    <3>1. IsOpener(s) /\ p2[o] = s /\ s.pre = t
      BY <1>1, <2>2, <2>4, OpenGrows DEF Notes
    <3>2. QED
      BY <1>4, <2>1, <2>4, <3>1 DEF GrownBlock
  <2>5. QED
    BY <1>1, <2>3, <2>4
<1>5. QED
  BY <1>1, <1>3, <1>4

LEMMA MovedGrows ==
  ASSUME NEW p \in Seq(EntryType), NEW p2, NEW s, Grown(p, p2, s), NEW t, NEW t2, Notes(s, t),
         Moved(p, t),
         \A o \in 1 .. Len(p) : Stays(p, o, s) =>
           \A v \in Known(p[o].pre) : Later(p[o].pre, t2, v),
         IsOpener(s) => \A v \in Known(t) : Later(t, t2, v)
  PROVE  Moved(p2, t2)
<1>1. SUFFICES ASSUME NEW o \in 1 .. Len(p2), NEW j \in 1 .. Len(p2) + 1, Block(p2, o, j),
                      NEW v \in Known(p2[o].pre)
               PROVE  Later(p2[o].pre, Before(p2, t2, j), v)
  BY DEF Moved
<1>2. PICK u : u = Before(p2, t2, j)
  OBVIOUS
<1>3. CASE /\ o \in 1 .. Len(p) /\ j \in 1 .. Len(p) + 1 /\ Block(p, o, j)
           /\ p2[o] = p[o] /\ Before(p2, t2, j) = Before(p, t, j)
  BY <1>3 DEF Moved
<1>4. CASE /\ o \in 1 .. Len(p) /\ j = Len(p) + 2 /\ Stays(p, o, s)
           /\ p2[o] = p[o] /\ Before(p2, t2, j) = t2
  BY <1>4
<1>5. CASE /\ o = Len(p) + 1 /\ j = Len(p) + 2 /\ IsOpener(s)
           /\ p2[o] = s /\ s.pre = t /\ Before(p2, t2, j) = t2
  BY <1>5
<1>6. GrownBlock(p, p2, s, t, t2, o, j)
  BY <1>1, BlockOfGrown
<1>7. QED
  BY <1>3, <1>4, <1>5, <1>6 DEF GrownBlock

LEMMA PendsGrows ==
  ASSUME NEW p \in Seq(EntryType), NEW p2, NEW s, Grown(p, p2, s), NEW t, NEW t2, Notes(s, t),
         NEW fs, NEW fs2, Pends(p, t, fs),
         \A o \in 1 .. Len(p) : IsLoop(p[o]) /\ Stays(p, o, s) =>
           \A v \in Known(p[o].pre) :
             /\ t2[v] = p[o].pre[v] \/ Pending(t2, fs2, p[o].depth + 1, v)
             /\ Pending(t, fs, p[o].depth + 1, v) => Pending(t2, fs2, p[o].depth + 1, v),
         IsOpener(s) => Below(t2, t)
  PROVE  Pends(p2, t2, fs2)
<1>1. SUFFICES ASSUME NEW o \in 1 .. Len(p2), IsLoop(p2[o]), OpenBlock(p2, o),
                      NEW j \in 1 .. Len(p2) + 1, Block(p2, o, j), NEW v \in Known(p2[o].pre)
               PROVE  Before(p2, t2, j)[v] = p2[o].pre[v]
                      \/ Pending(t2, fs2, p2[o].depth + 1, v)
  BY DEF Pends
<1>2. CASE /\ o \in 1 .. Len(p) /\ j \in 1 .. Len(p) + 1 /\ Block(p, o, j)
           /\ p2[o] = p[o] /\ Before(p2, t2, j) = Before(p, t, j)
  <2>1. Stays(p, o, s)
    BY <1>1, <1>2, OpenGrows
  <2>2. OpenBlock(p, o)
    BY <2>1 DEF Stays
  <2>3. IsLoop(p[o]) /\ v \in Known(p[o].pre)
    BY <1>1, <1>2
  <2>4. Before(p, t, j)[v] = p[o].pre[v] \/ Pending(t, fs, p[o].depth + 1, v)
    BY <1>2, <2>2, <2>3 DEF Pends
  <2>5. Pending(t, fs, p[o].depth + 1, v) => Pending(t2, fs2, p[o].depth + 1, v)
    BY <1>2, <2>1, <2>3
  <2>6. QED
    BY <1>2, <2>4, <2>5
<1>3. CASE /\ o \in 1 .. Len(p) /\ j = Len(p) + 2 /\ Stays(p, o, s)
           /\ p2[o] = p[o] /\ Before(p2, t2, j) = t2
  BY <1>1, <1>3
<1>4. CASE /\ o = Len(p) + 1 /\ j = Len(p) + 2 /\ IsOpener(s)
           /\ p2[o] = s /\ s.pre = t /\ Before(p2, t2, j) = t2
  BY <1>1, <1>4 DEF Below
<1>5. GrownBlock(p, p2, s, t, t2, o, j)
  BY <1>1, BlockOfGrown
<1>6. QED
  BY <1>2, <1>3, <1>4, <1>5 DEF GrownBlock

LEMMA LoopsKeepGrows ==
  ASSUME NEW p \in Seq(EntryType), NEW p2, NEW s, Grown(p, p2, s), NEW t, NEW t2, Notes(s, t),
         LoopsKeep(p, t),
         \A o \in 1 .. Len(p) : IsLoop(p[o]) /\ OpenBlock(p, o) /\ ~ Stays(p, o, s) =>
           \A j \in 1 .. Len(p) + 1 : Block(p, o, j) =>
             \A v \in Known(p[o].pre) : Before(p, t, j)[v] = p[o].pre[v]
  PROVE  LoopsKeep(p2, t2)
<1>1. SUFFICES ASSUME NEW o \in 1 .. Len(p2), IsLoop(p2[o]), ~ OpenBlock(p2, o),
                      NEW j \in 1 .. Len(p2) + 1, Block(p2, o, j), NEW v \in Known(p2[o].pre)
               PROVE  Before(p2, t2, j)[v] = p2[o].pre[v]
  BY DEF LoopsKeep
<1>2. CASE /\ o \in 1 .. Len(p) /\ j \in 1 .. Len(p) + 1 /\ Block(p, o, j)
           /\ p2[o] = p[o] /\ Before(p2, t2, j) = Before(p, t, j)
  <2>1. ~ Stays(p, o, s)
    BY <1>1, <1>2, OpenGrows
  <2>2. IsLoop(p[o]) /\ v \in Known(p[o].pre)
    BY <1>1, <1>2
  <2>3. Before(p, t, j)[v] = p[o].pre[v]
    BY <1>2, <2>1, <2>2 DEF LoopsKeep
  <2>4. QED
    BY <1>2, <2>3
<1>3. CASE /\ o \in 1 .. Len(p) /\ j = Len(p) + 2 /\ Stays(p, o, s)
           /\ p2[o] = p[o] /\ Before(p2, t2, j) = t2
  BY <1>1, <1>3, OpenGrows
<1>4. CASE /\ o = Len(p) + 1 /\ j = Len(p) + 2 /\ IsOpener(s)
           /\ p2[o] = s /\ s.pre = t /\ Before(p2, t2, j) = t2
  BY <1>1, <1>4, OpenGrows
<1>5. GrownBlock(p, p2, s, t, t2, o, j)
  BY <1>1, BlockOfGrown
<1>6. QED
  BY <1>2, <1>3, <1>4, <1>5 DEF GrownBlock

LEMMA JoinsGrows ==
  ASSUME NEW p \in Seq(EntryType), NEW p2, NEW s, Grown(p, p2, s), NEW t, NEW t2, Notes(s, t),
         Joins(p, t),
         \A o \in 1 .. Len(p) : OpenBlock(p, o) /\ s.op = "end" /\ s.depth = p[o].depth =>
           /\ IsLoop(p[o]) \/ (\A m \in 1 .. Len(p) : ~ ElseOf(p, o, m)) => Below(p[o].pre, t2)
           /\ p[o].op = "if" => Below(t, t2)
           /\ \A m \in 1 .. Len(p) : ElseOf(p, o, m) => Below(p[m].pre, t2)
  PROVE  Joins(p2, t2)
<1>1. /\ Len(p) \in Nat /\ Len(p2) = Len(p) + 1 /\ p2[Len(p) + 1] = s
      /\ \A i \in 1 .. Len(p) : p2[i] = p[i] /\ i \in 1 .. Len(p2)
  BY GrownFacts
<1>2. SUFFICES ASSUME NEW o \in 1 .. Len(p2), NEW e \in 1 .. Len(p2), EndOfBlock(p2, o, e)
               PROVE  JoinsAt(p2, o, e, Before(p2, t2, e + 1))
  BY DEF Joins
<1>3. o \in 1 .. Len(p) /\ p2[o] = p[o]
  BY <1>1, <1>2 DEF EndOfBlock, Divides, Block
<1>4. \A m \in 1 .. Len(p) : ElseOf(p2, o, m) <=> ElseOf(p, o, m)
  BY <1>3, DividesGrows
<1>5. CASE e \in 1 .. Len(p)
  <2>1. EndOfBlock(p, o, e) /\ p2[e] = p[e] /\ e + 1 \in 1 .. Len(p) + 1
    BY <1>1, <1>2, <1>3, <1>5, DividesGrows
  <2>2. PICK u : u = Before(p, t, e + 1)
    OBVIOUS
  <2>3. Before(p2, t2, e + 1) = u
    BY <2>1, <2>2, BeforeGrows
  <2>4. JoinsAt(p, o, e, u)
    BY <1>3, <1>5, <2>1, <2>2 DEF Joins
  <2>5. \A m \in 1 .. Len(p2) : ElseOf(p2, o, m) => m \in 1 .. Len(p)
    <3>1. ASSUME ElseOf(p2, o, Len(p) + 1) PROVE FALSE
      <4>1. OpenBlock(p, o)
        BY <1>3, <3>1, DividesGrows DEF ElseOf
      <4>2. p[e].op = "end" /\ p[e].depth = p[o].depth /\ e \in o + 1 .. (Len(p) + 1) - 1
        BY <1>1, <1>3, <1>5, <2>1 DEF EndOfBlock, Divides, Block
      <4>3. QED
        BY <4>1, <4>2 DEF OpenBlock, Block
    <3>2. QED
      BY <1>1, <3>1
  <2>6. JoinsAt(p2, o, e, u)
    BY <1>1, <1>3, <1>4, <2>1, <2>4, <2>5 DEF JoinsAt
  <2>7. QED
    BY <2>3, <2>6
<1>6. CASE e = Len(p) + 1
  <2>1. OpenBlock(p, o) /\ s.op = "end" /\ s.depth = p[o].depth
    BY <1>1, <1>2, <1>3, <1>6, DividesGrows DEF EndOfBlock
  <2>2. Before(p2, t2, e + 1) = t2
    <3>1. e + 1 = Len(p) + 2
      BY <1>1, <1>6
    <3>2. QED
      BY <3>1, BeforeNext
  <2>3. \A m \in 1 .. Len(p2) : ElseOf(p2, o, m) => m \in 1 .. Len(p) /\ ElseOf(p, o, m)
    <3>1. ~ ElseOf(p2, o, Len(p) + 1)
      BY <1>1, <2>1 DEF ElseOf
    <3>2. QED
      BY <1>1, <1>4, <3>1
  <2>4. p2[e].pre = t
    BY <1>1, <1>6 DEF Notes
  <2>5. JoinsAt(p2, o, e, t2)
    BY <1>1, <1>3, <1>4, <2>1, <2>3, <2>4 DEF JoinsAt
  <2>6. QED
    BY <2>2, <2>5
<1>7. QED
  BY <1>1, <1>5, <1>6

LEMMA FollowsGrows ==
  ASSUME NEW p \in Seq(EntryType), NEW p2, NEW s, Grown(p, p2, s), NEW t, NEW t2, Notes(s, t),
         Follows(p, t), ~ IsDivider(s) => t2 = Effect(s),
         \A o \in 1 .. Len(p) :
           OpenBlock(p, o) /\ s.op = "else" /\ s.depth = p[o].depth => t2 = p[o].pre
  PROVE  Follows(p2, t2)
<1>1. /\ Len(p) \in Nat /\ Len(p2) = Len(p) + 1 /\ p2[Len(p) + 1] = s
      /\ \A i \in 1 .. Len(p) : p2[i] = p[i] /\ i + 1 \in 1 .. Len(p) + 1
  BY GrownFacts
<1>2. \A i \in 1 .. Len(p) : Before(p2, t2, i + 1) = Before(p, t, i + 1)
  BY <1>1, BeforeGrows
<1>3. Before(p2, t2, (Len(p) + 1) + 1) = t2
  <2>1. (Len(p) + 1) + 1 = Len(p) + 2
    BY <1>1
  <2>2. QED
    BY <2>1, BeforeNext
<1>4. ASSUME NEW i \in 1 .. Len(p2), ~ IsDivider(p2[i])
      PROVE  Before(p2, t2, i + 1) = Effect(p2[i])
  <2>1. CASE i \in 1 .. Len(p)
    BY <1>1, <1>2, <1>4, <2>1 DEF Follows
  <2>2. CASE i = Len(p) + 1
    BY <1>1, <1>3, <1>4, <2>2
  <2>3. QED
    BY <1>1, <2>1, <2>2
<1>5. ASSUME NEW o \in 1 .. Len(p2), NEW m \in 1 .. Len(p2), ElseOf(p2, o, m)
      PROVE  Before(p2, t2, m + 1) = p2[o].pre
  <2>1. o \in 1 .. Len(p) /\ p2[o] = p[o]
    BY <1>1, <1>5 DEF ElseOf, Divides, Block
  <2>2. CASE m \in 1 .. Len(p)
    <3>1. ElseOf(p, o, m)
      BY <1>5, <2>1, <2>2, DividesGrows
    <3>2. Before(p, t, m + 1) = p[o].pre
      BY <2>1, <2>2, <3>1 DEF Follows
    <3>3. QED
      BY <1>2, <2>1, <2>2, <3>2
  <2>3. CASE m = Len(p) + 1
    <3>1. OpenBlock(p, o) /\ s.op = "else" /\ s.depth = p[o].depth
      BY <1>1, <1>5, <2>1, <2>3, DividesGrows DEF ElseOf
    <3>2. QED
      BY <1>3, <2>1, <2>3, <3>1
  <2>4. QED
    BY <1>1, <2>2, <2>3
<1>6. QED
  BY <1>4, <1>5 DEF Follows

(* What opens a block binds no name that was known.                        *)
LEMMA OpenersAdd ==
  ASSUME NEW s, NEW L, GentleEntry(s, L), IsOpener(s) PROVE Adds(s)
  BY DEF GentleEntry, GentleBinder, IsOpener, Adds, IsBinder

(* What one entry does to the names known before it.                       *)
LEMMA EffectIsLater ==
  ASSUME NEW s \in EntryType, NEW L, GentleEntry(s, L), NEW t, Notes(s, t),
         Adds(s), NEW v \in Known(t)
  PROVE  /\ Later(t, Effect(s), v)
         /\ IsOpener(s) => Effect(s)[v] = t[v]
<1>1. s.pre = t /\ t \in Table /\ v \in Vars /\ t[v] # "absent" /\ s.expr \in Expr
  BY DEF Notes, EntryType, Known
<1>2. ~ (IsBinder(s) /\ v = s.var)
  BY <1>1 DEF Adds
<1>3. Effect(s)[v] = IF s.op \in {"const", "expr", "return"}
                     THEN AfterCall(s.expr, t)[v] ELSE t[v]
  BY <1>1, <1>2 DEF Effect, IsBinder
<1>4. AfterCall(s.expr, t)[v] = IF s.expr.kind = "call" /\ v \in Moves(s.expr)
                                THEN "Consumed" ELSE t[v]
  BY <1>1 DEF AfterCall
<1>5. v \in Moves(s.expr) => t[v] \in {"Owned", "Consumed"}
  BY <1>1 DEF GentleEntry, GentleExpr, Table, Status
<1>6. Later(t, Effect(s), v)
  BY <1>3, <1>4, <1>5 DEF Later
<1>7. IsOpener(s) => Effect(s)[v] = t[v]
  BY <1>3 DEF IsOpener
<1>8. QED
  BY <1>6, <1>7

LEMMA LaterIsTransitive ==
  ASSUME NEW a, NEW b, NEW c, NEW v, Later(a, b, v), Later(b, c, v)
  PROVE  Later(a, c, v)
  BY DEF Later

(* What holds of the table now, for an open block.                         *)
LEMMA OpenFacts ==
  ASSUME NEW p, NEW t, NEW fs, Shape(p, t, fs), Moved(p, t), Pends(p, t, fs),
         NEW o \in 1 .. Len(p), OpenBlock(p, o), NEW v \in Known(p[o].pre)
  PROVE  /\ v \in Known(t) /\ Later(p[o].pre, t, v)
         /\ IsLoop(p[o]) => t[v] = p[o].pre[v] \/ Pending(t, fs, p[o].depth + 1, v)
         /\ p[o].depth \in Nat /\ p[o].depth < Len(fs) /\ Len(fs) \in Nat
<1>1. Len(p) \in Nat /\ p \in Seq(EntryType) /\ Scopes(p, t) /\ Framed(p, fs)
      /\ Len(fs) \in Nat
  BY LenProperties DEF Shape
<1>2. Block(p, o, Len(p) + 1) /\ Len(p) + 1 \in 1 .. Len(p) + 1
  BY <1>1 DEF OpenBlock
<1>3. Before(p, t, Len(p) + 1) = t
  BY <1>1 DEF Before
<1>4. v \in Known(t)
  BY <1>1, <1>2, <1>3 DEF Scopes
<1>5. Later(p[o].pre, t, v)
  BY <1>2, <1>3 DEF Moved
<1>6. IsLoop(p[o]) => t[v] = p[o].pre[v] \/ Pending(t, fs, p[o].depth + 1, v)
  BY <1>2, <1>3 DEF Pends
<1>7. p[o].depth \in Nat /\ p[o].depth < Len(fs)
  BY <1>1, EntryFields DEF Framed
<1>8. QED
  BY <1>1, <1>4, <1>5, <1>6, <1>7

LEMMA PendingStays ==
  ASSUME NEW t, NEW t2, NEW fs, NEW fs2, NEW k, NEW v, Pending(t, fs, k, v),
         t[v] = "Consumed" => t2[v] = "Consumed",
         \A i \in k .. Len(fs) : v \in fs[i].consumed =>
            t2[v] = "Consumed" \/ (i \in k .. Len(fs2) /\ v \in fs2[i].consumed)
  PROVE  Pending(t2, fs2, k, v)
  BY DEF Pending

LEMMA StraightSound ==
  ASSUME NEW p, NEW t, NEW fs, NEW p2, NEW t2, NEW fs2, NEW s, Shape(p, t, fs),
         Straight(p, t, fs, p2, t2, fs2, s), NEW L, GentleEntry(s, L),
         SoundTable(p, t, fs)
  PROVE  SoundTable(p2, t2, fs2)
<1>1. /\ p \in Seq(EntryType) /\ Grown(p, p2, s) /\ Notes(s, t) /\ s.depth = Len(fs)
      /\ ~ IsOpener(s) /\ ~ IsDivider(s) /\ t2 = Effect(s) /\ Len(fs2) = Len(fs)
  BY DEF Straight, Enters, Shape
<1>2. s \in EntryType
  BY <1>1, GrownFacts
<1>3. Moved(p, t) /\ Pends(p, t, fs) /\ LoopsKeep(p, t) /\ Joins(p, t)
  BY DEF SoundTable
<1>4. \A o \in 1 .. Len(p) : Stays(p, o, s) <=> OpenBlock(p, o)
  BY <1>1 DEF Stays, IsDivider
<1>5. ASSUME NEW o \in 1 .. Len(p), OpenBlock(p, o), NEW v \in Known(p[o].pre)
      PROVE  /\ Later(p[o].pre, t2, v)
             /\ IsLoop(p[o]) => t2[v] = p[o].pre[v] \/ Pending(t2, fs2, p[o].depth + 1, v)
             /\ Pending(t, fs, p[o].depth + 1, v) => Pending(t2, fs2, p[o].depth + 1, v)
  <2>1. /\ v \in Known(t) /\ Later(p[o].pre, t, v)
        /\ IsLoop(p[o]) => t[v] = p[o].pre[v] \/ Pending(t, fs, p[o].depth + 1, v)
        /\ p[o].depth \in Nat /\ p[o].depth < Len(fs) /\ Len(fs) \in Nat
    BY <1>3, <1>5, OpenFacts
  <2>2. Adds(s)
    <3>1. s.depth # 0
      BY <1>1, <2>1
    <3>2. QED
      BY <3>1 DEF GentleEntry, GentleBinder
  <2>3. Later(t, t2, v)
    BY <1>1, <1>2, <2>1, <2>2, EffectIsLater
  <2>4. Later(p[o].pre, t2, v)
    BY <2>1, <2>3, LaterIsTransitive
  <2>5. Pending(t, fs, p[o].depth + 1, v) => Pending(t2, fs2, p[o].depth + 1, v)
    <3>1. t[v] = "Consumed" => t2[v] = "Consumed"
      BY <2>3 DEF Later
    <3>2. \A i \in 1 .. Len(fs) : fs2[i].consumed = fs[i].consumed
      BY DEF Straight, SameFrame
    <3>3. \A i \in p[o].depth + 1 .. Len(fs) : i \in 1 .. Len(fs)
      BY <2>1
    <3>4. QED
      BY <1>1, <3>1, <3>2, <3>3, PendingStays
  <2>6. IsLoop(p[o]) => t2[v] = p[o].pre[v] \/ Pending(t2, fs2, p[o].depth + 1, v)
    <3>1. CASE t2[v] = t[v]
      BY <2>1, <2>5, <3>1
    <3>2. CASE t2[v] = "Consumed"
      BY <3>2 DEF Pending
    <3>3. QED
      BY <2>3, <3>1, <3>2 DEF Later
  <2>7. QED
    BY <2>4, <2>5, <2>6
<1>6. Moved(p2, t2)
  BY <1>1, <1>3, <1>4, <1>5, MovedGrows
<1>7. Pends(p2, t2, fs2)
  BY <1>1, <1>3, <1>4, <1>5, PendsGrows
<1>8. LoopsKeep(p2, t2)
  BY <1>1, <1>3, <1>4, LoopsKeepGrows
<1>9. Joins(p2, t2)
  BY <1>1, <1>3, JoinsGrows DEF IsDivider
<1>10. QED
  BY <1>6, <1>7, <1>8, <1>9 DEF SoundTable

LEMMA OpeningSound ==
  ASSUME NEW p, NEW t, NEW fs, NEW p2, NEW t2, NEW fs2, NEW s, Shape(p, t, fs),
         Opening(p, t, fs, p2, t2, fs2, s), NEW L, GentleEntry(s, L),
         SoundTable(p, t, fs)
  PROVE  SoundTable(p2, t2, fs2)
<1>1. /\ p \in Seq(EntryType) /\ Grown(p, p2, s) /\ Notes(s, t) /\ s.depth = Len(fs)
      /\ IsOpener(s) /\ ~ IsDivider(s) /\ t2 = Effect(s)
      /\ Len(fs2) = Len(fs) + 1
  BY DEF Opening, Enters, Shape, IsOpener, IsDivider
<1>2. s \in EntryType
  BY <1>1, GrownFacts
<1>3. Moved(p, t) /\ Pends(p, t, fs) /\ LoopsKeep(p, t) /\ Joins(p, t)
  BY DEF SoundTable
<1>4. \A o \in 1 .. Len(p) : Stays(p, o, s) <=> OpenBlock(p, o)
  BY <1>1 DEF Stays, IsDivider
<1>5. \A v \in Known(t) : t2[v] = t[v] /\ Later(t, t2, v)
  BY <1>1, <1>2, OpenersAdd, EffectIsLater
<1>6. ASSUME NEW o \in 1 .. Len(p), OpenBlock(p, o), NEW v \in Known(p[o].pre)
      PROVE  /\ Later(p[o].pre, t2, v)
             /\ IsLoop(p[o]) => t2[v] = p[o].pre[v] \/ Pending(t2, fs2, p[o].depth + 1, v)
             /\ Pending(t, fs, p[o].depth + 1, v) => Pending(t2, fs2, p[o].depth + 1, v)
  <2>1. /\ v \in Known(t) /\ Later(p[o].pre, t, v)
        /\ IsLoop(p[o]) => t[v] = p[o].pre[v] \/ Pending(t, fs, p[o].depth + 1, v)
        /\ p[o].depth \in Nat /\ p[o].depth < Len(fs) /\ Len(fs) \in Nat
    BY <1>3, <1>6, OpenFacts
  <2>2. t2[v] = t[v] /\ Later(p[o].pre, t2, v)
    BY <1>5, <2>1, LaterIsTransitive
  <2>3. Pending(t, fs, p[o].depth + 1, v) => Pending(t2, fs2, p[o].depth + 1, v)
    <3>1. \A i \in 1 .. Len(fs) : fs2[i].consumed = fs[i].consumed
      BY DEF Opening, SameFrame
    <3>2. \A i \in p[o].depth + 1 .. Len(fs) :
            i \in 1 .. Len(fs) /\ i \in p[o].depth + 1 .. Len(fs2)
      BY <1>1, <2>1
    <3>3. QED
      BY <2>2, <3>1, <3>2, PendingStays
  <2>4. QED
    BY <2>1, <2>2, <2>3
<1>7. Moved(p2, t2)
  BY <1>1, <1>3, <1>4, <1>5, <1>6, MovedGrows
<1>8. Pends(p2, t2, fs2)
  <2>1. Below(t2, t)
    BY <1>5 DEF Below
  <2>2. \A o \in 1 .. Len(p) : IsLoop(p[o]) /\ Stays(p, o, s) =>
          \A v \in Known(p[o].pre) :
            /\ t2[v] = p[o].pre[v] \/ Pending(t2, fs2, p[o].depth + 1, v)
            /\ Pending(t, fs, p[o].depth + 1, v) => Pending(t2, fs2, p[o].depth + 1, v)
    BY <1>4, <1>6
  <2>3. p \in Seq(EntryType) /\ Grown(p, p2, s) /\ Notes(s, t) /\ Pends(p, t, fs)
    BY <1>1, <1>3
  <2>4. QED
    BY <2>1, <2>2, <2>3, PendsGrows
<1>9. LoopsKeep(p2, t2)
  BY <1>1, <1>3, <1>4, LoopsKeepGrows
<1>10. Joins(p2, t2)
  BY <1>1, <1>3, JoinsGrows DEF IsDivider
<1>11. QED
  BY <1>7, <1>8, <1>9, <1>10 DEF SoundTable

LEMMA DividingSound ==
  ASSUME NEW p, NEW t, NEW fs, NEW p2, NEW t2, NEW fs2, NEW s, Shape(p, t, fs),
         Dividing(p, t, fs, p2, t2, fs2, s), SoundTable(p, t, fs)
  PROVE  SoundTable(p2, t2, fs2)
<1>1. /\ p \in Seq(EntryType) /\ Grown(p, p2, s) /\ Notes(s, t) /\ s.depth = Len(fs) - 1
      /\ ~ IsOpener(s) /\ s.op = "else" /\ Len(fs2) = Len(fs) /\ fs # <<>>
  BY DEF Dividing, Enters, Shape, IsOpener
<1>2. Moved(p, t) /\ Pends(p, t, fs) /\ LoopsKeep(p, t) /\ Joins(p, t)
  BY DEF SoundTable
<1>3. \A o \in 1 .. Len(p) : Stays(p, o, s) <=> OpenBlock(p, o)
  BY <1>1 DEF Stays
<1>4. Len(fs) \in Nat \ {0} /\ Len(p) \in Nat
  BY <1>1, TopIsInnermost, LenProperties
<1>5. PICK top \in 1 .. Len(p) : InnermostOpen(p, fs, top)
  BY <1>1, TopIsInnermost
<1>6. PICK f, f2 : f = fs[Len(fs)] /\ f2 = fs2[Len(fs)]
  OBVIOUS
<1>7. /\ f.kind = "if" /\ f.before = p[top].pre /\ t2 = p[top].pre /\ f.consumed = {}
      /\ f2.consumed = NewlyConsumed(t2, t) /\ p[top].op = "if" /\ OpenBlock(p, top)
      /\ p[top].depth = Len(fs) - 1
  BY <1>5, <1>6 DEF InnermostOpen, FrameOf, Dividing
<1>8. ASSUME NEW o \in 1 .. Len(p), OpenBlock(p, o), NEW v \in Known(p[o].pre)
      PROVE  /\ v \in Known(t2) /\ Later(p[o].pre, t2, v)
             /\ IsLoop(p[o]) => t2[v] = p[o].pre[v] \/ Pending(t2, fs2, p[o].depth + 1, v)
             /\ Pending(t, fs, p[o].depth + 1, v) => Pending(t2, fs2, p[o].depth + 1, v)
  <2>1. v \in Known(t2)
    BY <1>5, <1>7, <1>8, OuterKnowsLess
  <2>2. CASE o = top
    <3>1. t2[v] = p[o].pre[v] /\ Later(p[o].pre, t2, v)
      BY <1>7, <2>2 DEF Later
    <3>2. Pending(t, fs, p[o].depth + 1, v) => Pending(t2, fs2, p[o].depth + 1, v)
      <4>1. v \in Vars /\ t2[v] # "absent" /\ p[o].depth + 1 = Len(fs)
        BY <1>4, <1>7, <2>1, <2>2 DEF Known
      <4>2. t[v] = "Consumed" => t2[v] = "Consumed" \/ v \in f2.consumed
        BY <1>7, <4>1 DEF NewlyConsumed
      <4>3. Len(fs) \in Len(fs) .. Len(fs2) /\ \A i \in Len(fs) .. Len(fs) : i = Len(fs)
        BY <1>1, <1>4
      <4>4. QED
        BY <1>6, <1>7, <4>1, <4>2, <4>3 DEF Pending
    <3>3. QED
      BY <2>1, <3>1, <3>2
  <2>3. CASE o # top
    <3>1. o < top /\ Block(p, o, top) /\ p[o].depth < p[top].depth
      BY <1>5, <1>8, <2>3 DEF InnermostOpen
    <3>2. Before(p, t, top) = t2 /\ top \in 1 .. Len(p) + 1
      BY <1>4, <1>7 DEF Before
    <3>3. Later(p[o].pre, t2, v)
      BY <1>2, <3>1, <3>2 DEF Moved
    <3>4. p[o].depth \in Nat /\ p[o].depth + 1 <= Len(fs)
      <4>1. p[o].depth \in Nat /\ p[o].depth < Len(fs)
        BY <1>2, <1>8, OpenFacts
      <4>2. QED
        BY <1>4, <4>1
    <3>5. v \in Vars /\ t2[v] # "absent"
      BY <2>1 DEF Known
    <3>6. t[v] = "Consumed" => t2[v] = "Consumed" \/ v \in f2.consumed
      BY <1>7, <3>5 DEF NewlyConsumed
    <3>7. Len(fs) \in p[o].depth + 1 .. Len(fs2)
      BY <1>1, <1>4, <3>4
    <3>8. \A i \in 1 .. Len(fs) - 1 : fs2[i].consumed = fs[i].consumed
      BY DEF Dividing, SameFrame
    <3>9. Pending(t, fs, p[o].depth + 1, v) => Pending(t2, fs2, p[o].depth + 1, v)
      <4>1. CASE t[v] = "Consumed"
        BY <1>6, <3>6, <3>7, <4>1 DEF Pending
      <4>2. ASSUME NEW i \in p[o].depth + 1 .. Len(fs), v \in fs[i].consumed
            PROVE  Pending(t2, fs2, p[o].depth + 1, v)
        <5>1. i # Len(fs)
          BY <1>6, <1>7, <4>2
        <5>2. i \in 1 .. Len(fs) - 1 /\ i \in p[o].depth + 1 .. Len(fs2)
          BY <1>1, <1>4, <3>4, <5>1
        <5>3. QED
          BY <3>8, <4>2, <5>2 DEF Pending
      <4>3. QED
        BY <4>1, <4>2 DEF Pending
    <3>10. IsLoop(p[o]) => t2[v] = p[o].pre[v] \/ Pending(t2, fs2, p[o].depth + 1, v)
      BY <3>3 DEF Later, Pending
    <3>11. QED
      BY <2>1, <3>3, <3>9, <3>10
  <2>4. QED
    BY <2>2, <2>3
<1>9. Moved(p2, t2)
  BY <1>1, <1>2, <1>3, <1>8, MovedGrows
<1>10. Pends(p2, t2, fs2)
  BY <1>1, <1>2, <1>3, <1>8, PendsGrows
<1>11. LoopsKeep(p2, t2)
  BY <1>1, <1>2, <1>3, LoopsKeepGrows
<1>12. Joins(p2, t2)
  BY <1>1, <1>2, JoinsGrows
<1>13. QED
  BY <1>9, <1>10, <1>11, <1>12 DEF SoundTable
(* The end of a block without a report: what was known before the block is *)
(* now as at the end of it.                                                *)
LEMMA ClosedKeeps ==
  ASSUME NEW f \in FrameType, NEW b, b = f.before, NEW t \in Table, NEW t2,
         t2 = ClosedTable(f, t), ClosedCodes(f, t) = {}, f.reassigned = {},
         \A v \in Known(b) : Later(b, t, v), NEW v \in Vars
  PROVE  /\ b[v] = "absent" => t2[v] = "absent"
         /\ b[v] # "absent" => t2[v] = t[v]
         /\ f.kind # "else" /\ b[v] # "absent" => t[v] = b[v]
         /\ f.kind = "else" => f.consumed = NewlyConsumed(b, t)
<1>1. f.kind \in {"if", "else", "loop", "for"} /\ b \in Table
  BY DEF FrameType
<1>2. PICK N : N = NewlyConsumed(b, t)
  OBVIOUS
<1>3. v \in N <=> (t[v] = "Consumed" /\ b[v] \notin {"absent", "Consumed"})
  BY <1>2 DEF NewlyConsumed
<1>4. b[v] # "absent" => Later(b, t, v)
  BY DEF Known
<1>5. CASE f.kind = "if"
  <2>1. t2 = b /\ BranchCodes(N, {}) = {}
    BY <1>2, <1>5 DEF ClosedTable, ClosedCodes
  <2>2. N = {}
    BY <2>1 DEF BranchCodes
  <2>3. QED
    BY <1>3, <1>4, <1>5, <2>1, <2>2 DEF Later
<1>6. CASE f.kind \in {"loop", "for"}
  <2>1. LoopCodes(f, t) = {}
    BY <1>6 DEF ClosedCodes
  <2>2. ~ (b[v] = "Owned" /\ t[v] = "Consumed")
    BY <2>1 DEF LoopCodes
  <2>3. b[v] # "absent" => t[v] = b[v]
    BY <1>4, <2>2 DEF Later
  <2>4. CASE f.kind = "for"
    <3>1. t2 = b
      BY <2>4 DEF ClosedTable
    <3>2. QED
      BY <2>3, <2>4, <3>1
  <2>5. CASE f.kind = "loop"
    <3>1. t2[v] = IF t[v] = "Consumed" /\ b[v] # "absent" THEN "Consumed" ELSE b[v]
      BY <2>5 DEF ClosedTable
    <3>2. QED
      BY <2>3, <2>5, <3>1
  <2>6. QED
    BY <1>6, <2>4, <2>5
<1>7. CASE f.kind = "else"
  <2>1. BranchCodes(f.consumed, N) = {}
    BY <1>2, <1>7 DEF ClosedCodes
  <2>2. f.consumed = N
    BY <2>1 DEF BranchCodes
  <2>3. t2[v] = IF v \in f.consumed \cap N THEN "Consumed" ELSE b[v]
    BY <1>2, <1>7 DEF ClosedTable
  <2>4. t2[v] = IF v \in N THEN "Consumed" ELSE b[v]
    BY <2>2, <2>3
  <2>5. QED
    BY <1>2, <1>3, <1>4, <1>7, <2>2, <2>4 DEF Later
<1>8. QED
  BY <1>1, <1>5, <1>6, <1>7

(* The same for the innermost block of a walk, with what its frame holds.  *)
Closed(p, t, fs, t2, top) ==
  /\ \A v \in Known(t2) : v \in Known(p[top].pre)
  /\ \A v \in Known(p[top].pre) : t2[v] = t[v]
  /\ IsLoop(p[top]) \/ (\A m \in 1 .. Len(p) : ~ ElseOf(p, top, m)) =>
       fs[Len(fs)].consumed = {} /\ \A v \in Known(p[top].pre) : t[v] = p[top].pre[v]
  /\ \A v \in fs[Len(fs)].consumed : t[v] = "Consumed"
  /\ \A m \in 1 .. Len(p) : ElseOf(p, top, m) =>
       NewlyConsumed(p[top].pre, p[m].pre) = NewlyConsumed(p[top].pre, t)

LEMMA ClosingCloses ==
  ASSUME NEW p, NEW t, NEW fs, NEW p2, NEW t2, NEW fs2, NEW s, Shape(p, t, fs),
         Closing(p, t, fs, p2, t2, fs2, s), SoundTable(p, t, fs), Calm(fs), s.codes = {},
         NEW top \in 1 .. Len(p), InnermostOpen(p, fs, top)
  PROVE  Closed(p, t, fs, t2, top)
<1>1. /\ p \in Seq(EntryType) /\ t \in Table /\ fs \in Seq(FrameType)
      /\ fs # <<>> /\ Len(fs) \in Nat \ {0}
  BY TopIsInnermost DEF Closing, Shape
<1>2. PICK f, b : f = fs[Len(fs)] /\ b = p[top].pre
  OBVIOUS
<1>3. Len(fs) \in 1 .. Len(fs)
  BY <1>1
<1>4. f \in FrameType /\ f.reassigned = {}
  BY <1>1, <1>2, <1>3, ElementOfSeq DEF Calm
<1>5. FrameOf(p, top, f) /\ OpenBlock(p, top)
  BY <1>2 DEF InnermostOpen
<1>6. f.before = b
  BY <1>2, <1>5 DEF FrameOf
<1>7. t2 = ClosedTable(f, t) /\ ClosedCodes(f, t) = {}
  BY <1>2 DEF Closing
<1>8. \A v \in Known(b) : Later(b, t, v)
  BY <1>2, <1>5, OpenFacts DEF SoundTable
<1>9. \A v \in Vars :
        /\ b[v] = "absent" => t2[v] = "absent"
        /\ b[v] # "absent" => t2[v] = t[v]
        /\ f.kind # "else" /\ b[v] # "absent" => t[v] = b[v]
  BY <1>1, <1>4, <1>6, <1>7, <1>8, ClosedKeeps
<1>10. f.kind = "else" => f.consumed = NewlyConsumed(b, t)
  <2>1. CASE f.consumed \subseteq {} /\ NewlyConsumed(b, t) \subseteq {}
    BY <2>1
  <2>2. CASE \E v \in Vars : TRUE
    BY <1>1, <1>4, <1>6, <1>7, <1>8, <2>2, ClosedKeeps
  <2>3. f.consumed \subseteq Vars /\ NewlyConsumed(b, t) \subseteq Vars
    BY <1>4 DEF FrameType, NewlyConsumed
  <2>4. QED
    BY <2>1, <2>2, <2>3
<1>11. \A v \in Known(t2) : v \in Known(b)
  BY <1>9 DEF Known
<1>12. \A v \in Known(b) : t2[v] = t[v]
  BY <1>9 DEF Known
<1>13. CASE f.kind = p[top].op /\ f.consumed = {} /\ \A m \in 1 .. Len(p) : ~ ElseOf(p, top, m)
  <2>1. f.kind # "else"
    BY <1>5, <1>13 DEF OpenBlock, Block, IsOpener
  <2>2. \A v \in Known(b) : t[v] = b[v]
    BY <1>9, <2>1 DEF Known
  <2>3. QED
    BY <1>2, <1>11, <1>12, <1>13, <2>2 DEF Closed
<1>14. CASE /\ f.kind = "else" /\ p[top].op = "if"
            /\ \E m \in 1 .. Len(p) : ElseOf(p, top, m)
            /\ \A m \in 1 .. Len(p) : ElseOf(p, top, m) =>
                 f.consumed = NewlyConsumed(p[top].pre, p[m].pre)
  <2>1. ~ (IsLoop(p[top]) \/ (\A m \in 1 .. Len(p) : ~ ElseOf(p, top, m)))
    BY <1>14 DEF IsLoop
  <2>2. \A v \in f.consumed : t[v] = "Consumed"
    BY <1>10, <1>14 DEF NewlyConsumed
  <2>3. \A m \in 1 .. Len(p) : ElseOf(p, top, m) =>
          NewlyConsumed(p[top].pre, p[m].pre) = NewlyConsumed(p[top].pre, t)
    BY <1>2, <1>10, <1>14
  <2>4. QED
    BY <1>2, <1>11, <1>12, <2>1, <2>2, <2>3 DEF Closed
<1>15. QED
  BY <1>5, <1>13, <1>14 DEF FrameOf
LEMMA ClosingSound ==
  ASSUME NEW p, NEW t, NEW fs, NEW p2, NEW t2, NEW fs2, NEW s, Shape(p, t, fs),
         Closing(p, t, fs, p2, t2, fs2, s), SoundTable(p, t, fs), Calm(fs), s.codes = {}
  PROVE  SoundTable(p2, t2, fs2)
<1>1. /\ p \in Seq(EntryType) /\ Grown(p, p2, s) /\ Notes(s, t) /\ s.depth = Len(fs) - 1
      /\ ~ IsOpener(s) /\ s.op = "end" /\ Len(fs2) = Len(fs) - 1 /\ fs # <<>>
  BY DEF Closing, Enters, Shape, IsOpener
<1>2. Moved(p, t) /\ Pends(p, t, fs) /\ LoopsKeep(p, t) /\ Joins(p, t)
  BY DEF SoundTable
<1>3. Len(fs) \in Nat \ {0} /\ Len(p) \in Nat
  BY <1>1, TopIsInnermost, LenProperties
<1>4. PICK top \in 1 .. Len(p) : InnermostOpen(p, fs, top)
  BY <1>1, TopIsInnermost
<1>5. OpenBlock(p, top) /\ p[top].depth = Len(fs) - 1
      /\ \A o \in 1 .. Len(p) : OpenBlock(p, o) =>
           o = top \/ (o < top /\ Block(p, o, top) /\ p[o].depth < p[top].depth)
  BY <1>4 DEF InnermostOpen
<1>6. Closed(p, t, fs, t2, top)
  BY <1>4, ClosingCloses
<1>7. PICK b, f : b = p[top].pre /\ f = fs[Len(fs)]
  OBVIOUS
<1>8. /\ \A v \in Known(t2) : v \in Known(b)
      /\ \A v \in Known(b) : t2[v] = t[v]
      /\ \A v \in f.consumed : t[v] = "Consumed"
  BY <1>6, <1>7 DEF Closed
<1>9. ASSUME NEW o \in 1 .. Len(p), Stays(p, o, s), NEW v \in Known(p[o].pre)
      PROVE  /\ Later(p[o].pre, t2, v)
             /\ IsLoop(p[o]) => t2[v] = p[o].pre[v] \/ Pending(t2, fs2, p[o].depth + 1, v)
             /\ Pending(t, fs, p[o].depth + 1, v) => Pending(t2, fs2, p[o].depth + 1, v)
  <2>1. OpenBlock(p, o) /\ o # top
    BY <1>1, <1>5, <1>9 DEF Stays
  <2>2. /\ Later(p[o].pre, t, v)
        /\ IsLoop(p[o]) => t[v] = p[o].pre[v] \/ Pending(t, fs, p[o].depth + 1, v)
        /\ p[o].depth \in Nat /\ p[o].depth < Len(fs)
    BY <1>2, <1>9, <2>1, OpenFacts
  <2>3. v \in Known(b)
    BY <1>4, <1>7, <1>9, <2>1, OuterKnowsLess
  <2>4. t2[v] = t[v]
    BY <1>8, <2>3
  <2>5. Later(p[o].pre, t2, v)
    BY <2>2, <2>4 DEF Later
  <2>6. Pending(t, fs, p[o].depth + 1, v) => Pending(t2, fs2, p[o].depth + 1, v)
    <3>1. \A i \in 1 .. Len(fs) - 1 : fs2[i].consumed = fs[i].consumed
      BY DEF Closing, SameFrame
    <3>2. ASSUME NEW i \in p[o].depth + 1 .. Len(fs), v \in fs[i].consumed
          PROVE  t2[v] = "Consumed" \/ (i \in p[o].depth + 1 .. Len(fs2) /\ v \in fs2[i].consumed)
      <4>1. CASE i = Len(fs)
        BY <1>7, <1>8, <2>4, <3>2, <4>1
      <4>2. CASE i # Len(fs)
        <5>1. i \in 1 .. Len(fs) - 1 /\ i \in p[o].depth + 1 .. Len(fs2)
          BY <1>1, <1>3, <2>2, <4>2
        <5>2. QED
          BY <3>1, <3>2, <5>1
      <4>3. QED
        BY <4>1, <4>2
    <3>3. QED
      BY <2>4, <3>2, PendingStays
  <2>7. QED
    BY <2>2, <2>4, <2>5, <2>6
<1>10. Moved(p2, t2)
  <2>1. \A o \in 1 .. Len(p) : Stays(p, o, s) =>
          \A v \in Known(p[o].pre) : Later(p[o].pre, t2, v)
    BY <1>9
  <2>2. QED
    BY <1>1, <1>2, <2>1, MovedGrows
<1>11. Pends(p2, t2, fs2)
  <2>1. \A o \in 1 .. Len(p) : IsLoop(p[o]) /\ Stays(p, o, s) =>
          \A v \in Known(p[o].pre) :
            /\ t2[v] = p[o].pre[v] \/ Pending(t2, fs2, p[o].depth + 1, v)
            /\ Pending(t, fs, p[o].depth + 1, v) => Pending(t2, fs2, p[o].depth + 1, v)
    BY <1>9
  <2>2. QED
    BY <1>1, <1>2, <2>1, PendsGrows
<1>12. LoopsKeep(p2, t2)
  <2>1. ASSUME NEW o \in 1 .. Len(p), IsLoop(p[o]), OpenBlock(p, o), ~ Stays(p, o, s),
               NEW j \in 1 .. Len(p) + 1, Block(p, o, j), NEW v \in Known(p[o].pre)
        PROVE  Before(p, t, j)[v] = p[o].pre[v]
    <3>1. o = top
      <4>1. s.depth = p[o].depth
        BY <2>1 DEF Stays
      <4>2. p[o].depth \in Nat /\ p[top].depth \in Nat
        BY <1>1, EntryFields
      <4>3. QED
        BY <1>1, <1>5, <2>1, <4>1, <4>2
    <3>2. f.consumed = {} /\ t[v] = b[v]
      BY <1>6, <1>7, <2>1, <3>1 DEF Closed
    <3>3. Later(b, Before(p, t, j), v)
      BY <1>2, <1>7, <2>1, <3>1 DEF Moved
    <3>4. Before(p, t, j)[v] = b[v] \/ Pending(t, fs, p[o].depth + 1, v)
      BY <1>2, <1>7, <2>1, <3>1 DEF Pends
    <3>5. p[o].depth + 1 = Len(fs)
      BY <1>3, <1>5, <3>1
    <3>6. \A i \in p[o].depth + 1 .. Len(fs) : i = Len(fs)
      BY <1>3, <3>5
    <3>7. Pending(t, fs, p[o].depth + 1, v) => t[v] = "Consumed"
      BY <1>7, <3>2, <3>6 DEF Pending
    <3>8. QED
      BY <1>7, <3>1, <3>2, <3>3, <3>4, <3>7 DEF Later
  <2>2. QED
    BY <1>1, <1>2, <2>1, LoopsKeepGrows
<1>13. Joins(p2, t2)
  <2>1. ASSUME NEW o \in 1 .. Len(p), OpenBlock(p, o), s.depth = p[o].depth
        PROVE  o = top
    <3>1. p[o].depth \in Nat /\ p[top].depth \in Nat
      BY <1>1, EntryFields
    <3>2. QED
      BY <1>1, <1>5, <2>1, <3>1
  <2>2. Below(t, t2)
    BY <1>8 DEF Below
  <2>3. IsLoop(p[top]) \/ (\A m \in 1 .. Len(p) : ~ ElseOf(p, top, m)) => Below(b, t2)
    <3>1. ASSUME IsLoop(p[top]) \/ (\A m \in 1 .. Len(p) : ~ ElseOf(p, top, m))
          PROVE  \A v \in Known(b) : t[v] = b[v]
      BY <1>6, <1>7, <3>1 DEF Closed
    <3>2. QED
      BY <1>8, <3>1 DEF Below
  <2>4. ASSUME NEW m \in 1 .. Len(p), ElseOf(p, top, m)
        PROVE  Below(p[m].pre, t2)
    <3>1. NewlyConsumed(b, p[m].pre) = NewlyConsumed(b, t)
      BY <1>6, <1>7, <2>4 DEF Closed
    <3>2. Block(p, top, m) /\ m \in 1 .. Len(p) + 1 /\ Before(p, t, m) = p[m].pre
      BY <1>3, <2>4 DEF ElseOf, Divides, Before
    <3>3. ASSUME NEW v \in Known(t2) PROVE p[m].pre[v] = t2[v]
      <4>1. v \in Known(b) /\ t2[v] = t[v] /\ v \in Vars /\ b[v] # "absent"
        BY <1>8, <3>3 DEF Known
      <4>2. Later(b, t, v)
        BY <1>2, <1>5, <1>7, <4>1, OpenFacts
      <4>3. Later(b, p[m].pre, v)
        BY <1>2, <1>7, <3>2, <4>1 DEF Moved
      <4>4. (p[m].pre[v] = "Consumed" /\ b[v] # "Consumed")
              <=> (t[v] = "Consumed" /\ b[v] # "Consumed")
        BY <3>1, <4>1 DEF NewlyConsumed
      <4>5. QED
        BY <4>1, <4>2, <4>3, <4>4 DEF Later
    <3>4. QED
      BY <3>3 DEF Below
  <2>5. \A o \in 1 .. Len(p) : OpenBlock(p, o) /\ s.op = "end" /\ s.depth = p[o].depth =>
           /\ IsLoop(p[o]) \/ (\A m \in 1 .. Len(p) : ~ ElseOf(p, o, m)) => Below(p[o].pre, t2)
           /\ p[o].op = "if" => Below(t, t2)
           /\ \A m \in 1 .. Len(p) : ElseOf(p, o, m) => Below(p[m].pre, t2)
    BY <1>7, <2>1, <2>2, <2>3, <2>4
  <2>6. QED
    BY <1>1, <1>2, <2>5, JoinsGrows
<1>14. QED
  BY <1>10, <1>11, <1>12, <1>13 DEF SoundTable
LEMMA StepFollows ==
  ASSUME NEW p, NEW t, NEW fs, NEW p2, NEW t2, NEW fs2, NEW s, Shape(p, t, fs), Follows(p, t),
         \/ Straight(p, t, fs, p2, t2, fs2, s) \/ Opening(p, t, fs, p2, t2, fs2, s)
         \/ Dividing(p, t, fs, p2, t2, fs2, s) \/ Closing(p, t, fs, p2, t2, fs2, s)
  PROVE  Follows(p2, t2)
<1>1. p \in Seq(EntryType) /\ Grown(p, p2, s) /\ Notes(s, t)
  BY DEF Straight, Opening, Dividing, Closing, Enters
<1>2. CASE Straight(p, t, fs, p2, t2, fs2, s) \/ Opening(p, t, fs, p2, t2, fs2, s)
  <2>1. t2 = Effect(s) /\ s.op # "else"
    BY <1>2 DEF Straight, Opening, IsDivider, IsOpener
  <2>2. QED
    BY <1>1, <2>1, FollowsGrows
<1>3. CASE Closing(p, t, fs, p2, t2, fs2, s)
  <2>1. s.op = "end" /\ IsDivider(s)
    BY <1>3 DEF Closing, IsDivider
  <2>2. QED
    BY <1>1, <2>1, FollowsGrows
<1>4. CASE Dividing(p, t, fs, p2, t2, fs2, s)
  <2>1. s.op = "else" /\ IsDivider(s) /\ fs # <<>> /\ s.depth = Len(fs) - 1
        /\ t2 = fs[Len(fs)].before
    BY <1>4 DEF Dividing, Enters, IsDivider
  <2>2. PICK top \in 1 .. Len(p) : InnermostOpen(p, fs, top)
    BY <2>1, TopIsInnermost
  <2>3. t2 = p[top].pre /\ p[top].depth = Len(fs) - 1
    BY <2>1, <2>2 DEF InnermostOpen, FrameOf
  <2>4. ASSUME NEW o \in 1 .. Len(p), OpenBlock(p, o), s.depth = p[o].depth
        PROVE  o = top
    <3>1. p[o].depth \in Nat /\ p[top].depth \in Nat
      BY <1>1, EntryFields
    <3>2. o = top \/ p[o].depth < p[top].depth
      BY <2>2, <2>4 DEF InnermostOpen
    <3>3. QED
      BY <2>1, <2>3, <2>4, <3>1, <3>2
  <2>5. QED
    BY <1>1, <2>1, <2>3, <2>4, FollowsGrows
<1>5. QED
  BY <1>2, <1>3, <1>4

LEMMA StepSound ==
  ASSUME NEW p, NEW t, NEW fs, NEW p2, NEW t2, NEW fs2, NEW s, Shape(p, t, fs), Calm(fs),
         \/ Straight(p, t, fs, p2, t2, fs2, s) \/ Opening(p, t, fs, p2, t2, fs2, s)
         \/ Dividing(p, t, fs, p2, t2, fs2, s) \/ Closing(p, t, fs, p2, t2, fs2, s),
         NEW L, GentleEntry(p2[Len(p) + 1], L),
         Clean(p) => SoundTable(p, t, fs), Clean(p2)
  PROVE  SoundTable(p2, t2, fs2)
<1>1. p \in Seq(EntryType) /\ Grown(p, p2, s)
  BY DEF Straight, Opening, Dividing, Closing, Enters
<1>2. SoundTable(p, t, fs) /\ s.codes = {}
  BY <1>1, CleanGrows
<1>3. GentleEntry(s, L)
  BY <1>1 DEF Grown
<1>4. QED
  BY <1>2, <1>3, StraightSound, OpeningSound, DividingSound, ClosingSound

-----------------------------------------------------------------------------
(* All that is known of the walk: the first part whatever the body does,   *)
(* the second of the bodies whose ownership the rules look at.             *)
WalkOrder == WalkShape /\ Follows(prog, table)
WalkSound ==
  Calm(frames) /\ Gentle(prog) /\ (Clean(prog) => SoundTable(prog, table, frames))

LEMMA WalkBegins == ASSUME WalkInit PROVE WalkOrder /\ WalkSound
<1>1. prog = <<>> /\ frames = <<>> /\ table \in Table
  BY ParamAssumption DEF WalkInit, Table, Status
<1>2. PICK p, t, fs : p = prog /\ t = table /\ fs = frames
  OBVIOUS
<1>3. /\ p \in Seq(EntryType) /\ fs \in Seq(FrameType) /\ Len(p) = 0 /\ Len(fs) = 0
      /\ \A i \in 1 .. Len(p) : FALSE
      /\ \A i \in 1 .. Len(fs) : FALSE
  BY <1>1, <1>2, EmptySeq
<1>4. Nests(p) /\ Opened(p) /\ Jumps(p) /\ Scopes(p, t) /\ AllOpen(p, fs) /\ Framed(p, fs)
  BY <1>3 DEF Nests, Opened, Jumps, Scopes, AllOpen, Framed
<1>5. WalkShape
  BY <1>1, <1>2, <1>3, <1>4 DEF WalkShape, Shape
<1>6. Follows(p, t) /\ Calm(fs) /\ Gentle(p)
  BY <1>3 DEF Follows, Calm, Gentle
<1>7. SoundTable(p, t, fs)
  BY <1>3 DEF SoundTable, Moved, Pends, LoopsKeep, Joins
<1>8. QED
  BY <1>2, <1>5, <1>6, <1>7 DEF WalkOrder, WalkSound

LEMMA WalkKeepsOrder == ASSUME WalkOrder, Walk PROVE WalkOrder'
<1>1. WalkShape'
  BY WalkKeepsShape DEF WalkOrder
<1>2. PICK s : IsStep(s)
  BY WalkSteps DEF WalkOrder
<1>3. PICK p, t, fs, p2, t2, fs2 :
        p = prog /\ t = table /\ fs = frames /\ p2 = prog' /\ t2 = table' /\ fs2 = frames'
  OBVIOUS
<1>4. Shape(p, t, fs) /\ Follows(p, t)
  BY <1>3 DEF WalkOrder, WalkShape
<1>5. \/ Straight(p, t, fs, p2, t2, fs2, s) \/ Opening(p, t, fs, p2, t2, fs2, s)
      \/ Dividing(p, t, fs, p2, t2, fs2, s) \/ Closing(p, t, fs, p2, t2, fs2, s)
  BY <1>2, <1>3 DEF IsStep
<1>6. Follows(p2, t2)
  BY <1>4, <1>5, StepFollows
<1>7. QED
  BY <1>1, <1>3, <1>6 DEF WalkOrder

LEMMA WalkKeepsSound == ASSUME Tame, WalkOrder, WalkSound, Walk PROVE WalkSound'
<1>1. WalkShape
  BY DEF WalkOrder
<1>2. Calm(frames')
  BY <1>1, WalkIsCalm DEF WalkSound
<1>3. GentleEntry(prog'[Len(prog) + 1], LentNow)
  BY <1>1, WalkIsGentle
<1>4. PICK s : IsStep(s)
  BY <1>1, WalkSteps
<1>5. PICK p, t, fs, p2, t2, fs2 :
        p = prog /\ t = table /\ fs = frames /\ p2 = prog' /\ t2 = table' /\ fs2 = frames'
  OBVIOUS
<1>6. Shape(p, t, fs) /\ Calm(fs) /\ Gentle(p) /\ (Clean(p) => SoundTable(p, t, fs))
  BY <1>1, <1>5 DEF WalkShape, WalkSound
<1>7. \/ Straight(p, t, fs, p2, t2, fs2, s) \/ Opening(p, t, fs, p2, t2, fs2, s)
      \/ Dividing(p, t, fs, p2, t2, fs2, s) \/ Closing(p, t, fs, p2, t2, fs2, s)
  BY <1>4, <1>5 DEF IsStep
<1>8. PICK L : L = LentUpTo(p, Len(p) + 1)
  OBVIOUS
<1>9. GentleEntry(p2[Len(p) + 1], L)
  BY <1>3, <1>5, <1>8 DEF LentNow
<1>10. p \in Seq(EntryType) /\ Grown(p, p2, s)
  BY <1>7 DEF Straight, Opening, Dividing, Closing, Enters
<1>11. Gentle(p2)
  <2>1. p2[Len(p) + 1] = s
    BY <1>10 DEF Grown
  <2>2. QED
    BY <1>6, <1>8, <1>9, <1>10, <2>1, GentleGrows
<1>12. Clean(p2) => SoundTable(p2, t2, fs2)
  BY <1>6, <1>7, <1>9, StepSound
<1>13. QED
  BY <1>2, <1>5, <1>11, <1>12 DEF WalkSound

-----------------------------------------------------------------------------
(* Control flow of a finished walk.                                        *)
LEMMA FirstOf ==
  ASSUME NEW T, T \subseteq Nat, T # {}
  PROVE  \E m \in T : \A k \in T : m <= k
<1> DEFINE R == {ss \in Nat \X Nat : ss[1] < ss[2]}
<1>1. \A a, b \in Nat : a < b => <<a, b>> \in R
  OBVIOUS
<1>2. IsWellFoundedOn(R, Nat)
  BY NatLessThanWellFounded DEF OpToRel
<1> HIDE DEF R
<1>3. PICK m \in T : \A k \in T : ~ (<<k, m>> \in R)
  BY <1>2, WFMin
<1>4. ASSUME NEW k \in T PROVE m <= k
  <2>1. k \in Nat /\ m \in Nat
    OBVIOUS
  <2>2. ~ k < m
    BY <1>1, <1>3, <2>1
  <2>3. QED
    BY <2>1, <2>2
<1>5. QED
  BY <1>4

LEMMA LastOf ==
  ASSUME NEW n \in Nat, NEW T, T \subseteq 1 .. n, T # {}
  PROVE  \E m \in T : \A k \in T : k <= m
<1> DEFINE U == {n - k : k \in T}
<1>1. U \subseteq Nat /\ U # {}
  <2>1. \A k \in T : n - k \in Nat
    OBVIOUS
  <2>2. PICK k \in T : TRUE
    OBVIOUS
  <2>3. QED
    BY <2>1, <2>2
<1>2. PICK u \in U : \A w \in U : u <= w
  BY <1>1, FirstOf
<1>3. PICK m \in T : u = n - m
  OBVIOUS
<1>4. ASSUME NEW k \in T PROVE k <= m
  <2>1. n - k \in U
    OBVIOUS
  <2>2. u <= n - k
    BY <1>2, <2>1
  <2>3. QED
    BY <1>3, <2>2
<1>5. QED
  BY <1>4

LEMMA MinIs ==
  ASSUME NEW T, T \subseteq Nat, T # {}
  PROVE  Min(T) \in T /\ \A k \in T : Min(T) <= k
<1>1. \E m \in T : \A k \in T : m <= k
  BY FirstOf
<1>2. QED
  BY <1>1 DEF Min

LEMMA MaxIs ==
  ASSUME NEW n \in Nat, NEW T, T \subseteq 1 .. n, T # {}
  PROVE  Max(T) \in T /\ \A k \in T : k <= Max(T)
<1>1. \E m \in T : \A k \in T : k <= m
  BY LastOf
<1>2. \E m \in T : \A k \in T : m >= k
  BY <1>1
<1>3. QED
  BY <1>2 DEF Max

LEMMA RangeOne == ASSUME NEW a PROVE Range(<<a>>) = {a}
  BY DEF Range
LEMMA RangeTwo == ASSUME NEW a, NEW b PROVE Range(<<a, b>>) = {a, b}
<1>1. DOMAIN <<a, b>> = {1, 2}
  OBVIOUS
<1>2. QED
  BY <1>1 DEF Range

(* Every block has ended.                                                  *)
Done(p) ==
  /\ p \in Seq(EntryType) /\ Nests(p) /\ Opened(p) /\ Jumps(p)
  /\ \A o \in 1 .. Len(p) : ~ OpenBlock(p, o)

LEMMA DoneShape == ASSUME NEW p, NEW t, Shape(p, t, <<>>) PROVE Done(p)
<1>1. p \in Seq(EntryType) /\ Nests(p) /\ Opened(p) /\ Jumps(p) /\ Framed(p, <<>>)
  BY DEF Shape
<1>2. Len(<<>>) = 0
  OBVIOUS
<1>3. ASSUME NEW o \in 1 .. Len(p), OpenBlock(p, o) PROVE FALSE
  <2>1. p[o].depth < 0 /\ p[o].depth \in Nat
    BY <1>1, <1>2, <1>3, EntryFields DEF Framed
  <2>2. QED
    BY <2>1
<1>4. QED
  BY <1>1, <1>3 DEF Done

LEMMA DoneFacts ==
  ASSUME NEW p, Done(p)
  PROVE  /\ Len(p) \in Nat /\ DOMAIN p = 1 .. Len(p)
         /\ \A i \in 1 .. Len(p) :
              p[i].depth \in Nat /\ p[i].op \in Ops
              /\ (p[i].op \in Dividers <=> IsDivider(p[i]))
              /\ (p[i].op \in Openers <=> IsOpener(p[i]))
<1>1. p \in Seq(EntryType)
  BY DEF Done
<1>2. Len(p) \in Nat /\ DOMAIN p = 1 .. Len(p)
  BY <1>1, LenProperties
<1>3. \A i \in 1 .. Len(p) : p[i].depth \in Nat /\ p[i].op \in Ops
  BY <1>1, EntryFields
<1>4. \A op \in Ops : /\ op \in Dividers <=> op \in {"else", "end"}
                      /\ op \in Openers <=> op \in {"if", "loop", "for"}
  BY DEF Ops, Dividers, Openers
<1>5. QED
  BY <1>2, <1>3, <1>4 DEF IsDivider, IsOpener

(* A divider divides one block only, and a block has one end.              *)
LEMMA OneOpener ==
  ASSUME NEW p, Done(p), NEW m \in 1 .. Len(p), NEW o \in 1 .. Len(p), Divides(p, o, m),
         NEW i \in 1 .. Len(p), IsOpener(p[i]), o < i, i < m
  PROVE  p[i].depth > p[m].depth
<1>1. Block(p, o, m) /\ p[m].depth = p[o].depth
  BY DEF Divides
<1>2. Len(p) \in Nat /\ p \in Seq(EntryType)
  BY DoneFacts DEF Done
<1>3. Block(p, o, i)
  BY <1>1, <1>2, BlockEarlier
<1>4. ~ IsDivider(p[i])
  BY DEF IsOpener, IsDivider
<1>5. QED
  BY <1>1, <1>3, <1>4 DEF Done, Nests

LEMMA DividesOnce ==
  ASSUME NEW p, Done(p), NEW m \in 1 .. Len(p), NEW o \in 1 .. Len(p), Divides(p, o, m),
         NEW o2 \in 1 .. Len(p), Divides(p, o2, m)
  PROVE  o2 = o
<1>1. /\ IsOpener(p[o]) /\ IsOpener(p[o2]) /\ o < m /\ o2 < m
      /\ p[o].depth = p[m].depth /\ p[o2].depth = p[m].depth
  BY DEF Divides, Block
<1>2. Len(p) \in Nat /\ p[m].depth \in Nat
  BY DoneFacts
<1>3. ~ o < o2
  BY <1>1, <1>2, OneOpener
<1>4. ~ o2 < o
  BY <1>1, <1>2, OneOpener
<1>5. QED
  BY <1>2, <1>3, <1>4

LEMMA OneEnd ==
  ASSUME NEW p, Done(p), NEW o, NEW e \in 1 .. Len(p), NEW m \in 1 .. Len(p),
         EndOfBlock(p, o, e), Divides(p, o, m)
  PROVE  m <= e
<1>1. Block(p, o, m) /\ p[e].op = "end" /\ p[e].depth = p[o].depth /\ o < e /\ o \in 1 .. Len(p)
  BY DEF EndOfBlock, Divides, Block
<1>2. Len(p) \in Nat
  BY DoneFacts
<1>3. CASE e < m
  <2>1. e \in o + 1 .. m - 1
    BY <1>1, <1>2, <1>3
  <2>2. QED
    BY <1>1, <2>1 DEF Block
<1>4. QED
  BY <1>2, <1>3

LEMMA BlockEnds ==
  ASSUME NEW p, Done(p), NEW o \in 1 .. Len(p), IsOpener(p[o])
  PROVE  \E e \in o + 1 .. Len(p) : p[e].op = "end" /\ p[e].depth = p[o].depth
<1>1. ~ Block(p, o, Len(p) + 1) /\ Len(p) \in Nat
  BY DoneFacts DEF Done, OpenBlock
<1>2. (Len(p) + 1) - 1 = Len(p) /\ o < Len(p) + 1
  BY <1>1
<1>3. QED
  BY <1>1, <1>2 DEF Block

(* Match is the first of the dividers of a block.                          *)
LEMMA MatchIs ==
  ASSUME NEW p, Done(p), NEW o \in 1 .. Len(p), IsOpener(p[o])
  PROVE  /\ Match(p, o) \in o + 1 .. Len(p) /\ Divides(p, o, Match(p, o))
         /\ \A m \in 1 .. Len(p) : Divides(p, o, m) => Match(p, o) <= m
<1>1. PICK T : T = {j \in o + 1 .. Len(p) : p[j].op \in Dividers /\ p[j].depth = p[o].depth}
  OBVIOUS
<1>2. Len(p) \in Nat
      /\ \A i \in 1 .. Len(p) : p[i].op \in Dividers <=> IsDivider(p[i])
  BY DoneFacts
<1>3. \A j : j \in T <=> j \in o + 1 .. Len(p) /\ IsDivider(p[j]) /\ p[j].depth = p[o].depth
  BY <1>1, <1>2
<1>4. T # {} /\ T \subseteq Nat
  BY <1>2, <1>3, BlockEnds DEF IsDivider
<1>5. PICK m : m = Match(p, o)
  OBVIOUS
<1>6. m \in T /\ \A k \in T : m <= k
  BY <1>1, <1>4, <1>5, MinIs DEF Match
<1>7. m \in o + 1 .. Len(p) /\ IsDivider(p[m]) /\ p[m].depth = p[o].depth
  BY <1>3, <1>6
<1>8. ASSUME NEW k \in o + 1 .. m - 1 PROVE ~ (p[k].op = "end" /\ p[k].depth = p[o].depth)
  <2>1. k \in o + 1 .. Len(p) /\ ~ m <= k
    BY <1>2, <1>7
  <2>2. k \notin T
    BY <1>6, <2>1
  <2>3. QED
    BY <1>3, <2>1, <2>2 DEF IsDivider
<1>9. Block(p, o, m)
  BY <1>2, <1>7, <1>8 DEF Block
<1>10. Divides(p, o, m)
  BY <1>2, <1>7, <1>9 DEF Divides
<1>11. ASSUME NEW k \in 1 .. Len(p), Divides(p, o, k) PROVE m <= k
  <2>1. k \in T
    BY <1>2, <1>3, <1>11 DEF Divides, Block
  <2>2. QED
    BY <1>6, <2>1
<1>12. QED
  BY <1>5, <1>7, <1>10, <1>11

(* The loops have no else; an if without one has its end next.             *)
LEMMA MatchOfLoop ==
  ASSUME NEW p, Done(p), NEW o \in 1 .. Len(p), IsLoop(p[o])
  PROVE  EndOfBlock(p, o, Match(p, o))
<1>1. IsOpener(p[o])
  BY DEF IsLoop, IsOpener
<1>2. PICK m : m = Match(p, o)
  OBVIOUS
<1>3. m \in 1 .. Len(p) /\ Divides(p, o, m)
  BY <1>1, <1>2, MatchIs DEF Divides
<1>4. PICK o2 \in 1 .. Len(p) : Divides(p, o2, m) /\ (p[m].op = "else" => p[o2].op = "if")
  BY <1>3 DEF Done, Opened, Divides
<1>5. o2 = o
  BY <1>3, <1>4, DividesOnce
<1>6. p[m].op # "else"
  BY <1>4, <1>5 DEF IsLoop
<1>7. p[m].op = "end"
  BY <1>3, <1>6 DEF Divides, IsDivider
<1>8. QED
  BY <1>2, <1>3, <1>7 DEF EndOfBlock

LEMMA MatchOfIf ==
  ASSUME NEW p, Done(p), NEW o \in 1 .. Len(p), IsOpener(p[o])
  PROVE  \/ ElseOf(p, o, Match(p, o))
         \/ EndOfBlock(p, o, Match(p, o)) /\ \A m \in 1 .. Len(p) : ~ ElseOf(p, o, m)
<1>1. PICK m : m = Match(p, o)
  OBVIOUS
<1>2. /\ m \in 1 .. Len(p) /\ Divides(p, o, m)
      /\ \A k \in 1 .. Len(p) : Divides(p, o, k) => m <= k
  BY <1>1, MatchIs DEF Divides
<1>3. CASE p[m].op = "else"
  BY <1>1, <1>2, <1>3 DEF ElseOf
<1>4. CASE p[m].op = "end"
  <2>1. EndOfBlock(p, o, m)
    BY <1>2, <1>4 DEF EndOfBlock
  <2>2. ASSUME NEW k \in 1 .. Len(p), ElseOf(p, o, k) PROVE FALSE
    <3>1. Divides(p, o, k) /\ p[k].op = "else"
      BY <2>2 DEF ElseOf
    <3>2. m <= k /\ k <= m
      BY <1>2, <2>1, <3>1, OneEnd
    <3>3. m = k
      BY <1>2, <3>2
    <3>4. QED
      BY <1>4, <3>1, <3>3
  <2>3. QED
    BY <1>1, <2>1, <2>2
<1>5. QED
  BY <1>2, <1>3, <1>4 DEF Divides, IsDivider

LEMMA EndOfIs ==
  ASSUME NEW p, Done(p), NEW o \in 1 .. Len(p), NEW m \in 1 .. Len(p), ElseOf(p, o, m)
  PROVE  EndOfBlock(p, o, EndOf(p, m)) /\ EndOf(p, m) > m
<1>1. Len(p) \in Nat
  BY DoneFacts
<1>2. Block(p, o, m) /\ p[m].depth = p[o].depth /\ p[m].op = "else" /\ o < m
  BY DEF ElseOf, Divides, Block
<1>3. PICK T : T = {j \in m .. Len(p) : p[j].op = "end" /\ p[j].depth = p[m].depth}
  OBVIOUS
<1>4. T # {}
  <2>1. PICK e \in o + 1 .. Len(p) : p[e].op = "end" /\ p[e].depth = p[o].depth
    BY <1>2, BlockEnds DEF Block
  <2>2. e \notin o + 1 .. m - 1
    BY <1>2, <2>1 DEF Block
  <2>3. e \in m .. Len(p)
    BY <1>1, <2>1, <2>2
  <2>4. QED
    BY <1>2, <1>3, <2>1, <2>3
<1>5. PICK e : e = EndOf(p, m)
  OBVIOUS
<1>6. T \subseteq Nat
  BY <1>3
<1>7. e \in T /\ \A k \in T : e <= k
  BY <1>3, <1>4, <1>5, <1>6, MinIs DEF EndOf
<1>8. e \in m .. Len(p) /\ p[e].op = "end" /\ p[e].depth = p[o].depth
  BY <1>2, <1>3, <1>7
<1>9. e > m
  <2>1. e # m
    BY <1>2, <1>8
  <2>2. QED
    BY <1>8, <2>1
<1>10. ASSUME NEW k \in o + 1 .. e - 1 PROVE ~ (p[k].op = "end" /\ p[k].depth = p[o].depth)
  <2>1. CASE k \in o + 1 .. m - 1
    BY <1>2, <2>1 DEF Block
  <2>2. CASE k \notin o + 1 .. m - 1
    <3>1. k \in m .. Len(p) /\ ~ e <= k
      BY <1>1, <1>8, <2>2
    <3>2. k \notin T
      BY <1>7, <3>1
    <3>3. QED
      BY <1>2, <1>3, <3>1, <3>2
  <2>3. QED
    BY <2>1, <2>2
<1>11. Block(p, o, e)
  <2>1. o \in 1 .. Len(p) /\ IsOpener(p[o])
    BY <1>2 DEF Block
  <2>2. o < e
    BY <1>2, <1>8
  <2>3. QED
    BY <1>10, <2>1, <2>2 DEF Block
<1>12. EndOfBlock(p, o, e)
  BY <1>8, <1>11 DEF EndOfBlock, Divides, IsDivider
<1>13. QED
  BY <1>5, <1>9, <1>12

LEMMA OpenerIs ==
  ASSUME NEW p, Done(p), NEW o \in 1 .. Len(p), NEW e \in 1 .. Len(p), Divides(p, o, e)
  PROVE  Opener(p, e) = o
<1>1. /\ Len(p) \in Nat
      /\ \A i \in 1 .. Len(p) : (p[i].op \in Openers <=> IsOpener(p[i])) /\ p[i].depth \in Nat
  BY DoneFacts
<1>2. IsOpener(p[o]) /\ p[e].depth = p[o].depth /\ o < e
  BY DEF Divides, Block
<1>3. PICK T : T = {i \in 1 .. e - 1 : p[i].op \in Openers /\ p[i].depth = p[e].depth}
  OBVIOUS
<1>4. o \in T
  BY <1>1, <1>2, <1>3
<1>5. T \subseteq 1 .. e
  BY <1>3
<1>6. PICK m : m = Opener(p, e)
  OBVIOUS
<1>7. m \in T /\ \A k \in T : k <= m
  <2>1. m = Max(T)
    BY <1>3, <1>6 DEF Opener
  <2>2. Max(T) \in T /\ \A k \in T : k <= Max(T)
    <3>1. e \in Nat
      OBVIOUS
    <3>2. QED
      BY <1>4, <1>5, <3>1, MaxIs
  <2>3. QED
    BY <2>1, <2>2
<1>8. /\ m \in 1 .. Len(p) /\ m < e /\ IsOpener(p[m]) /\ p[m].depth = p[e].depth
      /\ p[m].depth \in Nat /\ o <= m
  BY <1>1, <1>3, <1>4, <1>7
<1>9. ~ o < m
  BY <1>8, OneOpener
<1>10. QED
  BY <1>6, <1>8, <1>9

LEMMA InnermostIs ==
  ASSUME NEW p, Done(p), NEW i \in 1 .. Len(p), IsJump(p[i])
  PROVE  /\ Innermost(p, i) \in 1 .. Len(p) /\ IsLoop(p[Innermost(p, i)])
         /\ Block(p, Innermost(p, i), i) /\ Match(p, Innermost(p, i)) > i
<1>1. Len(p) \in Nat
  BY DoneFacts
<1>2. PICK T : T = {k \in 1 .. i - 1 : p[k].op \in {"loop", "for"} /\ Match(p, k) > i}
  OBVIOUS
<1>3. PICK o \in 1 .. Len(p) : Block(p, o, i) /\ IsLoop(p[o])
  BY DEF Done, Jumps
<1>4. Match(p, o) > i
  <2>1. PICK m : m = Match(p, o)
    OBVIOUS
  <2>2. m \in 1 .. Len(p) /\ p[m].op = "end" /\ p[m].depth = p[o].depth /\ o < m
    BY <1>3, <2>1, MatchOfLoop DEF EndOfBlock, Divides, Block
  <2>3. m # i
    BY <2>2 DEF IsJump
  <2>4. m \notin o + 1 .. i - 1
    BY <1>3, <2>2 DEF Block
  <2>5. m > i
    BY <1>1, <2>2, <2>3, <2>4
  <2>6. QED
    BY <2>1, <2>5
<1>5. o \in T
  BY <1>1, <1>2, <1>3, <1>4 DEF Block, IsLoop
<1>6. T \subseteq 1 .. i
  BY <1>2
<1>7. PICK k : k = Innermost(p, i)
  OBVIOUS
<1>8. k \in T
  BY <1>2, <1>5, <1>6, <1>7, MaxIs DEF Innermost
<1>9. k \in 1 .. Len(p) /\ k < i /\ IsLoop(p[k]) /\ Match(p, k) > i
  BY <1>1, <1>2, <1>8 DEF IsLoop
<1>10. Block(p, k, i)
  <2>1. PICK m : m = Match(p, k)
    OBVIOUS
  <2>2. Block(p, k, m) /\ m \in 1 .. Len(p) /\ m > i
    BY <1>9, <2>1, MatchOfLoop DEF EndOfBlock, Divides
  <2>3. p \in Seq(EntryType)
    BY DEF Done
  <2>4. i <= m
    BY <1>1, <2>2
  <2>5. QED
    BY <1>9, <2>2, <2>3, <2>4, BlockEarlier
<1>11. QED
  BY <1>7, <1>9, <1>10

(* Where execution goes from entry i, by the kind of the entry.            *)
ToNext(p, i, j) == ~ IsDivider(p[i]) /\ j = i + 1
ToElse(p, i, j) == \E m \in 1 .. Len(p) : ElseOf(p, i, m) /\ j = m + 1
PastBlock(p, i, j) ==
  /\ p[i].op \in {"if", "for"}
  /\ IsLoop(p[i]) \/ (\A m \in 1 .. Len(p) : ~ ElseOf(p, i, m))
  /\ \E e \in 1 .. Len(p) : EndOfBlock(p, i, e) /\ j = e + 1
PastElse(p, i, j) ==
  \E o, e \in 1 .. Len(p) : ElseOf(p, o, i) /\ EndOfBlock(p, o, e) /\ e > i /\ j = e + 1
PastEnd(p, i, j) == \E o \in 1 .. Len(p) : EndOfBlock(p, o, i) /\ p[o].op = "if" /\ j = i + 1
BackFromEnd(p, i, j) == j \in 1 .. Len(p) /\ EndOfBlock(p, j, i) /\ IsLoop(p[j])
OutOfLoop(p, i, j) ==
  /\ IsJump(p[i])
  /\ \E o, e \in 1 .. Len(p) :
       IsLoop(p[o]) /\ Block(p, o, i) /\ EndOfBlock(p, o, e) /\ e > i /\ j = e + 1
BackInLoop(p, i, j) == IsJump(p[i]) /\ j \in 1 .. Len(p) /\ IsLoop(p[j]) /\ Block(p, j, i)
ToExit(p, i, j) == ~ IsDivider(p[i]) /\ j = Len(p) + 1

Goes(p, i, j) ==
  \/ ToNext(p, i, j) \/ ToElse(p, i, j) \/ PastBlock(p, i, j) \/ PastElse(p, i, j)
  \/ PastEnd(p, i, j) \/ BackFromEnd(p, i, j) \/ OutOfLoop(p, i, j) \/ BackInLoop(p, i, j)
  \/ ToExit(p, i, j)

LEMMA SuccessorsGo ==
  ASSUME NEW p, Done(p), NEW i \in 1 .. Len(p), NEW j \in Range(Successors(p, i))
  PROVE  Goes(p, i, j)
<1>1. p[i].op \in Ops /\ Len(p) \in Nat
  BY DoneFacts
<1>2. CASE p[i].op \in {"if", "for"}
  <2>1. PICK m : m = Match(p, i)
    OBVIOUS
  <2>2. Successors(p, i) = <<i + 1, m + 1>>
    BY <1>2, <2>1 DEF Successors
  <2>3. j = i + 1 \/ j = m + 1
    BY <2>2, RangeTwo
  <2>4. IsOpener(p[i]) /\ ~ IsDivider(p[i])
    BY <1>2 DEF IsOpener, IsDivider
  <2>5. CASE j = i + 1
    BY <2>4, <2>5 DEF Goes, ToNext
  <2>6. CASE j = m + 1
    <3>1. m \in 1 .. Len(p)
      BY <2>1, <2>4, MatchIs DEF Divides
    <3>2. CASE IsLoop(p[i])
      <4>1. EndOfBlock(p, i, m)
        BY <2>1, <3>2, MatchOfLoop
      <4>2. QED
        BY <1>2, <2>6, <3>1, <3>2, <4>1 DEF Goes, PastBlock
    <3>3. CASE ElseOf(p, i, m)
      BY <2>6, <3>1, <3>3 DEF Goes, ToElse
    <3>4. CASE EndOfBlock(p, i, m) /\ \A k \in 1 .. Len(p) : ~ ElseOf(p, i, k)
      BY <1>2, <2>6, <3>1, <3>4 DEF Goes, PastBlock
    <3>5. QED
      BY <2>1, <2>4, <3>3, <3>4, MatchOfIf
  <2>7. QED
    BY <2>3, <2>5, <2>6
<1>3. CASE p[i].op = "else"
  <2>1. PICK e : e = EndOf(p, i)
    OBVIOUS
  <2>2. Successors(p, i) = <<e + 1>>
    BY <1>3, <2>1 DEF Successors
  <2>3. j = e + 1
    BY <2>2, RangeOne
  <2>4. IsDivider(p[i])
    BY <1>3 DEF IsDivider
  <2>5. PICK o \in 1 .. Len(p) : Divides(p, o, i)
    BY <2>4 DEF Done, Opened
  <2>6. ElseOf(p, o, i)
    BY <1>3, <2>5 DEF ElseOf
  <2>7. EndOfBlock(p, o, e) /\ e > i /\ e \in 1 .. Len(p)
    BY <2>1, <2>6, EndOfIs DEF EndOfBlock, Divides
  <2>8. QED
    BY <2>3, <2>6, <2>7 DEF Goes, PastElse
<1>4. CASE p[i].op = "end"
  <2>1. IsDivider(p[i])
    BY <1>4 DEF IsDivider
  <2>2. PICK o \in 1 .. Len(p) : Divides(p, o, i)
    BY <2>1 DEF Done, Opened
  <2>3. Opener(p, i) = o /\ EndOfBlock(p, o, i) /\ IsOpener(p[o])
    BY <1>4, <2>2, OpenerIs DEF EndOfBlock, Divides, Block
  <2>4. Successors(p, i) = IF p[o].op \in {"loop", "for"} THEN <<o>> ELSE <<i + 1>>
    BY <1>4, <2>3 DEF Successors
  <2>5. CASE IsLoop(p[o])
    <3>1. Successors(p, i) = <<o>>
      BY <2>4, <2>5 DEF IsLoop
    <3>2. j = o
      BY <3>1, RangeOne
    <3>3. QED
      BY <2>3, <2>5, <3>2 DEF Goes, BackFromEnd
  <2>6. CASE ~ IsLoop(p[o])
    <3>1. Successors(p, i) = <<i + 1>> /\ p[o].op = "if"
      BY <2>3, <2>4, <2>6 DEF IsLoop, IsOpener
    <3>2. j = i + 1
      BY <3>1, RangeOne
    <3>3. QED
      BY <2>3, <3>1, <3>2 DEF Goes, PastEnd
  <2>7. QED
    BY <2>5, <2>6
<1>5. CASE p[i].op \in {"break", "continue"}
  <2>1. IsJump(p[i])
    BY <1>5 DEF IsJump
  <2>2. PICK k, m : k = Innermost(p, i) /\ m = Match(p, k)
    OBVIOUS
  <2>3. k \in 1 .. Len(p) /\ IsLoop(p[k]) /\ Block(p, k, i) /\ m > i
    BY <2>1, <2>2, InnermostIs
  <2>4. EndOfBlock(p, k, m) /\ m \in 1 .. Len(p)
    BY <2>2, <2>3, MatchOfLoop DEF EndOfBlock, Divides
  <2>5. CASE p[i].op = "break"
    <3>1. Successors(p, i) = <<m + 1>>
      BY <2>2, <2>5 DEF Successors
    <3>2. j = m + 1
      BY <3>1, RangeOne
    <3>3. QED
      BY <2>1, <2>3, <2>4, <3>2 DEF Goes, OutOfLoop
  <2>6. CASE p[i].op = "continue"
    <3>1. Successors(p, i) = <<k>>
      BY <2>2, <2>6 DEF Successors
    <3>2. j = k
      BY <3>1, RangeOne
    <3>3. QED
      BY <2>1, <2>3, <3>2 DEF Goes, BackInLoop
  <2>7. QED
    BY <1>5, <2>5, <2>6
<1>6. CASE p[i].op = "return"
  <2>1. Successors(p, i) = <<Len(p) + 1>>
    BY <1>6 DEF Successors
  <2>2. j = Len(p) + 1
    BY <2>1, RangeOne
  <2>3. QED
    BY <1>6, <2>2 DEF Goes, ToExit, IsDivider
<1>7. CASE p[i].op \in {"const", "let", "var", "assign", "expr", "set", "loop"}
  <2>1. Successors(p, i) = <<i + 1>>
    BY <1>7 DEF Successors
  <2>2. j = i + 1
    BY <2>1, RangeOne
  <2>3. QED
    BY <1>7, <2>2 DEF Goes, ToNext, IsDivider
<1>8. QED
  BY <1>1, <1>2, <1>3, <1>4, <1>5, <1>6, <1>7 DEF Ops

LEMMA GoesOn ==
  ASSUME NEW p, Done(p), NEW i \in 1 .. Len(p), NEW j, Goes(p, i, j)
  PROVE  /\ j \in 1 .. Len(p) + 1
         /\ j > i \/ (j \in 1 .. Len(p) /\ IsLoop(p[j]) /\ Block(p, j, i))
<1>1. Len(p) \in Nat
  BY DoneFacts
<1>2. CASE ToNext(p, i, j) \/ ToExit(p, i, j) \/ PastEnd(p, i, j)
  BY <1>1, <1>2 DEF ToNext, ToExit, PastEnd
<1>3. CASE ToElse(p, i, j) \/ PastBlock(p, i, j)
  <2>1. PICK m \in 1 .. Len(p) : i < m /\ j = m + 1
    BY <1>3 DEF ToElse, PastBlock, ElseOf, EndOfBlock, Divides, Block
  <2>2. QED
    BY <1>1, <2>1
<1>4. CASE PastElse(p, i, j) \/ OutOfLoop(p, i, j)
  <2>1. PICK m \in 1 .. Len(p) : m > i /\ j = m + 1
    BY <1>4 DEF PastElse, OutOfLoop
  <2>2. QED
    BY <1>1, <2>1
<1>5. CASE BackFromEnd(p, i, j) \/ BackInLoop(p, i, j)
  <2>1. j \in 1 .. Len(p) /\ IsLoop(p[j]) /\ Block(p, j, i)
    BY <1>5 DEF BackFromEnd, BackInLoop, EndOfBlock, Divides
  <2>2. QED
    BY <1>1, <2>1
<1>6. QED
  BY <1>2, <1>3, <1>4, <1>5 DEF Goes

(* Whoever leaves a block forwards stays in the loops around it.           *)
LEMMA LeavesBlock ==
  ASSUME NEW p, Done(p), NEW b \in 1 .. Len(p), NEW m \in 1 .. Len(p), Divides(p, b, m),
         NEW i \in b .. m, NEW o, Block(p, o, m + 1)
  PROVE  o = i \/ Block(p, o, i)
<1>1. Len(p) \in Nat /\ p \in Seq(EntryType) /\ \A k \in 1 .. Len(p) : p[k].depth \in Nat
  BY DoneFacts DEF Done
<1>2. o \in 1 .. Len(p) /\ IsOpener(p[o]) /\ o < m + 1
  BY DEF Block
<1>3. o # m
  BY <1>2 DEF Divides, IsDivider, IsOpener
<1>4. o < m
  BY <1>1, <1>2, <1>3
<1>5. CASE i < o
  <2>1. p[o].depth > p[m].depth
    <3>1. b < o
      BY <1>1, <1>2, <1>5
    <3>2. QED
      BY <1>2, <1>4, <3>1, OneOpener
  <2>2. Block(p, o, m)
    BY <1>1, <1>4, BlockEarlier
  <2>3. p[m].depth >= p[o].depth
    BY <1>1, <1>2, <2>2 DEF Done, Nests
  <2>4. QED
    BY <1>1, <1>2, <2>1, <2>3
<1>6. CASE o < i
  BY <1>1, <1>6, BlockEarlier
<1>7. QED
  BY <1>1, <1>2, <1>5, <1>6

LEMMA GoesKeepsLoops ==
  ASSUME NEW p, Done(p), NEW i \in 1 .. Len(p), NEW j, Goes(p, i, j), NEW o, Block(p, o, j)
  PROVE  o = i \/ Block(p, o, i)
<1>1. Len(p) \in Nat /\ p \in Seq(EntryType) /\ \A k \in 1 .. Len(p) : p[k].depth \in Nat
  BY DoneFacts DEF Done
<1>2. o \in 1 .. Len(p) /\ IsOpener(p[o]) /\ o < j
  BY DEF Block
<1>3. CASE ToNext(p, i, j) \/ PastEnd(p, i, j)
  <2>1. j = i + 1
    BY <1>3 DEF ToNext, PastEnd
  <2>2. QED
    BY <1>1, <1>2, <2>1, BlockEarlier
<1>4. CASE ToExit(p, i, j)
  BY <1>1, <1>2, <1>4 DEF ToExit, Done, OpenBlock
<1>5. CASE ToElse(p, i, j) \/ PastBlock(p, i, j)
  <2>1. PICK m \in 1 .. Len(p) : Divides(p, i, m) /\ j = m + 1
    BY <1>5 DEF ToElse, PastBlock, ElseOf, EndOfBlock
  <2>2. i \in i .. m
    BY <2>1 DEF Divides, Block
  <2>3. QED
    BY <2>1, <2>2, LeavesBlock
<1>6. CASE PastElse(p, i, j) \/ OutOfLoop(p, i, j)
  <2>1. PICK b, m \in 1 .. Len(p) : Divides(p, b, m) /\ b < i /\ i < m /\ j = m + 1
    BY <1>6 DEF PastElse, OutOfLoop, ElseOf, EndOfBlock, Divides, Block
  <2>2. i \in b .. m
    BY <2>1
  <2>3. QED
    BY <2>1, <2>2, LeavesBlock
<1>7. CASE BackFromEnd(p, i, j) \/ BackInLoop(p, i, j)
  <2>1. j \in 1 .. Len(p) /\ IsLoop(p[j]) /\ Block(p, j, i)
    BY <1>7 DEF BackFromEnd, BackInLoop, EndOfBlock, Divides
  <2>2. IsOpener(p[j]) /\ j < i /\ ~ IsDivider(p[j])
    BY <2>1 DEF Block, IsOpener, IsDivider
  <2>3. p[j].depth > p[o].depth
    BY <1>2, <2>1, <2>2 DEF Done, Nests
  <2>4. ASSUME NEW k \in o + 1 .. i - 1 PROVE ~ (p[k].op = "end" /\ p[k].depth = p[o].depth)
    <3>1. k \in 1 .. Len(p)
      BY <1>1, <1>2
    <3>2. CASE k < j
      <4>1. k \in o + 1 .. j - 1
        BY <1>2, <2>1, <3>2
      <4>2. QED
        BY <4>1 DEF Block
    <3>3. CASE k = j
      BY <2>2, <3>3 DEF IsDivider
    <3>4. CASE k > j
      <4>1. Block(p, j, k)
        BY <1>1, <2>1, <3>1, <3>4, BlockEarlier
      <4>2. p[k].depth >= p[j].depth
        BY <1>1, <2>1, <3>1, <4>1 DEF Done, Nests
      <4>3. p[k].depth # p[o].depth
        BY <1>1, <1>2, <2>1, <2>3, <3>1, <4>2
      <4>4. QED
        BY <4>3
    <3>5. QED
      BY <2>1, <3>1, <3>2, <3>3, <3>4
  <2>5. o < i
    BY <1>2, <2>1, <2>2
  <2>6. QED
    BY <1>2, <2>4, <2>5 DEF Block
<1>8. QED
  BY <1>3, <1>4, <1>5, <1>6, <1>7 DEF Goes

(* What holds after entry i, when it has run.                              *)
After(s) == IF IsDivider(s) THEN s.pre ELSE Effect(s)

LEMMA EffectOfBlock ==
  ASSUME NEW s, NEW L, GentleEntry(s, L), s.op \in {"if", "for", "break", "continue"},
         NEW v \in Vars, s.pre[v] # "absent"
  PROVE  After(s)[v] = s.pre[v]
<1>1. ~ IsDivider(s)
  BY DEF IsDivider
<1>2. s.op = "for" => s.pre[s.var] = "absent"
  BY DEF GentleEntry, GentleBinder, Adds, IsBinder
<1>3. Effect(s)[v] = s.pre[v]
  BY <1>2 DEF Effect
<1>4. QED
  BY <1>1, <1>3 DEF After

(* One table describes every path: where execution may go, the walker had  *)
(* the table that the entry it comes from leaves.                          *)
LEMMA GoesBelow ==
  ASSUME NEW p, NEW t, Done(p), Follows(p, t), Gentle(p), LoopsKeep(p, t), Joins(p, t),
         NEW i \in 1 .. Len(p), NEW j \in 1 .. Len(p), Goes(p, i, j), NEW v \in Known(p[j].pre)
  PROVE  After(p[i])[v] = p[j].pre[v]
<1>1. Len(p) \in Nat
  BY DoneFacts
<1>2. PICK u : u = p[j].pre
  OBVIOUS
<1>3. Before(p, t, j) = u /\ v \in Known(u) /\ v \in Vars /\ u[v] # "absent"
  BY <1>2 DEF Before, Known
<1>4. Before(p, t, i) = p[i].pre
  BY DEF Before
<1>5. ASSUME NEW o \in 1 .. Len(p), IsLoop(p[o]), Block(p, o, i), NEW w \in Known(p[o].pre)
      PROVE  p[i].pre[w] = p[o].pre[w]
  <2>1. ~ OpenBlock(p, o) /\ i \in 1 .. Len(p) + 1
    BY <1>1 DEF Done
  <2>2. QED
    BY <1>4, <1>5, <2>1 DEF LoopsKeep
<1>6. CASE ToNext(p, i, j)
  BY <1>2, <1>3, <1>6 DEF ToNext, Follows, After
<1>7. CASE ToElse(p, i, j)
  <2>1. PICK m \in 1 .. Len(p) : ElseOf(p, i, m) /\ j = m + 1
    BY <1>7 DEF ToElse
  <2>2. p[i].pre = u
    BY <1>3, <2>1 DEF Follows
  <2>3. p[i].op = "if"
    <3>1. Divides(p, i, m) /\ IsDivider(p[m]) /\ p[m].op = "else"
      BY <2>1 DEF ElseOf, Divides
    <3>2. PICK o2 \in 1 .. Len(p) : Divides(p, o2, m) /\ (p[m].op = "else" => p[o2].op = "if")
      BY <3>1 DEF Done, Opened
    <3>3. o2 = i
      BY <3>1, <3>2, DividesOnce
    <3>4. QED
      BY <3>1, <3>2, <3>3
  <2>4. GentleEntry(p[i], LentUpTo(p, i))
    BY DEF Gentle
  <2>5. QED
    BY <1>2, <1>3, <2>2, <2>3, <2>4, EffectOfBlock
<1>8. CASE PastBlock(p, i, j)
  <2>1. PICK e \in 1 .. Len(p) : EndOfBlock(p, i, e) /\ j = e + 1
    BY <1>8 DEF PastBlock
  <2>2. JoinsAt(p, i, e, u)
    BY <1>3, <2>1 DEF Joins
  <2>3. p[i].pre[v] = u[v]
    BY <1>3, <1>8, <2>2 DEF JoinsAt, PastBlock, Below
  <2>4. GentleEntry(p[i], LentUpTo(p, i)) /\ p[i].op \in {"if", "for", "break", "continue"}
    BY <1>8 DEF Gentle, PastBlock
  <2>5. QED
    BY <1>2, <1>3, <2>3, <2>4, EffectOfBlock
<1>9. CASE PastElse(p, i, j)
  <2>1. PICK o, e \in 1 .. Len(p) : ElseOf(p, o, i) /\ EndOfBlock(p, o, e) /\ j = e + 1
    BY <1>9 DEF PastElse
  <2>2. JoinsAt(p, o, e, u)
    BY <1>3, <2>1 DEF Joins
  <2>3. p[i].pre[v] = u[v]
    BY <1>3, <2>1, <2>2 DEF JoinsAt, Below
  <2>4. IsDivider(p[i])
    BY <2>1 DEF ElseOf, Divides
  <2>5. QED
    BY <1>2, <2>3, <2>4 DEF After
<1>10. CASE PastEnd(p, i, j)
  <2>1. PICK o \in 1 .. Len(p) : EndOfBlock(p, o, i) /\ p[o].op = "if" /\ j = i + 1
    BY <1>10 DEF PastEnd
  <2>2. JoinsAt(p, o, i, u)
    BY <1>3, <2>1 DEF Joins
  <2>3. p[i].pre[v] = u[v]
    BY <1>3, <2>1, <2>2 DEF JoinsAt, Below
  <2>4. IsDivider(p[i])
    BY <2>1 DEF EndOfBlock, Divides
  <2>5. QED
    BY <1>2, <2>3, <2>4 DEF After
<1>11. CASE BackFromEnd(p, i, j)
  <2>1. IsLoop(p[j]) /\ Block(p, j, i) /\ IsDivider(p[i])
    BY <1>11 DEF BackFromEnd, EndOfBlock, Divides
  <2>2. p[i].pre[v] = u[v]
    BY <1>2, <1>5, <2>1
  <2>3. QED
    BY <1>2, <2>1, <2>2 DEF After
<1>12. CASE OutOfLoop(p, i, j)
  <2>1. PICK o, e \in 1 .. Len(p) :
          IsLoop(p[o]) /\ Block(p, o, i) /\ EndOfBlock(p, o, e) /\ j = e + 1
    BY <1>12 DEF OutOfLoop
  <2>2. JoinsAt(p, o, e, u)
    BY <1>3, <2>1 DEF Joins
  <2>3. p[o].pre[v] = u[v]
    BY <1>3, <2>1, <2>2 DEF JoinsAt, Below
  <2>4. v \in Known(p[o].pre)
    BY <1>3, <2>3 DEF Known
  <2>5. p[i].pre[v] = u[v]
    BY <1>5, <2>1, <2>3, <2>4
  <2>6. GentleEntry(p[i], LentUpTo(p, i)) /\ p[i].op \in {"if", "for", "break", "continue"}
    BY <1>12 DEF Gentle, OutOfLoop, IsJump
  <2>7. QED
    BY <1>2, <1>3, <2>5, <2>6, EffectOfBlock
<1>13. CASE BackInLoop(p, i, j)
  <2>1. IsLoop(p[j]) /\ Block(p, j, i) /\ IsJump(p[i])
    BY <1>13 DEF BackInLoop
  <2>2. p[i].pre[v] = u[v]
    BY <1>2, <1>5, <2>1
  <2>3. GentleEntry(p[i], LentUpTo(p, i)) /\ p[i].op \in {"if", "for", "break", "continue"}
    BY <2>1 DEF Gentle, IsJump
  <2>4. QED
    BY <1>2, <1>3, <2>2, <2>3, EffectOfBlock
<1>14. CASE ToExit(p, i, j)
  BY <1>1, <1>14 DEF ToExit
<1>15. QED
  BY <1>6, <1>7, <1>8, <1>9, <1>10, <1>11, <1>12, <1>13, <1>14 DEF Goes

-----------------------------------------------------------------------------
(* There are more objects than names.                                      *)
LEMMA ObjectsAre ==
  \E n, k \in Nat :
    /\ n = Cardinality(Vars) /\ Obj = 1 .. n + k + 1
    /\ IsFiniteSet(Obj) /\ Cardinality(Obj) = n + k + 1
<1>1. Cardinality(Vars) \in Nat
  BY VarAssumption, FS_CardinalityType
<1>2. Len(Forms) \in Nat
  BY FormAssumption
<1>3. PICK n, k, m : n = Cardinality(Vars) /\ k = Len(Forms) /\ m = n + k + 1
  OBVIOUS
<1>4. m \in Int /\ n \in Nat /\ k \in Nat /\ 1 \in Int
  BY <1>1, <1>2, <1>3
<1>5. IsFiniteSet(1 .. m) /\ Cardinality(1 .. m) = IF 1 > m THEN 0 ELSE m - 1 + 1
  BY <1>4, FS_Interval
<1>6. Cardinality(1 .. m) = n + k + 1
  BY <1>3, <1>4, <1>5
<1>7. Obj = 1 .. m
  BY <1>3 DEF Obj
<1>8. QED
  BY <1>3, <1>4, <1>5, <1>6, <1>7

LEMMA NamesApart == \E f \in [Vars -> Obj] : IsInjective(f)
<1>1. PICK n, k \in Nat : n = Cardinality(Vars) /\ Obj = 1 .. n + k + 1
  BY ObjectsAre
<1>2. n \in Nat /\ \A i \in 1 .. n : i \in Obj
  BY <1>1
<1>3. IsFiniteSet(1 .. n) /\ Cardinality(1 .. n) = n
  <2>1. IsFiniteSet(1 .. n) /\ Cardinality(1 .. n) = IF 1 > n THEN 0 ELSE n - 1 + 1
    BY <1>2, FS_Interval
  <2>2. QED
    BY <1>2, <2>1
<1>4. ExistsBijection(Vars, 1 .. n)
  BY <1>1, <1>3, VarAssumption, FS_SameCardinalityBij
<1>5. PICK f \in [Vars -> 1 .. n] : IsInjective(f)
  BY <1>4 DEF ExistsBijection, Bijection, Injection
<1>6. f \in [Vars -> Obj]
  BY <1>2
<1>7. QED
  BY <1>5, <1>6

LEMMA FreshObject ==
  ASSUME NEW en \in [Vars -> Obj]
  PROVE  \E n \in Obj : \A v \in Vars : en[v] # n
<1>1. SUFFICES ASSUME \A n \in Obj : \E v \in Vars : en[v] = n PROVE FALSE
  OBVIOUS
<1>2. PICK f : f = [n \in Obj |-> CHOOSE v \in Vars : en[v] = n]
  OBVIOUS
<1>3. \A n \in Obj : f[n] \in Vars /\ en[f[n]] = n
  BY <1>1, <1>2
<1>4. f \in [Obj -> Vars]
  BY <1>2, <1>3
<1>5. Cardinality(Vars) < Cardinality(Obj) /\ IsFiniteSet(Obj)
  BY ObjectsAre
<1>6. \E x, y \in Obj : x # y /\ f[x] = f[y]
  BY <1>4, <1>5, VarAssumption, FS_PigeonHole
<1>7. QED
  BY <1>3, <1>6

LEMMA InitialObjects == ASSUME RunInit PROVE env \in [Vars -> Obj] /\ IsInjective(env)
<1>1. env = CHOOSE f \in [Vars -> Obj] : IsInjective(f)
  BY DEF RunInit
<1>2. QED
  BY <1>1, NamesApart

-----------------------------------------------------------------------------
(* What binds a name, names it.                                            *)
Named(s) == IsBinder(s) => s.var \in Vars
AllNamed(p) == \A i \in 1 .. Len(p) : Named(p[i])

LEMMA NamedOf ==
  ASSUME WalkShape, AllNamed(prog), NEW op, NEW x, NEW e, NEW codes, NEW depth,
         prog' = Append(prog, Entry(op, x, e, codes, depth)),
         op \in {"const", "let", "var", "assign", "for"} => x \in Vars
  PROVE  AllNamed(prog')
<1>1. PICK s : s = Entry(op, x, e, codes, depth)
  OBVIOUS
<1>2. Named(s)
  BY <1>1, EntryHas DEF Named, IsBinder
<1>3. /\ Len(prog') = Len(prog) + 1 /\ prog'[Len(prog) + 1] = s /\ Len(prog) \in Nat
      /\ \A i \in 1 .. Len(prog) : prog'[i] = prog[i]
  <2>1. PICK p : p = prog
    OBVIOUS
  <2>2. p \in Seq(EntryType) /\ prog' = Append(p, s) /\ Len(p) \in Nat
    BY <1>1, <2>1, ShapeTypes
  <2>3. QED
    BY <2>1, <2>2
<1>4. QED
  BY <1>2, <1>3 DEF AllNamed

LEMMA WalkNames == ASSUME WalkShape, AllNamed(prog), Walk PROVE AllNamed(prog')
<1>1. ASSUME NEW op, NEW x, NEW e, NEW codes, NEW t, Plain(op, x, e, codes, t),
             op \in {"const", "let", "var", "assign", "for"} => x \in Vars
      PROVE  AllNamed(prog')
  BY <1>1, NamedOf DEF Plain
<1>2. ASSUME NEW kinds, NEW op, NEW codes, NEW t, Close(kinds, op, codes, t), op \in {"else", "end"}
      PROVE  AllNamed(prog')
  BY <1>2, NamedOf DEF Close
<1>3. CASE \E x \in Vars, e \in Expr : Bind(x, e) \/ For(x, e)
  BY <1>1, <1>3 DEF Bind, Const, Let, Var, Assign, For, Open
<1>4. CASE \E e \in Expr : ExprStmt(e) \/ SetField(e) \/ Return(e) \/ If(e)
  BY <1>1, <1>4 DEF ExprStmt, SetField, Return, If, Open
<1>5. CASE Loop \/ \E op \in {"break", "continue"} : Jump(op)
  BY <1>1, <1>5 DEF Loop, Open, Jump
<1>6. CASE Else
  BY <1>2, <1>6 DEF Else
<1>7. CASE EndIf \/ EndLoop \/ EndFor
  BY <1>2, <1>7 DEF EndIf, EndLoop, EndFor
<1>8. QED
  BY <1>3, <1>4, <1>5, <1>6, <1>7 DEF Walk

(* The types, and the order of the two phases.                             *)
RunTypes ==
  /\ AllNamed(prog)
  /\ env \in [Vars -> Obj] /\ owns \subseteq Vars /\ gone \subseteq Obj
  /\ hidden \subseteq Hidden
  /\ fault \in {"none", "moved", "borrowMoved", "borrowReturned"}
  /\ \/ phase = "walk" /\ pc = 0
     \/ phase = "run" /\ frames = <<>> /\ pc \in 1 .. Len(prog) + 1
TypeInv == WalkOrder /\ RunTypes

LEMMA TypesBegin == ASSUME OInit PROVE TypeInv
<1>1. WalkOrder /\ prog = <<>> /\ phase = "walk"
  BY WalkBegins DEF OInit, WalkInit
<1>2. env \in [Vars -> Obj]
  BY InitialObjects DEF OInit
<1>3. AllNamed(prog)
  <2>1. PICK p : p = prog
    OBVIOUS
  <2>2. Len(p) = 0
    BY <1>1, <2>1
  <2>3. \A i \in 1 .. Len(p) : FALSE
    BY <2>2
  <2>4. QED
    BY <2>1, <2>3 DEF AllNamed
<1>4. QED
  BY <1>1, <1>2, <1>3 DEF TypeInv, RunTypes, OInit, RunInit

LEMMA FaultIs ==
  ASSUME NEW s PROVE Fault(s) \in {"none", "moved", "borrowMoved", "borrowReturned"}
  BY DEF Fault

(* What a name is bound to, and what the blocks around hide.               *)
LEMMA ReboundTyped ==
  ASSUME NEW s, NEW o \in Obj \cup {0}, NEW en \in [Vars -> Obj], NEW ow, ow \subseteq Vars,
         o # 0 => s.var \in Vars
  PROVE  Rebound(s, en, o) \in [Vars -> Obj] /\ Owning(s, ow, o) \subseteq Vars
<1>1. o = 0 \/ o \in Obj
  OBVIOUS
<1>2. QED
  BY <1>1 DEF Rebound, Owning

LEMMA HidesTyped ==
  ASSUME NEW s \in EntryType, Named(s), env \in [Vars -> Obj]
  PROVE  Hides(s) \subseteq Hidden
<1>1. CASE Hides(s) = {}
  BY <1>1
<1>2. CASE Hides(s) # {}
  <2>1. /\ s.op \in {"const", "let", "var", "for"}
        /\ Hides(s) = {[depth |-> Scope(s), var |-> s.var, obj |-> env[s.var],
                        own |-> s.var \in owns]}
    BY <1>2 DEF Hides
  <2>2. s.var \in Vars
    BY <2>1 DEF Named, IsBinder
  <2>3. s.depth \in Nat
    BY DEF EntryType
  <2>4. Scope(s) \in Nat
    BY <2>3 DEF Scope
  <2>5. env[s.var] \in Obj /\ (s.var \in owns) \in BOOLEAN
    BY <2>2
  <2>6. QED
    BY <2>1, <2>2, <2>4, <2>5 DEF Hidden
<1>3. QED
  BY <1>1, <1>2

LEMMA MeansTyped ==
  ASSUME NEW left, left \subseteq Hidden, NEW en \in [Vars -> Obj], NEW ow, Means(left, en, ow)
  PROVE  env' \in [Vars -> Obj] /\ owns' \subseteq Vars
<1>1. ASSUME NEW v \in Vars
      PROVE  (IF Seen(left, v) = {} THEN en[v]
              ELSE (CHOOSE h \in Seen(left, v) : TRUE).obj) \in Obj
  <2>1. CASE Seen(left, v) = {}
    BY <2>1
  <2>2. CASE Seen(left, v) # {}
    <3>1. PICK h : h = CHOOSE g \in Seen(left, v) : TRUE
      OBVIOUS
    <3>2. h \in Seen(left, v)
      BY <2>2, <3>1
    <3>3. h \in Hidden
      BY <3>2 DEF Seen
    <3>4. h.obj \in Obj
      BY <3>3 DEF Hidden
    <3>5. QED
      BY <2>2, <3>1, <3>4
  <2>3. QED
    BY <2>1, <2>2
<1>2. QED
  BY <1>1 DEF Means

LEMMA ExecuteTypes == ASSUME TypeInv, Execute PROVE RunTypes'
<1>1. /\ phase = "run" /\ frames = <<>> /\ pc \in 1 .. Len(prog) + 1 /\ pc \in DOMAIN prog
      /\ AllNamed(prog) /\ env \in [Vars -> Obj] /\ owns \subseteq Vars /\ gone \subseteq Obj
      /\ hidden \subseteq Hidden
  BY DEF TypeInv, RunTypes, Execute
<1>2. UNCHANGED <<table, frames, prog, phase>>
  BY DEF Execute, walkVars
<1>3. WalkShape
  BY DEF TypeInv, WalkOrder
<1>4. Done(prog)
  BY <1>1, <1>3, DoneShape DEF WalkShape
<1>5. pc \in 1 .. Len(prog) /\ prog \in Seq(EntryType)
  BY <1>1, <1>4, DoneFacts DEF Done
<1>6. PICK s : s = Now
  OBVIOUS
<1>7. s \in EntryType /\ s.expr \in Expr /\ Named(s)
  BY <1>1, <1>5, <1>6, EntryFields DEF Now, AllNamed
<1>8. PICK next, o, kept, left, en, ow :
        /\ next \in Range(Successors(prog, pc)) /\ o \in Obj \cup {0}
        /\ BindsTo(s, o) /\ pc' = next
        /\ gone' = (gone \cup Given(s.expr)) \
                   (IF Copies(s.expr) /\ s.op # "for" THEN {} ELSE {o})
        /\ kept = hidden \cup Hides(s) /\ left = {h \in kept : h.depth > DepthAt(next)}
        /\ hidden' = kept \ left
        /\ en = Rebound(s, env, o) /\ ow = Owning(s, owns, o) /\ Means(left, en, ow)
  BY <1>6 DEF Execute
<1>9. pc' \in 1 .. Len(prog) + 1
  BY <1>4, <1>5, <1>8, SuccessorsGo, GoesOn
<1>10. o # 0 => s.var \in Vars
  BY <1>7, <1>8 DEF BindsTo, Named, IsBinder
<1>11. en \in [Vars -> Obj] /\ kept \subseteq Hidden
  BY <1>1, <1>7, <1>8, <1>10, ReboundTyped, HidesTyped
<1>12. env' \in [Vars -> Obj] /\ owns' \subseteq Vars
  <2>1. left \subseteq Hidden
    BY <1>8, <1>11
  <2>2. QED
    BY <1>8, <1>11, <2>1, MeansTyped
<1>13. gone' \subseteq Obj /\ hidden' \subseteq Hidden
  <2>1. Given(s.expr) \subseteq Obj
    BY <1>1, <1>7, ArgListFacts DEF Given
  <2>2. QED
    BY <1>1, <1>8, <1>11, <2>1
<1>14. fault' \in {"none", "moved", "borrowMoved", "borrowReturned"}
  BY FaultIs DEF Execute
<1>15. QED
  BY <1>1, <1>2, <1>9, <1>12, <1>13, <1>14 DEF RunTypes

LEMMA StartTypes == ASSUME TypeInv, Start PROVE RunTypes'
<1>1. frames = <<>> /\ frames' = frames /\ prog' = prog /\ phase' = "run" /\ pc' = 1 /\ prog # <<>>
      /\ UNCHANGED <<env, owns, gone, hidden, fault>>
  BY DEF Start
<1>2. Len(prog) \in Nat
  BY ShapeTypes DEF TypeInv, WalkOrder
<1>3. 1 \in 1 .. Len(prog) + 1
  BY <1>2
<1>4. QED
  BY <1>1, <1>3 DEF RunTypes, TypeInv

LEMMA TypesStay == ASSUME TypeInv, [ONext]_allVars PROVE TypeInv'
<1>1. CASE Walk /\ UNCHANGED runVars
  <2>1. WalkOrder'
    BY <1>1, WalkKeepsOrder DEF TypeInv
  <2>2. AllNamed(prog')
    BY <1>1, WalkNames DEF TypeInv, WalkOrder, RunTypes
  <2>3. phase = "walk" /\ phase' = phase
    <3>1. phase = "walk"
      BY <1>1 DEF Walk
    <3>2. phase' = phase
      BY <1>1 DEF Walk, Bind, Const, Let, Var, Assign, For, ExprStmt, SetField, Return, If,
                  Loop, Open, Else, EndIf, EndLoop, EndFor, Jump, Plain, Close
    <3>3. QED
      BY <3>1, <3>2
  <2>4. QED
    BY <1>1, <2>1, <2>2, <2>3 DEF TypeInv, RunTypes, runVars
<1>2. CASE Start
  <2>1. WalkOrder'
    BY <1>2 DEF Start, TypeInv, WalkOrder, WalkShape
  <2>2. QED
    BY <1>2, <2>1, StartTypes DEF TypeInv
<1>3. CASE Execute
  <2>1. WalkOrder'
    BY <1>3 DEF Execute, walkVars, TypeInv, WalkOrder, WalkShape
  <2>2. QED
    BY <1>3, <2>1, ExecuteTypes DEF TypeInv
<1>4. CASE UNCHANGED allVars
  BY <1>4 DEF allVars, walkVars, runVars, TypeInv, WalkOrder, WalkShape, RunTypes
<1>5. QED
  BY <1>1, <1>2, <1>3, <1>4 DEF ONext

(* The frames know at most what the blocks in them do.                     *)
LEMMA ScopesNest ==
  ASSUME NEW p, NEW t, NEW fs, Shape(p, t, fs), NEW i \in 1 .. Len(fs), NEW j \in i .. Len(fs),
         NEW v \in Vars, fs[i].before[v] # "absent"
  PROVE  t[v] # "absent" /\ fs[j].before[v] # "absent"
<1>1. /\ p \in Seq(EntryType) /\ Nests(p) /\ Scopes(p, t) /\ AllOpen(p, fs) /\ Framed(p, fs)
      /\ Len(p) \in Nat /\ Len(fs) \in Nat
  BY LenProperties DEF Shape
<1>2. ASSUME NEW k \in 1 .. Len(fs)
      PROVE  \E o \in 1 .. Len(p) : /\ OpenBlock(p, o) /\ p[o].depth = k - 1
                                    /\ fs[k].before = p[o].pre
  <2>1. PICK o \in 1 .. Len(p) : OpenBlock(p, o) /\ p[o].depth = k - 1
    BY <1>1 DEF AllOpen
  <2>2. p[o].depth + 1 = k
    BY <2>1
  <2>3. FrameOf(p, o, fs[k])
    BY <1>1, <2>1, <2>2 DEF Framed
  <2>4. QED
    BY <2>1, <2>3 DEF FrameOf
<1>3. PICK a \in 1 .. Len(p) : OpenBlock(p, a) /\ p[a].depth = i - 1 /\ fs[i].before = p[a].pre
  BY <1>2
<1>4. j \in 1 .. Len(fs)
  OBVIOUS
<1>5. PICK b \in 1 .. Len(p) : OpenBlock(p, b) /\ p[b].depth = j - 1 /\ fs[j].before = p[b].pre
  BY <1>2, <1>4
<1>6. v \in Known(p[a].pre)
  BY <1>3 DEF Known
<1>7. t[v] # "absent"
  <2>1. Block(p, a, Len(p) + 1) /\ Len(p) + 1 \in 1 .. Len(p) + 1 /\ Before(p, t, Len(p) + 1) = t
    BY <1>1, <1>3 DEF OpenBlock, Before
  <2>2. v \in Known(t)
    BY <1>1, <1>6, <2>1 DEF Scopes
  <2>3. QED
    BY <2>2 DEF Known
<1>8. CASE i = j
  BY <1>7, <1>8
<1>9. CASE i < j
  <2>1. ~ b < a
    <3>1. SUFFICES ASSUME b < a PROVE FALSE
      OBVIOUS
    <3>2. Block(p, b, a)
      BY <1>1, <1>5, <3>1, BlockEarlier DEF OpenBlock
    <3>3. p[a].depth >= p[b].depth
      <4>1. p[a].depth > p[b].depth \/ p[a].depth = p[b].depth
        BY <1>1, <3>2 DEF Nests
      <4>2. QED
        BY <1>3, <1>5, <4>1
    <3>4. QED
      BY <1>3, <1>5, <1>9, <3>3
  <2>2. a # b
    BY <1>3, <1>5, <1>9
  <2>3. a < b
    BY <2>1, <2>2
  <2>4. Block(p, a, b) /\ Before(p, t, b) = p[b].pre /\ b \in 1 .. Len(p) + 1
    BY <1>1, <1>3, <2>3, BlockEarlier DEF OpenBlock, Before
  <2>5. v \in Known(p[b].pre)
    BY <1>1, <1>6, <2>4 DEF Scopes
  <2>6. QED
    BY <1>5, <1>7, <2>5 DEF Known
<1>10. QED
  BY <1>8, <1>9

LEMMA TypeInvIsType == ASSUME TypeInv PROVE OTypeOK
<1>1. WalkShape /\ RunTypes
  BY DEF TypeInv, WalkOrder
<1>2. PICK p, t, fs : p = prog /\ t = table /\ fs = frames
  OBVIOUS
<1>3. Shape(p, t, fs)
  BY <1>1, <1>2 DEF WalkShape
<1>4. /\ t \in Table /\ p \in Seq(EntryType) /\ fs \in Seq(FrameType)
      /\ DOMAIN p = 1 .. Len(p) /\ DOMAIN fs = 1 .. Len(fs) /\ Len(p) \in Nat /\ Len(fs) \in Nat
  BY <1>3, LenProperties DEF Shape
<1>5. \A i \in DOMAIN p : p[i].pre \in Table /\ p[i].expr \in Expr
  BY <1>4, EntryFields
<1>6. ASSUME NEW i \in DOMAIN fs, NEW v \in Vars
      PROVE  /\ fs[i].before \in Table
             /\ fs[i].before[v] # "absent" =>
                  t[v] # "absent" /\ \A j \in i .. Len(fs) : fs[j].before[v] # "absent"
  <2>1. fs[i] \in FrameType /\ i \in 1 .. Len(fs)
    BY <1>4, <1>6, ElementOfSeq
  <2>2. fs[i].before \in Table
    BY <2>1 DEF FrameType
  <2>3. ASSUME fs[i].before[v] # "absent"
        PROVE  t[v] # "absent" /\ \A j \in i .. Len(fs) : fs[j].before[v] # "absent"
    <3>1. Len(fs) \in i .. Len(fs)
      BY <1>4, <2>1
    <3>2. \A j \in i .. Len(fs) : t[v] # "absent" /\ fs[j].before[v] # "absent"
      BY <1>3, <2>1, <2>3, ScopesNest
    <3>3. QED
      BY <3>1, <3>2
  <2>4. QED
    BY <2>2, <2>3
<1>7. pc \in 0 .. Len(p) + 1
  BY <1>1, <1>2, <1>4 DEF RunTypes
<1>8. QED
  BY <1>1, <1>2, <1>4, <1>5, <1>6, <1>7 DEF OTypeOK, RunTypes

(* The types and the nesting of scopes hold of every body the walker can   *)
(* be given and of every execution, whatever was reported.                 *)
THEOREM OwnershipTypes == OSpec => []OTypeOK
<1>1. OInit => TypeInv
  BY TypesBegin
<1>2. TypeInv /\ [ONext]_allVars => TypeInv'
  BY TypesStay
<1>3. TypeInv => OTypeOK
  BY TypeInvIsType
<1>4. QED
  BY <1>1, <1>2, <1>3, PTL DEF OSpec

-----------------------------------------------------------------------------
(* What a table says of an execution, and who may share an object: a name  *)
(* that was borrowed, or one that was lent.                                *)
Describes(T, en, ow, go) ==
  \A v \in Known(T) : /\ (T[v] = "Consumed") <=> en[v] \in go
                      /\ T[v] = "Owned" => v \in ow
                      /\ T[v] = "Borrowed" => v \notin ow
Sharing(T, L, en) ==
  \A v, w \in Known(T) : v # w /\ en[v] = en[w] => T[v] = "Borrowed" \/ v \in L

(* One entry is executed; o is the object it binds its name to.            *)
Binding(s, en, o) ==
  /\ o \in Obj \cup {0}
  /\ ~ IsBinder(s) => o = 0
  /\ IsBinder(s) /\ Copies(s.expr) /\ s.op # "for" => o \in {en[v] : v \in Uses(s.expr)}
  /\ IsBinder(s) /\ ~ (Copies(s.expr) /\ s.op # "for") =>
       o \in Obj /\ \A v \in Vars \ {s.var} : en[v] # o
Giving(s, en, go, o) ==
  (go \cup {en[v] : v \in Moves(s.expr)}) \ (IF Copies(s.expr) /\ s.op # "for" THEN {} ELSE {o})

(* An entry that may run: gentle, described, and nothing was reported.     *)
Fit(s, L, en, ow, go) ==
  /\ s \in EntryType /\ GentleEntry(s, L) /\ GentleUses(s) /\ Named(s)
  /\ en \in [Vars -> Obj] /\ ow \subseteq Vars /\ go \subseteq Obj
  /\ Describes(s.pre, en, ow, go) /\ Sharing(s.pre, L, en)

LEMMA FitFacts ==
  ASSUME NEW s, NEW L, NEW en, NEW ow, NEW go, Fit(s, L, en, ow, go)
  PROVE  /\ s.expr \in Expr /\ s.pre \in Table
         /\ Uses(s.expr) \subseteq Known(s.pre) /\ Moves(s.expr) \subseteq Uses(s.expr)
         /\ \A v \in Moves(s.expr) : s.pre[v] = "Owned" /\ v \notin L
         /\ \A v \in Uses(s.expr) : s.pre[v] # "Consumed"
         /\ Copies(s.expr) => Moves(s.expr) = {}
         /\ IsBinder(s) => s.var \in Vars
         /\ IsBinder(s) /\ Copies(s.expr) /\ s.op # "for" => s.op = "let"
<1>1. s.expr \in Expr /\ s.pre \in Table
  BY DEF Fit, EntryType
<1>2. /\ Uses(s.expr) \subseteq Vars /\ Moves(s.expr) \subseteq Uses(s.expr)
      /\ s.expr.kind \in {"value", "ident", "field"} => Moves(s.expr) = {}
      /\ Copies(s.expr) => s.expr.kind \in {"ident", "field"}
  BY <1>1, ArgListFacts
<1>3. GentleExpr(s.expr, s.pre, L) /\ GentleUses(s) /\ GentleBinder(s) /\ Named(s)
  BY DEF Fit, GentleEntry
<1>4. Uses(s.expr) \subseteq Known(s.pre)
  BY <1>2, <1>3 DEF GentleExpr, Known
<1>5. \A v \in Uses(s.expr) : s.pre[v] # "Consumed"
  BY <1>3 DEF GentleUses
<1>6. \A v \in Vars : s.pre[v] \in {"absent", "Owned", "Borrowed", "Consumed"}
  BY <1>1 DEF Table, Status
<1>7. \A v \in Moves(s.expr) : s.pre[v] = "Owned" /\ v \notin L
  BY <1>2, <1>3, <1>5, <1>6 DEF GentleExpr
<1>8. Copies(s.expr) => Moves(s.expr) = {}
  BY <1>2
<1>9. /\ IsBinder(s) => s.var \in Vars
      /\ IsBinder(s) /\ Copies(s.expr) /\ s.op # "for" => s.op = "let"
  BY <1>3 DEF Named, GentleBinder, IsBinder
<1>10. QED
  BY <1>1, <1>2, <1>4, <1>5, <1>7, <1>8, <1>9

(* The table after an entry, name by name.                                 *)
LEMMA AfterOf ==
  ASSUME NEW s, NEW L, NEW en, NEW ow, NEW go, Fit(s, L, en, ow, go), NEW v \in Vars
  PROVE  After(s)[v] = IF IsBinder(s) /\ v = s.var
                       THEN (IF s.op = "let" THEN "Borrowed" ELSE "Owned")
                       ELSE IF v \in Moves(s.expr) THEN "Consumed" ELSE s.pre[v]
<1>1. /\ \A w \in Moves(s.expr) : s.pre[w] = "Owned"
      /\ Moves(s.expr) # {} => s.expr.kind = "call" /\ s.op \in {"const", "expr", "return"}
  BY FitFacts DEF Fit, GentleEntry, GentleExpr
<1>2. CASE IsDivider(s)
  <2>1. ~ IsBinder(s) /\ Moves(s.expr) = {}
    BY <1>1, <1>2 DEF IsDivider, IsBinder
  <2>2. QED
    BY <1>2, <2>1 DEF After
<1>3. CASE ~ IsDivider(s)
  <2>1. After(s)[v] = IF s.op \in {"const", "var", "assign", "for"} /\ v = s.var THEN "Owned"
                      ELSE IF s.op = "let" /\ v = s.var THEN "Borrowed"
                      ELSE IF s.op \in {"const", "expr", "return"} THEN AfterCall(s.expr, s.pre)[v]
                      ELSE s.pre[v]
    BY <1>3 DEF After, Effect
  <2>2. AfterCall(s.expr, s.pre)[v] = IF v \in Moves(s.expr) THEN "Consumed" ELSE s.pre[v]
    BY <1>1 DEF AfterCall
  <2>3. s.op \notin {"const", "expr", "return"} => v \notin Moves(s.expr)
    BY <1>1
  <2>4. QED
    BY <2>1, <2>2, <2>3 DEF IsBinder
<1>4. QED
  BY <1>2, <1>3

(* No other name refers to what is given away.                             *)
LEMMA GivenAlone ==
  ASSUME NEW s, NEW L, NEW en, NEW ow, NEW go, Fit(s, L, en, ow, go),
         NEW v \in Known(s.pre), NEW w \in Moves(s.expr), en[w] = en[v]
  PROVE  v = w
<1>1. w \in Known(s.pre) /\ s.pre[w] = "Owned" /\ w \notin L
  BY FitFacts
<1>2. Sharing(s.pre, L, en)
  BY DEF Fit
<1>3. QED
  BY <1>1, <1>2 DEF Sharing

(* An entry that is fit to run does no wrong.                              *)
LEMMA NoFault ==
  ASSUME NEW s, NEW L, Fit(s, L, env, owns, gone)
  PROVE  Fault(s) = "none"
<1>1. /\ s.expr \in Expr /\ Uses(s.expr) \subseteq Known(s.pre) /\ s.pre \in Table
      /\ Moves(s.expr) \subseteq Uses(s.expr)
      /\ \A v \in Moves(s.expr) : s.pre[v] = "Owned"
      /\ \A v \in Uses(s.expr) : s.pre[v] # "Consumed"
  BY FitFacts
<1>2. Describes(s.pre, env, owns, gone) /\ GentleExpr(s.expr, s.pre, L) /\ GentleUses(s)
  BY DEF Fit, GentleEntry
<1>3. \A v \in Uses(s.expr) : env[v] \notin gone
  BY <1>1, <1>2 DEF Describes
<1>4. ASSUME NEW i \in DOMAIN s.expr.args, NEW j \in DOMAIN s.expr.args, i < j,
             s.expr.args[i].own = "o", env[s.expr.args[i].var] = env[s.expr.args[j].var]
      PROVE  FALSE
  <2>1. s.expr.args[i].var \in Moves(s.expr) /\ s.expr.args[j].var \in Uses(s.expr)
    BY <1>4 DEF Moves, Uses
  <2>2. s.expr.args[j].var = s.expr.args[i].var
    BY <1>1, <1>4, <2>1, GivenAlone
  <2>3. i = j
    BY <1>2, <2>2 DEF GentleExpr
  <2>4. i \in Nat /\ j \in Nat
    BY <1>1, ArgListFacts
  <2>5. QED
    BY <1>4, <2>3, <2>4
<1>5. ~ UsesMoved(s.expr)
  BY <1>3, <1>4 DEF UsesMoved
<1>6. \A v \in Moves(s.expr) : v \in owns
  BY <1>1, <1>2 DEF Describes
<1>7. ~ (s.op = "return" /\ Copies(s.expr) /\ ~ Uses(s.expr) \subseteq owns)
  <2>1. SUFFICES ASSUME s.op = "return", Copies(s.expr), NEW v \in Uses(s.expr) PROVE v \in owns
    OBVIOUS
  <2>2. s.pre[v] # "Borrowed" /\ s.pre[v] # "Consumed" /\ v \in Known(s.pre)
    BY <1>1, <1>2, <2>1 DEF GentleUses
  <2>3. s.pre[v] = "Owned"
    BY <1>1, <2>2 DEF Table, Status, Known
  <2>4. QED
    BY <1>2, <2>2, <2>3 DEF Describes
<1>8. QED
  BY <1>5, <1>6, <1>7 DEF Fault

(* The objects after an entry has run.                                     *)
LEMMA ReboundFacts ==
  ASSUME NEW s, NEW L, NEW en, NEW ow, NEW go, Fit(s, L, en, ow, go),
         NEW o, Binding(s, en, o), NEW en2, en2 = Rebound(s, en, o)
  PROVE  /\ IsBinder(s) => en2[s.var] = o /\ o \in Obj
         /\ \A v \in Vars : ~ (IsBinder(s) /\ v = s.var) => en2[v] = en[v] /\ en[v] \in Obj
         /\ o # 0 <=> IsBinder(s)
<1>1. en \in [Vars -> Obj] /\ (IsBinder(s) => s.var \in Vars) /\ s.expr \in Expr
  <2>1. en \in [Vars -> Obj]
    BY DEF Fit
  <2>2. (IsBinder(s) => s.var \in Vars) /\ s.expr \in Expr
    BY FitFacts
  <2>3. QED
    BY <2>1, <2>2
<1>2. 0 \notin Obj
  BY ObjectsAre
<1>3. Uses(s.expr) \subseteq Vars
  BY <1>1, ArgListFacts
<1>4. IsBinder(s) => o \in Obj
  BY <1>1, <1>3 DEF Binding
<1>5. o # 0 <=> IsBinder(s)
  BY <1>2, <1>4 DEF Binding
<1>6. CASE IsBinder(s)
  <2>1. en2 = [en EXCEPT ![s.var] = o]
    BY <1>5, <1>6 DEF Rebound
  <2>2. QED
    BY <1>1, <1>4, <1>5, <1>6, <2>1
<1>7. CASE ~ IsBinder(s)
  <2>1. en2 = en
    BY <1>5, <1>7 DEF Rebound
  <2>2. QED
    BY <1>1, <1>5, <1>7, <2>1
<1>8. QED
  BY <1>6, <1>7

LEMMA RunsDescribed ==
  ASSUME NEW s, NEW L, NEW en, NEW ow, NEW go, Fit(s, L, en, ow, go),
         NEW o, Binding(s, en, o), NEW en2, en2 = Rebound(s, en, o)
  PROVE  Describes(After(s), en2, Owning(s, ow, o), Giving(s, en, go, o))
<1>1. /\ s.expr \in Expr /\ s.pre \in Table
      /\ Uses(s.expr) \subseteq Known(s.pre) /\ Moves(s.expr) \subseteq Uses(s.expr)
      /\ \A v \in Uses(s.expr) : s.pre[v] # "Consumed"
      /\ Copies(s.expr) => Moves(s.expr) = {}
      /\ IsBinder(s) /\ Copies(s.expr) /\ s.op # "for" => s.op = "let"
  BY FitFacts
<1>2. Describes(s.pre, en, ow, go)
  BY DEF Fit
<1>3. /\ IsBinder(s) => en2[s.var] = o /\ o \in Obj
      /\ \A v \in Vars : ~ (IsBinder(s) /\ v = s.var) => en2[v] = en[v] /\ en[v] \in Obj
      /\ o # 0 <=> IsBinder(s)
  BY ReboundFacts
<1>4. PICK go2, ow2, T : go2 = Giving(s, en, go, o) /\ ow2 = Owning(s, ow, o) /\ T = After(s)
  OBVIOUS
<1>5. SUFFICES ASSUME NEW v \in Known(T)
               PROVE  /\ (T[v] = "Consumed") <=> en2[v] \in go2
                      /\ T[v] = "Owned" => v \in ow2
                      /\ T[v] = "Borrowed" => v \notin ow2
  BY <1>4 DEF Describes
<1>6. v \in Vars /\ T[v] # "absent"
      /\ T[v] = IF IsBinder(s) /\ v = s.var THEN (IF s.op = "let" THEN "Borrowed" ELSE "Owned")
                ELSE IF v \in Moves(s.expr) THEN "Consumed" ELSE s.pre[v]
  BY <1>4, <1>5, AfterOf DEF Known
<1>7. CASE IsBinder(s) /\ v = s.var
  <2>1. T[v] = IF s.op = "let" THEN "Borrowed" ELSE "Owned"
    BY <1>6, <1>7
  <2>2. ow2 = IF s.op = "let" THEN ow \ {s.var} ELSE ow \cup {s.var}
    BY <1>3, <1>4, <1>7 DEF Owning
  <2>3. o \notin go2
    <3>1. CASE Copies(s.expr) /\ s.op # "for"
      <4>1. PICK w \in Uses(s.expr) : o = en[w]
        BY <1>7, <3>1 DEF Binding
      <4>2. w \in Known(s.pre) /\ s.pre[w] # "Consumed"
        BY <1>1
      <4>3. en[w] \notin go
        BY <1>2, <4>2 DEF Describes
      <4>4. go2 = go
        BY <1>1, <1>4, <3>1 DEF Giving
      <4>5. QED
        BY <4>1, <4>3, <4>4
    <3>2. CASE ~ (Copies(s.expr) /\ s.op # "for")
      BY <1>4, <3>2 DEF Giving
    <3>3. QED
      BY <3>1, <3>2
  <2>4. QED
    BY <1>3, <1>7, <2>1, <2>2, <2>3
<1>8. CASE ~ (IsBinder(s) /\ v = s.var)
  <2>1. en2[v] = en[v] /\ en[v] \in Obj
    BY <1>3, <1>6, <1>8
  <2>2. v \in ow2 <=> v \in ow
    <3>1. CASE IsBinder(s)
      BY <1>3, <1>4, <1>8, <3>1 DEF Owning
    <3>2. CASE ~ IsBinder(s)
      BY <1>3, <1>4, <3>2 DEF Owning
    <3>3. QED
      BY <3>1, <3>2
  <2>3. v \in Known(s.pre)
    BY <1>1, <1>6, <1>8 DEF Known
  <2>4. en[v] \in go2 <=> (en[v] \in go \/ \E w \in Moves(s.expr) : en[w] = en[v])
    <3>1. CASE Copies(s.expr) /\ s.op # "for"
      BY <1>4, <3>1 DEF Giving
    <3>2. CASE ~ (Copies(s.expr) /\ s.op # "for")
      <4>1. go2 = (go \cup {en[w] : w \in Moves(s.expr)}) \ {o}
        BY <1>4, <3>2 DEF Giving
      <4>2. en[v] # o
        <5>1. CASE IsBinder(s)
          BY <1>6, <1>8, <3>2, <5>1 DEF Binding
        <5>2. CASE ~ IsBinder(s)
          BY <1>3, <2>1, <5>2, ObjectsAre
        <5>3. QED
          BY <5>1, <5>2
      <4>3. QED
        BY <4>1, <4>2
    <3>3. QED
      BY <3>1, <3>2
  <2>5. (\E w \in Moves(s.expr) : en[w] = en[v]) <=> v \in Moves(s.expr)
    BY <2>3, GivenAlone
  <2>6. /\ (s.pre[v] = "Consumed") <=> en[v] \in go
        /\ s.pre[v] = "Owned" => v \in ow
        /\ s.pre[v] = "Borrowed" => v \notin ow
    BY <1>2, <2>3 DEF Describes
  <2>7. QED
    BY <1>6, <1>8, <2>1, <2>2, <2>4, <2>5, <2>6
<1>9. QED
  BY <1>7, <1>8

LEMMA RunsShared ==
  ASSUME NEW s, NEW L, NEW en, NEW ow, NEW go, Fit(s, L, en, ow, go),
         NEW o, Binding(s, en, o), NEW en2, en2 = Rebound(s, en, o),
         NEW L2, L \subseteq L2, \A v \in Vars : Lends(s, v) => v \in L2
  PROVE  Sharing(After(s), L2, en2)
<1>1. /\ s.expr \in Expr /\ s.pre \in Table
      /\ Uses(s.expr) \subseteq Known(s.pre) /\ Moves(s.expr) \subseteq Uses(s.expr)
      /\ \A v \in Moves(s.expr) : s.pre[v] = "Owned" /\ v \notin L
      /\ Copies(s.expr) => Moves(s.expr) = {}
      /\ IsBinder(s) /\ Copies(s.expr) /\ s.op # "for" => s.op = "let"
  BY FitFacts
<1>2. Sharing(s.pre, L, en)
  BY DEF Fit
<1>3. /\ IsBinder(s) => en2[s.var] = o /\ o \in Obj
      /\ \A v \in Vars : ~ (IsBinder(s) /\ v = s.var) => en2[v] = en[v] /\ en[v] \in Obj
  BY ReboundFacts
<1>4. PICK T : T = After(s)
  OBVIOUS
<1>5. SUFFICES ASSUME NEW v \in Known(T), NEW w \in Known(T), v # w, en2[v] = en2[w]
               PROVE  T[v] = "Borrowed" \/ v \in L2
  BY <1>4 DEF Sharing
<1>6. ASSUME NEW x \in Known(T)
      PROVE  /\ x \in Vars
             /\ IsBinder(s) /\ x = s.var => T[x] = IF s.op = "let" THEN "Borrowed" ELSE "Owned"
             /\ ~ (IsBinder(s) /\ x = s.var) =>
                  /\ x \in Known(s.pre)
                  /\ T[x] = IF x \in Moves(s.expr) THEN "Consumed" ELSE s.pre[x]
  <2>1. x \in Vars /\ T[x] # "absent"
        /\ T[x] = IF IsBinder(s) /\ x = s.var THEN (IF s.op = "let" THEN "Borrowed" ELSE "Owned")
                  ELSE IF x \in Moves(s.expr) THEN "Consumed" ELSE s.pre[x]
    BY <1>4, <1>6, AfterOf DEF Known
  <2>2. QED
    BY <1>1, <2>1 DEF Known
<1>7. CASE ~ (IsBinder(s) /\ v = s.var) /\ ~ (IsBinder(s) /\ w = s.var)
  <2>1. en[v] = en[w] /\ v \in Known(s.pre) /\ w \in Known(s.pre)
    BY <1>3, <1>5, <1>6, <1>7
  <2>2. s.pre[v] = "Borrowed" \/ v \in L
    BY <1>2, <1>5, <2>1 DEF Sharing
  <2>3. v \notin Moves(s.expr)
    BY <1>1, <2>2
  <2>4. T[v] = s.pre[v]
    BY <1>6, <1>7, <2>3
  <2>5. QED
    BY <2>2, <2>4
<1>8. CASE IsBinder(s) /\ (v = s.var \/ w = s.var) /\ ~ (Copies(s.expr) /\ s.op # "for")
  <2>1. \A x \in Vars \ {s.var} : en[x] # o
    BY <1>8 DEF Binding
  <2>2. QED
    BY <1>3, <1>5, <1>6, <1>8, <2>1
<1>9. CASE IsBinder(s) /\ v = s.var /\ Copies(s.expr) /\ s.op # "for"
  BY <1>1, <1>6, <1>9
<1>10. CASE IsBinder(s) /\ w = s.var /\ Copies(s.expr) /\ s.op # "for"
  <2>1. PICK u \in Uses(s.expr) : o = en[u]
    BY <1>10 DEF Binding
  <2>2. v # s.var /\ v \in Known(s.pre) /\ en[v] = en[u] /\ u \in Known(s.pre)
    BY <1>1, <1>3, <1>5, <1>6, <1>10, <2>1
  <2>3. CASE v = u
    <3>1. Lends(s, v)
      BY <1>1, <1>10, <2>1, <2>3 DEF Lends
    <3>2. QED
      BY <1>6, <3>1
  <2>4. CASE v # u
    <3>1. s.pre[v] = "Borrowed" \/ v \in L
      BY <1>2, <2>2, <2>4 DEF Sharing
    <3>2. T[v] = s.pre[v]
      BY <1>1, <1>6, <1>10, <2>2
    <3>3. QED
      BY <3>1, <3>2
  <2>5. QED
    BY <2>3, <2>4
<1>11. QED
  BY <1>7, <1>8, <1>9, <1>10

(* What was known before is shared as it was, if the entry binds no name   *)
(* that was known.                                                         *)
LEMMA SharedAround ==
  ASSUME NEW s, NEW L, NEW en, NEW ow, NEW go, Fit(s, L, en, ow, go),
         NEW o, Binding(s, en, o), NEW en2, en2 = Rebound(s, en, o), Adds(s),
         NEW T, NEW L0, Known(T) \subseteq Known(s.pre), Sharing(T, L0, en)
  PROVE  Sharing(T, L0, en2)
<1>1. \A v \in Known(T) : ~ (IsBinder(s) /\ v = s.var)
  BY DEF Known, Adds
<1>2. \A v \in Known(T) : v \in Vars
  BY DEF Known
<1>3. \A v \in Known(T) : en2[v] = en[v]
  BY <1>1, <1>2, ReboundFacts
<1>4. QED
  BY <1>3 DEF Sharing

(* Execution at entry i: the table there describes it, and in the loops    *)
(* around i nothing known before them has come to be shared.               *)
At(p, i, en, ow, go) ==
  /\ Describes(p[i].pre, en, ow, go) /\ Sharing(p[i].pre, LentUpTo(p, i), en)
  /\ \A o \in 1 .. Len(p) : IsLoop(p[o]) /\ Block(p, o, i) =>
       Sharing(p[o].pre, LentUpTo(p, o), en)

(* A walk without a report, whose ownership the rules look at.             *)
Sound(p, t) ==
  /\ Done(p) /\ Scopes(p, t) /\ Follows(p, t) /\ AllNamed(p)
  /\ Gentle(p) /\ Clean(p) /\ LoopsKeep(p, t) /\ Joins(p, t)

LEMMA FitAt ==
  ASSUME NEW p, NEW t, Sound(p, t), NEW i \in 1 .. Len(p), NEW en, NEW ow, NEW go,
         en \in [Vars -> Obj], ow \subseteq Vars, go \subseteq Obj, At(p, i, en, ow, go)
  PROVE  Fit(p[i], LentUpTo(p, i), en, ow, go)
<1>1. p \in Seq(EntryType)
  BY DEF Sound, Done
<1>2. p[i] \in EntryType /\ GentleEntry(p[i], LentUpTo(p, i)) /\ p[i].codes = {} /\ Named(p[i])
  BY <1>1, EntryFields DEF Sound, Gentle, Clean, AllNamed
<1>3. GentleUses(p[i])
  BY <1>2 DEF GentleEntry
<1>4. QED
  BY <1>2, <1>3 DEF Fit, At

LEMMA AtNext ==
  ASSUME NEW p, NEW t, Sound(p, t), NEW i \in 1 .. Len(p), NEW en, NEW ow, NEW go,
         en \in [Vars -> Obj], ow \subseteq Vars, go \subseteq Obj, At(p, i, en, ow, go),
         NEW o, Binding(p[i], en, o), NEW j \in 1 .. Len(p), Goes(p, i, j)
  PROVE  At(p, j, Rebound(p[i], en, o), Owning(p[i], ow, o), Giving(p[i], en, go, o))
<1>1. PICK en2, ow2, go2 :
        en2 = Rebound(p[i], en, o) /\ ow2 = Owning(p[i], ow, o) /\ go2 = Giving(p[i], en, go, o)
  OBVIOUS
<1>2. PICK s, L : s = p[i] /\ L = LentUpTo(p, i)
  OBVIOUS
<1>3. Fit(s, L, en, ow, go)
  BY <1>2, FitAt
<1>4. Done(p) /\ Len(p) \in Nat /\ p \in Seq(EntryType)
  BY DoneFacts DEF Sound, Done
<1>5. \A v \in Known(p[j].pre) : After(s)[v] = p[j].pre[v] /\ v \in Known(After(s))
  <2>1. \A v \in Known(p[j].pre) : After(s)[v] = p[j].pre[v]
    BY <1>2, GoesBelow DEF Sound
  <2>2. QED
    BY <2>1 DEF Known
<1>6. Describes(p[j].pre, en2, ow2, go2)
  <2>1. Describes(After(s), en2, ow2, go2)
    BY <1>1, <1>2, <1>3, RunsDescribed
  <2>2. QED
    BY <1>5, <2>1 DEF Describes
<1>7. ASSUME NEW k \in 1 .. Len(p), IsLoop(p[k]), k = i \/ Block(p, k, i)
      PROVE  Sharing(p[k].pre, LentUpTo(p, k), en2)
  <2>1. Sharing(p[k].pre, LentUpTo(p, k), en)
    BY <1>7 DEF At
  <2>2. Known(p[k].pre) \subseteq Known(s.pre)
    <3>1. CASE k = i
      BY <1>2, <3>1
    <3>2. CASE Block(p, k, i)
      <4>1. Before(p, t, i) = s.pre /\ i \in 1 .. Len(p) + 1
        BY <1>2, <1>4 DEF Before
      <4>2. QED
        BY <3>2, <4>1 DEF Sound, Scopes
    <3>3. QED
      BY <1>7, <3>1, <3>2
  <2>3. Adds(s)
    <3>1. CASE k = i
      BY <1>2, <1>7, <1>3, <3>1, OpenersAdd DEF IsLoop, IsOpener, Fit
    <3>2. CASE Block(p, k, i)
      <4>1. CASE IsDivider(s)
        BY <4>1 DEF IsDivider, Adds, IsBinder
      <4>2. CASE ~ IsDivider(s)
        <5>1. s.depth > p[k].depth /\ p[k].depth \in Nat
          BY <1>2, <1>4, <3>2, <4>2, DoneFacts DEF Done, Nests
        <5>2. QED
          BY <1>3, <5>1 DEF Fit, GentleEntry, GentleBinder
      <4>3. QED
        BY <4>1, <4>2
    <3>3. QED
      BY <1>7, <3>1, <3>2
  <2>4. QED
    BY <1>1, <1>2, <1>3, <2>1, <2>2, <2>3, SharedAround
<1>8. \A k \in 1 .. Len(p) : IsLoop(p[k]) /\ Block(p, k, j) => Sharing(p[k].pre, LentUpTo(p, k), en2)
  <2>1. \A k \in 1 .. Len(p) : Block(p, k, j) => k = i \/ Block(p, k, i)
    BY <1>4, GoesKeepsLoops
  <2>2. QED
    BY <1>7, <2>1
<1>9. Sharing(p[j].pre, LentUpTo(p, j), en2)
  <2>1. CASE j > i
    <3>1. PICK L2 : L2 = LentUpTo(p, j)
      OBVIOUS
    <3>2. L \subseteq L2 /\ \A v \in Vars : Lends(s, v) => v \in L2
      <4>1. i \in 1 .. j - 1 /\ \A k \in 1 .. i - 1 : k \in 1 .. j - 1
        BY <1>4, <2>1
      <4>2. QED
        BY <1>2, <3>1, <4>1 DEF LentUpTo
    <3>3. Sharing(After(s), L2, en2)
      BY <1>1, <1>2, <1>3, <3>2, RunsShared
    <3>4. QED
      BY <1>5, <3>1, <3>3 DEF Sharing
  <2>2. CASE IsLoop(p[j]) /\ Block(p, j, i)
    BY <1>7, <2>2
  <2>3. QED
    BY <1>4, <2>1, <2>2, GoesOn
<1>10. QED
  BY <1>1, <1>6, <1>8, <1>9 DEF At

-----------------------------------------------------------------------------
(* The invariant of walk and execution.                                    *)
Untouched(T) ==
  /\ fault = "none" /\ gone = {} /\ IsInjective(env)
  /\ \A v \in Vars : T[v] # "Consumed" /\ (v \in owns <=> T[v] = "Owned")
RunSound ==
  /\ hidden = {}
  /\ phase = "walk" => Untouched(Before(prog, table, 1))
  /\ phase = "run" /\ Clean(prog) =>
       fault = "none" /\ (pc \in 1 .. Len(prog) => At(prog, pc, env, owns, gone))
SoundInv == TypeInv /\ WalkSound /\ RunSound

LEMMA SoundBegins == ASSUME OInit PROVE SoundInv
<1>1. TypeInv /\ WalkSound
  BY TypesBegin, WalkBegins DEF OInit
<1>2. /\ prog = <<>> /\ phase = "walk" /\ table \in Params /\ fault = "none" /\ gone = {}
      /\ hidden = {} /\ owns = {v \in Vars : table[v] = "Owned"} /\ IsInjective(env)
  BY InitialObjects DEF OInit, WalkInit, RunInit
<1>3. \A v \in Vars : table[v] # "Consumed"
  BY <1>2, ParamAssumption
<1>4. Before(prog, table, 1) = table
  <2>1. PICK p : p = prog
    OBVIOUS
  <2>2. Len(p) = 0
    BY <1>2, <2>1
  <2>3. QED
    BY <2>1, <2>2 DEF Before
<1>5. Untouched(table)
  BY <1>2, <1>3 DEF Untouched
<1>6. QED
  BY <1>1, <1>2, <1>4, <1>5 DEF SoundInv, RunSound

LEMMA StartSound == ASSUME SoundInv, Start PROVE RunSound'
<1>1. /\ phase = "walk" /\ frames = <<>> /\ prog # <<>> /\ phase' = "run" /\ pc' = 1
      /\ UNCHANGED <<table, frames, prog, env, owns, gone, hidden, fault>>
  BY DEF Start
<1>2. PICK p, T : p = prog /\ T = Before(prog, table, 1)
  OBVIOUS
<1>3. WalkShape /\ Untouched(T) /\ env \in [Vars -> Obj]
  BY <1>1, <1>2 DEF SoundInv, TypeInv, WalkOrder, RunSound, RunTypes
<1>4. p \in Seq(EntryType) /\ Len(p) \in Nat /\ p # <<>>
  BY <1>1, <1>2, <1>3, ShapeTypes
<1>5. 1 \in 1 .. Len(p)
  BY <1>4, EmptySeq
<1>6. T = p[1].pre
  BY <1>2, <1>5 DEF Before
<1>7. Describes(T, env, owns, gone)
  BY <1>3 DEF Describes, Untouched, Known
<1>8. Sharing(T, LentUpTo(p, 1), env)
  BY <1>3 DEF Sharing, Untouched, Known, IsInjective
<1>9. ASSUME NEW o \in 1 .. Len(p) PROVE ~ Block(p, o, 1)
  BY DEF Block
<1>10. At(p, 1, env, owns, gone)
  BY <1>6, <1>7, <1>8, <1>9 DEF At
<1>11. fault' = "none"
  BY <1>1, <1>3 DEF Untouched
<1>12. At(prog', pc', env', owns', gone')
  BY <1>1, <1>2, <1>10
<1>13. QED
  BY <1>1, <1>11, <1>12 DEF RunSound, SoundInv

LEMMA WalkUntouched ==
  ASSUME SoundInv, Walk, UNCHANGED runVars, phase' = phase
  PROVE  RunSound'
<1>1. phase = "walk"
  BY DEF Walk
<1>2. WalkShape
  BY DEF SoundInv, TypeInv, WalkOrder
<1>3. PICK s : IsStep(s)
  BY <1>2, WalkSteps
<1>4. PICK p, t, p2, t2 : p = prog /\ t = table /\ p2 = prog' /\ t2 = table'
  OBVIOUS
<1>5. p \in Seq(EntryType) /\ Grown(p, p2, s) /\ Notes(s, t)
  BY <1>3, <1>4 DEF IsStep, Straight, Opening, Dividing, Closing, Enters
<1>6. 1 \in 1 .. Len(p) + 1
  BY <1>5, GrownFacts
<1>7. Before(p2, t2, 1) = Before(p, t, 1)
  BY <1>5, <1>6, BeforeGrows
<1>8. PICK T : T = Before(p, t, 1)
  OBVIOUS
<1>9. Untouched(T)
  BY <1>1, <1>4, <1>8 DEF SoundInv, RunSound
<1>10. Untouched(T)'
  BY <1>9 DEF Untouched, runVars
<1>11. phase' = "walk"
  BY <1>1
<1>12. Before(prog', table', 1) = T
  BY <1>4, <1>7, <1>8
<1>13. QED
  BY <1>10, <1>11, <1>12 DEF RunSound, Untouched, SoundInv, runVars

(* A gentle body hides nothing.                                            *)
LEMMA HidesNothing ==
  ASSUME NEW s \in EntryType, GentleBinder(s)
  PROVE  Hides(s) = {}
<1>1. SUFFICES ASSUME s.op \in {"const", "let", "var", "for"}, s.pre[s.var] # "absent",
                      Scope(s) # 0
               PROVE  FALSE
  BY DEF Hides
<1>2. s.depth # 0 \/ s.op = "for"
  BY <1>1 DEF Scope
<1>3. QED
  BY <1>1, <1>2 DEF GentleBinder, Adds, IsBinder

LEMMA MeansPlain ==
  ASSUME NEW en \in [Vars -> Obj], NEW ow, ow \subseteq Vars, NEW left, left = {},
         Means(left, en, ow)
  PROVE  env' = en /\ owns' = ow
<1>1. \A v \in Vars : Seen(left, v) = {}
  BY DEF Seen
<1>2. env' = [v \in Vars |-> en[v]] /\ owns' = {v \in Vars : v \in ow}
  BY <1>1 DEF Means
<1>3. QED
  BY <1>2

LEMMA BindsToBinding ==
  ASSUME NEW s, NEW o \in Obj \cup {0}, BindsTo(s, o), env \in [Vars -> Obj],
         hidden = {}, Hides(s) = {}
  PROVE  Binding(s, env, o)
<1>1. CASE ~ IsBinder(s)
  BY <1>1 DEF BindsTo, Binding, IsBinder
<1>2. CASE IsBinder(s) /\ Copies(s.expr) /\ s.op # "for"
  <2>1. o \in {env[v] : v \in Uses(s.expr)}
    BY <1>2 DEF BindsTo, IsBinder
  <2>2. QED
    BY <1>2, <2>1 DEF Binding
<1>3. CASE IsBinder(s) /\ ~ (Copies(s.expr) /\ s.op # "for")
  <2>1. o = CHOOSE n \in Obj : /\ \A v \in Vars \ {s.var} : env[v] # n
                               /\ \A h \in hidden \cup Hides(s) : h.obj # n
    BY <1>3 DEF BindsTo, IsBinder
  <2>2. \E n \in Obj : /\ \A v \in Vars \ {s.var} : env[v] # n
                        /\ \A h \in hidden \cup Hides(s) : h.obj # n
    <3>1. PICK n \in Obj : \A v \in Vars : env[v] # n
      BY FreshObject
    <3>2. \A h \in hidden \cup Hides(s) : h.obj # n
      OBVIOUS
    <3>3. QED
      BY <3>1, <3>2
  <2>3. o \in Obj /\ \A v \in Vars \ {s.var} : env[v] # o
    BY <2>1, <2>2
  <2>4. QED
    BY <1>3, <2>3 DEF Binding
<1>4. QED
  BY <1>1, <1>2, <1>3

LEMMA ExecuteIs ==
  ASSUME SoundInv, Execute, NEW s, s = Now
  PROVE  /\ hidden' = {}
         /\ \E next \in Range(Successors(prog, pc)), o \in Obj \cup {0} :
              /\ Binding(s, env, o) /\ pc' = next
              /\ gone' = Giving(s, env, gone, o)
              /\ env' = Rebound(s, env, o) /\ owns' = Owning(s, owns, o)
<1>1. /\ frames = <<>> /\ AllNamed(prog) /\ env \in [Vars -> Obj] /\ owns \subseteq Vars
      /\ hidden = {} /\ Gentle(prog) /\ pc \in DOMAIN prog
  BY DEF Execute, SoundInv, TypeInv, RunTypes, RunSound, WalkSound
<1>2. Done(prog)
  BY <1>1, DoneShape DEF SoundInv, TypeInv, WalkOrder, WalkShape
<1>3. pc \in 1 .. Len(prog) /\ prog \in Seq(EntryType)
  BY <1>1, <1>2, DoneFacts DEF Done
<1>4. s \in EntryType /\ Named(s) /\ GentleBinder(s)
  BY <1>1, <1>3, EntryFields DEF Now, AllNamed, Gentle, GentleEntry
<1>5. Hides(s) = {}
  BY <1>4, HidesNothing
<1>6. PICK next, o, kept, left, en, ow :
        /\ next \in Range(Successors(prog, pc)) /\ o \in Obj \cup {0}
        /\ BindsTo(s, o) /\ pc' = next
        /\ gone' = (gone \cup Given(s.expr)) \
                   (IF Copies(s.expr) /\ s.op # "for" THEN {} ELSE {o})
        /\ kept = hidden \cup Hides(s) /\ left = {h \in kept : h.depth > DepthAt(next)}
        /\ hidden' = kept \ left
        /\ en = Rebound(s, env, o) /\ ow = Owning(s, owns, o) /\ Means(left, en, ow)
  BY DEF Execute
<1>7. kept = {} /\ left = {} /\ hidden' = {}
  BY <1>1, <1>5, <1>6
<1>8. o # 0 => s.var \in Vars
  BY <1>4, <1>6 DEF BindsTo, Named, IsBinder
<1>9. en \in [Vars -> Obj] /\ ow \subseteq Vars
  BY <1>1, <1>6, <1>8, ReboundTyped
<1>10. env' = en /\ owns' = ow
  BY <1>6, <1>7, <1>9, MeansPlain
<1>11. Binding(s, env, o)
  BY <1>1, <1>5, <1>6, BindsToBinding
<1>12. gone' = Giving(s, env, gone, o)
  BY <1>6 DEF Giving, Given
<1>13. QED
  BY <1>6, <1>7, <1>10, <1>11, <1>12

LEMMA SoundWhenDone ==
  ASSUME WalkOrder, WalkSound, AllNamed(prog), frames = <<>>, Clean(prog)
  PROVE  Sound(prog, table)
<1>1. Shape(prog, table, <<>>) /\ Follows(prog, table)
  BY DEF WalkOrder, WalkShape
<1>2. Done(prog) /\ Scopes(prog, table)
  BY <1>1, DoneShape DEF Shape
<1>3. Gentle(prog) /\ LoopsKeep(prog, table) /\ Joins(prog, table)
  BY DEF WalkSound, SoundTable
<1>4. QED
  BY <1>1, <1>2, <1>3 DEF Sound

LEMMA ExecuteSound == ASSUME SoundInv, Execute PROVE RunSound'
<1>1. /\ phase = "run" /\ fault = "none" /\ pc \in DOMAIN prog /\ frames = <<>>
      /\ env \in [Vars -> Obj] /\ owns \subseteq Vars /\ gone \subseteq Obj /\ AllNamed(prog)
      /\ UNCHANGED <<table, frames, prog, phase>>
  BY DEF Execute, SoundInv, TypeInv, RunTypes, walkVars
<1>2. SUFFICES ASSUME Clean(prog)
               PROVE  fault' = "none" /\ (pc' \in 1 .. Len(prog) =>
                                            At(prog, pc', env', owns', gone'))
  <2>1. hidden' = {}
    BY ExecuteIs
  <2>2. QED
    BY <1>1, <2>1 DEF RunSound
<1>3. Sound(prog, table)
  BY <1>1, <1>2, SoundWhenDone DEF SoundInv, TypeInv
<1>4. PICK p, t, i, en, ow, go :
        p = prog /\ t = table /\ i = pc /\ en = env /\ ow = owns /\ go = gone
  OBVIOUS
<1>5. Done(p) /\ i \in 1 .. Len(p)
  BY <1>1, <1>3, <1>4, DoneFacts DEF Sound
<1>6. At(p, i, en, ow, go)
  BY <1>1, <1>2, <1>4, <1>5 DEF SoundInv, RunSound
<1>7. PICK s : s = p[i]
  OBVIOUS
<1>8. Now = s
  BY <1>4, <1>7 DEF Now
<1>9. fault' = "none"
  <2>1. Fit(s, LentUpTo(p, i), en, ow, go)
    BY <1>1, <1>3, <1>4, <1>5, <1>6, <1>7, FitAt
  <2>2. Fault(s) = "none"
    BY <1>4, <2>1, NoFault
  <2>3. QED
    BY <1>8, <2>2 DEF Execute
<1>10. PICK next \in Range(Successors(prog, pc)), o \in Obj \cup {0} :
         /\ Binding(s, en, o) /\ pc' = next
         /\ env' = Rebound(s, en, o) /\ owns' = Owning(s, ow, o) /\ gone' = Giving(s, en, go, o)
  BY <1>4, <1>8, ExecuteIs
<1>11. Goes(p, i, next)
  BY <1>4, <1>5, <1>10, SuccessorsGo
<1>12. ASSUME pc' \in 1 .. Len(prog)
       PROVE  At(prog, pc', env', owns', gone')
  <2>1. next \in 1 .. Len(p)
    BY <1>4, <1>10, <1>12
  <2>2. At(p, next, Rebound(s, en, o), Owning(s, ow, o), Giving(s, en, go, o))
    BY <1>1, <1>3, <1>4, <1>5, <1>6, <1>7, <1>10, <1>11, <2>1, AtNext
  <2>3. QED
    BY <1>4, <1>10, <2>2
<1>13. QED
  BY <1>9, <1>12

LEMMA SoundStays == ASSUME Tame, SoundInv, [ONext]_allVars PROVE SoundInv'
<1>1. TypeInv'
  BY TypesStay DEF SoundInv
<1>2. CASE Walk /\ UNCHANGED runVars
  <2>1. WalkSound'
    BY <1>2, WalkKeepsSound DEF SoundInv, TypeInv
  <2>2. phase' = phase
    BY <1>2 DEF Walk, Bind, Const, Let, Var, Assign, For, ExprStmt, SetField, Return, If,
                Loop, Open, Else, EndIf, EndLoop, EndFor, Jump, Plain, Close
  <2>3. RunSound'
    BY <1>2, <2>2, WalkUntouched
  <2>4. QED
    BY <1>1, <2>1, <2>3 DEF SoundInv
<1>3. CASE Start
  <2>1. WalkSound'
    BY <1>3 DEF Start, SoundInv, WalkSound
  <2>2. QED
    BY <1>1, <1>3, <2>1, StartSound DEF SoundInv
<1>4. CASE Execute
  <2>1. WalkSound'
    BY <1>4 DEF Execute, walkVars, SoundInv, WalkSound
  <2>2. QED
    BY <1>1, <1>4, <2>1, ExecuteSound DEF SoundInv
<1>5. CASE UNCHANGED allVars
  <2>1. UNCHANGED <<table, frames, prog, phase, pc, env, owns, gone, hidden, fault>>
    BY <1>5 DEF allVars, walkVars, runVars
  <2>2. QED
    BY <1>1, <2>1 DEF SoundInv, WalkSound, RunSound, Untouched
<1>6. QED
  BY <1>2, <1>3, <1>4, <1>5 DEF ONext

LEMMA AcceptedIsClean == ASSUME TypeInv PROVE Accepted <=> Clean(prog)
<1>1. DOMAIN prog = 1 .. Len(prog)
  BY ShapeTypes, LenProperties DEF TypeInv, WalkOrder
<1>2. QED
  BY <1>1 DEF Accepted, Clean

LEMMA SoundInvIsClean == ASSUME SoundInv PROVE AcceptedRunsClean
<1>1. Accepted <=> Clean(prog)
  BY AcceptedIsClean DEF SoundInv
<1>2. phase = "walk" \/ phase = "run"
  BY DEF SoundInv, TypeInv, RunTypes
<1>3. QED
  BY <1>1, <1>2 DEF AcceptedRunsClean, SoundInv, RunSound, Untouched

LEMMA SoundInvDescribes == ASSUME SoundInv PROVE TableDescribesRun
<1>1. SUFFICES ASSUME Ran, Accepted, NEW v \in Vars, Now.pre[v] # "absent"
               PROVE  /\ (Now.pre[v] = "Consumed") <=> env[v] \in gone
                      /\ Now.pre[v] = "Owned" => v \in owns
                      /\ Now.pre[v] = "Borrowed" => v \notin owns
  BY DEF TableDescribesRun
<1>2. Clean(prog) /\ phase = "run" /\ pc \in DOMAIN prog
  BY <1>1, AcceptedIsClean DEF SoundInv, Ran
<1>3. pc \in 1 .. Len(prog)
  BY <1>2, ShapeTypes, LenProperties DEF SoundInv, TypeInv, WalkOrder
<1>4. Describes(prog[pc].pre, env, owns, gone)
  BY <1>2, <1>3 DEF SoundInv, RunSound, At
<1>5. v \in Known(prog[pc].pre)
  BY <1>1 DEF Known, Now
<1>6. QED
  BY <1>4, <1>5 DEF Describes, Now

(* The ownership checker is sound: of bodies of any length and nesting,    *)
(* over any names, parameters and functions, an accepted one uses nothing  *)
(* after giving it away and gives away or returns nothing it only          *)
(* borrowed, whichever branches are taken and however often the loops      *)
(* turn. Tame leaves out the forms of Gaps, with which accepted bodies do: *)
(* among them a name bound again in a block, and moves and uses in the     *)
(* expressions and the places that the walker passes over.                 *)
THEOREM OwnershipIsSound == Tame => (OSpec => []AcceptedRunsClean)
<1>1. SUFFICES ASSUME Tame PROVE OSpec => []AcceptedRunsClean
  OBVIOUS
<1>2. OInit => SoundInv
  BY SoundBegins
<1>3. SoundInv /\ [ONext]_allVars => SoundInv'
  BY <1>1, SoundStays
<1>4. SoundInv => AcceptedRunsClean
  BY SoundInvIsClean
<1>5. QED
  BY <1>2, <1>3, <1>4, PTL DEF OSpec

(* Outside the forms of Gaps the one table the walker keeps before a       *)
(* statement says what holds there on every path: what is consumed is      *)
(* gone, what is owned is owned, what is borrowed is not. A name bound     *)
(* again in a block breaks it: the table after the block is that of the    *)
(* inner object.                                                           *)
THEOREM OneTableForEveryPath == Tame => (OSpec => []TableDescribesRun)
<1>1. SUFFICES ASSUME Tame PROVE OSpec => []TableDescribesRun
  OBVIOUS
<1>2. OInit => SoundInv
  BY SoundBegins
<1>3. SoundInv /\ [ONext]_allVars => SoundInv'
  BY <1>1, SoundStays
<1>4. SoundInv => TableDescribesRun
  BY SoundInvDescribes
<1>5. QED
  BY <1>2, <1>3, <1>4, PTL DEF OSpec

-----------------------------------------------------------------------------
(* The reports are exact.  For this nothing has to be clean: the tables    *)
(* of any walk say too little, never too much, of what is consumed, as     *)
(* long as no loop was reported.                                           *)
Dead(t) == {v \in Vars : t[v] = "Consumed"}

(* What is consumed where the paths around a block meet is so on each.     *)
MeetAt(p, o, e, u) ==
  /\ IsLoop(p[o]) \/ (\A m \in 1 .. Len(p) : ~ ElseOf(p, o, m)) => Dead(u) \subseteq Dead(p[o].pre)
  /\ p[o].op = "if" => Dead(u) \subseteq Dead(p[e].pre)
  /\ \A m \in 1 .. Len(p) : ElseOf(p, o, m) => Dead(u) \subseteq Dead(p[m].pre)
Meets(p, t) ==
  \A o, e \in 1 .. Len(p) : EndOfBlock(p, o, e) /\ "E-OWN-010" \notin p[e].codes =>
    MeetAt(p, o, e, Before(p, t, e + 1))

LEMMA MeetsGrows ==
  ASSUME NEW p \in Seq(EntryType), NEW p2, NEW s, Grown(p, p2, s), NEW t, NEW t2, Notes(s, t),
         Meets(p, t),
         \A o \in 1 .. Len(p) :
           OpenBlock(p, o) /\ s.op = "end" /\ s.depth = p[o].depth /\ "E-OWN-010" \notin s.codes =>
             /\ IsLoop(p[o]) \/ (\A m \in 1 .. Len(p) : ~ ElseOf(p, o, m)) =>
                  Dead(t2) \subseteq Dead(p[o].pre)
             /\ p[o].op = "if" => Dead(t2) \subseteq Dead(t)
             /\ \A m \in 1 .. Len(p) : ElseOf(p, o, m) => Dead(t2) \subseteq Dead(p[m].pre)
  PROVE  Meets(p2, t2)
<1>1. /\ Len(p) \in Nat /\ Len(p2) = Len(p) + 1 /\ p2[Len(p) + 1] = s
      /\ \A i \in 1 .. Len(p) : p2[i] = p[i] /\ i \in 1 .. Len(p2)
  BY GrownFacts
<1>2. SUFFICES ASSUME NEW o \in 1 .. Len(p2), NEW e \in 1 .. Len(p2), EndOfBlock(p2, o, e),
                      "E-OWN-010" \notin p2[e].codes
               PROVE  MeetAt(p2, o, e, Before(p2, t2, e + 1))
  BY DEF Meets
<1>3. o \in 1 .. Len(p) /\ p2[o] = p[o]
  BY <1>1, <1>2 DEF EndOfBlock, Divides, Block
<1>4. \A m \in 1 .. Len(p) : ElseOf(p2, o, m) <=> ElseOf(p, o, m)
  BY <1>3, DividesGrows
<1>5. CASE e \in 1 .. Len(p)
  <2>1. EndOfBlock(p, o, e) /\ p2[e] = p[e] /\ e + 1 \in 1 .. Len(p) + 1
    BY <1>1, <1>2, <1>3, <1>5, DividesGrows
  <2>2. PICK u : u = Before(p, t, e + 1)
    OBVIOUS
  <2>3. Before(p2, t2, e + 1) = u
    BY <2>1, <2>2, BeforeGrows
  <2>4. MeetAt(p, o, e, u)
    BY <1>2, <1>3, <1>5, <2>1, <2>2 DEF Meets
  <2>5. \A m \in 1 .. Len(p2) : ElseOf(p2, o, m) => m \in 1 .. Len(p)
    <3>1. ASSUME ElseOf(p2, o, Len(p) + 1) PROVE FALSE
      <4>1. OpenBlock(p, o)
        BY <1>3, <3>1, DividesGrows DEF ElseOf
      <4>2. p[e].op = "end" /\ p[e].depth = p[o].depth /\ e \in o + 1 .. (Len(p) + 1) - 1
        BY <1>1, <1>3, <1>5, <2>1 DEF EndOfBlock, Divides, Block
      <4>3. QED
        BY <4>1, <4>2 DEF OpenBlock, Block
    <3>2. QED
      BY <1>1, <3>1
  <2>6. MeetAt(p2, o, e, u)
    BY <1>1, <1>3, <1>4, <2>1, <2>4, <2>5 DEF MeetAt
  <2>7. QED
    BY <2>3, <2>6
<1>6. CASE e = Len(p) + 1
  <2>1. OpenBlock(p, o) /\ s.op = "end" /\ s.depth = p[o].depth /\ "E-OWN-010" \notin s.codes
    BY <1>1, <1>2, <1>3, <1>6, DividesGrows DEF EndOfBlock
  <2>2. Before(p2, t2, e + 1) = t2
    <3>1. e + 1 = Len(p) + 2
      BY <1>1, <1>6
    <3>2. QED
      BY <3>1, BeforeNext
  <2>3. \A m \in 1 .. Len(p2) : ElseOf(p2, o, m) => m \in 1 .. Len(p) /\ ElseOf(p, o, m)
    <3>1. ~ ElseOf(p2, o, Len(p) + 1)
      BY <1>1, <2>1 DEF ElseOf
    <3>2. QED
      BY <1>1, <1>4, <3>1
  <2>4. p2[e].pre = t
    BY <1>1, <1>6 DEF Notes
  <2>5. MeetAt(p2, o, e, t2)
    BY <1>1, <1>3, <1>4, <2>1, <2>3, <2>4 DEF MeetAt
  <2>6. QED
    BY <2>2, <2>5
<1>7. QED
  BY <1>1, <1>5, <1>6

(* The table now, for an open block, in any walk.                          *)
LEMMA OpenMoved ==
  ASSUME NEW p, NEW t, NEW fs, Shape(p, t, fs), Moved(p, t),
         NEW o \in 1 .. Len(p), OpenBlock(p, o), NEW v \in Known(p[o].pre)
  PROVE  /\ v \in Known(t) /\ Later(p[o].pre, t, v)
         /\ p[o].depth \in Nat /\ p[o].depth < Len(fs) /\ Len(fs) \in Nat
<1>1. Len(p) \in Nat /\ p \in Seq(EntryType) /\ Scopes(p, t) /\ Framed(p, fs)
      /\ Len(fs) \in Nat
  BY LenProperties DEF Shape
<1>2. Block(p, o, Len(p) + 1) /\ Len(p) + 1 \in 1 .. Len(p) + 1
  BY <1>1 DEF OpenBlock
<1>3. Before(p, t, Len(p) + 1) = t
  BY <1>1 DEF Before
<1>4. v \in Known(t)
  BY <1>1, <1>2, <1>3 DEF Scopes
<1>5. Later(p[o].pre, t, v)
  BY <1>2, <1>3 DEF Moved
<1>6. p[o].depth \in Nat /\ p[o].depth < Len(fs)
  BY <1>1, EntryFields DEF Framed
<1>7. QED
  BY <1>1, <1>4, <1>5, <1>6

LEMMA ForwardMoved ==
  ASSUME NEW p, NEW t, NEW fs, NEW p2, NEW t2, NEW fs2, NEW s, Shape(p, t, fs),
         Straight(p, t, fs, p2, t2, fs2, s) \/ Opening(p, t, fs, p2, t2, fs2, s),
         NEW L, GentleEntry(s, L), Moved(p, t), Meets(p, t)
  PROVE  Moved(p2, t2) /\ Meets(p2, t2)
<1>1. /\ p \in Seq(EntryType) /\ Grown(p, p2, s) /\ Notes(s, t) /\ s.depth = Len(fs)
      /\ ~ IsDivider(s) /\ t2 = Effect(s)
  BY DEF Straight, Opening, Enters, Shape, IsOpener, IsDivider
<1>2. s \in EntryType
  BY <1>1, GrownFacts
<1>3. ASSUME NEW o \in 1 .. Len(p), Stays(p, o, s), NEW v \in Known(p[o].pre)
      PROVE  Later(p[o].pre, t2, v)
  <2>1. /\ v \in Known(t) /\ Later(p[o].pre, t, v)
        /\ p[o].depth \in Nat /\ p[o].depth < Len(fs) /\ Len(fs) \in Nat
    BY <1>3, OpenMoved DEF Stays
  <2>2. Adds(s)
    <3>1. s.depth # 0
      BY <1>1, <2>1
    <3>2. QED
      BY <3>1 DEF GentleEntry, GentleBinder
  <2>3. Later(t, t2, v)
    BY <1>1, <1>2, <2>1, <2>2, EffectIsLater
  <2>4. QED
    BY <2>1, <2>3, LaterIsTransitive
<1>4. IsOpener(s) => \A v \in Known(t) : Later(t, t2, v)
  <2>1. IsOpener(s) => Adds(s)
    BY OpenersAdd
  <2>2. QED
    BY <1>1, <1>2, <2>1, EffectIsLater
<1>5. Moved(p2, t2)
  BY <1>1, <1>3, <1>4, MovedGrows
<1>6. Meets(p2, t2)
  BY <1>1, MeetsGrows DEF IsDivider
<1>7. QED
  BY <1>5, <1>6

LEMMA DividingMoved ==
  ASSUME NEW p, NEW t, NEW fs, NEW p2, NEW t2, NEW fs2, NEW s, Shape(p, t, fs),
         Dividing(p, t, fs, p2, t2, fs2, s), Moved(p, t), Meets(p, t)
  PROVE  Moved(p2, t2) /\ Meets(p2, t2)
<1>1. /\ p \in Seq(EntryType) /\ Grown(p, p2, s) /\ Notes(s, t)
      /\ ~ IsOpener(s) /\ s.op = "else" /\ fs # <<>>
  BY DEF Dividing, Enters, Shape, IsOpener
<1>2. PICK top \in 1 .. Len(p) : InnermostOpen(p, fs, top)
  BY <1>1, TopIsInnermost
<1>3. t2 = p[top].pre /\ Len(p) \in Nat
  BY <1>1, <1>2, LenProperties DEF InnermostOpen, FrameOf, Dividing
<1>4. Before(p, t, top) = t2 /\ top \in 1 .. Len(p) + 1
  BY <1>3 DEF Before
<1>5. ASSUME NEW o \in 1 .. Len(p), Stays(p, o, s), NEW v \in Known(p[o].pre)
      PROVE  Later(p[o].pre, t2, v)
  <2>1. CASE o = top
    BY <1>3, <2>1 DEF Later
  <2>2. CASE o # top
    <3>1. Block(p, o, top)
      BY <1>2, <1>5, <2>2 DEF InnermostOpen, Stays
    <3>2. QED
      BY <1>4, <1>5, <3>1 DEF Moved
  <2>3. QED
    BY <2>1, <2>2
<1>6. Moved(p2, t2)
  BY <1>1, <1>5, MovedGrows
<1>7. Meets(p2, t2)
  BY <1>1, MeetsGrows
<1>8. QED
  BY <1>6, <1>7

(* The end of a block, reported or not.                                    *)
LEMMA ClosedDead ==
  ASSUME NEW f \in FrameType, NEW b, b = f.before, NEW t \in Table, NEW t2,
         t2 = ClosedTable(f, t), f.reassigned = {},
         \A v \in Known(b) : Later(b, t, v), NEW v \in Vars
  PROVE  /\ b[v] # "absent" => Later(b, t2, v)
         /\ t2[v] = "Consumed" => t[v] = "Consumed"
         /\ f.kind = "if" => t2[v] = b[v]
         /\ f.kind \in {"loop", "for"} /\ "E-OWN-010" \notin ClosedCodes(f, t) =>
              (t2[v] = "Consumed" => b[v] = "Consumed")
         /\ f.kind = "else" =>
              (t2[v] = "Consumed" => v \in f.consumed \/ b[v] = "Consumed")
<1>1. f.kind \in {"if", "else", "loop", "for"} /\ b \in Table
  BY DEF FrameType
<1>2. b[v] # "absent" => Later(b, t, v)
  BY DEF Known
<1>3. b[v] = "Consumed" => t[v] = "Consumed"
  BY <1>2 DEF Later
<1>4. CASE f.kind = "if"
  <2>1. t2 = b
    BY <1>4 DEF ClosedTable
  <2>2. QED
    BY <1>3, <1>4, <2>1 DEF Later
<1>5. CASE f.kind \in {"loop", "for"}
  <2>1. ASSUME "E-OWN-010" \notin ClosedCodes(f, t)
        PROVE  ~ (b[v] = "Owned" /\ t[v] = "Consumed")
    <3>1. "E-OWN-010" \notin LoopCodes(f, t)
      BY <1>5, <2>1 DEF ClosedCodes
    <3>2. QED
      BY <3>1 DEF LoopCodes
  <2>2. CASE f.kind = "for"
    <3>1. t2 = b
      BY <2>2 DEF ClosedTable
    <3>2. QED
      BY <1>3, <2>2, <3>1 DEF Later
  <2>3. CASE f.kind = "loop"
    <3>1. t2[v] = IF t[v] = "Consumed" /\ b[v] # "absent" THEN "Consumed" ELSE b[v]
      BY <2>3 DEF ClosedTable
    <3>2. b[v] # "absent" /\ t[v] = "Consumed" => b[v] \in {"Owned", "Consumed"}
      BY <1>2 DEF Later
    <3>3. QED
      BY <1>2, <1>3, <2>1, <2>3, <3>1, <3>2 DEF Later
  <2>4. QED
    BY <1>5, <2>2, <2>3
<1>6. CASE f.kind = "else"
  <2>1. t2[v] = IF v \in f.consumed \cap NewlyConsumed(b, t) THEN "Consumed" ELSE b[v]
    BY <1>6 DEF ClosedTable
  <2>2. v \in NewlyConsumed(b, t) <=> (t[v] = "Consumed" /\ b[v] \notin {"absent", "Consumed"})
    BY DEF NewlyConsumed
  <2>3. v \in NewlyConsumed(b, t) => b[v] = "Owned"
    BY <1>2, <2>2 DEF Later
  <2>4. QED
    BY <1>3, <1>6, <2>1, <2>2, <2>3 DEF Later
<1>7. QED
  BY <1>1, <1>4, <1>5, <1>6

LEMMA ClosingMoved ==
  ASSUME NEW p, NEW t, NEW fs, NEW p2, NEW t2, NEW fs2, NEW s, Shape(p, t, fs),
         Closing(p, t, fs, p2, t2, fs2, s), Calm(fs), Moved(p, t), Meets(p, t)
  PROVE  Moved(p2, t2) /\ Meets(p2, t2)
<1>1. /\ p \in Seq(EntryType) /\ Grown(p, p2, s) /\ Notes(s, t) /\ s.depth = Len(fs) - 1
      /\ ~ IsOpener(s) /\ fs # <<>> /\ t \in Table /\ fs \in Seq(FrameType)
  BY DEF Closing, Enters, Shape, IsOpener
<1>2. PICK top \in 1 .. Len(p) : InnermostOpen(p, fs, top)
  BY <1>1, TopIsInnermost
<1>3. Len(fs) \in Nat \ {0} /\ Len(p) \in Nat
  BY <1>1, TopIsInnermost, LenProperties
<1>4. PICK f, b : f = fs[Len(fs)] /\ b = p[top].pre
  OBVIOUS
<1>5. f \in FrameType /\ f.reassigned = {}
  <2>1. Len(fs) \in 1 .. Len(fs)
    BY <1>3
  <2>2. QED
    BY <1>1, <1>4, <2>1, ElementOfSeq DEF Calm
<1>6. FrameOf(p, top, f) /\ OpenBlock(p, top) /\ p[top].depth = Len(fs) - 1
      /\ \A o \in 1 .. Len(p) : OpenBlock(p, o) =>
           o = top \/ (Block(p, o, top) /\ p[o].depth < p[top].depth)
  BY <1>2, <1>4 DEF InnermostOpen
<1>7. f.before = b
  BY <1>4, <1>6 DEF FrameOf
<1>8. t2 = ClosedTable(f, t) /\ s.codes = ClosedCodes(f, t)
  BY <1>4 DEF Closing
<1>9. \A v \in Known(b) : Later(b, t, v)
  BY <1>4, <1>6, OpenMoved
<1>10. \A v \in Vars :
         /\ b[v] # "absent" => Later(b, t2, v)
         /\ t2[v] = "Consumed" => t[v] = "Consumed"
         /\ f.kind = "if" => t2[v] = b[v]
         /\ f.kind \in {"loop", "for"} /\ "E-OWN-010" \notin s.codes =>
              (t2[v] = "Consumed" => b[v] = "Consumed")
         /\ f.kind = "else" => (t2[v] = "Consumed" => v \in f.consumed \/ b[v] = "Consumed")
  BY <1>1, <1>5, <1>7, <1>8, <1>9, ClosedDead
<1>11. ASSUME NEW o \in 1 .. Len(p), Stays(p, o, s), NEW v \in Known(p[o].pre)
       PROVE  Later(p[o].pre, t2, v)
  <2>1. OpenBlock(p, o) /\ o # top
    BY <1>1, <1>6, <1>11 DEF Stays, Closing
  <2>2. Block(p, o, top)
    BY <1>6, <2>1
  <2>3. Before(p, t, top) = b /\ top \in 1 .. Len(p) + 1
    BY <1>3, <1>4 DEF Before
  <2>4. Later(p[o].pre, b, v)
    BY <1>11, <2>2, <2>3 DEF Moved
  <2>5. v \in Known(b)
    BY <1>2, <1>4, <1>11, <2>1, OuterKnowsLess
  <2>6. Later(b, t2, v)
    BY <1>10, <2>5 DEF Known
  <2>7. QED
    BY <2>4, <2>6, LaterIsTransitive
<1>12. Moved(p2, t2)
  BY <1>1, <1>11, MovedGrows
<1>13. ASSUME NEW o \in 1 .. Len(p), OpenBlock(p, o), s.depth = p[o].depth
       PROVE  o = top
  <2>1. p[o].depth \in Nat /\ p[top].depth \in Nat
    BY <1>1, EntryFields
  <2>2. QED
    BY <1>1, <1>6, <1>13, <2>1
<1>14. ASSUME "E-OWN-010" \notin s.codes,
              IsLoop(p[top]) \/ (\A m \in 1 .. Len(p) : ~ ElseOf(p, top, m))
       PROVE  Dead(t2) \subseteq Dead(b)
  <2>1. f.kind # "else"
    BY <1>6, <1>14 DEF FrameOf, IsLoop, OpenBlock, Block, IsOpener
  <2>2. f.kind \in {"if", "loop", "for"}
    BY <1>5, <2>1 DEF FrameType
  <2>3. QED
    BY <1>10, <1>14, <2>2 DEF Dead
<1>15. Dead(t2) \subseteq Dead(t)
  BY <1>10 DEF Dead
<1>16. ASSUME NEW m \in 1 .. Len(p), ElseOf(p, top, m)
       PROVE  Dead(t2) \subseteq Dead(p[m].pre)
  <2>1. PICK c : c = p[m].pre
    OBVIOUS
  <2>2. f.kind = "else" /\ f.consumed = NewlyConsumed(b, c)
    BY <1>4, <1>6, <1>16, <2>1 DEF FrameOf
  <2>3. Block(p, top, m) /\ m \in 1 .. Len(p) + 1 /\ Before(p, t, m) = c
    BY <1>3, <1>16, <2>1 DEF ElseOf, Divides, Before
  <2>4. ASSUME NEW v \in Vars, t2[v] = "Consumed" PROVE c[v] = "Consumed"
    <3>1. v \in f.consumed \/ b[v] = "Consumed"
      BY <1>10, <2>2, <2>4
    <3>2. v \in f.consumed => c[v] = "Consumed"
      BY <2>2 DEF NewlyConsumed
    <3>3. b[v] = "Consumed" => Later(b, c, v)
      BY <1>4, <2>3 DEF Moved, Known
    <3>4. QED
      BY <3>1, <3>2, <3>3 DEF Later
  <2>5. QED
    BY <2>1, <2>4 DEF Dead
<1>17. Meets(p2, t2)
  <2>1. \A o \in 1 .. Len(p) :
          OpenBlock(p, o) /\ s.op = "end" /\ s.depth = p[o].depth /\ "E-OWN-010" \notin s.codes =>
            /\ IsLoop(p[o]) \/ (\A m \in 1 .. Len(p) : ~ ElseOf(p, o, m)) =>
                 Dead(t2) \subseteq Dead(p[o].pre)
            /\ p[o].op = "if" => Dead(t2) \subseteq Dead(t)
            /\ \A m \in 1 .. Len(p) : ElseOf(p, o, m) => Dead(t2) \subseteq Dead(p[m].pre)
    BY <1>4, <1>13, <1>14, <1>15, <1>16
  <2>2. QED
    BY <1>1, <2>1, MeetsGrows
<1>18. QED
  BY <1>12, <1>17

LEMMA StepMoved ==
  ASSUME NEW p, NEW t, NEW fs, NEW p2, NEW t2, NEW fs2, NEW s, Shape(p, t, fs), Calm(fs),
         \/ Straight(p, t, fs, p2, t2, fs2, s) \/ Opening(p, t, fs, p2, t2, fs2, s)
         \/ Dividing(p, t, fs, p2, t2, fs2, s) \/ Closing(p, t, fs, p2, t2, fs2, s),
         NEW L, GentleEntry(p2[Len(p) + 1], L), Moved(p, t), Meets(p, t)
  PROVE  Moved(p2, t2) /\ Meets(p2, t2)
<1>1. Grown(p, p2, s)
  BY DEF Straight, Opening, Dividing, Closing, Enters
<1>2. GentleEntry(s, L)
  BY <1>1 DEF Grown
<1>3. QED
  BY <1>2, ForwardMoved, DividingMoved, ClosingMoved

WalkMoved == Moved(prog, table) /\ Meets(prog, table)

LEMMA WalkKeepsMoved ==
  ASSUME Tame, WalkOrder, WalkSound, WalkMoved, Walk
  PROVE  WalkMoved'
<1>1. WalkShape
  BY DEF WalkOrder
<1>2. GentleEntry(prog'[Len(prog) + 1], LentNow)
  BY <1>1, WalkIsGentle
<1>3. PICK s : IsStep(s)
  BY <1>1, WalkSteps
<1>4. PICK p, t, fs, p2, t2, fs2 :
        p = prog /\ t = table /\ fs = frames /\ p2 = prog' /\ t2 = table' /\ fs2 = frames'
  OBVIOUS
<1>5. Shape(p, t, fs) /\ Calm(fs) /\ Moved(p, t) /\ Meets(p, t)
  BY <1>1, <1>4 DEF WalkShape, WalkSound, WalkMoved
<1>6. \/ Straight(p, t, fs, p2, t2, fs2, s) \/ Opening(p, t, fs, p2, t2, fs2, s)
      \/ Dividing(p, t, fs, p2, t2, fs2, s) \/ Closing(p, t, fs, p2, t2, fs2, s)
  BY <1>3, <1>4 DEF IsStep
<1>7. PICK L : L = LentUpTo(p, Len(p) + 1)
  OBVIOUS
<1>8. GentleEntry(p2[Len(p) + 1], L)
  BY <1>2, <1>4, <1>7 DEF LentNow
<1>9. Moved(p2, t2) /\ Meets(p2, t2)
  BY <1>5, <1>6, <1>8, StepMoved
<1>10. QED
  BY <1>4, <1>9 DEF WalkMoved

(* Where execution goes forward, what is consumed there is consumed by the *)
(* entry it comes from, or was before it.                                  *)
LoopsOk(p, i) == \A k \in 1 .. i - 1 : "E-OWN-010" \notin p[k].codes

LEMMA GoesDead ==
  ASSUME NEW p, NEW t, Done(p), Follows(p, t), Gentle(p), Moved(p, t), Meets(p, t),
         NEW i \in 1 .. Len(p), NEW j \in 1 .. Len(p), Goes(p, i, j), i < j, LoopsOk(p, j)
  PROVE  Dead(p[j].pre) \subseteq Dead(After(p[i]))
<1>1. Len(p) \in Nat
  BY DoneFacts
<1>2. PICK u : u = p[j].pre
  OBVIOUS
<1>3. Before(p, t, j) = u /\ Before(p, t, i) = p[i].pre
  BY <1>2 DEF Before
<1>4. SUFFICES ASSUME NEW v \in Vars, v \in Dead(u) PROVE After(p[i])[v] = "Consumed"
  BY <1>2 DEF Dead
<1>5. u[v] = "Consumed"
  BY <1>4 DEF Dead
<1>6. GentleEntry(p[i], LentUpTo(p, i))
  BY DEF Gentle
<1>7. ASSUME p[i].op \in {"if", "for", "break", "continue"}, p[i].pre[v] = "Consumed"
      PROVE  After(p[i])[v] = "Consumed"
  BY <1>6, <1>7, EffectOfBlock
<1>8. ASSUME NEW o \in 1 .. Len(p), NEW e \in 1 .. Len(p), EndOfBlock(p, o, e), j = e + 1
      PROVE  MeetAt(p, o, e, u)
  <2>1. e \in 1 .. j - 1
    BY <1>1, <1>8
  <2>2. "E-OWN-010" \notin p[e].codes
    BY <2>1 DEF LoopsOk
  <2>3. QED
    BY <1>3, <1>8, <2>2 DEF Meets
<1>9. CASE ToNext(p, i, j)
  BY <1>3, <1>5, <1>9 DEF ToNext, Follows, After
<1>10. CASE ToElse(p, i, j)
  <2>1. PICK m \in 1 .. Len(p) : ElseOf(p, i, m) /\ j = m + 1
    BY <1>10 DEF ToElse
  <2>2. p[i].pre = u
    BY <1>3, <2>1 DEF Follows
  <2>3. p[i].op = "if"
    <3>1. Divides(p, i, m) /\ IsDivider(p[m]) /\ p[m].op = "else"
      BY <2>1 DEF ElseOf, Divides
    <3>2. PICK o2 \in 1 .. Len(p) : Divides(p, o2, m) /\ (p[m].op = "else" => p[o2].op = "if")
      BY <3>1 DEF Done, Opened
    <3>3. o2 = i
      BY <3>1, <3>2, DividesOnce
    <3>4. QED
      BY <3>1, <3>2, <3>3
  <2>4. QED
    BY <1>5, <1>7, <2>2, <2>3
<1>11. CASE PastBlock(p, i, j)
  <2>1. PICK e \in 1 .. Len(p) : EndOfBlock(p, i, e) /\ j = e + 1
    BY <1>11 DEF PastBlock
  <2>2. MeetAt(p, i, e, u)
    BY <1>8, <2>1
  <2>3. p[i].pre[v] = "Consumed"
    BY <1>4, <1>11, <2>2 DEF MeetAt, PastBlock, Dead
  <2>4. QED
    BY <1>7, <1>11, <2>3 DEF PastBlock
<1>12. CASE PastElse(p, i, j)
  <2>1. PICK o, e \in 1 .. Len(p) : ElseOf(p, o, i) /\ EndOfBlock(p, o, e) /\ j = e + 1
    BY <1>12 DEF PastElse
  <2>2. MeetAt(p, o, e, u)
    BY <1>8, <2>1
  <2>3. p[i].pre[v] = "Consumed"
    BY <1>4, <2>1, <2>2 DEF MeetAt, Dead
  <2>4. IsDivider(p[i])
    BY <2>1 DEF ElseOf, Divides
  <2>5. QED
    BY <2>3, <2>4 DEF After
<1>13. CASE PastEnd(p, i, j)
  <2>1. PICK o \in 1 .. Len(p) : EndOfBlock(p, o, i) /\ p[o].op = "if" /\ j = i + 1
    BY <1>13 DEF PastEnd
  <2>2. MeetAt(p, o, i, u)
    BY <1>8, <2>1
  <2>3. p[i].pre[v] = "Consumed"
    BY <1>4, <2>1, <2>2 DEF MeetAt, Dead
  <2>4. IsDivider(p[i])
    BY <2>1 DEF EndOfBlock, Divides
  <2>5. QED
    BY <2>3, <2>4 DEF After
<1>14. CASE OutOfLoop(p, i, j)
  <2>1. PICK o, e \in 1 .. Len(p) :
          IsLoop(p[o]) /\ Block(p, o, i) /\ EndOfBlock(p, o, e) /\ j = e + 1
    BY <1>14 DEF OutOfLoop
  <2>2. MeetAt(p, o, e, u)
    BY <1>8, <2>1
  <2>3. p[o].pre[v] = "Consumed"
    BY <1>4, <2>1, <2>2 DEF MeetAt, Dead
  <2>4. v \in Known(p[o].pre) /\ i \in 1 .. Len(p) + 1
    BY <1>1, <2>3 DEF Known
  <2>5. Later(p[o].pre, p[i].pre, v)
    BY <1>3, <2>1, <2>4 DEF Moved
  <2>6. p[i].pre[v] = "Consumed"
    BY <2>3, <2>5 DEF Later
  <2>7. QED
    BY <1>7, <1>14, <2>6 DEF OutOfLoop, IsJump
<1>15. ~ BackFromEnd(p, i, j) /\ ~ BackInLoop(p, i, j) /\ ~ ToExit(p, i, j)
  <2>1. ~ Block(p, j, i)
    BY <1>1 DEF Block
  <2>2. QED
    BY <1>1, <2>1 DEF BackFromEnd, EndOfBlock, Divides, BackInLoop, ToExit
<1>16. QED
  BY <1>9, <1>10, <1>11, <1>12, <1>13, <1>14, <1>15 DEF Goes

(* What is given away stays so, for every name but the one that is bound.  *)
LEMMA StaysGone ==
  ASSUME NEW s, NEW en \in [Vars -> Obj], NEW go, NEW o, Binding(s, en, o), Named(s),
         NEW v \in Vars, ~ (IsBinder(s) /\ v = s.var),
         en[v] \in go \/ v \in Moves(s.expr)
  PROVE  Rebound(s, en, o)[v] \in Giving(s, en, go, o)
<1>1. PICK en2 : en2 = Rebound(s, en, o)
  OBVIOUS
<1>2. PICK g : g = en[v]
  OBVIOUS
<1>3. g \in Obj /\ g # 0
  <2>1. g \in Obj
    BY <1>2
  <2>2. QED
    BY <2>1, ObjectsAre
<1>4. en2[v] = g
  BY <1>1, <1>2 DEF Rebound, Binding, Named
<1>5. g \in go \cup {en[w] : w \in Moves(s.expr)}
  BY <1>2
<1>6. ~ (Copies(s.expr) /\ s.op # "for") => g # o
  <2>1. ASSUME ~ (Copies(s.expr) /\ s.op # "for"), IsBinder(s) PROVE g # o
    BY <1>2, <2>1 DEF Binding
  <2>2. ASSUME ~ IsBinder(s) PROVE g # o
    BY <1>3, <2>2 DEF Binding
  <2>3. QED
    BY <2>1, <2>2
<1>7. QED
  BY <1>1, <1>4, <1>5, <1>6 DEF Giving

(* What an entry leaves consumed was consumed, or it gives it away.        *)
LEMMA DeadAfter ==
  ASSUME NEW s \in EntryType, NEW v \in Vars, After(s)[v] = "Consumed"
  PROVE  /\ ~ (IsBinder(s) /\ v = s.var)
         /\ s.pre[v] = "Consumed" \/ v \in Moves(s.expr)
<1>1. CASE IsDivider(s)
  BY <1>1 DEF After, IsDivider, IsBinder
<1>2. CASE ~ IsDivider(s)
  <2>1. Effect(s)[v] = "Consumed"
    BY <1>2 DEF After
  <2>2. ~ (IsBinder(s) /\ v = s.var)
    BY <2>1 DEF Effect, IsBinder
  <2>3. s.pre[v] = "Consumed" \/ AfterCall(s.expr, s.pre)[v] = "Consumed"
    BY <2>1, <2>2 DEF Effect, IsBinder
  <2>4. QED
    BY <2>2, <2>3 DEF AfterCall
<1>3. QED
  BY <1>1, <1>2

DeadGone(T, en, go) == \A v \in Dead(T) : en[v] \in go
AtDead(p, i, en, go) ==
  /\ LoopsOk(p, i) => DeadGone(p[i].pre, en, go)
  /\ \A o \in 1 .. Len(p) : IsLoop(p[o]) /\ Block(p, o, i) /\ LoopsOk(p, o) =>
       DeadGone(p[o].pre, en, go)

LEMMA DeadAround ==
  ASSUME NEW s, NEW L, GentleEntry(s, L), Adds(s), Named(s),
         NEW en \in [Vars -> Obj], NEW go, NEW o, Binding(s, en, o),
         NEW T, Known(T) \subseteq Known(s.pre), DeadGone(T, en, go)
  PROVE  DeadGone(T, Rebound(s, en, o), Giving(s, en, go, o))
<1>1. SUFFICES ASSUME NEW v \in Vars, T[v] = "Consumed"
               PROVE  Rebound(s, en, o)[v] \in Giving(s, en, go, o)
  BY DEF DeadGone, Dead
<1>2. en[v] \in go
  BY <1>1 DEF DeadGone, Dead
<1>3. s.pre[v] # "absent"
  BY <1>1 DEF Known
<1>4. ~ (IsBinder(s) /\ v = s.var)
  BY <1>3 DEF Adds
<1>5. QED
  BY <1>2, <1>4, StaysGone

(* What every finished walk has, reported or not.                          *)
Exact(p, t) ==
  /\ Done(p) /\ Scopes(p, t) /\ Follows(p, t) /\ AllNamed(p)
  /\ Gentle(p) /\ Moved(p, t) /\ Meets(p, t)

LEMMA AtDeadNext ==
  ASSUME NEW p, NEW t, Exact(p, t), NEW i \in 1 .. Len(p), NEW en \in [Vars -> Obj], NEW go,
         AtDead(p, i, en, go), NEW o, Binding(p[i], en, o), NEW j \in 1 .. Len(p), Goes(p, i, j)
  PROVE  AtDead(p, j, Rebound(p[i], en, o), Giving(p[i], en, go, o))
<1>1. PICK en2, go2 : en2 = Rebound(p[i], en, o) /\ go2 = Giving(p[i], en, go, o)
  OBVIOUS
<1>2. PICK s, L : s = p[i] /\ L = LentUpTo(p, i)
  OBVIOUS
<1>3. Done(p) /\ Len(p) \in Nat /\ p \in Seq(EntryType)
  BY DoneFacts DEF Exact, Done
<1>4. s \in EntryType /\ GentleEntry(s, L) /\ Named(s)
  BY <1>2, <1>3, EntryFields DEF Exact, Gentle, AllNamed
<1>5. ASSUME NEW k \in 1 .. Len(p), IsLoop(p[k]), k = i \/ Block(p, k, i), LoopsOk(p, k)
      PROVE  DeadGone(p[k].pre, en2, go2)
  <2>1. DeadGone(p[k].pre, en, go)
    BY <1>5 DEF AtDead
  <2>2. Known(p[k].pre) \subseteq Known(s.pre)
    <3>1. CASE k = i
      BY <1>2, <3>1
    <3>2. CASE Block(p, k, i)
      <4>1. Before(p, t, i) = s.pre /\ i \in 1 .. Len(p) + 1
        BY <1>2, <1>3 DEF Before
      <4>2. QED
        BY <3>2, <4>1 DEF Exact, Scopes
    <3>3. QED
      BY <1>5, <3>1, <3>2
  <2>3. Adds(s)
    <3>1. CASE k = i
      BY <1>2, <1>5, <1>4, <3>1, OpenersAdd DEF IsLoop, IsOpener
    <3>2. CASE Block(p, k, i)
      <4>1. CASE IsDivider(s)
        BY <4>1 DEF IsDivider, Adds, IsBinder
      <4>2. CASE ~ IsDivider(s)
        <5>1. s.depth > p[k].depth /\ p[k].depth \in Nat
          BY <1>2, <1>3, <3>2, <4>2, DoneFacts DEF Done, Nests
        <5>2. QED
          BY <1>4, <5>1 DEF GentleEntry, GentleBinder
      <4>3. QED
        BY <4>1, <4>2
    <3>3. QED
      BY <1>5, <3>1, <3>2
  <2>4. QED
    BY <1>1, <1>2, <1>4, <2>1, <2>2, <2>3, DeadAround
<1>6. \A k \in 1 .. Len(p) : IsLoop(p[k]) /\ Block(p, k, j) /\ LoopsOk(p, k) =>
        DeadGone(p[k].pre, en2, go2)
  <2>1. \A k \in 1 .. Len(p) : Block(p, k, j) => k = i \/ Block(p, k, i)
    BY <1>3, GoesKeepsLoops
  <2>2. QED
    BY <1>5, <2>1
<1>7. ASSUME LoopsOk(p, j) PROVE DeadGone(p[j].pre, en2, go2)
  <2>1. CASE i < j
    <3>1. LoopsOk(p, i)
      <4>1. \A k \in 1 .. i - 1 : k \in 1 .. j - 1
        BY <1>3, <2>1
      <4>2. QED
        BY <1>7, <4>1 DEF LoopsOk
    <3>2. DeadGone(s.pre, en, go)
      BY <1>2, <3>1 DEF AtDead
    <3>3. Dead(p[j].pre) \subseteq Dead(After(s))
      BY <1>2, <1>7, <2>1, GoesDead DEF Exact
    <3>4. ASSUME NEW v \in Vars, v \in Dead(p[j].pre) PROVE en2[v] \in go2
      <4>1. After(s)[v] = "Consumed"
        BY <3>3, <3>4 DEF Dead
      <4>2. ~ (IsBinder(s) /\ v = s.var) /\ (s.pre[v] = "Consumed" \/ v \in Moves(s.expr))
        BY <1>4, <4>1, DeadAfter
      <4>3. en[v] \in go \/ v \in Moves(s.expr)
        BY <3>2, <4>2 DEF DeadGone, Dead
      <4>4. QED
        BY <1>1, <1>2, <1>4, <4>2, <4>3, StaysGone
    <3>5. QED
      BY <3>4 DEF DeadGone, Dead
  <2>2. CASE IsLoop(p[j]) /\ Block(p, j, i)
    BY <1>5, <1>7, <2>2
  <2>3. QED
    BY <1>3, <2>1, <2>2, GoesOn
<1>8. QED
  BY <1>1, <1>6, <1>7 DEF AtDead

(* A use after move is reported only where the table has one.              *)
Earned(s) == "E-OWN-004" \in s.codes => \E v \in Uses(s.expr) : s.pre[v] = "Consumed"
AllEarned(p) == \A i \in 1 .. Len(p) : Earned(p[i])
UsesDead(e) == \E v \in Uses(e) : table[v] = "Consumed"

LEMMA EarnedOf ==
  ASSUME WalkShape, AllEarned(prog), NEW op, NEW x, NEW e, NEW codes, NEW depth,
         prog' = Append(prog, Entry(op, x, e, codes, depth)),
         "E-OWN-004" \in codes => UsesDead(e)
  PROVE  AllEarned(prog')
<1>1. PICK s : s = Entry(op, x, e, codes, depth)
  OBVIOUS
<1>2. Earned(s)
  BY <1>1, EntryHas DEF Earned, UsesDead
<1>3. /\ Len(prog') = Len(prog) + 1 /\ prog'[Len(prog) + 1] = s /\ Len(prog) \in Nat
      /\ \A i \in 1 .. Len(prog) : prog'[i] = prog[i]
  <2>1. PICK p : p = prog
    OBVIOUS
  <2>2. p \in Seq(EntryType) /\ prog' = Append(p, s) /\ Len(p) \in Nat
    BY <1>1, <2>1, ShapeTypes
  <2>3. QED
    BY <2>1, <2>2
<1>4. QED
  BY <1>2, <1>3 DEF AllEarned

LEMMA UseIsEarned ==
  ASSUME NEW e
  PROVE  /\ "E-OWN-004" \in UseCodes(e, table) => UsesDead(e)
         /\ "E-OWN-004" \in CallCodes(e, table) => UsesDead(e)
<1>1. Names(e) \subseteq Uses(e)
  BY DEF Names, Uses
<1>2. QED
  BY <1>1 DEF UseCodes, CallCodes, UsesDead

LEMMA ReturnIsEarned ==
  ASSUME WalkShape, NEW e \in Expr, NEW typed,
         "E-OWN-004" \in ReturnCodes(e, AfterCall(e, table), typed)
  PROVE  UsesDead(e)
<1>1. PICK a : a = AfterCall(e, table)
  OBVIOUS
<1>2. e.kind \in {"ident", "field"} /\ "E-OWN-004" \in UseCodes(e, a)
  BY <1>1 DEF ReturnCodes
<1>3. PICK v \in Uses(e) : a[v] = "Consumed"
  BY <1>2 DEF UseCodes
<1>4. v \in Vars
  BY ArgListFacts
<1>5. a[v] = table[v]
  BY <1>1, <1>2, <1>4 DEF AfterCall
<1>6. QED
  BY <1>3, <1>5 DEF UsesDead

LEMMA WalkEarns == ASSUME WalkShape, AllEarned(prog), Walk PROVE AllEarned(prog')
<1>1. ASSUME NEW op, NEW x, NEW e, NEW codes, NEW t, Plain(op, x, e, codes, t),
             "E-OWN-004" \in codes => UsesDead(e)
      PROVE  AllEarned(prog')
  BY <1>1, EarnedOf DEF Plain
<1>2. ASSUME NEW kinds, NEW op, NEW codes, NEW t, Close(kinds, op, codes, t),
             "E-OWN-004" \notin codes
      PROVE  AllEarned(prog')
  BY <1>2, EarnedOf DEF Close
<1>3. ASSUME NEW x \in Vars, NEW e \in Expr, Bind(x, e) \/ For(x, e) PROVE AllEarned(prog')
  <2>1. CASE Const(x, e)
    <3>1. PICK codes : codes = UseCodes(e, table) \cup CallCodes(e, table)
      OBVIOUS
    <3>2. "E-OWN-004" \in codes => UsesDead(e)
      BY <3>1, UseIsEarned
    <3>3. QED
      BY <1>1, <2>1, <3>1, <3>2 DEF Const
  <2>2. CASE Let(x, e)
    BY <1>1, <2>2 DEF Let
  <2>3. CASE Var(x, e) \/ Assign(x, e) \/ For(x, e)
    BY <1>1, <2>3 DEF Var, Assign, For, Open
  <2>4. QED
    BY <1>3, <2>1, <2>2, <2>3 DEF Bind
<1>4. ASSUME NEW e \in Expr, ExprStmt(e) \/ SetField(e) \/ Return(e) \/ If(e)
      PROVE  AllEarned(prog')
  <2>1. CASE ExprStmt(e)
    <3>1. PICK codes : codes = CallCodes(e, table) \cup (IF e = Value THEN {"E-OWN-001"} ELSE {})
      OBVIOUS
    <3>2. "E-OWN-004" \in codes => UsesDead(e)
      BY <3>1, UseIsEarned
    <3>3. QED
      BY <1>1, <2>1, <3>1, <3>2 DEF ExprStmt
  <2>2. CASE SetField(e) \/ If(e)
    BY <1>1, <2>2 DEF SetField, If, Open
  <2>3. CASE Return(e)
    <3>1. PICK codes, typed :
            /\ codes = UseCodes(e, table) \cup CallCodes(e, table)
                         \cup ReturnCodes(e, AfterCall(e, table), typed)
            /\ Plain("return", NoVar, e, codes, AfterCall(e, table))
      BY <2>3 DEF Return
    <3>2. "E-OWN-004" \in codes => UsesDead(e)
      BY <3>1, UseIsEarned, ReturnIsEarned
    <3>3. QED
      BY <1>1, <3>1, <3>2
  <2>4. QED
    BY <1>4, <2>1, <2>2, <2>3
<1>5. CASE Loop \/ \E op \in {"break", "continue"} : Jump(op)
  BY <1>1, <1>5 DEF Loop, Open, Jump
<1>6. CASE Else
  BY <1>2, <1>6 DEF Else
<1>7. CASE EndIf \/ EndLoop \/ EndFor
  BY <1>2, <1>7 DEF EndIf, EndLoop, EndFor, BranchCodes, LoopCodes
<1>8. QED
  BY <1>3, <1>4, <1>5, <1>6, <1>7 DEF Walk

(* The invariant behind the reports.                                       *)
RunExact == phase = "run" /\ pc \in 1 .. Len(prog) => AtDead(prog, pc, env, gone)
ExactInv == SoundInv /\ WalkMoved /\ AllEarned(prog) /\ RunExact

LEMMA ExactBegins == ASSUME OInit PROVE ExactInv
<1>1. SoundInv /\ prog = <<>> /\ phase = "walk"
  BY SoundBegins DEF OInit, WalkInit
<1>2. PICK p, t : p = prog /\ t = table
  OBVIOUS
<1>3. \A i \in 1 .. Len(p) : FALSE
  <2>1. Len(p) = 0
    BY <1>1, <1>2
  <2>2. QED
    BY <2>1
<1>4. Moved(p, t) /\ Meets(p, t) /\ AllEarned(p)
  BY <1>3 DEF Moved, Meets, AllEarned
<1>5. QED
  BY <1>1, <1>2, <1>4 DEF ExactInv, WalkMoved, RunExact

LEMMA StartExact == ASSUME SoundInv, Start PROVE RunExact'
<1>1. /\ phase = "walk" /\ prog # <<>> /\ pc' = 1 /\ UNCHANGED <<table, prog, env, gone>>
  BY DEF Start
<1>2. PICK p, T : p = prog /\ T = Before(prog, table, 1)
  OBVIOUS
<1>3. WalkShape /\ Untouched(T)
  BY <1>1, <1>2 DEF SoundInv, TypeInv, WalkOrder, RunSound
<1>4. p \in Seq(EntryType) /\ Len(p) \in Nat /\ p # <<>>
  BY <1>1, <1>2, <1>3, ShapeTypes
<1>5. 1 \in 1 .. Len(p)
  BY <1>4, EmptySeq
<1>6. T = p[1].pre
  BY <1>2, <1>5 DEF Before
<1>7. DeadGone(T, env, gone)
  BY <1>3 DEF DeadGone, Dead, Untouched
<1>8. ASSUME NEW o \in 1 .. Len(p) PROVE ~ Block(p, o, 1)
  BY DEF Block
<1>9. AtDead(p, 1, env, gone)
  BY <1>6, <1>7, <1>8 DEF AtDead
<1>10. AtDead(prog', pc', env', gone')
  BY <1>1, <1>2, <1>9
<1>11. QED
  BY <1>10 DEF RunExact

LEMMA ExactWhenDone ==
  ASSUME ExactInv, frames = <<>>
  PROVE  Exact(prog, table)
<1>1. Shape(prog, table, <<>>) /\ Follows(prog, table)
  BY DEF ExactInv, SoundInv, TypeInv, WalkOrder, WalkShape
<1>2. Done(prog) /\ Scopes(prog, table)
  BY <1>1, DoneShape DEF Shape
<1>3. Gentle(prog) /\ AllNamed(prog) /\ Moved(prog, table) /\ Meets(prog, table)
  BY DEF ExactInv, SoundInv, TypeInv, RunTypes, WalkSound, WalkMoved
<1>4. QED
  BY <1>1, <1>2, <1>3 DEF Exact

LEMMA ExecuteExact == ASSUME ExactInv, Execute PROVE RunExact'
<1>1. /\ phase = "run" /\ pc \in DOMAIN prog /\ frames = <<>> /\ env \in [Vars -> Obj]
      /\ UNCHANGED <<table, frames, prog, phase>>
  BY DEF Execute, ExactInv, SoundInv, TypeInv, RunTypes, walkVars
<1>2. Exact(prog, table)
  BY <1>1, ExactWhenDone
<1>3. PICK p, t, i, en, go : p = prog /\ t = table /\ i = pc /\ en = env /\ go = gone
  OBVIOUS
<1>4. Done(p) /\ i \in 1 .. Len(p)
  BY <1>1, <1>2, <1>3, DoneFacts DEF Exact
<1>5. AtDead(p, i, en, go)
  BY <1>1, <1>3, <1>4 DEF ExactInv, RunExact
<1>6. PICK s : s = p[i]
  OBVIOUS
<1>7. Now = s
  BY <1>3, <1>6 DEF Now
<1>8. PICK next \in Range(Successors(prog, pc)), o \in Obj \cup {0} :
         /\ Binding(s, en, o) /\ pc' = next
         /\ env' = Rebound(s, en, o) /\ gone' = Giving(s, en, go, o)
  BY <1>3, <1>7, ExecuteIs DEF ExactInv
<1>9. Goes(p, i, next)
  BY <1>3, <1>4, <1>8, SuccessorsGo
<1>10. ASSUME pc' \in 1 .. Len(prog)
       PROVE  AtDead(prog, pc', env', gone')
  <2>1. next \in 1 .. Len(p)
    BY <1>3, <1>8, <1>10
  <2>2. AtDead(p, next, Rebound(s, en, o), Giving(s, en, go, o))
    BY <1>1, <1>2, <1>3, <1>4, <1>5, <1>6, <1>8, <1>9, <2>1, AtDeadNext
  <2>3. QED
    BY <1>3, <1>8, <2>2
<1>11. QED
  BY <1>1, <1>10 DEF RunExact

LEMMA ExactStays == ASSUME Tame, ExactInv, [ONext]_allVars PROVE ExactInv'
<1>1. SoundInv /\ SoundInv'
  BY SoundStays DEF ExactInv
<1>2. WalkOrder /\ WalkSound /\ WalkShape
  BY <1>1 DEF SoundInv, TypeInv, WalkOrder
<1>3. CASE Walk /\ UNCHANGED runVars
  <2>1. WalkMoved'
    BY <1>2, <1>3, WalkKeepsMoved DEF ExactInv
  <2>2. AllEarned(prog)'
    BY <1>2, <1>3, WalkEarns DEF ExactInv
  <2>3. phase = "walk" /\ phase' = phase
    BY <1>3 DEF Walk, Bind, Const, Let, Var, Assign, For, ExprStmt, SetField, Return, If,
                Loop, Open, Else, EndIf, EndLoop, EndFor, Jump, Plain, Close
  <2>4. QED
    BY <1>1, <2>1, <2>2, <2>3 DEF ExactInv, RunExact
<1>4. CASE Start
  <2>1. UNCHANGED <<prog, table>>
    BY <1>4 DEF Start
  <2>2. RunExact'
    BY <1>1, <1>4, StartExact
  <2>3. QED
    BY <1>1, <2>1, <2>2 DEF ExactInv, WalkMoved
<1>5. CASE Execute
  <2>1. UNCHANGED <<prog, table>>
    BY <1>5 DEF Execute, walkVars
  <2>2. RunExact'
    BY <1>5, ExecuteExact
  <2>3. QED
    BY <1>1, <2>1, <2>2 DEF ExactInv, WalkMoved
<1>6. CASE UNCHANGED allVars
  <2>1. UNCHANGED <<table, frames, prog, phase, pc, env, owns, gone, hidden, fault>>
    BY <1>6 DEF allVars, walkVars, runVars
  <2>2. QED
    BY <1>1, <2>1 DEF ExactInv, WalkMoved, RunExact
<1>7. QED
  BY <1>3, <1>4, <1>5, <1>6 DEF ONext

LEMMA ReportIsReal ==
  ASSUME ExactInv, Execute, "E-OWN-004" \in Now.codes, NoLoopReported
  PROVE  fault' = "moved"
<1>1. /\ phase = "run" /\ pc \in DOMAIN prog /\ frames = <<>> /\ fault' = Fault(Now)
  BY DEF Execute, ExactInv, SoundInv, TypeInv, RunTypes
<1>2. Done(prog)
  BY <1>1, ExactWhenDone DEF Exact
<1>3. pc \in 1 .. Len(prog)
  BY <1>1, <1>2, DoneFacts
<1>4. AtDead(prog, pc, env, gone)
  BY <1>1, <1>3 DEF ExactInv, RunExact
<1>5. DeadGone(Now.pre, env, gone)
  BY <1>4 DEF AtDead, LoopsOk, NoLoopReported, Now
<1>6. PICK v \in Uses(Now.expr) : Now.pre[v] = "Consumed"
  BY <1>3 DEF ExactInv, AllEarned, Earned, Now
<1>7. v \in Vars
  <2>1. Now.expr \in Expr
    BY <1>2, <1>3, EntryFields DEF Now, Done
  <2>2. QED
    BY <1>6, <2>1, ArgListFacts
<1>8. env[v] \in gone
  BY <1>5, <1>6, <1>7 DEF DeadGone, Dead
<1>9. UsesMoved(Now.expr)
  BY <1>6, <1>8 DEF UsesMoved
<1>10. QED
  BY <1>1, <1>9 DEF Fault

(* The ownership checker is exact: of any body without the forms of Gaps,  *)
(* accepted or not, a statement it reports for a use after move            *)
(* (E-OWN-004) uses an object that is gone, on every path that reaches it, *)
(* unless a loop before it was reported for what it consumes (E-OWN-010).  *)
(* With a name bound again in both branches of an if it reports one that   *)
(* is there.                                                               *)
THEOREM ReportsAreExact == Tame => (OSpec => FlagsAreReal)
<1>1. SUFFICES ASSUME Tame PROVE OSpec => FlagsAreReal
  OBVIOUS
<1>2. OInit => ExactInv
  BY ExactBegins
<1>3. ExactInv /\ [ONext]_allVars => ExactInv'
  BY <1>1, ExactStays
<1>4. ExactInv => [Execute /\ "E-OWN-004" \in Now.codes /\ NoLoopReported => fault' = "moved"]_allVars
  BY ReportIsReal
<1>5. QED
  BY <1>2, <1>3, <1>4, PTL DEF OSpec, FlagsAreReal
=============================================================================
