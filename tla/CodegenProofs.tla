---------------------------- MODULE CodegenProofs ----------------------------
(***************************************************************************)
(* Proofs about Codegen, for any names and bodies of any length and        *)
(* nesting, as long as no arm of a match or an if expression ends in a     *)
(* return or a break ("exitArm"), every match has a wildcard               *)
(* ("noWildcard") as its last arm and no other ("earlyWildcard"), and      *)
(* every break is in a loop ("strayBreak").                                *)
(***************************************************************************)
EXTENDS CodegenRun, SequenceTheorems, FiniteSetTheorems, TLAPS

(* The builder as its methods leave it.                                    *)
Instr == [at : Nat, decl : Nat]
BlockType ==
  [code : Seq(Instr), to : Seq(Nat), filled : BOOLEAN, sealed : BOOLEAN, params : Nat]
BuilderType ==
  [blocks : Seq(BlockType), cur : Nat, terminated : BOOLEAN,
   loops : Seq([header : Nat, exit : Nat]), vars : [Names -> Nat], misuse : BOOLEAN]

BlocksOf(c) == 1 .. Len(c.blocks)

BuilderOK(c) ==
  /\ c \in BuilderType
  /\ c.cur \in BlocksOf(c)
  /\ ~c.misuse
  /\ \A t \in BlocksOf(c) : \A n \in 1 .. Len(c.blocks[t].to) :
       c.blocks[t].to[n] \in BlocksOf(c)

HasCode(c, x) ==
  \E t \in BlocksOf(c) : \E n \in 1 .. Len(c.blocks[t].code) : c.blocks[t].code[n] = x

SameCode(c, r) == \A x : HasCode(r, x) <=> HasCode(c, x)
MoreCode(c, r, i, d) ==
  \A x : HasCode(r, x) <=> HasCode(c, x) \/ x = [at |-> i, decl |-> d]

(* r has the blocks of c, those of the set filled now filled, those of the *)
(* set sealed now sealed.                                                  *)
Changed(c, r, filled, sealed) ==
  /\ Len(r.blocks) = Len(c.blocks)
  /\ \A t \in BlocksOf(c) :
       /\ r.blocks[t].filled <=> c.blocks[t].filled \/ t \in filled
       /\ r.blocks[t].sealed <=> c.blocks[t].sealed \/ t \in sealed
       /\ r.blocks[t].params = c.blocks[t].params

Kept(c, r) == r.cur = c.cur /\ r.loops = c.loops /\ r.vars = c.vars

(* r writes to block t, which is not over.                                 *)
Entered(c, r, t) ==
  r.cur = t /\ ~r.terminated /\ r.loops = c.loops /\ r.vars = c.vars

LEMMA BlockIsTyped ==
  ASSUME NEW c, BuilderOK(c), NEW t \in BlocksOf(c)
  PROVE  /\ c.blocks \in Seq(BlockType)
         /\ c.blocks[t] \in BlockType
         /\ Len(c.blocks) \in Nat
         /\ c.blocks[t].code \in Seq(Instr)
         /\ c.blocks[t].to \in Seq(Nat)
<1>1. c.blocks \in Seq(BlockType)
  BY DEF BuilderOK, BuilderType
<1>2. c.blocks[t] \in BlockType /\ Len(c.blocks) \in Nat
  BY <1>1, ElementOfSeq, LenProperties DEF BlocksOf
<1>3. QED
  BY <1>1, <1>2 DEF BlockType

(* One block is replaced. *)
LEMMA ReplaceBlock ==
  ASSUME NEW c, BuilderOK(c), NEW k \in BlocksOf(c), NEW d \in BlockType
  PROVE  LET s == [c.blocks EXCEPT ![k] = d]
         IN /\ s \in Seq(BlockType) /\ Len(s) = Len(c.blocks)
            /\ \A t \in BlocksOf(c) : s[t] = IF t = k THEN d ELSE c.blocks[t]
<1>1. c.blocks \in Seq(BlockType) /\ Len(c.blocks) \in Nat
  BY DEF BuilderOK, BuilderType
<1>2. DOMAIN c.blocks = BlocksOf(c)
  BY <1>1 DEF BlocksOf
<1>3. [c.blocks EXCEPT ![k] = d] \in Seq(BlockType)
      /\ Len([c.blocks EXCEPT ![k] = d]) = Len(c.blocks)
  BY <1>1, <1>2, ExceptSeq
<1>4. QED
  BY <1>1, <1>2, <1>3

-----------------------------------------------------------------------------
(* Instructions. *)
LEMMA EmitLegal ==
  ASSUME NEW c, BuilderOK(c), ~c.blocks[c.cur].filled, NEW i \in Nat, NEW d \in Nat
  PROVE  /\ BuilderOK(Emit(c, i, d))
         /\ Changed(c, Emit(c, i, d), {}, {})
         /\ MoreCode(c, Emit(c, i, d), i, d)
         /\ Kept(c, Emit(c, i, d))
         /\ Emit(c, i, d).terminated = c.terminated
<1> DEFINE r == Emit(c, i, d)
           old == c.blocks[c.cur]
           code == Append(old.code, [at |-> i, decl |-> d])
           new == [old EXCEPT !.code = code]
           s == [c.blocks EXCEPT ![c.cur] = new]
<1>1. c.cur \in BlocksOf(c) /\ old \in BlockType /\ old.code \in Seq(Instr)
  BY BlockIsTyped DEF BuilderOK
<1>2. [at |-> i, decl |-> d] \in Instr
  BY DEF Instr
<1>3. /\ code \in Seq(Instr) /\ Len(code) = Len(old.code) + 1
      /\ \A n \in 1 .. Len(old.code) : code[n] = old.code[n]
      /\ code[Len(old.code) + 1] = [at |-> i, decl |-> d]
      /\ Len(old.code) \in Nat
  <2> DEFINE o == old.code
             e == [at |-> i, decl |-> d]
  <2>1. o \in Seq(Instr) /\ e \in Instr
    BY <1>1, <1>2
  <2> HIDE DEF o, e
  <2>2. /\ Append(o, e) \in Seq(Instr) /\ Len(Append(o, e)) = Len(o) + 1
        /\ \A n \in 1 .. Len(o) : Append(o, e)[n] = o[n]
        /\ Append(o, e)[Len(o) + 1] = e
        /\ Len(o) \in Nat
    BY <2>1, AppendProperties, LenProperties
  <2>3. QED
    BY <2>2 DEF o, e
<1>4. new \in BlockType /\ new.code = code /\ new.to = old.to
      /\ new.filled = old.filled /\ new.sealed = old.sealed /\ new.params = old.params
  <2> HIDE DEF old, code
  <2>1. QED
    BY <1>1, <1>3 DEF BlockType
<1>5. /\ s \in Seq(BlockType) /\ Len(s) = Len(c.blocks)
      /\ \A t \in BlocksOf(c) : s[t] = IF t = c.cur THEN new ELSE c.blocks[t]
  <2> HIDE DEF new
  <2>1. QED
    BY <1>1, <1>4, ReplaceBlock
<1>6. /\ r \in BuilderType /\ r.blocks = s /\ r.cur = c.cur /\ r.terminated = c.terminated
      /\ r.loops = c.loops /\ r.vars = c.vars /\ ~r.misuse
  <2>1. r = [[c EXCEPT !.misuse = @ \/ c.blocks[c.cur].filled] EXCEPT !.blocks = s]
    BY DEF Emit, Flag, BuilderOK, BuilderType
  <2> HIDE DEF s, r
  <2>2. QED
    BY <1>5, <2>1 DEF BuilderOK, BuilderType
<1> HIDE DEF r, s, new, code, old
<1>7. BlocksOf(r) = BlocksOf(c)
  BY <1>5, <1>6 DEF BlocksOf
<1>8. BuilderOK(r)
  <2>1. \A t \in BlocksOf(c) : s[t].to = c.blocks[t].to
    BY <1>4, <1>5 DEF old
  <2>2. \A t \in BlocksOf(r) : \A n \in 1 .. Len(r.blocks[t].to) :
          r.blocks[t].to[n] \in BlocksOf(r)
    BY <1>6, <1>7, <2>1 DEF BuilderOK
  <2>3. QED
    BY <1>1, <1>6, <1>7, <2>2 DEF BuilderOK
<1>9. Changed(c, r, {}, {})
  BY <1>4, <1>5, <1>6 DEF Changed, old
<1>10. MoreCode(c, r, i, d)
  <2>1. ASSUME NEW x PROVE HasCode(r, x) <=> HasCode(c, x) \/ x = [at |-> i, decl |-> d]
    <3>1. HasCode(r, x)
            <=> \E t \in BlocksOf(c) : \E n \in 1 .. Len(s[t].code) : s[t].code[n] = x
      BY <1>6, <1>7 DEF HasCode
    <3>2. HasCode(c, x)
            <=> \/ \E t \in BlocksOf(c) : t # c.cur
                     /\ \E n \in 1 .. Len(c.blocks[t].code) : c.blocks[t].code[n] = x
                \/ \E n \in 1 .. Len(old.code) : old.code[n] = x
      BY <1>1 DEF HasCode, old
    <3>3. HasCode(r, x)
            <=> \/ \E t \in BlocksOf(c) : t # c.cur
                     /\ \E n \in 1 .. Len(c.blocks[t].code) : c.blocks[t].code[n] = x
                \/ \E n \in 1 .. Len(code) : code[n] = x
      BY <1>1, <1>4, <1>5, <3>1
    <3>4. (\E n \in 1 .. Len(code) : code[n] = x)
            <=> \/ \E n \in 1 .. Len(old.code) : old.code[n] = x
                \/ x = [at |-> i, decl |-> d]
      <4> DEFINE o == old.code
                 e == [at |-> i, decl |-> d]
      <4>1. /\ Len(o) \in Nat /\ Len(code) = Len(o) + 1 /\ code[Len(o) + 1] = e
            /\ \A n \in 1 .. Len(o) : code[n] = o[n]
        BY <1>3
      <4> HIDE DEF o, e
      <4>2. /\ \A n \in 1 .. Len(code) : n \in 1 .. Len(o) \/ n = Len(o) + 1
            /\ \A n \in 1 .. Len(o) : n \in 1 .. Len(code)
            /\ Len(o) + 1 \in 1 .. Len(code)
        BY <4>1
      <4>3. (\E n \in 1 .. Len(code) : code[n] = x)
              <=> (\E n \in 1 .. Len(o) : o[n] = x) \/ x = e
        BY <4>1, <4>2
      <4>4. QED
        BY <4>3 DEF o, e
    <3>5. QED
      BY <3>2, <3>3, <3>4
  <2>2. QED
    BY <2>1 DEF MoreCode
<1>11. QED
  BY <1>6, <1>8, <1>9, <1>10 DEF r, Kept

(* A declaration is an instruction after which the name has that place. *)
LEMMA DeclareLegal ==
  ASSUME NEW c, BuilderOK(c), ~c.blocks[c.cur].filled, NEW x \in Names, NEW i \in Nat
  PROVE  /\ BuilderOK(VarDeclare(c, x, i))
         /\ Changed(c, VarDeclare(c, x, i), {}, {})
         /\ MoreCode(c, VarDeclare(c, x, i), i, i)
         /\ VarDeclare(c, x, i).cur = c.cur
         /\ VarDeclare(c, x, i).terminated = c.terminated
         /\ VarDeclare(c, x, i).loops = c.loops
         /\ VarDeclare(c, x, i).vars = [c.vars EXCEPT ![x] = i]
<1> DEFINE e == Emit(c, i, i)
           r == VarDeclare(c, x, i)
<1>1. /\ BuilderOK(e) /\ Changed(c, e, {}, {}) /\ MoreCode(c, e, i, i)
      /\ e.cur = c.cur /\ e.terminated = c.terminated
      /\ e.loops = c.loops /\ e.vars = c.vars
  BY EmitLegal DEF Kept
<1>2. r = [e EXCEPT !.vars = [e.vars EXCEPT ![x] = i]]
  BY <1>1 DEF VarDeclare, BuilderOK, BuilderType
<1> HIDE DEF e, r
<1>3. /\ r \in BuilderType /\ r.blocks = e.blocks /\ r.cur = e.cur
      /\ r.terminated = e.terminated /\ r.loops = e.loops /\ r.misuse = e.misuse
      /\ r.vars = [e.vars EXCEPT ![x] = i]
  BY <1>1, <1>2 DEF BuilderOK, BuilderType
<1>4. BlocksOf(r) = BlocksOf(e)
  BY <1>3 DEF BlocksOf
<1>5. BuilderOK(r)
  BY <1>1, <1>3, <1>4 DEF BuilderOK
<1>6. Changed(c, r, {}, {}) /\ MoreCode(c, r, i, i)
  BY <1>1, <1>3, <1>4 DEF Changed, MoreCode, HasCode
<1>7. QED
  BY <1>1, <1>3, <1>5, <1>6 DEF r

LEMMA GetLegal ==
  ASSUME NEW c, BuilderOK(c), ~c.blocks[c.cur].filled, NEW x \in Names, NEW i \in Nat,
         c.vars[x] # 0
  PROVE  VarGet(c, x, i) = Emit(c, i, c.vars[x]) /\ c.vars[x] \in Nat
<1> DEFINE e == Emit(c, i, c.vars[x])
<1>1. c.vars[x] \in Nat
  BY DEF BuilderOK, BuilderType
<1>2. BuilderOK(e)
  BY <1>1, EmitLegal
<1>3. VarGet(c, x, i) = [e EXCEPT !.misuse = @ \/ c.vars[x] = 0]
  BY DEF VarGet, Flag
<1> HIDE DEF e
<1>4. [e EXCEPT !.misuse = @ \/ c.vars[x] = 0] = e
  BY <1>2 DEF BuilderOK, BuilderType
<1>5. QED
  BY <1>1, <1>3, <1>4 DEF e


-----------------------------------------------------------------------------
(* Terminators, and the current block. *)
Targets(c, to, args) ==
  /\ to \in Seq(Nat)
  /\ \A n \in 1 .. Len(to) :
       /\ to[n] \in BlocksOf(c)
       /\ ~c.blocks[to[n]].sealed /\ c.blocks[to[n]].params = args

LEMMA TerminateLegal ==
  ASSUME NEW c, BuilderOK(c), ~c.blocks[c.cur].filled, NEW to, NEW args,
         Targets(c, to, args)
  PROVE  /\ BuilderOK(Terminate(c, to, args))
         /\ Changed(c, Terminate(c, to, args), {c.cur}, {})
         /\ SameCode(c, Terminate(c, to, args))
         /\ Kept(c, Terminate(c, to, args))
         /\ Terminate(c, to, args).terminated
<1> DEFINE r == Terminate(c, to, args)
           old == c.blocks[c.cur]
           new == [old EXCEPT !.to = to, !.filled = TRUE]
           s == [c.blocks EXCEPT ![c.cur] = new]
           wrong == \/ c.blocks[c.cur].filled
                    \/ \E n \in DOMAIN to :
                         \/ c.blocks[to[n]].sealed
                         \/ c.blocks[to[n]].params # args
<1>1. c.cur \in BlocksOf(c) /\ old \in BlockType
  BY BlockIsTyped DEF BuilderOK
<1>2. /\ new \in BlockType /\ new.code = old.code /\ new.to = to
      /\ new.filled = TRUE /\ new.sealed = old.sealed /\ new.params = old.params
  <2> HIDE DEF old
  <2>1. QED
    BY <1>1 DEF BlockType, Targets
<1>3. /\ s \in Seq(BlockType) /\ Len(s) = Len(c.blocks)
      /\ \A t \in BlocksOf(c) : s[t] = IF t = c.cur THEN new ELSE c.blocks[t]
  <2> HIDE DEF new
  <2>1. QED
    BY <1>1, <1>2, ReplaceBlock
<1>4. ~wrong
  <2>1. DOMAIN to = 1 .. Len(to)
    BY DEF Targets
  <2>2. QED
    BY <2>1 DEF Targets
<1>5. /\ r \in BuilderType /\ r.blocks = s /\ r.cur = c.cur /\ r.terminated = TRUE
      /\ r.loops = c.loops /\ r.vars = c.vars /\ ~r.misuse
  <2>1. c.blocks \in Seq(BlockType) /\ c.cur \in DOMAIN c.blocks
    BY <1>1 DEF BuilderOK, BuilderType, BlocksOf
  <2>2. r = [[c EXCEPT !.misuse = @ \/ wrong] EXCEPT !.blocks = s, !.terminated = TRUE]
    BY <1>1, <2>1, ZenonT(60) DEF Terminate, Flag, BuilderOK, BuilderType, BlockType
  <2> HIDE DEF s, r, wrong
  <2>3. QED
    BY <1>3, <1>4, <2>2 DEF BuilderOK, BuilderType
<1> HIDE DEF r, s, new, wrong
<1>6. BlocksOf(r) = BlocksOf(c)
  BY <1>3, <1>5 DEF BlocksOf
<1>7. \A t \in BlocksOf(c) : \A n \in 1 .. Len(s[t].to) : s[t].to[n] \in BlocksOf(c)
  BY <1>2, <1>3 DEF BuilderOK, Targets
<1>8. BuilderOK(r)
  BY <1>1, <1>5, <1>6, <1>7 DEF BuilderOK
<1>9. Changed(c, r, {c.cur}, {})
  BY <1>2, <1>3, <1>5 DEF Changed
<1>10. SameCode(c, r)
  <2>1. \A t \in BlocksOf(c) : r.blocks[t].code = c.blocks[t].code
    BY <1>2, <1>3, <1>5
  <2>2. QED
    BY <1>6, <2>1 DEF SameCode, HasCode
<1>11. QED
  BY <1>5, <1>8, <1>9, <1>10 DEF r, Kept

LEMMA SwitchLegal ==
  ASSUME NEW c, BuilderOK(c), c.blocks[c.cur].filled,
         NEW t \in BlocksOf(c), ~c.blocks[t].filled
  PROVE  /\ BuilderOK(SwitchBlock(c, t))
         /\ Changed(c, SwitchBlock(c, t), {}, {})
         /\ SameCode(c, SwitchBlock(c, t))
         /\ Entered(c, SwitchBlock(c, t), t)
<1> DEFINE r == SwitchBlock(c, t)
<1>1. /\ r \in BuilderType /\ r.blocks = c.blocks /\ r.cur = t /\ r.terminated = FALSE
      /\ r.loops = c.loops /\ r.vars = c.vars /\ ~r.misuse
  <2> DEFINE wrong == ~c.blocks[c.cur].filled \/ c.blocks[t].filled
  <2>1. r = [[c EXCEPT !.misuse = @ \/ wrong] EXCEPT !.cur = t, !.terminated = FALSE]
    BY DEF SwitchBlock, Flag
  <2>2. ~wrong /\ t \in Nat
    BY DEF BlocksOf
  <2> HIDE DEF r, wrong
  <2>3. QED
    BY <2>1, <2>2 DEF BuilderOK, BuilderType
<1> HIDE DEF r
<1>2. BuilderOK(r)
  BY <1>1 DEF BuilderOK, BlocksOf
<1>3. Changed(c, r, {}, {}) /\ SameCode(c, r)
  BY <1>1 DEF Changed, SameCode, HasCode, BlocksOf
<1>4. QED
  BY <1>1, <1>2, <1>3 DEF r, Entered

LEMMA SealLegal ==
  ASSUME NEW c, BuilderOK(c), NEW t \in BlocksOf(c), ~c.blocks[t].sealed
  PROVE  /\ BuilderOK(SealBlock(c, t))
         /\ Changed(c, SealBlock(c, t), {}, {t})
         /\ SameCode(c, SealBlock(c, t))
         /\ Kept(c, SealBlock(c, t))
         /\ SealBlock(c, t).terminated = c.terminated
<1> DEFINE r == SealBlock(c, t)
           old == c.blocks[t]
           new == [old EXCEPT !.sealed = TRUE]
           s == [c.blocks EXCEPT ![t] = new]
<1>1. old \in BlockType
  BY BlockIsTyped
<1>2. /\ new \in BlockType /\ new.code = old.code /\ new.to = old.to
      /\ new.filled = old.filled /\ new.sealed = TRUE /\ new.params = old.params
  <2> HIDE DEF old
  <2>1. QED
    BY <1>1 DEF BlockType
<1>3. /\ s \in Seq(BlockType) /\ Len(s) = Len(c.blocks)
      /\ \A u \in BlocksOf(c) : s[u] = IF u = t THEN new ELSE c.blocks[u]
  <2> HIDE DEF new
  <2>1. QED
    BY <1>2, ReplaceBlock
<1>4. /\ r \in BuilderType /\ r.blocks = s /\ r.cur = c.cur /\ r.terminated = c.terminated
      /\ r.loops = c.loops /\ r.vars = c.vars /\ ~r.misuse
  <2>1. r = [[c EXCEPT !.misuse = @ \/ c.blocks[t].sealed] EXCEPT !.blocks = s]
    BY DEF SealBlock, Flag, BuilderOK, BuilderType
  <2> HIDE DEF s, r
  <2>2. QED
    BY <1>3, <2>1 DEF BuilderOK, BuilderType
<1> HIDE DEF r, s, new
<1>5. BlocksOf(r) = BlocksOf(c)
  BY <1>3, <1>4 DEF BlocksOf
<1>6. \A u \in BlocksOf(c) : s[u].to = c.blocks[u].to /\ s[u].code = c.blocks[u].code
  BY <1>2, <1>3
<1>7. BuilderOK(r)
  <2>1. \A u \in BlocksOf(r) : \A n \in 1 .. Len(r.blocks[u].to) :
          r.blocks[u].to[n] \in BlocksOf(r)
    BY <1>4, <1>5, <1>6 DEF BuilderOK
  <2>2. QED
    BY <1>4, <1>5, <2>1 DEF BuilderOK
<1>8. Changed(c, r, {}, {t})
  BY <1>2, <1>3, <1>4 DEF Changed
<1>9. SameCode(c, r)
  BY <1>4, <1>5, <1>6 DEF SameCode, HasCode
<1>10. QED
  BY <1>4, <1>7, <1>8, <1>9 DEF r, Kept

(* New blocks, one for each of the parameter counts. *)
LEMMA CreateLegal ==
  ASSUME NEW c, BuilderOK(c), NEW params \in Seq(Nat)
  PROVE  /\ BuilderOK(CreateBlocks(c, params))
         /\ Len(CreateBlocks(c, params).blocks) = Len(c.blocks) + Len(params)
         /\ \A t \in BlocksOf(c) : CreateBlocks(c, params).blocks[t] = c.blocks[t]
         /\ \A n \in 1 .. Len(params) :
              CreateBlocks(c, params).blocks[Len(c.blocks) + n] = NewBlock(params[n])
         /\ SameCode(c, CreateBlocks(c, params))
         /\ Kept(c, CreateBlocks(c, params))
         /\ CreateBlocks(c, params).terminated = c.terminated
<1> DEFINE r == CreateBlocks(c, params)
           more == [n \in 1 .. Len(params) |-> NewBlock(params[n])]
           old == c.blocks
           s == old \o more
<1>1. \A n \in 1 .. Len(params) : NewBlock(params[n]) \in BlockType
  BY ElementOfSeq DEF NewBlock, BlockType
<1>2. more \in Seq(BlockType) /\ Len(more) = Len(params)
  BY <1>1, LenProperties
<1>3. old \in Seq(BlockType) /\ Len(old) \in Nat /\ Len(params) \in Nat
  BY LenProperties DEF BuilderOK, BuilderType
<1>4. \A n \in 1 .. Len(params) : more[n] = NewBlock(params[n])
  OBVIOUS
<1> HIDE DEF more
<1>5. /\ s \in Seq(BlockType) /\ Len(s) = Len(old) + Len(params)
      /\ \A t \in 1 .. Len(old) : s[t] = old[t]
      /\ \A n \in 1 .. Len(params) : s[Len(old) + n] = more[n]
  <2> HIDE DEF old
  <2>1. /\ s \in Seq(BlockType) /\ Len(s) = Len(old) + Len(params)
        /\ \A t \in 1 .. Len(old) + Len(more) :
             s[t] = IF t <= Len(old) THEN old[t] ELSE more[t - Len(old)]
    <3>1. /\ old \o more \in Seq(BlockType) /\ Len(old \o more) = Len(old) + Len(more)
          /\ \A t \in 1 .. Len(old) + Len(more) : (old \o more)[t]
               = IF t <= Len(old) THEN old[t] ELSE more[t - Len(old)]
      BY <1>2, <1>3, ConcatProperties
    <3>2. QED
      BY <1>2, <3>1
  <2>2. ASSUME NEW n \in 1 .. Len(params) PROVE s[Len(old) + n] = more[n]
    <3>1. Len(old) + n \in 1 .. Len(old) + Len(more) /\ ~(Len(old) + n <= Len(old))
          /\ Len(old) + n - Len(old) = n
      BY <1>2, <1>3
    <3>2. QED
      BY <2>1, <3>1
  <2>3. QED
    BY <1>2, <1>3, <2>1, <2>2
<1>6. r = [c EXCEPT !.blocks = s]
  <2>1. DOMAIN params = 1 .. Len(params)
    OBVIOUS
  <2>2. QED
    BY <2>1 DEF CreateBlocks, more, old
<1> HIDE DEF s
<1>7. /\ r \in BuilderType /\ r.blocks = s /\ r.cur = c.cur /\ r.terminated = c.terminated
      /\ r.loops = c.loops /\ r.vars = c.vars /\ ~r.misuse
  <2> HIDE DEF r
  <2>1. QED
    BY <1>5, <1>6 DEF BuilderOK, BuilderType
<1> HIDE DEF r
<1>8. BlocksOf(c) \subseteq BlocksOf(r)
  BY <1>3, <1>5, <1>7 DEF BlocksOf, old
<1>9. \A t \in BlocksOf(r) : t \in BlocksOf(c) \/ \E n \in 1 .. Len(params) : t = Len(old) + n
  <2>1. ASSUME NEW t \in BlocksOf(r), t \notin BlocksOf(c)
        PROVE  \E n \in 1 .. Len(params) : t = Len(old) + n
    <3>1. t - Len(old) \in 1 .. Len(params) /\ t = Len(old) + (t - Len(old))
      BY <2>1, <1>3, <1>5, <1>7 DEF BlocksOf, old
    <3>2. QED
      BY <3>1
  <2>2. QED
    BY <2>1
<1>10. \A n \in 1 .. Len(params) : s[Len(old) + n].code = <<>> /\ s[Len(old) + n].to = <<>>
  <2>1. \A n \in 1 .. Len(params) : s[Len(old) + n] = NewBlock(params[n])
    BY <1>4, <1>5
  <2>2. \A q : NewBlock(q).code = <<>> /\ NewBlock(q).to = <<>>
    BY DEF NewBlock
  <2>3. QED
    BY <2>1, <2>2
<1>11. \A t \in BlocksOf(c) : s[t] = c.blocks[t]
  BY <1>5 DEF BlocksOf, old
<1>12. BuilderOK(r)
  <2>1. ASSUME NEW t \in BlocksOf(r), NEW n \in 1 .. Len(r.blocks[t].to)
        PROVE  r.blocks[t].to[n] \in BlocksOf(r)
    <3>1. CASE t \in BlocksOf(c)
      BY <3>1, <1>7, <1>8, <1>11 DEF BuilderOK
    <3>2. CASE t \notin BlocksOf(c)
      <4>1. r.blocks[t].to = <<>>
        BY <3>2, <1>7, <1>9, <1>10
      <4>2. QED
        BY <4>1
    <3>3. QED
      BY <3>1, <3>2
  <2>2. QED
    BY <2>1, <1>7, <1>8 DEF BuilderOK
<1>13. SameCode(c, r)
  <2>1. ASSUME NEW x, HasCode(r, x) PROVE HasCode(c, x)
    <3>1. PICK t \in BlocksOf(r) : \E n \in 1 .. Len(r.blocks[t].code) : r.blocks[t].code[n] = x
      BY <2>1 DEF HasCode
    <3>2. t \in BlocksOf(c)
      BY <3>1, <1>7, <1>9, <1>10
    <3>3. QED
      BY <3>1, <3>2, <1>7, <1>11 DEF HasCode
  <2>2. ASSUME NEW x, HasCode(c, x) PROVE HasCode(r, x)
    BY <2>2, <1>7, <1>8, <1>11 DEF HasCode
  <2>3. QED
    BY <2>1, <2>2 DEF SameCode
<1>14. QED
  BY <1>4, <1>5, <1>7, <1>11, <1>12, <1>13 DEF r, old, Kept


-----------------------------------------------------------------------------
(* Methods that are made of others.  Grown is Changed with new blocks      *)
(* behind the old ones.                                                    *)
Grown(c, r, filled, sealed) ==
  /\ Len(r.blocks) >= Len(c.blocks)
  /\ \A t \in BlocksOf(c) :
       /\ t \in BlocksOf(r)
       /\ r.blocks[t].filled <=> c.blocks[t].filled \/ t \in filled
       /\ r.blocks[t].sealed <=> c.blocks[t].sealed \/ t \in sealed
       /\ r.blocks[t].params = c.blocks[t].params

LEMMA ChangedGrown ==
  ASSUME NEW c, BuilderOK(c), NEW r, NEW F, NEW S, Changed(c, r, F, S)
  PROVE  Grown(c, r, F, S) /\ BlocksOf(r) = BlocksOf(c)
<1>1. Len(c.blocks) \in Nat
  BY BlockIsTyped DEF BuilderOK
<1>2. QED
  BY <1>1 DEF Changed, Grown, BlocksOf

LEMMA ChangedTwice ==
  ASSUME NEW c, NEW d, NEW r, NEW F, NEW S, NEW G, NEW T,
         Changed(c, d, F, S), Changed(d, r, G, T)
  PROVE  Changed(c, r, F \cup G, S \cup T)
  BY DEF Changed, BlocksOf

LEMMA SwitchSealedLegal ==
  ASSUME NEW c, BuilderOK(c), c.blocks[c.cur].filled,
         NEW t \in BlocksOf(c), ~c.blocks[t].filled, ~c.blocks[t].sealed
  PROVE  /\ BuilderOK(SwitchSealed(c, t))
         /\ Changed(c, SwitchSealed(c, t), {}, {t})
         /\ SameCode(c, SwitchSealed(c, t))
         /\ Entered(c, SwitchSealed(c, t), t)
<1> DEFINE d == SwitchBlock(c, t)
           r == SealBlock(d, t)
<1>1. BuilderOK(d) /\ Changed(c, d, {}, {}) /\ SameCode(c, d) /\ Entered(c, d, t)
  BY SwitchLegal
<1> HIDE DEF d
<1>2. t \in BlocksOf(d) /\ ~d.blocks[t].sealed
  BY <1>1 DEF Changed, BlocksOf
<1>3. /\ BuilderOK(r) /\ Changed(d, r, {}, {t}) /\ SameCode(d, r) /\ Kept(d, r)
      /\ r.terminated = d.terminated
  BY <1>1, <1>2, SealLegal
<1>4. SwitchSealed(c, t) = r
  BY DEF SwitchSealed, d
<1> HIDE DEF r
<1>5. Changed(c, r, {} \cup {}, {} \cup {t}) /\ SameCode(c, r)
  BY <1>1, <1>3, ChangedTwice DEF SameCode
<1>6. {} \cup {t} = {t} /\ {} \cup {} = {}
  OBVIOUS
<1>7. Entered(c, r, t)
  BY <1>1, <1>3 DEF Entered, Kept
<1>8. QED
  BY <1>3, <1>4, <1>5, <1>6, <1>7

(* terminated is the truth about the current block. *)
Truth(c) == c.terminated <=> c.blocks[c.cur].filled

LEMMA JumpLegal ==
  ASSUME NEW c, BuilderOK(c), Truth(c),
         NEW t \in BlocksOf(c), ~c.blocks[t].sealed, c.blocks[t].params = 0
  PROVE  /\ BuilderOK(JumpTo(c, t))
         /\ Changed(c, JumpTo(c, t), {c.cur}, {})
         /\ SameCode(c, JumpTo(c, t))
         /\ Kept(c, JumpTo(c, t))
<1>1. CASE c.terminated
  <2>1. JumpTo(c, t) = c
    BY <1>1 DEF JumpTo
  <2>2. Changed(c, c, {c.cur}, {}) /\ SameCode(c, c) /\ Kept(c, c)
    BY <1>1 DEF Changed, SameCode, Truth, Kept
  <2>3. QED
    BY <2>1, <2>2
<1>2. CASE ~c.terminated
  <2> DEFINE to == <<t>>
  <2>1. JumpTo(c, t) = Terminate(c, to, 0)
    BY <1>2 DEF JumpTo
  <2>2. to \in Seq(Nat) /\ \A n \in 1 .. Len(to) : to[n] = t
    BY DEF BlocksOf
  <2>3. Targets(c, to, 0)
    BY <2>2 DEF Targets
  <2> HIDE DEF to
  <2>4. ~c.blocks[c.cur].filled
    BY <1>2 DEF Truth
  <2>5. /\ BuilderOK(Terminate(c, to, 0)) /\ Changed(c, Terminate(c, to, 0), {c.cur}, {})
        /\ SameCode(c, Terminate(c, to, 0)) /\ Kept(c, Terminate(c, to, 0))
    BY <2>3, <2>4, TerminateLegal
  <2>6. QED
    BY <2>1, <2>5
<1>3. QED
  BY <1>1, <1>2

LEMMA JumpWithLegal ==
  ASSUME NEW c, BuilderOK(c), ~c.blocks[c.cur].filled,
         NEW t \in BlocksOf(c), ~c.blocks[t].sealed, c.blocks[t].params = 1
  PROVE  /\ BuilderOK(JumpWith(c, t))
         /\ Changed(c, JumpWith(c, t), {c.cur}, {})
         /\ SameCode(c, JumpWith(c, t))
         /\ Kept(c, JumpWith(c, t))
<1> DEFINE to == <<t>>
<1>1. JumpWith(c, t) = Terminate(c, to, 1)
  BY DEF JumpWith
<1>2. to \in Seq(Nat) /\ \A n \in 1 .. Len(to) : to[n] = t
  BY DEF BlocksOf
<1>3. Targets(c, to, 1)
  BY <1>2 DEF Targets
<1> HIDE DEF to
<1>4. /\ BuilderOK(Terminate(c, to, 1)) /\ Changed(c, Terminate(c, to, 1), {c.cur}, {})
      /\ SameCode(c, Terminate(c, to, 1)) /\ Kept(c, Terminate(c, to, 1))
  BY <1>3, TerminateLegal
<1>5. QED
  BY <1>1, <1>4

LEMMA BrifLegal ==
  ASSUME NEW c, BuilderOK(c), ~c.blocks[c.cur].filled,
         NEW t \in BlocksOf(c), ~c.blocks[t].sealed, c.blocks[t].params = 0,
         NEW e \in BlocksOf(c), ~c.blocks[e].sealed, c.blocks[e].params = 0
  PROVE  /\ BuilderOK(BrifTo(c, t, e))
         /\ Changed(c, BrifTo(c, t, e), {c.cur}, {})
         /\ SameCode(c, BrifTo(c, t, e))
         /\ Kept(c, BrifTo(c, t, e))
<1> DEFINE to == <<t, e>>
<1>1. BrifTo(c, t, e) = Terminate(c, to, 0)
  BY DEF BrifTo
<1>2. to \in Seq(Nat) /\ \A n \in 1 .. Len(to) : to[n] = t \/ to[n] = e
  BY DEF BlocksOf
<1>3. Targets(c, to, 0)
  BY <1>2 DEF Targets
<1> HIDE DEF to
<1>4. /\ BuilderOK(Terminate(c, to, 0)) /\ Changed(c, Terminate(c, to, 0), {c.cur}, {})
      /\ SameCode(c, Terminate(c, to, 0)) /\ Kept(c, Terminate(c, to, 0))
  BY <1>3, TerminateLegal
<1>5. QED
  BY <1>1, <1>4

LEMMA ReturnLegal ==
  ASSUME NEW c, BuilderOK(c), ~c.blocks[c.cur].filled
  PROVE  /\ BuilderOK(ReturnVal(c))
         /\ Changed(c, ReturnVal(c), {c.cur}, {})
         /\ SameCode(c, ReturnVal(c))
         /\ Kept(c, ReturnVal(c))
         /\ ReturnVal(c).terminated
<1> DEFINE to == <<>>
<1>1. ReturnVal(c) = Terminate(c, to, 0)
  BY DEF ReturnVal
<1>2. to \in Seq(Nat) /\ Len(to) = 0
  OBVIOUS
<1>3. Targets(c, to, 0)
  BY <1>2 DEF Targets
<1> HIDE DEF to
<1>4. /\ BuilderOK(Terminate(c, to, 0)) /\ Changed(c, Terminate(c, to, 0), {c.cur}, {})
      /\ SameCode(c, Terminate(c, to, 0)) /\ Kept(c, Terminate(c, to, 0))
      /\ Terminate(c, to, 0).terminated
  BY <1>3, TerminateLegal
<1>5. QED
  BY <1>1, <1>4

-----------------------------------------------------------------------------
(* The blocks the open statements wait for.  A frame that was opened in    *)
(* dead code waits for none.                                               *)
ArmKinds == {"arm", "ifExpr", "elseExpr"}
FrameType ==
  [kind : {"then", "if", "loop"} \cup ArmKinds, live : BOOLEAN,
   header : Nat, merge : Nat, next : Nat, last : BOOLEAN]

HasNext(f) == f.kind \in {"then", "ifExpr"} \/ (f.kind = "arm" /\ ~f.last)
Waits(f) == IF f.live THEN {f.merge} \cup (IF HasNext(f) THEN {f.next} ELSE {}) ELSE {}
Heads(f) == IF f.live /\ f.kind = "loop" THEN {f.header} ELSE {}

(* They are empty and open, with the parameters that their jumps expect,   *)
(* and the header of a loop is open.                                       *)
Pending(f, c) ==
  /\ \A t \in Waits(f) :
       t \in BlocksOf(c) /\ t # c.cur /\ ~c.blocks[t].filled /\ ~c.blocks[t].sealed
  /\ \A t \in Heads(f) :
       t \in BlocksOf(c) /\ ~c.blocks[t].sealed /\ c.blocks[t].params = 0
  /\ f.live => c.blocks[f.merge].params = IF f.kind \in ArmKinds THEN 1 ELSE 0
  /\ f.live /\ HasNext(f) => c.blocks[f.next].params = 0 /\ f.next # f.merge
  /\ f.live /\ f.kind \in ArmKinds => ~c.terminated
  /\ ~f.live => c.terminated

(* No two frames wait for the same block. *)
Apart(f, g) ==
  /\ Waits(f) \cap Waits(g) = {} /\ Heads(f) \cap Heads(g) = {}
  /\ Waits(f) \cap Heads(g) = {} /\ Waits(g) \cap Heads(f) = {}

WaitedFor(fr, t) == \E i \in 1 .. Len(fr) : t \in Waits(fr[i])
HeadOf(fr, t) == \E i \in 1 .. Len(fr) : t \in Heads(fr[i])

(* Every other block is done with. *)
Settled(fr, c) ==
  \A t \in BlocksOf(c) :
    /\ c.blocks[t].filled \/ t = c.cur \/ WaitedFor(fr, t)
    /\ c.blocks[t].sealed \/ WaitedFor(fr, t) \/ HeadOf(fr, t)

StackOK(fr, c) ==
  /\ fr \in Seq(FrameType)
  /\ \A i \in 1 .. Len(fr) : Pending(fr[i], c) /\ Waits(fr[i]) \cap Heads(fr[i]) = {}
  /\ \A i, j \in 1 .. Len(fr) : i < j => Apart(fr[i], fr[j])
  /\ \A i, j \in 1 .. Len(fr) : i < j /\ fr[j].live => fr[i].live
  /\ Settled(fr, c)

LEMMA AppendIndex ==
  ASSUME NEW fr \in Seq(FrameType), NEW f \in FrameType
  PROVE  /\ Append(fr, f) \in Seq(FrameType)
         /\ Len(fr) \in Nat /\ Len(Append(fr, f)) = Len(fr) + 1
         /\ \A i \in 1 .. Len(fr) : Append(fr, f)[i] = fr[i] /\ i \in 1 .. Len(fr) + 1
         /\ Append(fr, f)[Len(fr) + 1] = f /\ Len(fr) + 1 \in 1 .. Len(fr) + 1
         /\ \A i \in 1 .. Len(fr) + 1 : i \in 1 .. Len(fr) \/ i = Len(fr) + 1
<1>1. /\ Append(fr, f) \in Seq(FrameType)
      /\ Len(Append(fr, f)) = Len(fr) + 1
      /\ \A i \in 1 .. Len(fr) : Append(fr, f)[i] = fr[i]
      /\ Append(fr, f)[Len(fr) + 1] = f
  BY AppendProperties
<1>2. Len(fr) \in Nat
  BY LenProperties
<1>3. QED
  BY <1>1, <1>2

LEMMA WaitedAppend ==
  ASSUME NEW fr \in Seq(FrameType), NEW f \in FrameType, NEW t
  PROVE  /\ WaitedFor(Append(fr, f), t) <=> WaitedFor(fr, t) \/ t \in Waits(f)
         /\ HeadOf(Append(fr, f), t) <=> HeadOf(fr, t) \/ t \in Heads(f)
  BY AppendIndex DEF WaitedFor, HeadOf

(* A stack is in order when what is under its top is and the top fits it. *)
FitsOn(fr, f, c) ==
  /\ Pending(f, c) /\ Waits(f) \cap Heads(f) = {}
  /\ \A i \in 1 .. Len(fr) : Apart(fr[i], f) /\ (f.live => fr[i].live)
  /\ \A t \in BlocksOf(c) :
       /\ c.blocks[t].filled \/ t = c.cur \/ WaitedFor(fr, t) \/ t \in Waits(f)
       /\ c.blocks[t].sealed \/ WaitedFor(fr, t) \/ HeadOf(fr, t)
          \/ t \in Waits(f) \/ t \in Heads(f)

Below(fr, c) ==
  /\ fr \in Seq(FrameType)
  /\ \A i \in 1 .. Len(fr) : Pending(fr[i], c) /\ Waits(fr[i]) \cap Heads(fr[i]) = {}
  /\ \A i, j \in 1 .. Len(fr) : i < j => Apart(fr[i], fr[j])
  /\ \A i, j \in 1 .. Len(fr) : i < j /\ fr[j].live => fr[i].live

LEMMA StackSplits ==
  ASSUME NEW fr \in Seq(FrameType), NEW f \in FrameType, NEW c
  PROVE  StackOK(Append(fr, f), c) <=> Below(fr, c) /\ FitsOn(fr, f, c)
<1> DEFINE a == Append(fr, f)
           n == Len(fr)
<1>1. /\ a \in Seq(FrameType) /\ n \in Nat /\ Len(a) = n + 1
      /\ \A i \in 1 .. n : a[i] = fr[i] /\ i \in 1 .. n + 1
      /\ a[n + 1] = f /\ n + 1 \in 1 .. n + 1
      /\ \A i \in 1 .. n + 1 : i \in 1 .. n \/ i = n + 1
  BY AppendIndex
<1>2. Settled(a, c) <=> \A t \in BlocksOf(c) :
       /\ c.blocks[t].filled \/ t = c.cur \/ WaitedFor(fr, t) \/ t \in Waits(f)
       /\ c.blocks[t].sealed \/ WaitedFor(fr, t) \/ HeadOf(fr, t)
          \/ t \in Waits(f) \/ t \in Heads(f)
  BY WaitedAppend DEF Settled
<1> HIDE DEF a
<1>3. (\A i \in 1 .. Len(a) : Pending(a[i], c) /\ Waits(a[i]) \cap Heads(a[i]) = {})
        <=> /\ \A i \in 1 .. n : Pending(fr[i], c) /\ Waits(fr[i]) \cap Heads(fr[i]) = {}
            /\ Pending(f, c) /\ Waits(f) \cap Heads(f) = {}
  BY <1>1
<1>4. (\A i, j \in 1 .. Len(a) : i < j => Apart(a[i], a[j]))
        <=> /\ \A i, j \in 1 .. n : i < j => Apart(fr[i], fr[j])
            /\ \A i \in 1 .. n : Apart(fr[i], f)
  BY <1>1
<1>5. (\A i, j \in 1 .. Len(a) : i < j /\ a[j].live => a[i].live)
        <=> /\ \A i, j \in 1 .. n : i < j /\ fr[j].live => fr[i].live
            /\ \A i \in 1 .. n : f.live => fr[i].live
  BY <1>1
<1>6. StackOK(a, c) <=> Below(fr, c) /\ FitsOn(fr, f, c)
  BY <1>1, <1>2, <1>3, <1>4, <1>5 DEF StackOK, Below, FitsOn
<1>7. QED
  BY <1>6 DEF a

(* What is under the top of a stack, and a stack as a whole, in terms of   *)
(* each other.                                                             *)
LEMMA StackBelow ==
  ASSUME NEW fr, NEW c
  PROVE  StackOK(fr, c) <=> Below(fr, c) /\ Settled(fr, c)
  BY DEF StackOK, Below

(* The rest of the stack is not disturbed by what happens to other blocks. *)
LEMMA BelowKeeps ==
  ASSUME NEW fr, NEW c, NEW r, NEW F, NEW S, Below(fr, c), Grown(c, r, F, S),
         \A t \in F : ~WaitedFor(fr, t),
         \A t \in S : ~WaitedFor(fr, t) /\ ~HeadOf(fr, t),
         ~WaitedFor(fr, r.cur),
         \A i \in 1 .. Len(fr) : /\ fr[i].live /\ fr[i].kind \in ArmKinds => ~r.terminated
                                 /\ ~fr[i].live => r.terminated
  PROVE  Below(fr, r)
<1>1. ASSUME NEW i \in 1 .. Len(fr) PROVE Pending(fr[i], r)
  <2>1. Pending(fr[i], c)
    BY DEF Below
  <2>2. \A t \in Waits(fr[i]) : t \notin F /\ t \notin S /\ t # r.cur
    BY DEF WaitedFor
  <2>3. \A t \in Heads(fr[i]) : t \notin S
    BY DEF HeadOf
  <2>4. \A t \in Waits(fr[i]) :
          t \in BlocksOf(r) /\ t # r.cur /\ ~r.blocks[t].filled /\ ~r.blocks[t].sealed
          /\ r.blocks[t].params = c.blocks[t].params
    BY <2>1, <2>2 DEF Pending, Grown
  <2>5. \A t \in Heads(fr[i]) :
          t \in BlocksOf(r) /\ ~r.blocks[t].sealed /\ r.blocks[t].params = 0
    BY <2>1, <2>3 DEF Pending, Grown
  <2>6. /\ fr[i].live => fr[i].merge \in Waits(fr[i])
        /\ fr[i].live /\ HasNext(fr[i]) => fr[i].next \in Waits(fr[i])
    BY DEF Waits
  <2>7. QED
    BY <2>1, <2>4, <2>5, <2>6 DEF Pending
<1>2. QED
  BY <1>1 DEF Below

LEMMA WaitedFree ==
  ASSUME NEW fr, NEW c, Below(fr, c), NEW t, WaitedFor(fr, t)
  PROVE  t \in BlocksOf(c) /\ t # c.cur /\ ~c.blocks[t].filled /\ ~c.blocks[t].sealed
  BY DEF WaitedFor, Below, Pending

LEMMA HeadFree ==
  ASSUME NEW fr, NEW c, Below(fr, c), NEW t, HeadOf(fr, t)
  PROVE  t \in BlocksOf(c) /\ ~c.blocks[t].sealed
  BY DEF HeadOf, Below, Pending

LEMMA AllLive ==
  ASSUME NEW fr, NEW c, Below(fr, c), ~c.terminated
  PROVE  \A i \in 1 .. Len(fr) : fr[i].live
  BY DEF Below, Pending

LEMMA UnderLive ==
  ASSUME NEW fr, NEW f, NEW c, FitsOn(fr, f, c), f.live
  PROVE  \A i \in 1 .. Len(fr) : fr[i].live
  BY DEF FitsOn

-----------------------------------------------------------------------------
(* An instruction; a terminator outside the arms. *)
LEMMA EmitKeepsStack ==
  ASSUME NEW fr, NEW c, NEW r, StackOK(fr, c), Changed(c, r, {}, {}), BuilderOK(c),
         r.cur = c.cur, r.terminated = c.terminated
  PROVE  StackOK(fr, r)
<1>1. Below(fr, c) /\ Settled(fr, c)
  BY StackBelow
<1>2. Grown(c, r, {}, {}) /\ BlocksOf(r) = BlocksOf(c)
  BY ChangedGrown
<1>3. ~WaitedFor(fr, r.cur)
  BY <1>1, WaitedFree
<1>4. \A i \in 1 .. Len(fr) : /\ fr[i].live /\ fr[i].kind \in ArmKinds => ~r.terminated
                              /\ ~fr[i].live => r.terminated
  BY <1>1 DEF Below, Pending
<1>5. Below(fr, r)
  BY <1>1, <1>2, <1>3, <1>4, BelowKeeps
<1>6. Settled(fr, r)
  BY <1>1, <1>2 DEF Settled, Grown
<1>7. QED
  BY <1>5, <1>6, StackBelow

LEMMA EndKeepsStack ==
  ASSUME NEW fr, NEW c, NEW r, StackOK(fr, c), Changed(c, r, {c.cur}, {}), BuilderOK(c),
         r.cur = c.cur, r.terminated,
         \A i \in 1 .. Len(fr) : fr[i].kind \notin ArmKinds
  PROVE  StackOK(fr, r)
<1>1. Below(fr, c) /\ Settled(fr, c)
  BY StackBelow
<1>2. Grown(c, r, {c.cur}, {}) /\ BlocksOf(r) = BlocksOf(c)
  BY ChangedGrown
<1>3. ~WaitedFor(fr, c.cur)
  BY <1>1, WaitedFree
<1>4. Below(fr, r)
  BY <1>1, <1>2, <1>3, BelowKeeps
<1>5. Settled(fr, r)
  BY <1>1, <1>2 DEF Settled, Grown
<1>6. QED
  BY <1>4, <1>5, StackBelow

(* Dead code: a frame comes and goes, and nothing else. *)
LEMMA DeadFrame ==
  ASSUME NEW fr \in Seq(FrameType), NEW f \in FrameType, ~f.live, NEW c
  PROVE  StackOK(Append(fr, f), c) <=> StackOK(fr, c) /\ c.terminated
<1>1. Waits(f) = {} /\ Heads(f) = {}
  BY DEF Waits, Heads
<1>2. FitsOn(fr, f, c) <=> Settled(fr, c) /\ c.terminated
  BY <1>1 DEF FitsOn, Settled, Pending, Apart
<1>3. QED
  BY <1>2, StackSplits, StackBelow

(* A statement opens new blocks behind the ones there are. *)
LEMMA OpenKeepsStack ==
  ASSUME NEW fr \in Seq(FrameType), NEW f \in FrameType, NEW c, NEW r,
         StackOK(fr, c), ~c.terminated, f.live, ~r.terminated,
         NEW F, F \subseteq {c.cur}, Grown(c, r, F, {}), BuilderOK(c),
         r.cur = c.cur \/ (r.cur \notin BlocksOf(c) /\ c.cur \in F),
         Pending(f, r), Waits(f) \cap Heads(f) = {},
         \A t \in BlocksOf(c) : t \notin Waits(f) /\ t \notin Heads(f),
         \A t \in BlocksOf(r) : t \notin BlocksOf(c) =>
           /\ t = r.cur \/ t \in Waits(f)
           /\ r.blocks[t].sealed \/ t \in Waits(f) \/ t \in Heads(f)
  PROVE  StackOK(Append(fr, f), r)
<1>1. Below(fr, c) /\ Settled(fr, c)
  BY StackBelow
<1>2. ~WaitedFor(fr, r.cur) /\ \A t \in F : ~WaitedFor(fr, t)
  BY <1>1, WaitedFree
<1>3. \A i \in 1 .. Len(fr) : fr[i].live
  BY <1>1, AllLive
<1>4. Below(fr, r)
  BY <1>1, <1>2, <1>3, BelowKeeps
<1>5. \A i \in 1 .. Len(fr) : Apart(fr[i], f)
  <2>1. ASSUME NEW i \in 1 .. Len(fr) PROVE Apart(fr[i], f)
    <3>1. Pending(fr[i], c)
      BY <1>1 DEF Below
    <3>2. \A t \in Waits(fr[i]) \cup Heads(fr[i]) : t \in BlocksOf(c)
      BY <3>1 DEF Pending
    <3>3. QED
      BY <3>2 DEF Apart
  <2>2. QED
    BY <2>1
<1>6. FitsOn(fr, f, r)
  <2>1. ASSUME NEW t \in BlocksOf(r)
        PROVE  /\ r.blocks[t].filled \/ t = r.cur \/ WaitedFor(fr, t) \/ t \in Waits(f)
               /\ r.blocks[t].sealed \/ WaitedFor(fr, t) \/ HeadOf(fr, t)
                  \/ t \in Waits(f) \/ t \in Heads(f)
    <3>1. CASE t \in BlocksOf(c)
      <4>1. /\ c.blocks[t].filled \/ t = c.cur \/ WaitedFor(fr, t)
            /\ c.blocks[t].sealed \/ WaitedFor(fr, t) \/ HeadOf(fr, t)
        BY <3>1, <1>1 DEF Settled
      <4>2. /\ r.blocks[t].filled <=> c.blocks[t].filled \/ t \in F
            /\ r.blocks[t].sealed <=> c.blocks[t].sealed
        BY <3>1 DEF Grown
      <4>3. QED
        BY <4>1, <4>2
    <3>2. CASE t \notin BlocksOf(c)
      BY <3>2
    <3>3. QED
      BY <3>1, <3>2
  <2>2. QED
    BY <1>3, <1>5, <2>1 DEF FitsOn
<1>7. QED
  BY <1>4, <1>6, StackSplits

(* The innermost statement goes on to its next part: it gives up blocks it *)
(* waited for, and may have new ones.                                      *)
LEMMA TopKeepsStack ==
  ASSUME NEW fr \in Seq(FrameType), NEW f \in FrameType, NEW g \in FrameType,
         NEW c, NEW r, BuilderOK(c), StackOK(Append(fr, f), c),
         f.live, g.live, ~r.terminated,
         NEW F, NEW S, F \subseteq {c.cur}, S \subseteq Waits(f) \cup Heads(f),
         Grown(c, r, F, S),
         \/ r.cur = c.cur
         \/ c.cur \in F /\ (r.cur \in Waits(f) \/ r.cur \notin BlocksOf(c)),
         Pending(g, r), Waits(g) \cap Heads(g) = {},
         \A t \in BlocksOf(c) : t \in Waits(g) => t \in Waits(f),
         \A t \in BlocksOf(c) : t \in Heads(g) => t \in Heads(f),
         \A t \in Waits(f) : t = r.cur \/ t \in Waits(g),
         \A t \in Waits(f) \cup Heads(f) :
           t \in Waits(g) \/ t \in Heads(g) \/ t \in S,
         \A t \in BlocksOf(r) : t \notin BlocksOf(c) =>
           /\ t = r.cur \/ t \in Waits(g)
           /\ r.blocks[t].sealed \/ t \in Waits(g) \/ t \in Heads(g)
  PROVE  StackOK(Append(fr, g), r)
<1>1. Below(fr, c) /\ FitsOn(fr, f, c)
  BY StackSplits
<1>2. \A i \in 1 .. Len(fr) : Pending(fr[i], c) /\ Apart(fr[i], f) /\ fr[i].live
  BY <1>1 DEF Below, FitsOn
<1>3. \A t \in Waits(f) \cup Heads(f) :
        /\ t \in Waits(f) \cup Heads(f) => ~WaitedFor(fr, t) /\ ~HeadOf(fr, t)
  BY <1>2 DEF WaitedFor, HeadOf, Apart
<1>4. ~WaitedFor(fr, c.cur) /\ \A t : WaitedFor(fr, t) \/ HeadOf(fr, t) => t \in BlocksOf(c)
  BY <1>1, WaitedFree, HeadFree
<1>5. /\ ~WaitedFor(fr, r.cur)
      /\ \A t \in F : ~WaitedFor(fr, t)
      /\ \A t \in S : ~WaitedFor(fr, t) /\ ~HeadOf(fr, t)
  BY <1>3, <1>4
<1>6. Below(fr, r)
  BY <1>1, <1>2, <1>5, BelowKeeps
<1>7. \A i \in 1 .. Len(fr) : Apart(fr[i], g)
  <2>1. ASSUME NEW i \in 1 .. Len(fr) PROVE Apart(fr[i], g)
    <3>1. Apart(fr[i], f) /\ \A t \in Waits(fr[i]) \cup Heads(fr[i]) : t \in BlocksOf(c)
      BY <1>2 DEF Pending
    <3>2. QED
      BY <3>1 DEF Apart
  <2>2. QED
    BY <2>1
<1>8. FitsOn(fr, g, r)
  <2>1. ASSUME NEW t \in BlocksOf(r)
        PROVE  /\ r.blocks[t].filled \/ t = r.cur \/ WaitedFor(fr, t) \/ t \in Waits(g)
               /\ r.blocks[t].sealed \/ WaitedFor(fr, t) \/ HeadOf(fr, t)
                  \/ t \in Waits(g) \/ t \in Heads(g)
    <3>1. CASE t \in BlocksOf(c)
      <4>1. /\ c.blocks[t].filled \/ t = c.cur \/ WaitedFor(fr, t) \/ t \in Waits(f)
            /\ c.blocks[t].sealed \/ WaitedFor(fr, t) \/ HeadOf(fr, t)
               \/ t \in Waits(f) \/ t \in Heads(f)
        BY <3>1, <1>1 DEF FitsOn
      <4>2. /\ r.blocks[t].filled <=> c.blocks[t].filled \/ t \in F
            /\ r.blocks[t].sealed <=> c.blocks[t].sealed \/ t \in S
        BY <3>1 DEF Grown
      <4>3. QED
        BY <4>1, <4>2
    <3>2. CASE t \notin BlocksOf(c)
      BY <3>2
    <3>3. QED
      BY <3>1, <3>2
  <2>2. QED
    BY <1>2, <1>7, <2>1 DEF FitsOn
<1>9. QED
  BY <1>6, <1>8, StackSplits

(* The innermost statement is over and its merge block current. *)
LEMMA CloseKeepsStack ==
  ASSUME NEW fr \in Seq(FrameType), NEW f \in FrameType,
         NEW c, NEW r, BuilderOK(c), StackOK(Append(fr, f), c),
         f.live, ~r.terminated, r.cur = f.merge, Waits(f) = {f.merge},
         Changed(c, r, {c.cur}, {f.merge} \cup Heads(f))
  PROVE  StackOK(fr, r)
<1> DEFINE S == {f.merge} \cup Heads(f)
<1>1. Below(fr, c) /\ FitsOn(fr, f, c)
  BY StackSplits
<1>2. \A i \in 1 .. Len(fr) : Pending(fr[i], c) /\ Apart(fr[i], f) /\ fr[i].live
  BY <1>1 DEF Below, FitsOn
<1>3. Grown(c, r, {c.cur}, S) /\ BlocksOf(r) = BlocksOf(c)
  BY ChangedGrown
<1>4. S = Waits(f) \cup Heads(f)
  OBVIOUS
<1> HIDE DEF S
<1>5. /\ \A t \in S : ~WaitedFor(fr, t) /\ ~HeadOf(fr, t)
      /\ \A t \in {c.cur} : ~WaitedFor(fr, t)
      /\ ~WaitedFor(fr, r.cur)
  BY <1>1, <1>2, <1>4, WaitedFree DEF WaitedFor, HeadOf, Apart
<1>6. Below(fr, r)
  BY <1>1, <1>2, <1>3, <1>5, BelowKeeps
<1>7. Settled(fr, r)
  <2>1. ASSUME NEW t \in BlocksOf(r)
        PROVE  /\ r.blocks[t].filled \/ t = r.cur \/ WaitedFor(fr, t)
               /\ r.blocks[t].sealed \/ WaitedFor(fr, t) \/ HeadOf(fr, t)
    <3>1. /\ c.blocks[t].filled \/ t = c.cur \/ WaitedFor(fr, t) \/ t \in Waits(f)
          /\ c.blocks[t].sealed \/ WaitedFor(fr, t) \/ HeadOf(fr, t)
             \/ t \in Waits(f) \/ t \in Heads(f)
      BY <1>1, <1>3 DEF FitsOn
    <3>2. /\ r.blocks[t].filled <=> c.blocks[t].filled \/ t = c.cur
          /\ r.blocks[t].sealed <=> c.blocks[t].sealed \/ t \in S
      BY <1>3 DEF Grown
    <3>3. QED
      BY <1>4, <3>1, <3>2
  <2>2. QED
    BY <2>1 DEF Settled
<1>8. QED
  BY <1>6, <1>7, StackBelow

-----------------------------------------------------------------------------
(* The stack of loops is that of the loops among the live frames. *)
LiveLoops(fr) == {i \in 1 .. Len(fr) : fr[i].kind = "loop" /\ fr[i].live}
Rank(fr, i) == Cardinality({j \in LiveLoops(fr) : j <= i})
LoopOf(f) == [header |-> f.header, exit |-> f.merge]

LoopsMatch(fr, loops) ==
  /\ Len(loops) = Cardinality(LiveLoops(fr))
  /\ \A n \in 1 .. Len(loops) :
       \E i \in LiveLoops(fr) : Rank(fr, i) = n /\ loops[n] = LoopOf(fr[i])

LEMMA LiveLoopsFinite ==
  ASSUME NEW fr \in Seq(FrameType)
  PROVE  IsFiniteSet(LiveLoops(fr)) /\ Cardinality(LiveLoops(fr)) \in Nat
<1>1. Len(fr) \in Nat
  BY LenProperties
<1>2. IsFiniteSet(1 .. Len(fr))
  BY <1>1, FS_Interval
<1>3. LiveLoops(fr) \in SUBSET (1 .. Len(fr))
  BY DEF LiveLoops
<1>4. QED
  BY <1>2, <1>3, FS_Subset, FS_CardinalityType

LEMMA LoopsAppend ==
  ASSUME NEW fr \in Seq(FrameType), NEW f \in FrameType
  PROVE  /\ LiveLoops(Append(fr, f)) = IF f.kind = "loop" /\ f.live
                                       THEN LiveLoops(fr) \cup {Len(fr) + 1}
                                       ELSE LiveLoops(fr)
         /\ Len(fr) + 1 \notin LiveLoops(fr)
         /\ \A i \in LiveLoops(fr) : Rank(Append(fr, f), i) = Rank(fr, i)
<1> DEFINE a == Append(fr, f)
           n == Len(fr)
<1>1. /\ n \in Nat /\ Len(a) = n + 1
      /\ \A i \in 1 .. n : a[i] = fr[i] /\ i \in 1 .. n + 1
      /\ a[n + 1] = f /\ n + 1 \in 1 .. n + 1
      /\ \A i \in 1 .. n + 1 : i \in 1 .. n \/ i = n + 1
  BY AppendIndex
<1> HIDE DEF a
<1>2. \A i : i \in LiveLoops(a) <=> i \in LiveLoops(fr)
                \/ (i = n + 1 /\ f.kind = "loop" /\ f.live)
  BY <1>1 DEF LiveLoops
<1>3. n + 1 \notin LiveLoops(fr)
  BY <1>1 DEF LiveLoops
<1>4. ASSUME NEW i \in LiveLoops(fr) PROVE Rank(a, i) = Rank(fr, i)
  <2>1. i \in Int /\ i <= n
    BY <1>1 DEF LiveLoops
  <2>2. {j \in LiveLoops(a) : j <= i} = {j \in LiveLoops(fr) : j <= i}
    BY <1>1, <1>2, <2>1
  <2>3. QED
    BY <2>2 DEF Rank
<1>5. LiveLoops(a) = IF f.kind = "loop" /\ f.live
                     THEN LiveLoops(fr) \cup {n + 1} ELSE LiveLoops(fr)
  BY <1>2
<1>6. QED
  BY <1>3, <1>4, <1>5 DEF a

LEMMA OtherFrame ==
  ASSUME NEW fr \in Seq(FrameType), NEW f \in FrameType, ~(f.kind = "loop" /\ f.live),
         NEW loops
  PROVE  LoopsMatch(Append(fr, f), loops) <=> LoopsMatch(fr, loops)
<1>1. /\ LiveLoops(Append(fr, f)) = LiveLoops(fr)
      /\ \A i \in LiveLoops(fr) : Rank(Append(fr, f), i) = Rank(fr, i)
  BY LoopsAppend
<1>2. \A i \in LiveLoops(fr) : Append(fr, f)[i] = fr[i]
  BY AppendIndex DEF LiveLoops
<1>3. QED
  BY <1>1, <1>2 DEF LoopsMatch

LEMMA LoopFrame ==
  ASSUME NEW fr \in Seq(FrameType), NEW f \in FrameType, f.kind = "loop", f.live
  PROVE  /\ Cardinality(LiveLoops(Append(fr, f))) = Cardinality(LiveLoops(fr)) + 1
         /\ Rank(Append(fr, f), Len(fr) + 1) = Cardinality(LiveLoops(fr)) + 1
         /\ LiveLoops(Append(fr, f)) = LiveLoops(fr) \cup {Len(fr) + 1}
<1> DEFINE a == Append(fr, f)
<1>1. LiveLoops(a) = LiveLoops(fr) \cup {Len(fr) + 1} /\ Len(fr) + 1 \notin LiveLoops(fr)
  BY LoopsAppend
<1> HIDE DEF a
<1>2. Cardinality(LiveLoops(a)) = Cardinality(LiveLoops(fr)) + 1
  BY <1>1, LiveLoopsFinite, FS_AddElement
<1>3. Len(fr) \in Nat
  BY LenProperties
<1>4. {j \in LiveLoops(a) : j <= Len(fr) + 1} = LiveLoops(a)
  BY <1>1, <1>3 DEF LiveLoops
<1>5. QED
  BY <1>1, <1>2, <1>4 DEF Rank, a

LoopType == [header : Nat, exit : Nat]

LEMMA LoopPushed ==
  ASSUME NEW fr \in Seq(FrameType), NEW f \in FrameType, f.kind = "loop", f.live,
         NEW loops \in Seq(LoopType), LoopsMatch(fr, loops)
  PROVE  LoopsMatch(Append(fr, f), Append(loops, LoopOf(f)))
<1> DEFINE a == Append(fr, f)
           e == LoopOf(f)
           more == Append(loops, e)
           n == Len(loops)
<1>1. /\ n \in Nat /\ Len(more) = n + 1
      /\ \A k \in 1 .. n : more[k] = loops[k]
      /\ more[n + 1] = e
  <2>1. e \in LoopType
    BY DEF LoopOf, LoopType, FrameType
  <2> HIDE DEF e
  <2>2. QED
    BY <2>1, AppendProperties, LenProperties
<1>2. n = Cardinality(LiveLoops(fr))
  BY DEF LoopsMatch
<1>3. /\ Cardinality(LiveLoops(a)) = n + 1
      /\ Rank(a, Len(fr) + 1) = n + 1
      /\ LiveLoops(a) = LiveLoops(fr) \cup {Len(fr) + 1}
  BY <1>2, LoopFrame
<1>4. a[Len(fr) + 1] = f /\ \A i \in LiveLoops(fr) : a[i] = fr[i] /\ Rank(a, i) = Rank(fr, i)
  BY AppendIndex, LoopsAppend DEF LiveLoops
<1> HIDE DEF a, more, e
<1>5. ASSUME NEW k \in 1 .. n + 1
      PROVE  \E i \in LiveLoops(a) : Rank(a, i) = k /\ more[k] = LoopOf(a[i])
  <2>1. CASE k \in 1 .. n
    <3>1. PICK i \in LiveLoops(fr) : Rank(fr, i) = k /\ loops[k] = LoopOf(fr[i])
      BY <2>1 DEF LoopsMatch
    <3>2. QED
      BY <1>1, <1>3, <1>4, <2>1, <3>1
  <2>2. CASE k = n + 1
    BY <1>1, <1>3, <1>4, <2>2 DEF e
  <2>3. QED
    BY <1>1, <2>1, <2>2
<1>6. QED
  BY <1>1, <1>3, <1>5 DEF LoopsMatch, a, more, e

LEMMA LoopPopped ==
  ASSUME NEW fr \in Seq(FrameType), NEW f \in FrameType, f.kind = "loop", f.live,
         NEW loops \in Seq(LoopType), LoopsMatch(Append(fr, f), loops)
  PROVE  /\ LoopsMatch(fr, SubSeq(loops, 1, Len(loops) - 1))
         /\ SubSeq(loops, 1, Len(loops) - 1) \in Seq(LoopType)
<1> DEFINE a == Append(fr, f)
           n == Len(loops)
           less == SubSeq(loops, 1, n - 1)
<1>1. Cardinality(LiveLoops(fr)) \in Nat /\ n \in Nat
  BY LiveLoopsFinite, LenProperties
<1>2. /\ n = Cardinality(LiveLoops(fr)) + 1
      /\ Rank(a, Len(fr) + 1) = n
      /\ LiveLoops(a) = LiveLoops(fr) \cup {Len(fr) + 1}
  BY LoopFrame DEF LoopsMatch
<1>3. \A i \in LiveLoops(fr) : a[i] = fr[i] /\ Rank(a, i) = Rank(fr, i)
  BY AppendIndex, LoopsAppend DEF LiveLoops
<1>4. /\ less \in Seq(LoopType) /\ Len(less) = n - 1
      /\ \A k \in 1 .. n - 1 : less[k] = loops[k]
  <2>1. n - 1 \in 0 .. n /\ n - 1 \in Int /\ 1 <= n
    BY <1>1, <1>2
  <2>2. DOMAIN loops = 1 .. n
    BY DEF LoopsMatch
  <2>3. \A k \in 1 .. n - 1 : loops[k] \in LoopType
    BY <1>1, <2>1, ElementOfSeq
  <2>4. QED
    BY <1>1, <2>1, <2>2, <2>3, SubSeqProperties
<1>5. \A k \in 1 .. n : \E i \in LiveLoops(a) : Rank(a, i) = k /\ loops[k] = LoopOf(a[i])
  BY DEF LoopsMatch
<1> HIDE DEF a, less
<1>6. ASSUME NEW k \in 1 .. n - 1
      PROVE  \E i \in LiveLoops(fr) : Rank(fr, i) = k /\ less[k] = LoopOf(fr[i])
  <2>1. k \in 1 .. n /\ k # n
    BY <1>1
  <2>2. PICK i \in LiveLoops(a) : Rank(a, i) = k /\ loops[k] = LoopOf(a[i])
    BY <1>5, <2>1
  <2>3. i # Len(fr) + 1
    BY <1>2, <2>1, <2>2
  <2>4. i \in LiveLoops(fr)
    BY <1>2, <2>3
  <2>5. QED
    BY <1>3, <1>4, <2>2, <2>4
<1>7. Len(less) = Cardinality(LiveLoops(fr)) /\ Len(less) = n - 1
  BY <1>1, <1>2, <1>4
<1>8. LoopsMatch(fr, less)
  BY <1>6, <1>7 DEF LoopsMatch
<1>9. QED
  BY <1>4, <1>8 DEF less

(* A break leaves a loop whose frame is on the stack. *)
LEMMA LastLoop ==
  ASSUME NEW fr \in Seq(FrameType), NEW loops, LoopsMatch(fr, loops),
         NEW j \in LiveLoops(fr)
  PROVE  /\ \E i \in LiveLoops(fr) : loops[Len(loops)] = LoopOf(fr[i])
         /\ loops # <<>>
<1>1. Cardinality(LiveLoops(fr)) \in Nat /\ Cardinality(LiveLoops(fr)) # 0
  BY LiveLoopsFinite, FS_EmptySet
<1>2. Len(loops) \in 1 .. Len(loops) /\ Len(loops) # 0
  BY <1>1 DEF LoopsMatch
<1>3. loops # <<>>
  BY <1>2
<1>4. QED
  BY <1>2, <1>3 DEF LoopsMatch

(* The builder's side of it. *)
SameBlocks(c, r) ==
  /\ r.blocks = c.blocks /\ r.cur = c.cur
  /\ r.terminated = c.terminated /\ r.vars = c.vars

LEMMA PushLegal ==
  ASSUME NEW c, BuilderOK(c), NEW h \in Nat, NEW e \in Nat
  PROVE  /\ BuilderOK(LoopStackPush(c, h, e))
         /\ SameBlocks(c, LoopStackPush(c, h, e))
         /\ LoopStackPush(c, h, e).loops = Append(c.loops, [header |-> h, exit |-> e])
         /\ c.loops \in Seq(LoopType)
<1> DEFINE l == Append(c.loops, [header |-> h, exit |-> e])
           r == LoopStackPush(c, h, e)
<1>1. c.loops \in Seq(LoopType) /\ [header |-> h, exit |-> e] \in LoopType
  BY DEF BuilderOK, BuilderType, LoopType
<1>2. l \in Seq(LoopType)
  BY <1>1, AppendProperties
<1>3. r = [c EXCEPT !.loops = l]
  BY DEF LoopStackPush, BuilderOK, BuilderType
<1> HIDE DEF l, r
<1>4. /\ r \in BuilderType /\ r.loops = l /\ r.misuse = c.misuse /\ SameBlocks(c, r)
  BY <1>2, <1>3 DEF BuilderOK, BuilderType, SameBlocks, LoopType
<1>5. BuilderOK(r)
  BY <1>4 DEF BuilderOK, SameBlocks, BlocksOf
<1>6. QED
  BY <1>1, <1>4, <1>5 DEF r, l

LEMMA PopLegal ==
  ASSUME NEW c, BuilderOK(c), SubSeq(c.loops, 1, Len(c.loops) - 1) \in Seq(LoopType)
  PROVE  /\ BuilderOK(LoopStackPop(c))
         /\ SameBlocks(c, LoopStackPop(c))
         /\ LoopStackPop(c).loops = SubSeq(c.loops, 1, Len(c.loops) - 1)
<1> DEFINE l == SubSeq(c.loops, 1, Len(c.loops) - 1)
           r == LoopStackPop(c)
<1>1. r = [c EXCEPT !.loops = l]
  BY DEF LoopStackPop, BuilderOK, BuilderType
<1> HIDE DEF l, r
<1>2. l \in Seq(LoopType)
  BY DEF l
<1>3. /\ r \in BuilderType /\ r.loops = l /\ r.misuse = c.misuse /\ SameBlocks(c, r)
  BY <1>1, <1>2 DEF BuilderOK, BuilderType, SameBlocks, LoopType
<1>4. BuilderOK(r)
  BY <1>3 DEF BuilderOK, SameBlocks, BlocksOf
<1>5. QED
  BY <1>3, <1>4 DEF r, l

LEMMA BlocksKeepStack ==
  ASSUME NEW fr, NEW c, NEW r, SameBlocks(c, r)
  PROVE  /\ StackOK(fr, r) <=> StackOK(fr, c)
         /\ SameCode(c, r)
         /\ Truth(r) <=> Truth(c)
<1>1. BlocksOf(r) = BlocksOf(c)
  BY DEF SameBlocks, BlocksOf
<1>2. \A f : Pending(f, r) <=> Pending(f, c)
  BY <1>1 DEF SameBlocks, Pending
<1>3. Settled(fr, r) <=> Settled(fr, c)
  BY <1>1 DEF SameBlocks, Settled
<1>4. QED
  BY <1>1, <1>2, <1>3 DEF StackOK, SameCode, HasCode, Truth, SameBlocks

-----------------------------------------------------------------------------
(* The stages of the statements.  New code is for the entries i to k.      *)
Adds(c, r, i, k) == \A x : HasCode(r, x) => HasCode(c, x) \/ x.at \in i .. k

Follows(c, r, i, k) == Adds(c, r, i, k) /\ r.vars = c.vars

LEMMA FollowsTwice ==
  ASSUME NEW c, NEW d, NEW r, NEW i \in Nat, NEW j \in Nat, NEW k \in Nat,
         Follows(c, d, i, j), Follows(d, r, i, k), j <= k
  PROVE  Follows(c, r, i, k)
<1>1. \A x : x.at \in i .. j => x.at \in i .. k
  OBVIOUS
<1>2. QED
  BY <1>1 DEF Follows, Adds

LEMMA SameFollows ==
  ASSUME NEW c, NEW r, SameCode(c, r), r.vars = c.vars, NEW i, NEW k
  PROVE  Follows(c, r, i, k)
  BY DEF Follows, Adds, SameCode

LEMMA EmitFollows ==
  ASSUME NEW c, NEW r, NEW i \in Nat, NEW d, MoreCode(c, r, i, d), r.vars = c.vars
  PROVE  Follows(c, r, i, i)
<1>1. [at |-> i, decl |-> d].at \in i .. i
  OBVIOUS
<1>2. QED
  BY <1>1 DEF Follows, Adds, MoreCode

(* r has the blocks of c and new ones for params, some of them sealed.      *)
Opened(c, r, params, sealed) ==
  /\ Len(r.blocks) = Len(c.blocks) + Len(params)
  /\ \A k \in 1 .. Len(params) :
       /\ ~r.blocks[Len(c.blocks) + k].filled
       /\ r.blocks[Len(c.blocks) + k].sealed <=> k \in sealed
       /\ r.blocks[Len(c.blocks) + k].params = params[k]

(* u is the k-th new block. *)
NewAt(c, k, u) == u \in Nat /\ u = Len(c.blocks) + k

LEMMA OffsetOf ==
  ASSUME NEW n \in Nat, NEW l \in Nat
  PROVE  /\ \A v \in 1 .. n + l : v \notin 1 .. n => \E k \in 1 .. l : v = n + k
         /\ \A k \in 1 .. l : n + k \in 1 .. n + l /\ n + k \notin 1 .. n
<1>1. ASSUME NEW v \in 1 .. n + l, v \notin 1 .. n PROVE \E k \in 1 .. l : v = n + k
  <2>1. v - n \in 1 .. l /\ v = n + (v - n)
    BY <1>1
  <2>2. QED
    BY <2>1
<1>2. QED
  BY <1>1

LEMMA OpenedAt ==
  ASSUME NEW c, BuilderOK(c), NEW r, NEW params \in Seq(Nat), NEW sealed,
         Opened(c, r, params, sealed),
         NEW k \in 1 .. Len(params), NEW u, NewAt(c, k, u)
  PROVE  /\ u \in BlocksOf(r) /\ u \notin BlocksOf(c) /\ ~r.blocks[u].filled
         /\ r.blocks[u].sealed <=> k \in sealed
         /\ r.blocks[u].params = params[k]
<1>1. /\ ~r.blocks[u].filled
      /\ r.blocks[u].sealed <=> k \in sealed
      /\ r.blocks[u].params = params[k]
  BY DEF Opened, NewAt
<1>2. Len(c.blocks) \in Nat /\ Len(params) \in Nat
  BY BlockIsTyped, LenProperties DEF BuilderOK
<1>3. u \in BlocksOf(r) /\ u \notin BlocksOf(c)
  BY <1>2, OffsetOf DEF Opened, BlocksOf, NewAt
<1>4. QED
  BY <1>1, <1>3

OnlyNew(c, r, l) ==
  \A v \in BlocksOf(r) : v \notin BlocksOf(c) => \E k \in 1 .. l : NewAt(c, k, v)

LEMMA OpenedOnly ==
  ASSUME NEW c, BuilderOK(c), NEW r, NEW params \in Seq(Nat), NEW sealed,
         Opened(c, r, params, sealed)
  PROVE  OnlyNew(c, r, Len(params))
<1> DEFINE n == Len(c.blocks)
           l == Len(params)
<1>1. n \in Nat /\ l \in Nat
  BY BlockIsTyped, LenProperties DEF BuilderOK
<1>2. BlocksOf(r) = 1 .. n + l /\ BlocksOf(c) = 1 .. n
  BY DEF Opened, BlocksOf
<1>3. \A k : NewAt(c, k, n + k) <=> n + k \in Nat
  BY DEF NewAt
<1> HIDE DEF n, l
<1>4. \A v \in 1 .. n + l : v \notin 1 .. n => \E k \in 1 .. l : v = n + k
  BY <1>1, OffsetOf
<1>5. \A k \in 1 .. l : n + k \in Nat
  BY <1>1
<1>6. OnlyNew(c, r, l)
  BY <1>2, <1>3, <1>4, <1>5 DEF OnlyNew
<1>7. QED
  BY <1>6 DEF l

LEMMA OpenedTwo ==
  ASSUME NEW c, BuilderOK(c), NEW r, NEW params \in Seq(Nat), Len(params) = 2,
         Opened(c, r, params, {1}), NEW t, NewAt(c, 1, t), NEW u, NewAt(c, 2, u)
  PROVE  /\ \A v \in BlocksOf(r) : v \notin BlocksOf(c) => v = t \/ v = u
         /\ t \in BlocksOf(r) /\ t \notin BlocksOf(c) /\ ~r.blocks[t].filled
         /\ r.blocks[t].sealed /\ r.blocks[t].params = params[1]
         /\ u \in BlocksOf(r) /\ u \notin BlocksOf(c) /\ ~r.blocks[u].filled
         /\ ~r.blocks[u].sealed /\ r.blocks[u].params = params[2]
         /\ u # t
<1>1. /\ 1 \in 1 .. Len(params) /\ 2 \in 1 .. Len(params)
      /\ 2 \notin {1}
  OBVIOUS
<1>2. Len(c.blocks) \in Nat
  BY BlockIsTyped DEF BuilderOK
<1>3. \A v \in BlocksOf(r) : v \notin BlocksOf(c) => v = t \/ v = u
  <2>1. OnlyNew(c, r, Len(params))
    BY OpenedOnly
  <2>2. QED
    BY <2>1 DEF OnlyNew, NewAt
<1>4. u # t
  BY <1>2 DEF NewAt
<1>5. /\ t \in BlocksOf(r) /\ t \notin BlocksOf(c) /\ ~r.blocks[t].filled
      /\ r.blocks[t].sealed /\ r.blocks[t].params = params[1]
  BY <1>1, OpenedAt
<1>6. /\ u \in BlocksOf(r) /\ u \notin BlocksOf(c) /\ ~r.blocks[u].filled
      /\ ~r.blocks[u].sealed /\ r.blocks[u].params = params[2]
  BY <1>1, OpenedAt
<1>7. QED
  BY <1>3, <1>4, <1>5, <1>6

(* u is a new block that nothing was done to. *)
IsPending(c, r, u, q) ==
  /\ u \in BlocksOf(r) /\ u \notin BlocksOf(c) /\ ~r.blocks[u].filled
  /\ ~r.blocks[u].sealed /\ r.blocks[u].params = q

LEMMA OpenedLater ==
  ASSUME NEW c, BuilderOK(c), NEW r, NEW params \in Seq(Nat), NEW sealed,
         Opened(c, r, params, sealed),
         NEW k \in 1 .. Len(params), k \notin sealed, NEW u, NewAt(c, k, u)
  PROVE  IsPending(c, r, u, params[k])
  BY OpenedAt DEF IsPending

IsStarted(c, r, u, q) ==
  /\ u \in BlocksOf(r) /\ u \notin BlocksOf(c) /\ ~r.blocks[u].filled
  /\ r.blocks[u].sealed /\ r.blocks[u].params = q

LEMMA OpenedFirst ==
  ASSUME NEW c, BuilderOK(c), NEW r, NEW params \in Seq(Nat), NEW sealed,
         Opened(c, r, params, sealed),
         NEW k \in 1 .. Len(params), k \in sealed, NEW u, NewAt(c, k, u)
  PROVE  IsStarted(c, r, u, params[k])
  BY OpenedAt DEF IsStarted

LEMMA OpenedThree ==
  ASSUME NEW c, BuilderOK(c), NEW r, NEW params \in Seq(Nat), Len(params) = 3,
         Opened(c, r, params, {1}), NEW t, NewAt(c, 1, t),
         NEW u, NewAt(c, 2, u), NEW z, NewAt(c, 3, z)
  PROVE  /\ \A v \in BlocksOf(r) : v \notin BlocksOf(c) => v = t \/ v = u \/ v = z
         /\ t \in BlocksOf(r) /\ t \notin BlocksOf(c) /\ ~r.blocks[t].filled
         /\ r.blocks[t].sealed /\ r.blocks[t].params = params[1]
         /\ u \in BlocksOf(r) /\ u \notin BlocksOf(c) /\ ~r.blocks[u].filled
         /\ ~r.blocks[u].sealed /\ r.blocks[u].params = params[2]
         /\ z \in BlocksOf(r) /\ z \notin BlocksOf(c) /\ ~r.blocks[z].filled
         /\ ~r.blocks[z].sealed /\ r.blocks[z].params = params[3]
         /\ u # t /\ z # t /\ z # u
<1>1. /\ 1 \in 1 .. Len(params) /\ 2 \in 1 .. Len(params) /\ 3 \in 1 .. Len(params)
      /\ 2 \notin {1} /\ 3 \notin {1}
  OBVIOUS
<1>2. Len(c.blocks) \in Nat
  BY BlockIsTyped DEF BuilderOK
<1>3. \A v \in BlocksOf(r) : v \notin BlocksOf(c) => v = t \/ v = u \/ v = z
  <2>1. OnlyNew(c, r, Len(params))
    BY OpenedOnly
  <2>2. QED
    BY <2>1 DEF OnlyNew, NewAt
<1>4. u # t /\ z # t /\ z # u
  BY <1>2 DEF NewAt
<1>5. IsStarted(c, r, t, params[1])
  <2>1. 1 \in {1}
    OBVIOUS
  <2>2. QED
    BY <1>1, <2>1, OpenedFirst
<1>6. IsPending(c, r, u, params[2])
  BY <1>1, OpenedLater
<1>7. IsPending(c, r, z, params[3])
  BY <1>1, OpenedLater
<1>8. QED
  BY <1>3, <1>4, <1>5, <1>6, <1>7 DEF IsStarted, IsPending

LEMMA CreateOpens ==
  ASSUME NEW c, BuilderOK(c), NEW params \in Seq(Nat)
  PROVE  /\ BuilderOK(CreateBlocks(c, params))
         /\ Opened(c, CreateBlocks(c, params), params, {})
         /\ Grown(c, CreateBlocks(c, params), {}, {})
         /\ SameCode(c, CreateBlocks(c, params))
         /\ Kept(c, CreateBlocks(c, params))
         /\ CreateBlocks(c, params).terminated = c.terminated
<1> DEFINE r == CreateBlocks(c, params)
           n == Len(c.blocks)
<1>1. /\ BuilderOK(r) /\ Len(r.blocks) = n + Len(params)
      /\ \A t \in BlocksOf(c) : r.blocks[t] = c.blocks[t]
      /\ \A k \in 1 .. Len(params) : r.blocks[n + k] = NewBlock(params[k])
      /\ SameCode(c, r) /\ Kept(c, r) /\ r.terminated = c.terminated
  BY CreateLegal
<1>2. n \in Nat /\ Len(params) \in Nat
  BY BlockIsTyped, LenProperties DEF BuilderOK
<1> HIDE DEF r
<1>3. \A q : ~NewBlock(q).filled /\ ~NewBlock(q).sealed /\ NewBlock(q).params = q
  BY DEF NewBlock
<1>4. Opened(c, r, params, {})
  <2>1. ASSUME NEW k \in 1 .. Len(params)
        PROVE  /\ ~r.blocks[n + k].filled
               /\ r.blocks[n + k].sealed <=> k \in {}
               /\ r.blocks[n + k].params = params[k]
    BY <1>1, <1>3
  <2>2. QED
    BY <1>1, <2>1 DEF Opened
<1>5. Grown(c, r, {}, {})
  BY <1>1, <1>2 DEF Grown, BlocksOf
<1>6. QED
  BY <1>1, <1>4, <1>5 DEF r

LEMMA OffsetTwo ==
  ASSUME NEW n \in Nat, NEW l \in Nat, NEW k \in 2 .. l
  PROVE  /\ 1 \in 1 .. l /\ k \in 1 .. l /\ n + 1 \in 1 .. n + l /\ n + k \in 1 .. n + l
  OBVIOUS

LEMMA Offset ==
  ASSUME NEW n \in Nat, NEW l \in Nat, NEW m \in 1 .. l, NEW u \in 1 .. n
  PROVE  /\ n + m \in 1 .. n + l /\ n + m # u
         /\ n + m = n + 1 <=> m \in {1}
  OBVIOUS

(* A condition, and on in the first of the new blocks. *)
Branch(c, i, params, t, e) ==
  SwitchSealed(BrifTo(CreateBlocks(Emit(c, i, 0), params), t, e), t)

LEMMA BranchLegal ==
  ASSUME NEW c, BuilderOK(c), ~c.blocks[c.cur].filled, NEW i \in Nat,
         NEW params \in Seq(Nat), params[1] = 0, NEW t, NewAt(c, 1, t),
         NEW k \in 2 .. Len(params), params[k] = 0, NEW e, NewAt(c, k, e)
  PROVE  LET r == Branch(c, i, params, t, e)
         IN /\ BuilderOK(r)
            /\ Opened(c, r, params, {1})
            /\ Grown(c, r, {c.cur}, {})
            /\ Follows(c, r, i, i)
            /\ Entered(c, r, t)
<1> DEFINE n == Len(c.blocks)
           d1 == Emit(c, i, 0)
           d2 == CreateBlocks(d1, params)
           d3 == BrifTo(d2, t, e)
           r == SwitchSealed(d3, t)
<1>1. /\ BuilderOK(d1) /\ Changed(c, d1, {}, {}) /\ MoreCode(c, d1, i, 0) /\ Kept(c, d1)
      /\ d1.terminated = c.terminated
  <2>1. 0 \in Nat
    OBVIOUS
  <2>2. QED
    BY <2>1, EmitLegal
<1>2. n \in Nat /\ c.cur \in 1 .. n /\ Len(params) \in Nat
  BY BlockIsTyped, LenProperties DEF BuilderOK, BlocksOf
<1>e. e = n + k /\ t = n + 1 /\ e \in Nat /\ t \in Nat
  BY DEF NewAt
<1> HIDE DEF d1, n
<1>3. /\ BuilderOK(d2) /\ Opened(d1, d2, params, {}) /\ Grown(d1, d2, {}, {})
      /\ SameCode(d1, d2) /\ Kept(d1, d2)
  BY <1>1, CreateOpens
<1> HIDE DEF d2
<1>4. Len(d1.blocks) = n /\ Len(d2.blocks) = n + Len(params) /\ d2.cur = c.cur
  BY <1>1, <1>3 DEF Changed, Opened, Kept, n
<1>5. /\ t \in BlocksOf(d2) /\ ~d2.blocks[t].sealed /\ ~d2.blocks[t].filled
      /\ d2.blocks[t].params = 0
      /\ e \in BlocksOf(d2) /\ ~d2.blocks[e].sealed /\ d2.blocks[e].params = 0
  <2>1. /\ 1 \in 1 .. Len(params) /\ k \in 1 .. Len(params)
        /\ t \in 1 .. Len(d2.blocks) /\ e \in 1 .. Len(d2.blocks)
    BY <1>2, <1>4, <1>e, OffsetTwo
  <2>2. QED
    BY <2>1, <1>3, <1>4, <1>e DEF Opened, BlocksOf
<1>6. \A u \in 1 .. n : /\ u \in BlocksOf(d2)
                        /\ d2.blocks[u].filled <=> c.blocks[u].filled
                        /\ d2.blocks[u].sealed <=> c.blocks[u].sealed
                        /\ d2.blocks[u].params = c.blocks[u].params
  BY <1>1, <1>3, <1>4 DEF Changed, Grown, BlocksOf, n
<1>7. ~d2.blocks[d2.cur].filled
  BY <1>2, <1>4, <1>6
<1>8. /\ BuilderOK(d3) /\ Changed(d2, d3, {d2.cur}, {}) /\ SameCode(d2, d3) /\ Kept(d2, d3)
  BY <1>3, <1>5, <1>7, BrifLegal
<1> HIDE DEF d3
<1>9. t # c.cur
  BY <1>2, <1>e
<1>10. /\ d3.blocks[d3.cur].filled /\ t \in BlocksOf(d3)
       /\ ~d3.blocks[t].filled /\ ~d3.blocks[t].sealed
  BY <1>3, <1>4, <1>5, <1>8, <1>9 DEF Changed, Kept, BlocksOf, BuilderOK
<1>11. /\ BuilderOK(r) /\ Changed(d3, r, {}, {t}) /\ SameCode(d3, r) /\ Entered(d3, r, t)
  BY <1>8, <1>10, SwitchSealedLegal
<1> HIDE DEF r
<1>12. Len(r.blocks) = n + Len(params)
       /\ \A u \in 1 .. n + Len(params) :
            /\ r.blocks[u].filled <=> d2.blocks[u].filled \/ u = c.cur
            /\ r.blocks[u].sealed <=> d2.blocks[u].sealed \/ u = t
            /\ r.blocks[u].params = d2.blocks[u].params
  BY <1>4, <1>8, <1>11 DEF Changed, BlocksOf
<1>13. Opened(c, r, params, {1})
  <2>1. ASSUME NEW m \in 1 .. Len(params)
        PROVE  /\ ~r.blocks[n + m].filled
               /\ r.blocks[n + m].sealed <=> m \in {1}
               /\ r.blocks[n + m].params = params[m]
    <3> HIDE DEF n
    <3>1. n + m \in 1 .. n + Len(params) /\ n + m # c.cur
          /\ (n + m = t <=> m \in {1})
      BY <1>2, <1>e, Offset
    <3>2. ~d2.blocks[n + m].filled /\ ~d2.blocks[n + m].sealed
          /\ d2.blocks[n + m].params = params[m]
      BY <3>1, <1>3, <1>4 DEF Opened
    <3>3. QED
      BY <3>1, <3>2, <1>12
  <2>2. QED
    BY <2>1, <1>12 DEF Opened, n
<1>14. Grown(c, r, {c.cur}, {})
  <2>1. ASSUME NEW u \in 1 .. n
        PROVE  u \in 1 .. n + Len(params) /\ u # t
    <3> HIDE DEF n
    <3>1. QED
      BY <1>2, <1>e
  <2>2. n + Len(params) >= n
    BY <1>2
  <2>3. /\ Len(r.blocks) >= n
        /\ \A u \in 1 .. n :
             /\ u \in 1 .. Len(r.blocks)
             /\ r.blocks[u].filled <=> c.blocks[u].filled \/ u = c.cur
             /\ r.blocks[u].sealed <=> c.blocks[u].sealed
             /\ r.blocks[u].params = c.blocks[u].params
    BY <2>1, <2>2, <1>6, <1>12
  <2>4. QED
    BY <2>3 DEF Grown, BlocksOf, n
<1>15. SameCode(d1, r) /\ r.vars = c.vars
  BY <1>1, <1>3, <1>8, <1>11 DEF SameCode, Kept, Entered
<1>16. Follows(c, r, i, i)
  <2>1. MoreCode(c, r, i, 0)
    BY <1>1, <1>15 DEF MoreCode, SameCode
  <2>2. QED
    BY <2>1, <1>15, EmitFollows
<1>17. Entered(c, r, t)
  BY <1>1, <1>3, <1>8, <1>11 DEF Entered, Kept
<1>18. Branch(c, i, params, t, e) = r
  BY DEF Branch, r, d3, d2, d1
<1>19. QED
  BY <1>11, <1>13, <1>14, <1>16, <1>17, <1>18 DEF n

(* The builder and the stacks of frames and loops, while code is made. *)
InStep(fr, c) ==
  BuilderOK(c) /\ Truth(c) /\ StackOK(fr, c) /\ LoopsMatch(fr, c.loops)

LEMMA LiveBlock ==
  ASSUME NEW fr, NEW c, InStep(fr, c), ~c.terminated
  PROVE  /\ BuilderOK(c) /\ ~c.blocks[c.cur].filled /\ StackOK(fr, c)
         /\ c.cur \in BlocksOf(c) /\ Len(c.blocks) \in Nat /\ c.cur <= Len(c.blocks)
         /\ fr \in Seq(FrameType)
<1>1. BuilderOK(c) /\ ~c.blocks[c.cur].filled /\ StackOK(fr, c)
  BY DEF InStep, Truth
<1>2. c.cur \in BlocksOf(c) /\ Len(c.blocks) \in Nat /\ fr \in Seq(FrameType)
  BY <1>1, BlockIsTyped DEF BuilderOK, StackOK
<1>3. QED
  BY <1>1, <1>2 DEF BlocksOf

LEMMA EnteredTruth ==
  ASSUME NEW c, NEW r, NEW t, Entered(c, r, t), ~r.blocks[t].filled
  PROVE  Truth(r)
  BY DEF Entered, Truth

(* What a statement with new blocks must come to: they are the current     *)
(* block, sealed, and those that the frame waits for.                      *)
LEMMA BranchInStep ==
  ASSUME NEW fr, NEW f \in FrameType, f.live, f.kind # "loop", NEW c, InStep(fr, c),
         ~c.terminated, NEW r, BuilderOK(r), Grown(c, r, {c.cur}, {}),
         NEW t, Entered(c, r, t), t \notin BlocksOf(c), ~r.blocks[t].filled,
         r.blocks[t].sealed, \A v \in BlocksOf(c) : v \notin Waits(f),
         \A v \in BlocksOf(r) : v \notin BlocksOf(c) => v = t \/ v \in Waits(f),
         Pending(f, r)
  PROVE  InStep(Append(fr, f), r)
<1>1. /\ BuilderOK(c) /\ ~c.blocks[c.cur].filled /\ StackOK(fr, c)
      /\ fr \in Seq(FrameType)
  BY LiveBlock
<1>2. r.cur = t /\ ~r.terminated /\ r.loops = c.loops
  BY DEF Entered
<1>3. Heads(f) = {}
  BY DEF Heads
<1>4. \A v \in BlocksOf(c) : v \notin Waits(f) /\ v \notin Heads(f)
  BY <1>3
<1>5. \A v \in BlocksOf(r) : v \notin BlocksOf(c) =>
        /\ v = r.cur \/ v \in Waits(f)
        /\ r.blocks[v].sealed \/ v \in Waits(f) \/ v \in Heads(f)
  BY <1>2
<1>6. r.cur \notin BlocksOf(c) /\ c.cur \in {c.cur} /\ Waits(f) \cap Heads(f) = {}
  BY <1>2, <1>3
<1>7. StackOK(Append(fr, f), r)
  BY <1>1, <1>2, <1>4, <1>5, <1>6, OpenKeepsStack
<1>8. LoopsMatch(Append(fr, f), r.loops)
  BY <1>1, <1>2, OtherFrame DEF InStep
<1>9. Truth(r)
  BY EnteredTruth
<1>10. QED
  BY <1>7, <1>8, <1>9 DEF InStep

LEMMA IfOpens ==
  ASSUME NEW fr, NEW f \in FrameType, f.live, f.kind = "if", NEW c, InStep(fr, c),
         ~c.terminated, NEW i \in Nat, NEW t, NewAt(c, 1, t),
         NEW u, NewAt(c, 2, u),
         f.merge = u
  PROVE  /\ InStep(Append(fr, f), Branch(c, i, <<0, 0>>, t, u))
         /\ Follows(c, Branch(c, i, <<0, 0>>, t, u), i, i)
<1> DEFINE params == <<0, 0>>
           r == Branch(c, i, params, t, u)
<1>1. BuilderOK(c) /\ ~c.blocks[c.cur].filled
  BY LiveBlock
<1>2. /\ params \in Seq(Nat) /\ Len(params) = 2 /\ 2 \in 2 .. Len(params)
      /\ params[1] = 0 /\ params[2] = 0
  OBVIOUS
<1> HIDE DEF params
<1>3. /\ BuilderOK(r) /\ Opened(c, r, params, {1}) /\ Grown(c, r, {c.cur}, {})
      /\ Follows(c, r, i, i) /\ Entered(c, r, t)
  BY <1>1, <1>2, BranchLegal
<1> HIDE DEF r
<1>4. /\ \A v \in BlocksOf(r) : v \notin BlocksOf(c) => v = t \/ v = u
      /\ t \notin BlocksOf(c) /\ ~r.blocks[t].filled /\ r.blocks[t].sealed
      /\ u \in BlocksOf(r) /\ u \notin BlocksOf(c) /\ u # t
      /\ ~r.blocks[u].filled /\ ~r.blocks[u].sealed /\ r.blocks[u].params = 0
  BY <1>1, <1>2, <1>3, OpenedTwo
<1>5. /\ Waits(f) = {u} /\ Heads(f) = {} /\ f.kind # "loop"
      /\ ~HasNext(f) /\ f.kind \notin ArmKinds
  BY DEF Waits, Heads, HasNext, ArmKinds
<1>6. r.cur = t /\ ~r.terminated
  BY <1>3 DEF Entered
<1>7. Pending(f, r)
  BY <1>4, <1>5, <1>6 DEF Pending
<1>8. /\ \A v \in BlocksOf(c) : v \notin Waits(f)
      /\ \A v \in BlocksOf(r) : v \notin BlocksOf(c) => v = t \/ v \in Waits(f)
  BY <1>4, <1>5
<1>9. InStep(Append(fr, f), r)
  BY <1>3, <1>4, <1>5, <1>7, <1>8, BranchInStep
<1>10. QED
  BY <1>3, <1>9 DEF r, params

LEMMA ThenOpens ==
  ASSUME NEW fr, NEW f \in FrameType, f.live, f.kind = "then", NEW c, InStep(fr, c),
         ~c.terminated, NEW i \in Nat, NEW t, NewAt(c, 1, t),
         NEW u, NewAt(c, 2, u), NEW z, NewAt(c, 3, z),
         f.merge = u, f.next = z
  PROVE  /\ InStep(Append(fr, f), Branch(c, i, <<0, 0, 0>>, t, z))
         /\ Follows(c, Branch(c, i, <<0, 0, 0>>, t, z), i, i)
<1> DEFINE params == <<0, 0, 0>>
           r == Branch(c, i, params, t, z)
<1>1. BuilderOK(c) /\ ~c.blocks[c.cur].filled
  BY LiveBlock
<1>2. /\ params \in Seq(Nat) /\ Len(params) = 3 /\ 3 \in 2 .. Len(params)
      /\ params[1] = 0 /\ params[2] = 0 /\ params[3] = 0
  OBVIOUS
<1> HIDE DEF params
<1>3. /\ BuilderOK(r) /\ Opened(c, r, params, {1}) /\ Grown(c, r, {c.cur}, {})
      /\ Follows(c, r, i, i) /\ Entered(c, r, t)
  BY <1>1, <1>2, BranchLegal
<1> HIDE DEF r
<1>4. /\ \A v \in BlocksOf(r) : v \notin BlocksOf(c) => v = t \/ v = u \/ v = z
      /\ t \notin BlocksOf(c) /\ ~r.blocks[t].filled /\ r.blocks[t].sealed
      /\ u \in BlocksOf(r) /\ u \notin BlocksOf(c) /\ u # t
      /\ ~r.blocks[u].filled /\ ~r.blocks[u].sealed /\ r.blocks[u].params = 0
      /\ z \in BlocksOf(r) /\ z \notin BlocksOf(c) /\ z # t
      /\ ~r.blocks[z].filled /\ ~r.blocks[z].sealed /\ r.blocks[z].params = 0
      /\ z # u
  BY <1>1, <1>2, <1>3, OpenedThree
<1>5. /\ Waits(f) = {u, z} /\ Heads(f) = {} /\ f.kind # "loop"
      /\ HasNext(f) /\ f.kind \notin ArmKinds
  BY DEF Waits, Heads, HasNext, ArmKinds
<1>6. r.cur = t /\ ~r.terminated
  BY <1>3 DEF Entered
<1>7. Pending(f, r)
  BY <1>4, <1>5, <1>6 DEF Pending
<1>8. /\ \A v \in BlocksOf(c) : v \notin Waits(f)
      /\ \A v \in BlocksOf(r) : v \notin BlocksOf(c) => v = t \/ v \in Waits(f)
  BY <1>4, <1>5
<1>9. InStep(Append(fr, f), r)
  BY <1>3, <1>4, <1>5, <1>7, <1>8, BranchInStep
<1>10. QED
  BY <1>3, <1>9 DEF r, params

LEMMA IfExprOpens ==
  ASSUME NEW fr, NEW f \in FrameType, f.live, f.kind = "ifExpr", NEW c, InStep(fr, c),
         ~c.terminated, NEW i \in Nat, NEW t, NewAt(c, 1, t),
         NEW u, NewAt(c, 2, u), NEW z, NewAt(c, 3, z),
         f.merge = z, f.next = u
  PROVE  /\ InStep(Append(fr, f), Branch(c, i, <<0, 0, 1>>, t, u))
         /\ Follows(c, Branch(c, i, <<0, 0, 1>>, t, u), i, i)
<1> DEFINE params == <<0, 0, 1>>
           r == Branch(c, i, params, t, u)
<1>1. BuilderOK(c) /\ ~c.blocks[c.cur].filled
  BY LiveBlock
<1>2. /\ params \in Seq(Nat) /\ Len(params) = 3 /\ 2 \in 2 .. Len(params)
      /\ params[1] = 0 /\ params[2] = 0 /\ params[3] = 1
  OBVIOUS
<1> HIDE DEF params
<1>3. /\ BuilderOK(r) /\ Opened(c, r, params, {1}) /\ Grown(c, r, {c.cur}, {})
      /\ Follows(c, r, i, i) /\ Entered(c, r, t)
  BY <1>1, <1>2, BranchLegal
<1> HIDE DEF r
<1>4. /\ \A v \in BlocksOf(r) : v \notin BlocksOf(c) => v = t \/ v = u \/ v = z
      /\ t \notin BlocksOf(c) /\ ~r.blocks[t].filled /\ r.blocks[t].sealed
      /\ u \in BlocksOf(r) /\ u \notin BlocksOf(c) /\ u # t
      /\ ~r.blocks[u].filled /\ ~r.blocks[u].sealed /\ r.blocks[u].params = 0
      /\ z \in BlocksOf(r) /\ z \notin BlocksOf(c) /\ z # t
      /\ ~r.blocks[z].filled /\ ~r.blocks[z].sealed /\ r.blocks[z].params = 1
      /\ z # u
  BY <1>1, <1>2, <1>3, OpenedThree
<1>5. /\ Waits(f) = {z, u} /\ Heads(f) = {} /\ f.kind # "loop"
      /\ HasNext(f) /\ f.kind \in ArmKinds
  BY DEF Waits, Heads, HasNext, ArmKinds
<1>6. r.cur = t /\ ~r.terminated
  BY <1>3 DEF Entered
<1>7. Pending(f, r)
  BY <1>4, <1>5, <1>6 DEF Pending
<1>8. /\ \A v \in BlocksOf(c) : v \notin Waits(f)
      /\ \A v \in BlocksOf(r) : v \notin BlocksOf(c) => v = t \/ v \in Waits(f)
  BY <1>4, <1>5
<1>9. InStep(Append(fr, f), r)
  BY <1>3, <1>4, <1>5, <1>7, <1>8, BranchInStep
<1>10. QED
  BY <1>3, <1>9 DEF r, params

LEMMA CreatedAt ==
  ASSUME NEW c, BuilderOK(c), NEW r, NEW params \in Seq(Nat), Opened(c, r, params, {}),
         NEW k \in 1 .. Len(params), NEW u, NewAt(c, k, u)
  PROVE  IsPending(c, r, u, params[k])
<1>1. k \notin {}
  OBVIOUS
<1>2. QED
  BY <1>1, OpenedLater

LEMMA GrownChanged ==
  ASSUME NEW c, NEW d, NEW r, NEW F, NEW S,
         Grown(c, d, {}, {}), Changed(d, r, F, S)
  PROVE  Grown(c, r, F, S)
  BY DEF Grown, Changed, BlocksOf

(* A loop: its header is entered, and not sealed before the end. *)
LoopStart(c, t, u) ==
  LoopStackPush(SwitchBlock(JumpTo(CreateBlocks(c, <<0, 0>>), t), t), t, u)

LEMMA LoopOpens ==
  ASSUME NEW fr, NEW f \in FrameType, f.live, f.kind = "loop", NEW c, InStep(fr, c),
         ~c.terminated, NEW t, NewAt(c, 1, t), NEW u, NewAt(c, 2, u),
         f.header = t, f.merge = u, NEW i
  PROVE  /\ InStep(Append(fr, f), LoopStart(c, t, u))
         /\ Follows(c, LoopStart(c, t, u), i, i)
<1> DEFINE params == <<0, 0>>
           d == CreateBlocks(c, params)
           d2 == JumpTo(d, t)
           d3 == SwitchBlock(d2, t)
           r == LoopStackPush(d3, t, u)
<1>1. /\ BuilderOK(c) /\ ~c.blocks[c.cur].filled /\ StackOK(fr, c) /\ fr \in Seq(FrameType)
      /\ c.cur \in BlocksOf(c) /\ Truth(c)
  BY LiveBlock DEF InStep
<1>2. /\ params \in Seq(Nat) /\ Len(params) = 2 /\ 1 \in 1 .. Len(params)
      /\ 2 \in 1 .. Len(params) /\ params[1] = 0 /\ params[2] = 0
  OBVIOUS
<1> HIDE DEF params
<1>3. /\ BuilderOK(d) /\ Opened(c, d, params, {}) /\ Grown(c, d, {}, {})
      /\ SameCode(c, d) /\ Kept(c, d) /\ d.terminated = c.terminated
  BY <1>1, <1>2, CreateOpens
<1> HIDE DEF d
<1>4. IsPending(c, d, t, 0) /\ IsPending(c, d, u, 0)
  BY <1>1, <1>2, <1>3, CreatedAt
<1>5. Truth(d) /\ d.cur = c.cur
  BY <1>1, <1>3 DEF Grown, Truth, Kept
<1>6. BuilderOK(d2) /\ Changed(d, d2, {d.cur}, {}) /\ SameCode(d, d2) /\ Kept(d, d2)
  BY <1>3, <1>4, <1>5, JumpLegal DEF IsPending
<1> HIDE DEF d2
<1>7. t # c.cur /\ u # c.cur /\ t # u
  <2>1. t # c.cur /\ u # c.cur
    BY <1>1, <1>4 DEF IsPending
  <2>2. Len(c.blocks) \in Nat
    BY <1>1, BlockIsTyped DEF BuilderOK
  <2>3. t # u
    BY <2>2 DEF NewAt
  <2>4. QED
    BY <2>1, <2>3
<1>8. /\ d2.blocks[d2.cur].filled /\ t \in BlocksOf(d2) /\ ~d2.blocks[t].filled
  <2>1. d.cur \in BlocksOf(d) /\ t \in BlocksOf(d) /\ ~d.blocks[t].filled
    BY <1>3, <1>4 DEF BuilderOK, IsPending
  <2>2. QED
    BY <1>5, <1>6, <1>7, <2>1 DEF Changed, Kept, BlocksOf
<1>9. BuilderOK(d3) /\ Changed(d2, d3, {}, {}) /\ SameCode(d2, d3) /\ Entered(d2, d3, t)
  BY <1>6, <1>8, SwitchLegal
<1> HIDE DEF d3
<1>10. Changed(d, d3, {c.cur}, {})
  <2>1. Changed(d, d3, {d.cur} \cup {}, {} \cup {})
    BY <1>6, <1>9, ChangedTwice
  <2>2. {d.cur} \cup {} = {c.cur} /\ {} \cup {} = {}
    BY <1>5
  <2>3. QED
    BY <2>1, <2>2
<1>11. Grown(c, d3, {c.cur}, {})
  BY <1>3, <1>10, GrownChanged
<1>12. /\ d3.cur = t /\ ~d3.terminated /\ d3.vars = c.vars /\ d3.loops = c.loops
       /\ SameCode(c, d3)
  BY <1>3, <1>6, <1>9 DEF Entered, Kept, SameCode
<1>13. IsPending(c, d3, t, 0) /\ IsPending(c, d3, u, 0)
  BY <1>4, <1>7, <1>10 DEF IsPending, Changed, BlocksOf
<1>14. \A v \in BlocksOf(d3) : v \notin BlocksOf(c) => v = t \/ v = u
  <2>1. OnlyNew(c, d, Len(params))
    BY <1>1, <1>2, <1>3, OpenedOnly
  <2>2. \A v \in BlocksOf(d) : v \notin BlocksOf(c) => v = t \/ v = u
    BY <1>2, <2>1 DEF OnlyNew, NewAt
  <2>3. QED
    BY <1>10, <2>2 DEF Changed, BlocksOf
<1>15. Waits(f) = {u} /\ Heads(f) = {t} /\ ~HasNext(f) /\ f.kind \notin ArmKinds
  BY DEF Waits, Heads, HasNext, ArmKinds
<1>16. Pending(f, d3)
  BY <1>7, <1>12, <1>13, <1>15 DEF Pending, IsPending
<1>17. /\ Waits(f) \cap Heads(f) = {}
       /\ \A v \in BlocksOf(c) : v \notin Waits(f) /\ v \notin Heads(f)
       /\ \A v \in BlocksOf(d3) : v \notin BlocksOf(c) =>
            /\ v = d3.cur \/ v \in Waits(f)
            /\ d3.blocks[v].sealed \/ v \in Waits(f) \/ v \in Heads(f)
  BY <1>7, <1>12, <1>13, <1>14, <1>15 DEF IsPending
<1>18. d3.cur \notin BlocksOf(c) /\ c.cur \in {c.cur}
  BY <1>12, <1>13 DEF IsPending
<1>19. StackOK(Append(fr, f), d3)
  BY <1>1, <1>11, <1>12, <1>16, <1>17, <1>18, OpenKeepsStack
<1>20. t \in Nat /\ u \in Nat
  BY DEF NewAt
<1>21. /\ BuilderOK(r) /\ SameBlocks(d3, r) /\ d3.loops \in Seq(LoopType)
       /\ r.loops = Append(d3.loops, [header |-> t, exit |-> u])
  BY <1>9, <1>20, PushLegal
<1> HIDE DEF r
<1>22. LoopOf(f) = [header |-> t, exit |-> u]
  BY DEF LoopOf
<1>23. LoopsMatch(Append(fr, f), r.loops)
  BY <1>1, <1>12, <1>21, <1>22, LoopPushed DEF InStep
<1>24. Truth(d3)
  BY <1>12, <1>13 DEF Truth, IsPending
<1>25. StackOK(Append(fr, f), r) /\ Truth(r) /\ SameCode(d3, r)
  BY <1>19, <1>21, <1>24, BlocksKeepStack
<1>26. Follows(c, r, i, i)
  BY <1>12, <1>21, <1>25, SameFollows DEF SameCode, SameBlocks
<1>27. QED
  BY <1>21, <1>23, <1>25, <1>26 DEF InStep, LoopStart, r, d3, d2, d, params

(* A match begins with its scrutinee and the merge block. *)
OneMore(c, r) == Len(r.blocks) = Len(c.blocks) + 1

LEMMA MatchOpens ==
  ASSUME NEW fr, NEW f \in FrameType, f.live, f.kind = "arm", f.last, NEW c, InStep(fr, c),
         ~c.terminated, NEW i \in Nat, NEW u, NewAt(c, 1, u), f.merge = u
  PROVE  LET r == CreateBlocks(Emit(c, i, 0), <<1>>)
         IN /\ InStep(Append(fr, f), r)
            /\ Follows(c, r, i, i)
            /\ ~r.terminated
            /\ OneMore(c, r)
<1> DEFINE params == <<1>>
           d == Emit(c, i, 0)
           r == CreateBlocks(d, params)
<1>1. /\ BuilderOK(c) /\ ~c.blocks[c.cur].filled /\ StackOK(fr, c) /\ fr \in Seq(FrameType)
      /\ c.cur \in BlocksOf(c) /\ Truth(c)
  BY LiveBlock DEF InStep
<1>2. /\ params \in Seq(Nat) /\ Len(params) = 1 /\ 1 \in 1 .. Len(params)
      /\ params[1] = 1 /\ 0 \in Nat
  OBVIOUS
<1> HIDE DEF params
<1>3. /\ BuilderOK(d) /\ Changed(c, d, {}, {}) /\ MoreCode(c, d, i, 0) /\ Kept(c, d)
      /\ d.terminated = c.terminated
  BY <1>1, <1>2, EmitLegal
<1> HIDE DEF d
<1>4. NewAt(d, 1, u) /\ BlocksOf(d) = BlocksOf(c) /\ Len(d.blocks) = Len(c.blocks)
  BY <1>3 DEF NewAt, Changed, BlocksOf
<1>5. /\ BuilderOK(r) /\ Opened(d, r, params, {}) /\ Grown(d, r, {}, {})
      /\ SameCode(d, r) /\ Kept(d, r) /\ r.terminated = d.terminated
  BY <1>2, <1>3, CreateOpens
<1> HIDE DEF r
<1>6. IsPending(d, r, u, 1)
  BY <1>2, <1>3, <1>4, <1>5, CreatedAt
<1>7. Grown(c, r, {}, {})
  BY <1>3, <1>4, <1>5 DEF Grown, Changed
<1>8. \A v \in BlocksOf(r) : v \notin BlocksOf(c) => v = u
  <2>1. OnlyNew(d, r, Len(params))
    BY <1>2, <1>3, <1>5, OpenedOnly
  <2>2. QED
    BY <1>2, <1>4, <2>1 DEF OnlyNew, NewAt
<1>9. /\ r.cur = c.cur /\ ~r.terminated /\ r.loops = c.loops /\ r.vars = c.vars
      /\ u # c.cur
  BY <1>1, <1>3, <1>4, <1>5, <1>6 DEF Kept, IsPending
<1>10. /\ Waits(f) = {u} /\ Heads(f) = {} /\ ~HasNext(f) /\ f.kind \in ArmKinds
       /\ f.kind # "loop"
  BY DEF Waits, Heads, HasNext, ArmKinds
<1>11. Pending(f, r)
  BY <1>6, <1>9, <1>10 DEF Pending, IsPending
<1>12. /\ Waits(f) \cap Heads(f) = {}
       /\ \A v \in BlocksOf(c) : v \notin Waits(f) /\ v \notin Heads(f)
       /\ \A v \in BlocksOf(r) : v \notin BlocksOf(c) =>
            /\ v = r.cur \/ v \in Waits(f)
            /\ r.blocks[v].sealed \/ v \in Waits(f) \/ v \in Heads(f)
  BY <1>4, <1>6, <1>8, <1>10 DEF IsPending
<1>13. {} \subseteq {c.cur}
  OBVIOUS
<1>14. StackOK(Append(fr, f), r)
  BY <1>1, <1>7, <1>9, <1>11, <1>12, <1>13, OpenKeepsStack
<1>15. LoopsMatch(Append(fr, f), r.loops)
  BY <1>1, <1>9, <1>10, OtherFrame DEF InStep
<1>16. Truth(r)
  BY <1>1, <1>7, <1>9 DEF Truth, Grown
<1>17. Follows(c, r, i, i)
  <2>1. MoreCode(c, r, i, 0)
    BY <1>3, <1>5 DEF MoreCode, SameCode
  <2>2. QED
    BY <2>1, <1>9, EmitFollows
<1>18. OneMore(c, r)
  BY <1>2, <1>4, <1>5 DEF Opened, OneMore
<1>19. QED
  BY <1>5, <1>9, <1>14, <1>15, <1>16, <1>17, <1>18 DEF InStep, r, d, params

(* What the top of the stack tells about the builder. *)
LEMMA TopIs ==
  ASSUME NEW fr \in Seq(FrameType), NEW f \in FrameType, NEW c, InStep(Append(fr, f), c)
  PROVE  /\ BuilderOK(c) /\ Truth(c) /\ Pending(f, c) /\ Waits(f) \cap Heads(f) = {}
         /\ StackOK(Append(fr, f), c) /\ LoopsMatch(Append(fr, f), c.loops)
         /\ c.cur \in BlocksOf(c)
<1>1. StackOK(Append(fr, f), c) /\ BuilderOK(c) /\ Truth(c)
      /\ LoopsMatch(Append(fr, f), c.loops)
  BY DEF InStep
<1>2. FitsOn(fr, f, c)
  BY <1>1, StackSplits
<1>3. QED
  BY <1>1, <1>2 DEF FitsOn, BuilderOK

(* A literal arm that is not the last one: it compares, and if it misses   *)
(* goes on behind its own block.                                           *)
LEMMA ArmStarts ==
  ASSUME NEW fr \in Seq(FrameType), NEW f \in FrameType, f.live, f.kind = "arm", f.last,
         NEW c, InStep(Append(fr, f), c), NEW i \in Nat,
         NEW t, NewAt(c, 1, t), NEW u, NewAt(c, 2, u),
         NEW g \in FrameType, g.live, g.kind = "arm", ~g.last, g.merge = f.merge, g.next = u
  PROVE  LET r == Branch(c, i, <<0, 0>>, t, u)
         IN InStep(Append(fr, g), r) /\ Follows(c, r, i, i)
<1> DEFINE params == <<0, 0>>
           r == Branch(c, i, params, t, u)
<1>1. /\ BuilderOK(c) /\ Truth(c) /\ Pending(f, c) /\ StackOK(Append(fr, f), c)
      /\ LoopsMatch(Append(fr, f), c.loops) /\ c.cur \in BlocksOf(c)
  BY TopIs
<1>2. /\ params \in Seq(Nat) /\ Len(params) = 2 /\ 2 \in 2 .. Len(params)
      /\ params[1] = 0 /\ params[2] = 0
  OBVIOUS
<1> HIDE DEF params
<1>3. f.kind \in ArmKinds /\ f.kind # "loop" /\ g.kind # "loop" /\ g.kind \in ArmKinds
  BY DEF ArmKinds
<1>4. ~c.terminated /\ ~c.blocks[c.cur].filled
  BY <1>1, <1>3 DEF Pending, Truth
<1>5. /\ BuilderOK(r) /\ Opened(c, r, params, {1}) /\ Grown(c, r, {c.cur}, {})
      /\ Follows(c, r, i, i) /\ Entered(c, r, t)
  BY <1>1, <1>2, <1>4, BranchLegal
<1> HIDE DEF r
<1>6. /\ \A v \in BlocksOf(r) : v \notin BlocksOf(c) => v = t \/ v = u
      /\ t \notin BlocksOf(c) /\ ~r.blocks[t].filled /\ r.blocks[t].sealed
      /\ u \in BlocksOf(r) /\ u \notin BlocksOf(c) /\ u # t
      /\ ~r.blocks[u].filled /\ ~r.blocks[u].sealed /\ r.blocks[u].params = 0
  BY <1>1, <1>2, <1>5, OpenedTwo
<1>7. /\ Waits(f) = {f.merge} /\ Heads(f) = {} /\ ~HasNext(f)
      /\ Waits(g) = {f.merge, u} /\ Heads(g) = {} /\ HasNext(g)
  BY DEF Waits, Heads, HasNext
<1>8. r.cur = t /\ ~r.terminated /\ r.loops = c.loops
  BY <1>5 DEF Entered
<1>9. /\ f.merge \in BlocksOf(c) /\ f.merge # c.cur /\ ~c.blocks[f.merge].filled
      /\ ~c.blocks[f.merge].sealed /\ c.blocks[f.merge].params = 1
  BY <1>1, <1>3, <1>7 DEF Pending
<1>10. /\ f.merge \in BlocksOf(r) /\ f.merge # t /\ f.merge # u /\ ~r.blocks[f.merge].filled
       /\ ~r.blocks[f.merge].sealed /\ r.blocks[f.merge].params = 1
  BY <1>5, <1>6, <1>9 DEF Grown
<1>11. Pending(g, r)
  BY <1>3, <1>6, <1>7, <1>8, <1>10 DEF Pending
<1>12. /\ {c.cur} \subseteq {c.cur} /\ {} \subseteq Waits(f) \cup Heads(f)
       /\ c.cur \in {c.cur} /\ r.cur \notin BlocksOf(c) /\ Waits(g) \cap Heads(g) = {}
       /\ \A v \in BlocksOf(c) : v \in Waits(g) => v \in Waits(f)
       /\ \A v \in BlocksOf(c) : v \in Heads(g) => v \in Heads(f)
       /\ \A v \in Waits(f) : v = r.cur \/ v \in Waits(g)
       /\ \A v \in Waits(f) \cup Heads(f) : v \in Waits(g) \/ v \in Heads(g) \/ v \in {}
       /\ \A v \in BlocksOf(r) : v \notin BlocksOf(c) =>
            /\ v = r.cur \/ v \in Waits(g)
            /\ r.blocks[v].sealed \/ v \in Waits(g) \/ v \in Heads(g)
  BY <1>6, <1>7, <1>8
<1>13. StackOK(Append(fr, g), r)
  BY <1>1, <1>5, <1>8, <1>11, <1>12, TopKeepsStack
<1>14. LoopsMatch(Append(fr, g), r.loops)
  BY <1>1, <1>3, <1>8, OtherFrame
<1>15. Truth(r)
  BY <1>6, <1>8 DEF Truth
<1>16. QED
  BY <1>5, <1>13, <1>14, <1>15 DEF InStep, r, params

(* The value of an arm goes to the merge block. *)
LEMMA YieldLegal ==
  ASSUME NEW fr \in Seq(FrameType), NEW f \in FrameType, f.live, f.kind \in ArmKinds,
         NEW c, InStep(Append(fr, f), c), NEW i \in Nat
  PROVE  LET r == JumpWith(Emit(c, i, 0), f.merge)
         IN /\ BuilderOK(r) /\ Changed(c, r, {c.cur}, {}) /\ Follows(c, r, i, i)
            /\ Kept(c, r)
<1> DEFINE d == Emit(c, i, 0)
           r == JumpWith(d, f.merge)
<1>1. /\ BuilderOK(c) /\ Truth(c) /\ Pending(f, c)
  BY TopIs
<1>2. ~c.blocks[c.cur].filled /\ f.merge \in Waits(f)
  BY <1>1 DEF Pending, Truth, Waits
<1>3. /\ f.merge \in BlocksOf(c) /\ ~c.blocks[f.merge].sealed
      /\ c.blocks[f.merge].params = 1
  BY <1>1, <1>2 DEF Pending
<1>4. 0 \in Nat
  OBVIOUS
<1>5. BuilderOK(d) /\ Changed(c, d, {}, {}) /\ MoreCode(c, d, i, 0) /\ Kept(c, d)
  BY <1>1, <1>2, <1>4, EmitLegal
<1> HIDE DEF d
<1>6. /\ d.cur = c.cur /\ ~d.blocks[d.cur].filled
      /\ f.merge \in BlocksOf(d) /\ ~d.blocks[f.merge].sealed /\ d.blocks[f.merge].params = 1
  BY <1>1, <1>2, <1>3, <1>5 DEF Changed, Kept, BlocksOf, BuilderOK
<1>7. /\ BuilderOK(r) /\ Changed(d, r, {d.cur}, {}) /\ SameCode(d, r) /\ Kept(d, r)
  BY <1>5, <1>6, JumpWithLegal
<1> HIDE DEF r
<1>8. Changed(c, r, {c.cur}, {})
  <2>1. Changed(c, r, {} \cup {d.cur}, {} \cup {})
    BY <1>5, <1>7, ChangedTwice
  <2>2. {} \cup {d.cur} = {c.cur} /\ {} \cup {} = {}
    BY <1>6
  <2>3. QED
    BY <2>1, <2>2
<1>9. MoreCode(c, r, i, 0) /\ Kept(c, r)
  BY <1>5, <1>7 DEF MoreCode, SameCode, Kept
<1>10. Follows(c, r, i, i)
  BY <1>9, EmitFollows DEF Kept
<1>11. QED
  BY <1>7, <1>8, <1>9, <1>10 DEF r, d

(* The next part of the innermost statement, in the block that it missed   *)
(* to: the else branch, or the next arm.                                   *)
LEMMA NextInStep ==
  ASSUME NEW fr \in Seq(FrameType), NEW f \in FrameType, f.live, HasNext(f),
         NEW g \in FrameType, g.live, ~HasNext(g), g.kind # "loop", g.merge = f.merge,
         f.kind \in ArmKinds <=> g.kind \in ArmKinds,
         NEW c, InStep(Append(fr, f), c),
         NEW d, BuilderOK(d), Changed(c, d, {c.cur}, {}), Kept(c, d)
  PROVE  LET r == SwitchSealed(d, f.next)
         IN /\ InStep(Append(fr, g), r) /\ SameCode(d, r) /\ r.vars = c.vars
            /\ ~r.terminated /\ Len(r.blocks) = Len(c.blocks)
<1> DEFINE n == f.next
           m == f.merge
           r == SwitchSealed(d, n)
<1>1. /\ BuilderOK(c) /\ Truth(c) /\ Pending(f, c) /\ StackOK(Append(fr, f), c)
      /\ LoopsMatch(Append(fr, f), c.loops) /\ c.cur \in BlocksOf(c)
  BY TopIs
<1>2. /\ Waits(f) = {m, n} /\ Heads(f) = {} /\ Waits(g) = {m} /\ Heads(g) = {}
      /\ f.kind # "loop"
  BY DEF Waits, Heads, HasNext
<1> HIDE DEF n, m
<1>3. /\ n \in BlocksOf(c) /\ n # c.cur /\ ~c.blocks[n].filled /\ ~c.blocks[n].sealed
      /\ m \in BlocksOf(c) /\ m # c.cur /\ ~c.blocks[m].filled /\ ~c.blocks[m].sealed
      /\ n # m /\ c.blocks[m].params = IF g.kind \in ArmKinds THEN 1 ELSE 0
  BY <1>1, <1>2 DEF Pending, n, m
<1>4. /\ d.blocks[d.cur].filled /\ n \in BlocksOf(d)
      /\ ~d.blocks[n].filled /\ ~d.blocks[n].sealed
  BY <1>1, <1>3 DEF Changed, Kept, BlocksOf
<1>5. /\ BuilderOK(r) /\ Changed(d, r, {}, {n}) /\ SameCode(d, r) /\ Entered(d, r, n)
  BY <1>4, SwitchSealedLegal
<1> HIDE DEF r
<1>6. Changed(c, r, {c.cur}, {n})
  <2>1. Changed(c, r, {c.cur} \cup {}, {} \cup {n})
    BY <1>5, ChangedTwice
  <2>2. {c.cur} \cup {} = {c.cur} /\ {} \cup {n} = {n}
    OBVIOUS
  <2>3. QED
    BY <2>1, <2>2
<1>7. Grown(c, r, {c.cur}, {n}) /\ BlocksOf(r) = BlocksOf(c)
  BY <1>1, <1>6, ChangedGrown
<1>8. r.cur = n /\ ~r.terminated /\ r.loops = c.loops /\ r.vars = c.vars
  BY <1>5 DEF Entered, Kept
<1>9. /\ ~r.blocks[n].filled
      /\ m \in BlocksOf(r) /\ m # r.cur /\ ~r.blocks[m].filled /\ ~r.blocks[m].sealed
      /\ r.blocks[m].params = IF g.kind \in ArmKinds THEN 1 ELSE 0
  BY <1>3, <1>7, <1>8 DEF Grown
<1>10. Pending(g, r)
  BY <1>2, <1>8, <1>9 DEF Pending, m
<1>11. /\ {c.cur} \subseteq {c.cur} /\ {n} \subseteq Waits(f) \cup Heads(f)
       /\ c.cur \in {c.cur} /\ r.cur \in Waits(f) /\ Waits(g) \cap Heads(g) = {}
       /\ \A v \in BlocksOf(c) : v \in Waits(g) => v \in Waits(f)
       /\ \A v \in BlocksOf(c) : v \in Heads(g) => v \in Heads(f)
       /\ \A v \in Waits(f) : v = r.cur \/ v \in Waits(g)
       /\ \A v \in Waits(f) \cup Heads(f) : v \in Waits(g) \/ v \in Heads(g) \/ v \in {n}
       /\ \A v \in BlocksOf(r) : v \notin BlocksOf(c) =>
            /\ v = r.cur \/ v \in Waits(g)
            /\ r.blocks[v].sealed \/ v \in Waits(g) \/ v \in Heads(g)
  BY <1>2, <1>7, <1>8
<1>12. StackOK(Append(fr, g), r)
  BY <1>1, <1>7, <1>8, <1>10, <1>11, TopKeepsStack
<1>13. LoopsMatch(Append(fr, g), r.loops)
  BY <1>1, <1>2, <1>8, OtherFrame
<1>14. Truth(r)
  BY <1>8, <1>9 DEF Truth
<1>15. Len(r.blocks) = Len(c.blocks)
  BY <1>6 DEF Changed
<1>16. QED
  BY <1>5, <1>8, <1>12, <1>13, <1>14, <1>15 DEF InStep, r, n

LEMMA PartEnds ==
  ASSUME NEW fr \in Seq(FrameType), NEW f \in FrameType, f.live, f.kind \in ArmKinds,
         HasNext(f), NEW g \in FrameType, g.live, g.kind \in ArmKinds, ~HasNext(g),
         g.merge = f.merge, NEW c, InStep(Append(fr, f), c), NEW i \in Nat
  PROVE  LET r == SwitchSealed(JumpWith(Emit(c, i, 0), f.merge), f.next)
         IN /\ InStep(Append(fr, g), r) /\ Follows(c, r, i, i)
            /\ ~r.terminated /\ Len(r.blocks) = Len(c.blocks)
<1> DEFINE d == JumpWith(Emit(c, i, 0), f.merge)
           r == SwitchSealed(d, f.next)
<1>1. /\ BuilderOK(d) /\ Changed(c, d, {c.cur}, {}) /\ Follows(c, d, i, i) /\ Kept(c, d)
  BY YieldLegal
<1> HIDE DEF d
<1>2. g.kind # "loop"
  BY DEF ArmKinds
<1>3. /\ InStep(Append(fr, g), r) /\ SameCode(d, r) /\ r.vars = c.vars
      /\ ~r.terminated /\ Len(r.blocks) = Len(c.blocks)
  BY <1>1, <1>2, NextInStep
<1> HIDE DEF r
<1>4. Follows(c, r, i, i)
  BY <1>1, <1>3 DEF Follows, Adds, SameCode
<1>5. QED
  BY <1>3, <1>4 DEF r, d

LEMMA ElseStarts ==
  ASSUME NEW fr \in Seq(FrameType), NEW f \in FrameType, f.live, f.kind = "then",
         NEW g \in FrameType, g.live, g.kind = "if", g.merge = f.merge,
         NEW c, InStep(Append(fr, f), c), NEW i
  PROVE  LET r == SwitchSealed(JumpTo(c, f.merge), f.next)
         IN InStep(Append(fr, g), r) /\ Follows(c, r, i, i) /\ ~r.terminated
<1> DEFINE d == JumpTo(c, f.merge)
           r == SwitchSealed(d, f.next)
<1>1. BuilderOK(c) /\ Truth(c) /\ Pending(f, c)
  BY TopIs
<1>2. /\ HasNext(f) /\ ~HasNext(g) /\ g.kind # "loop" /\ f.kind \notin ArmKinds
      /\ g.kind \notin ArmKinds /\ f.merge \in Waits(f)
  BY DEF HasNext, ArmKinds, Waits
<1>3. /\ f.merge \in BlocksOf(c) /\ ~c.blocks[f.merge].sealed
      /\ c.blocks[f.merge].params = 0
  BY <1>1, <1>2 DEF Pending
<1>4. /\ BuilderOK(d) /\ Changed(c, d, {c.cur}, {}) /\ SameCode(c, d) /\ Kept(c, d)
  BY <1>1, <1>3, JumpLegal
<1> HIDE DEF d
<1>5. InStep(Append(fr, g), r) /\ SameCode(d, r) /\ r.vars = c.vars /\ ~r.terminated
  BY <1>2, <1>4, NextInStep
<1> HIDE DEF r
<1>6. Follows(c, r, i, i)
  BY <1>4, <1>5, SameFollows DEF SameCode
<1>7. QED
  BY <1>5, <1>6 DEF r, d

-----------------------------------------------------------------------------
(* The innermost statement is over. *)
LEMMA EndInStep ==
  ASSUME NEW fr \in Seq(FrameType), NEW f \in FrameType, f.live, f.kind # "loop",
         ~HasNext(f), NEW c, InStep(Append(fr, f), c),
         NEW r, BuilderOK(r), Entered(c, r, f.merge), Changed(c, r, {c.cur}, {f.merge})
  PROVE  InStep(fr, r)
<1>1. /\ BuilderOK(c) /\ Pending(f, c) /\ StackOK(Append(fr, f), c)
      /\ LoopsMatch(Append(fr, f), c.loops)
  BY TopIs
<1>2. Waits(f) = {f.merge} /\ Heads(f) = {} /\ f.merge \in Waits(f)
  BY DEF Waits, Heads
<1>3. {f.merge} \cup Heads(f) = {f.merge}
  BY <1>2
<1>4. r.cur = f.merge /\ ~r.terminated /\ r.loops = c.loops
  BY DEF Entered
<1>5. StackOK(fr, r)
  BY <1>1, <1>2, <1>3, <1>4, CloseKeepsStack
<1>6. LoopsMatch(fr, r.loops)
  BY <1>1, <1>4, OtherFrame
<1>7. ~r.blocks[f.merge].filled
  BY <1>1, <1>2 DEF Pending, Changed
<1>8. Truth(r)
  BY <1>4, <1>7 DEF Truth
<1>9. QED
  BY <1>5, <1>6, <1>8 DEF InStep

LEMMA ArmsEnd ==
  ASSUME NEW fr \in Seq(FrameType), NEW f \in FrameType, f.live, f.kind \in ArmKinds,
         ~HasNext(f), NEW c, InStep(Append(fr, f), c), NEW i \in Nat
  PROVE  LET d == JumpWith(Emit(c, i, 0), f.merge)
             r == SwitchBlock(SealBlock(d, f.merge), f.merge)
         IN InStep(fr, r) /\ Follows(c, r, i, i) /\ ~r.terminated
<1> DEFINE m == f.merge
           d == JumpWith(Emit(c, i, 0), m)
           d2 == SealBlock(d, m)
           r == SwitchBlock(d2, m)
<1>1. /\ BuilderOK(d) /\ Changed(c, d, {c.cur}, {}) /\ Follows(c, d, i, i) /\ Kept(c, d)
  BY YieldLegal
<1> HIDE DEF d
<1>2. BuilderOK(c) /\ Pending(f, c) /\ c.cur \in BlocksOf(c)
  BY TopIs
<1>3. m \in Waits(f) /\ f.kind # "loop"
  BY DEF Waits, ArmKinds
<1>4. m \in BlocksOf(c) /\ m # c.cur /\ ~c.blocks[m].filled /\ ~c.blocks[m].sealed
  BY <1>2, <1>3 DEF Pending
<1> HIDE DEF m
<1>5. m \in BlocksOf(d) /\ ~d.blocks[m].sealed
  BY <1>1, <1>4 DEF Changed, BlocksOf
<1>6. /\ BuilderOK(d2) /\ Changed(d, d2, {}, {m}) /\ SameCode(d, d2) /\ Kept(d, d2)
  BY <1>1, <1>5, SealLegal
<1> HIDE DEF d2
<1>7. Changed(c, d2, {c.cur}, {m})
  <2>1. Changed(c, d2, {c.cur} \cup {}, {} \cup {m})
    BY <1>1, <1>6, ChangedTwice
  <2>2. {c.cur} \cup {} = {c.cur} /\ {} \cup {m} = {m}
    OBVIOUS
  <2>3. QED
    BY <2>1, <2>2
<1>8. /\ d2.cur = c.cur /\ d2.blocks[d2.cur].filled
      /\ m \in BlocksOf(d2) /\ ~d2.blocks[m].filled
  BY <1>1, <1>2, <1>4, <1>6, <1>7 DEF Changed, Kept, BlocksOf
<1>9. BuilderOK(r) /\ Changed(d2, r, {}, {}) /\ SameCode(d2, r) /\ Entered(d2, r, m)
  BY <1>6, <1>8, SwitchLegal
<1> HIDE DEF r
<1>10. Changed(c, r, {c.cur}, {m})
  <2>1. Changed(c, r, {c.cur} \cup {}, {m} \cup {})
    BY <1>7, <1>9, ChangedTwice
  <2>2. {c.cur} \cup {} = {c.cur} /\ {m} \cup {} = {m}
    OBVIOUS
  <2>3. QED
    BY <2>1, <2>2
<1>11. Entered(c, r, m)
  BY <1>1, <1>6, <1>9 DEF Entered, Kept
<1>12. InStep(fr, r)
  BY <1>3, <1>9, <1>10, <1>11, EndInStep DEF m
<1>13. Follows(c, r, i, i)
  BY <1>1, <1>6, <1>9, <1>11 DEF Follows, Adds, SameCode, Entered
<1>14. QED
  BY <1>11, <1>12, <1>13 DEF Entered, r, d2, d, m

LEMMA IfEnds ==
  ASSUME NEW fr \in Seq(FrameType), NEW f \in FrameType, f.live, f.kind = "if",
         NEW c, InStep(Append(fr, f), c), NEW i
  PROVE  LET r == SwitchSealed(JumpTo(c, f.merge), f.merge)
         IN InStep(fr, r) /\ Follows(c, r, i, i) /\ ~r.terminated
<1> DEFINE m == f.merge
           d == JumpTo(c, m)
           r == SwitchSealed(d, m)
<1>1. BuilderOK(c) /\ Truth(c) /\ Pending(f, c) /\ c.cur \in BlocksOf(c)
  BY TopIs
<1>2. ~HasNext(f) /\ f.kind # "loop" /\ f.kind \notin ArmKinds /\ m \in Waits(f)
  BY DEF HasNext, ArmKinds, Waits
<1>3. /\ m \in BlocksOf(c) /\ ~c.blocks[m].sealed /\ c.blocks[m].params = 0
      /\ ~c.blocks[m].filled /\ m # c.cur
  BY <1>1, <1>2 DEF Pending
<1> HIDE DEF m
<1>4. /\ BuilderOK(d) /\ Changed(c, d, {c.cur}, {}) /\ SameCode(c, d) /\ Kept(c, d)
  BY <1>1, <1>3, JumpLegal
<1> HIDE DEF d
<1>5. /\ d.blocks[d.cur].filled /\ m \in BlocksOf(d)
      /\ ~d.blocks[m].filled /\ ~d.blocks[m].sealed
  BY <1>1, <1>3, <1>4 DEF Changed, Kept, BlocksOf
<1>6. BuilderOK(r) /\ Changed(d, r, {}, {m}) /\ SameCode(d, r) /\ Entered(d, r, m)
  BY <1>4, <1>5, SwitchSealedLegal
<1> HIDE DEF r
<1>7. Changed(c, r, {c.cur}, {m})
  <2>1. Changed(c, r, {c.cur} \cup {}, {} \cup {m})
    BY <1>4, <1>6, ChangedTwice
  <2>2. {c.cur} \cup {} = {c.cur} /\ {} \cup {m} = {m}
    OBVIOUS
  <2>3. QED
    BY <2>1, <2>2
<1>8. Entered(c, r, m)
  BY <1>4, <1>6 DEF Entered, Kept
<1>9. InStep(fr, r)
  BY <1>2, <1>6, <1>7, <1>8, EndInStep DEF m
<1>10. Follows(c, r, i, i)
  BY <1>4, <1>6, <1>8, SameFollows DEF SameCode, Entered
<1>11. QED
  BY <1>8, <1>9, <1>10 DEF Entered, r, d, m

LEMMA LoopEnds ==
  ASSUME NEW fr \in Seq(FrameType), NEW f \in FrameType, f.live, f.kind = "loop",
         NEW c, InStep(Append(fr, f), c), NEW i
  PROVE  LET d == LoopStackPop(SealBlock(JumpTo(c, f.header), f.header))
             r == SwitchSealed(d, f.merge)
         IN InStep(fr, r) /\ Follows(c, r, i, i) /\ ~r.terminated
<1> DEFINE m == f.merge
           h == f.header
           d1 == JumpTo(c, h)
           d2 == SealBlock(d1, h)
           d3 == LoopStackPop(d2)
           r == SwitchSealed(d3, m)
<1>1. /\ BuilderOK(c) /\ Truth(c) /\ Pending(f, c) /\ StackOK(Append(fr, f), c)
      /\ LoopsMatch(Append(fr, f), c.loops) /\ Waits(f) \cap Heads(f) = {}
      /\ c.cur \in BlocksOf(c)
  BY TopIs
<1>2. Waits(f) = {m} /\ Heads(f) = {h}
  BY DEF HasNext, ArmKinds, Waits, Heads
<1>3. /\ m \in BlocksOf(c) /\ ~c.blocks[m].filled /\ ~c.blocks[m].sealed /\ m # c.cur
      /\ h \in BlocksOf(c) /\ ~c.blocks[h].sealed /\ c.blocks[h].params = 0 /\ h # m
  BY <1>1, <1>2 DEF Pending
<1> HIDE DEF m, h
<1>4. /\ BuilderOK(d1) /\ Changed(c, d1, {c.cur}, {}) /\ SameCode(c, d1) /\ Kept(c, d1)
  BY <1>1, <1>3, JumpLegal
<1> HIDE DEF d1
<1>5. h \in BlocksOf(d1) /\ ~d1.blocks[h].sealed
  BY <1>3, <1>4 DEF Changed, BlocksOf
<1>6. /\ BuilderOK(d2) /\ Changed(d1, d2, {}, {h}) /\ SameCode(d1, d2) /\ Kept(d1, d2)
  BY <1>4, <1>5, SealLegal
<1> HIDE DEF d2
<1>7. c.loops \in Seq(LoopType) /\ d2.loops = c.loops
  BY <1>1, <1>4, <1>6 DEF Kept, BuilderOK, BuilderType, LoopType
<1>8. /\ LoopsMatch(fr, SubSeq(c.loops, 1, Len(c.loops) - 1))
      /\ SubSeq(c.loops, 1, Len(c.loops) - 1) \in Seq(LoopType)
  BY <1>1, <1>7, LoopPopped
<1>9. /\ BuilderOK(d3) /\ SameBlocks(d2, d3)
      /\ d3.loops = SubSeq(c.loops, 1, Len(c.loops) - 1)
  BY <1>6, <1>7, <1>8, PopLegal
<1> HIDE DEF d3
<1>10. Changed(c, d3, {c.cur}, {h}) /\ SameCode(c, d3)
  <2>1. Changed(c, d2, {c.cur} \cup {}, {} \cup {h})
    BY <1>4, <1>6, ChangedTwice
  <2>2. {c.cur} \cup {} = {c.cur} /\ {} \cup {h} = {h}
    OBVIOUS
  <2>3. Changed(c, d2, {c.cur}, {h})
    BY <2>1, <2>2
  <2>4. SameCode(d2, d3)
    BY <1>9, BlocksKeepStack
  <2>5. QED
    BY <2>3, <2>4, <1>4, <1>6, <1>9 DEF Changed, SameBlocks, SameCode
<1>11. d3.cur = c.cur /\ d3.vars = c.vars
  BY <1>4, <1>6, <1>9 DEF SameBlocks, Kept
<1>12. /\ d3.blocks[d3.cur].filled /\ m \in BlocksOf(d3)
       /\ ~d3.blocks[m].filled /\ ~d3.blocks[m].sealed
  BY <1>1, <1>3, <1>10, <1>11 DEF Changed, BlocksOf
<1>13. BuilderOK(r) /\ Changed(d3, r, {}, {m}) /\ SameCode(d3, r) /\ Entered(d3, r, m)
  BY <1>9, <1>12, SwitchSealedLegal
<1> HIDE DEF r
<1>14. Changed(c, r, {c.cur}, {m} \cup Heads(f))
  <2>1. Changed(c, r, {c.cur} \cup {}, {h} \cup {m})
    BY <1>10, <1>13, ChangedTwice
  <2>2. {c.cur} \cup {} = {c.cur} /\ {h} \cup {m} = {m} \cup Heads(f)
    BY <1>2
  <2>3. QED
    BY <2>1, <2>2
<1>15. /\ r.cur = m /\ ~r.terminated /\ r.vars = c.vars
       /\ r.loops = SubSeq(c.loops, 1, Len(c.loops) - 1)
  BY <1>9, <1>11, <1>13 DEF Entered
<1>16. StackOK(fr, r)
  BY <1>1, <1>2, <1>14, <1>15, CloseKeepsStack DEF m
<1>17. ~r.blocks[m].filled
  BY <1>3, <1>14 DEF Changed
<1>18. Truth(r)
  BY <1>15, <1>17 DEF Truth
<1>19. Follows(c, r, i, i)
  BY <1>10, <1>13, <1>15, SameFollows DEF SameCode
<1>20. QED
  BY <1>8, <1>13, <1>15, <1>16, <1>18, <1>19 DEF InStep, r, d3, d2, d1, m, h

-----------------------------------------------------------------------------
(* Statements without blocks. *)
LEMMA EmitInStep ==
  ASSUME NEW fr, NEW c, InStep(fr, c), NEW r, BuilderOK(r), Changed(c, r, {}, {}),
         r.cur = c.cur, r.terminated = c.terminated, r.loops = c.loops
  PROVE  InStep(fr, r)
<1>1. BuilderOK(c) /\ Truth(c) /\ StackOK(fr, c) /\ c.cur \in BlocksOf(c)
  BY DEF InStep, BuilderOK
<1>2. StackOK(fr, r)
  BY <1>1, EmitKeepsStack
<1>3. Truth(r)
  BY <1>1 DEF Truth, Changed
<1>4. QED
  BY <1>2, <1>3 DEF InStep

LEMMA EndOfBlock ==
  ASSUME NEW fr, NEW c, InStep(fr, c), \A k \in 1 .. Len(fr) : fr[k].kind \notin ArmKinds,
         NEW r, BuilderOK(r), Changed(c, r, {c.cur}, {}), Kept(c, r), r.terminated
  PROVE  InStep(fr, r)
<1>1. BuilderOK(c) /\ StackOK(fr, c) /\ c.cur \in BlocksOf(c)
  BY DEF InStep, BuilderOK
<1>2. StackOK(fr, r)
  BY <1>1, EndKeepsStack DEF Kept
<1>3. Truth(r)
  BY <1>1 DEF Truth, Changed, Kept
<1>4. QED
  BY <1>2, <1>3 DEF InStep, Kept

LEMMA ReturnInStep ==
  ASSUME NEW fr, NEW c, InStep(fr, c), ~c.terminated, NEW i \in Nat,
         \A k \in 1 .. Len(fr) : fr[k].kind \notin ArmKinds
  PROVE  LET r == ReturnVal(Emit(c, i, 0))
         IN InStep(fr, r) /\ Follows(c, r, i, i) /\ r.terminated
<1> DEFINE d == Emit(c, i, 0)
           r == ReturnVal(d)
<1>1. BuilderOK(c) /\ ~c.blocks[c.cur].filled /\ c.cur \in BlocksOf(c)
  BY LiveBlock
<1>2. 0 \in Nat
  OBVIOUS
<1>3. BuilderOK(d) /\ Changed(c, d, {}, {}) /\ MoreCode(c, d, i, 0) /\ Kept(c, d)
  BY <1>1, <1>2, EmitLegal
<1> HIDE DEF d
<1>4. d.cur = c.cur /\ ~d.blocks[d.cur].filled
  BY <1>1, <1>3 DEF Changed, Kept
<1>5. /\ BuilderOK(r) /\ Changed(d, r, {d.cur}, {}) /\ SameCode(d, r) /\ Kept(d, r)
      /\ r.terminated
  BY <1>3, <1>4, ReturnLegal
<1> HIDE DEF r
<1>6. Changed(c, r, {c.cur}, {})
  <2>1. Changed(c, r, {} \cup {d.cur}, {} \cup {})
    BY <1>3, <1>5, ChangedTwice
  <2>2. {} \cup {d.cur} = {c.cur} /\ {} \cup {} = {}
    BY <1>4
  <2>3. QED
    BY <2>1, <2>2
<1>7. MoreCode(c, r, i, 0) /\ Kept(c, r)
  BY <1>3, <1>5 DEF MoreCode, SameCode, Kept
<1>8. InStep(fr, r)
  BY <1>5, <1>6, <1>7, EndOfBlock
<1>9. Follows(c, r, i, i)
  BY <1>7, EmitFollows DEF Kept
<1>10. QED
  BY <1>5, <1>8, <1>9 DEF r, d

LEMMA BreakInStep ==
  ASSUME NEW fr, NEW c, InStep(fr, c), ~c.terminated, NEW i,
         \A k \in 1 .. Len(fr) : fr[k].kind \notin ArmKinds,
         NEW j \in 1 .. Len(fr), fr[j].kind = "loop"
  PROVE  InStep(fr, BreakLoop(c)) /\ Follows(c, BreakLoop(c), i, i)
         /\ BreakLoop(c).terminated
<1>1. /\ BuilderOK(c) /\ ~c.blocks[c.cur].filled /\ StackOK(fr, c)
      /\ fr \in Seq(FrameType) /\ c.cur \in BlocksOf(c)
  BY LiveBlock
<1>2. Below(fr, c)
  BY <1>1, StackBelow
<1>3. \A k \in 1 .. Len(fr) : fr[k].live
  BY <1>2, AllLive
<1>4. j \in LiveLoops(fr)
  BY <1>3 DEF LiveLoops
<1>5. PICK k \in LiveLoops(fr) :
        c.loops[Len(c.loops)] = LoopOf(fr[k]) /\ c.loops # <<>>
  BY <1>1, <1>4, LastLoop DEF InStep
<1> DEFINE e == fr[k].merge
           to == <<e>>
<1>6. c.loops[Len(c.loops)].exit = e /\ k \in 1 .. Len(fr)
  BY <1>5 DEF LoopOf, LiveLoops
<1>7. e \in BlocksOf(c) /\ ~c.blocks[e].sealed /\ c.blocks[e].params = 0
  <2>1. Pending(fr[k], c) /\ fr[k].live /\ fr[k].kind \notin ArmKinds
    BY <1>2, <1>3, <1>6 DEF Below
  <2>2. e \in Waits(fr[k])
    BY <2>1 DEF Waits
  <2>3. QED
    BY <2>1, <2>2 DEF Pending
<1> HIDE DEF e
<1>8. BreakLoop(c) = Terminate(c, to, 0)
  BY <1>5, <1>6 DEF BreakLoop
<1>9. to \in Seq(Nat) /\ \A n \in 1 .. Len(to) : to[n] = e
  BY <1>7 DEF BlocksOf
<1>10. Targets(c, to, 0)
  BY <1>7, <1>9 DEF Targets
<1> HIDE DEF to
<1> DEFINE r == Terminate(c, to, 0)
<1>11. /\ BuilderOK(r) /\ Changed(c, r, {c.cur}, {}) /\ SameCode(c, r) /\ Kept(c, r)
       /\ r.terminated
  BY <1>1, <1>10, TerminateLegal
<1> HIDE DEF r
<1>12. InStep(fr, r)
  BY <1>11, EndOfBlock
<1>13. Follows(c, r, i, i)
  BY <1>11, SameFollows DEF Kept
<1>14. QED
  BY <1>8, <1>11, <1>12, <1>13 DEF r

(* In dead code the builder is left alone. *)
LEMMA DeadOpens ==
  ASSUME NEW fr, NEW f \in FrameType, ~f.live, NEW c, InStep(fr, c), c.terminated
  PROVE  InStep(Append(fr, f), c)
<1>1. fr \in Seq(FrameType)
  BY DEF InStep, StackOK
<1>2. QED
  BY <1>1, DeadFrame, OtherFrame DEF InStep

LEMMA DeadTop ==
  ASSUME NEW fr \in Seq(FrameType), NEW f \in FrameType, ~f.live, NEW c,
         InStep(Append(fr, f), c)
  PROVE  /\ InStep(fr, c) /\ c.terminated
         /\ \A g \in FrameType : ~g.live => InStep(Append(fr, g), c)
<1>1. InStep(fr, c) /\ c.terminated
  BY DeadFrame, OtherFrame DEF InStep
<1>2. QED
  BY <1>1, DeadOpens

(* The frames are those under the top, and the top. *)
LEMMA FrontAndTop ==
  ASSUME NEW fr \in Seq(FrameType), fr # <<>>
  PROVE  /\ Front(fr) \in Seq(FrameType) /\ fr[Len(fr)] \in FrameType
         /\ fr = Append(Front(fr), fr[Len(fr)])
         /\ Len(Front(fr)) = Len(fr) - 1
<1> DEFINE n == Len(fr)
<1>1. n \in Nat /\ n # 0 /\ DOMAIN fr = 1 .. n
  BY LenProperties, EmptySeq
<1>2. \A i \in 1 .. n : fr[i] \in FrameType
  BY ElementOfSeq
<1>3. n - 1 \in Int /\ 1 \in Int /\ n \in 1 .. n /\ n - 1 - 1 + 1 = n - 1
      /\ \A i \in 1 .. n - 1 : i \in 1 .. n
  BY <1>1
<1> HIDE DEF n
<1>4. \A i \in 1 .. n - 1 : fr[i] \in FrameType
  BY <1>2, <1>3
<1>5. /\ SubSeq(fr, 1, n - 1) \in Seq(FrameType)
      /\ Len(SubSeq(fr, 1, n - 1)) = IF 1 <= n - 1 THEN n - 1 - 1 + 1 ELSE 0
      /\ \A i \in 1 .. n - 1 - 1 + 1 : SubSeq(fr, 1, n - 1)[i] = fr[1 + i - 1]
  BY <1>3, <1>4, SubSeqProperties
<1> DEFINE q == SubSeq(fr, 1, n - 1)
<1>6. Front(fr) = q
  BY DEF Front, n
<1>7. q \in Seq(FrameType) /\ Len(q) = n - 1 /\ \A i \in 1 .. n - 1 : q[i] = fr[i]
  BY <1>1, <1>3, <1>5
<1> HIDE DEF q
<1>8. fr[n] \in FrameType
  BY <1>2, <1>3
<1> DEFINE a == Append(q, fr[n])
<1>9. /\ a \in Seq(FrameType) /\ Len(a) = n - 1 + 1
      /\ \A i \in 1 .. n - 1 : a[i] = q[i]
      /\ a[n - 1 + 1] = fr[n]
  BY <1>7, <1>8, AppendProperties
<1> HIDE DEF a
<1>10. Len(a) = n /\ \A i \in 1 .. n : a[i] = fr[i]
  <2>1. n - 1 + 1 = n /\ \A i \in 1 .. n : i \in 1 .. n - 1 \/ i = n
    BY <1>1
  <2>2. QED
    BY <1>7, <1>9, <2>1
<1>11. fr = a
  BY <1>9, <1>10, SeqEqual DEF n
<1>12. QED
  BY <1>6, <1>7, <1>8, <1>11 DEF a, n

-----------------------------------------------------------------------------
(* Names.  Lexical on any body.                                            *)
OpNames ==
  {"decl", "set", "use", "expr", "return", "break", "if", "else", "end", "loop",
   "match", "arm", "any", "value", "ifExpr"}
EntryType == [op : OpNames, var : Names \cup {NoVar}, depth : Nat]

Declared(p, i, x) ==
  {j \in 1 .. i - 1 : p[j].op = "decl" /\ p[j].var = x /\ Encloses(p, j, i)}
LexicalIn(p, i, x) == Max({0} \cup Declared(p, i, x))

LEMMA LexicalIsIn ==
  ASSUME NEW i, NEW x
  PROVE  Lexical(i, x) = LexicalIn(prog, i, x)
  BY DEF Lexical, LexicalIn, Declared

LEMMA Longer ==
  ASSUME NEW p \in Seq(EntryType), NEW es \in Seq(EntryType)
  PROVE  /\ p \o es \in Seq(EntryType)
         /\ Len(p) \in Nat /\ Len(es) \in Nat /\ Len(p \o es) = Len(p) + Len(es)
         /\ \A i \in 1 .. Len(p) : (p \o es)[i] = p[i]
         /\ \A n \in 1 .. Len(es) : (p \o es)[Len(p) + n] = es[n]
         /\ \A i \in 1 .. Len(p) : p[i] \in EntryType /\ i \in 1 .. Len(p \o es)
         /\ \A i \in 1 .. Len(p \o es) :
              i \in 1 .. Len(p) \/ \E n \in 1 .. Len(es) : i = Len(p) + n
<1> DEFINE q == p \o es
           l == Len(p)
           m == Len(es)
<1>1. l \in Nat /\ m \in Nat
  BY LenProperties
<1>2. /\ q \in Seq(EntryType) /\ Len(q) = l + m
      /\ \A i \in 1 .. l + m : q[i] = IF i <= l THEN p[i] ELSE es[i - l]
  BY ConcatProperties
<1>3. \A i \in 1 .. l : p[i] \in EntryType
  BY ElementOfSeq
<1> HIDE DEF q, l, m
<1>4. ASSUME NEW i \in 1 .. l PROVE q[i] = p[i] /\ i \in 1 .. Len(q)
  <2>1. i \in 1 .. l + m /\ i <= l
    BY <1>1
  <2>2. QED
    BY <1>2, <2>1
<1>5. ASSUME NEW n \in 1 .. m PROVE q[l + n] = es[n]
  <2> DEFINE k == l + n
  <2>1. k \in 1 .. l + m /\ ~(k <= l) /\ k - l = n
    BY <1>1
  <2> HIDE DEF k
  <2>2. q[k] = es[n]
    BY <1>2, <2>1
  <2>3. QED
    BY <2>2 DEF k
<1>6. ASSUME NEW i \in 1 .. Len(q), i \notin 1 .. l PROVE \E n \in 1 .. m : i = l + n
  <2>1. i - l \in 1 .. m /\ i = l + (i - l)
    BY <1>1, <1>2, <1>6
  <2>2. QED
    BY <2>1
<1>7. QED
  BY <1>1, <1>2, <1>3, <1>4, <1>5, <1>6 DEF q, l, m

LEMMA LongerByOne ==
  ASSUME NEW p \in Seq(EntryType), NEW e \in EntryType
  PROVE  /\ Len(p) \in Nat /\ Len(p \o <<e>>) = Len(p) + 1
         /\ (p \o <<e>>)[Len(p) + 1] = e
<1>1. Append(p, e) = p \o <<e>>
  BY AppendIsConcat
<1>2. Len(Append(p, e)) = Len(p) + 1 /\ Append(p, e)[Len(p) + 1] = e
  BY AppendProperties
<1>3. Len(p) \in Nat
  BY LenProperties
<1>4. QED
  BY <1>1, <1>2, <1>3

LEMMA EnclosesBefore ==
  ASSUME NEW p \in Seq(EntryType), NEW es \in Seq(EntryType),
         NEW i \in 1 .. Len(p) + 1, NEW j \in 1 .. i - 1
  PROVE  Encloses(p \o es, j, i) <=> Encloses(p, j, i)
<1>1. Len(p) \in Nat
  BY LenProperties
<1>2. j \in 1 .. Len(p) /\ \A k \in j + 1 .. i - 1 : k \in 1 .. Len(p)
  BY <1>1
<1>3. (p \o es)[j] = p[j] /\ \A k \in j + 1 .. i - 1 : (p \o es)[k] = p[k]
  BY <1>2, Longer
<1>4. QED
  BY <1>3 DEF Encloses

LEMMA LexicalBefore ==
  ASSUME NEW p \in Seq(EntryType), NEW es \in Seq(EntryType),
         NEW i \in 1 .. Len(p) + 1, NEW x
  PROVE  LexicalIn(p \o es, i, x) = LexicalIn(p, i, x)
<1>1. Len(p) \in Nat
  BY LenProperties
<1>2. ASSUME NEW j \in 1 .. i - 1
      PROVE  /\ (p \o es)[j] = p[j]
             /\ Encloses(p \o es, j, i) <=> Encloses(p, j, i)
  <2>1. j \in 1 .. Len(p)
    BY <1>1
  <2>2. QED
    BY <2>1, Longer, EnclosesBefore
<1>3. Declared(p \o es, i, x) = Declared(p, i, x)
  BY <1>2 DEF Declared
<1>4. QED
  BY <1>3 DEF LexicalIn

(* A declaration that still encloses the end is not deeper than any entry  *)
(* that came since.                                                        *)
LEMMA EnclosesEnd ==
  ASSUME NEW p \in Seq(EntryType), NEW es \in Seq(EntryType),
         NEW j \in 1 .. Len(p), Encloses(p \o es, j, Len(p \o es) + 1)
  PROVE  /\ Encloses(p, j, Len(p) + 1)
         /\ \A n \in 1 .. Len(es) : es[n].depth >= p[j].depth
<1> DEFINE q == p \o es
<1>1. /\ Len(p) \in Nat /\ Len(es) \in Nat /\ Len(q) = Len(p) + Len(es)
      /\ \A i \in 1 .. Len(p) : q[i] = p[i]
      /\ \A n \in 1 .. Len(es) : q[Len(p) + n] = es[n]
  BY Longer
<1> HIDE DEF q
<1>2. \A k \in j + 1 .. Len(q) + 1 - 1 : q[k].depth >= q[j].depth
  BY DEF Encloses, q
<1>3. ASSUME NEW k \in j + 1 .. Len(p) + 1 - 1 PROVE p[k].depth >= p[j].depth
  <2>1. k \in j + 1 .. Len(q) + 1 - 1 /\ k \in 1 .. Len(p)
    BY <1>1
  <2>2. QED
    BY <1>1, <1>2, <2>1
<1>4. ASSUME NEW n \in 1 .. Len(es) PROVE es[n].depth >= p[j].depth
  <2>1. Len(p) + n \in j + 1 .. Len(q) + 1 - 1
    BY <1>1
  <2>2. QED
    BY <1>1, <1>2, <2>1
<1>5. QED
  BY <1>3, <1>4 DEF Encloses

(* Is the code at depth d around the current place compiled? *)
LiveAt(fr, c, d) == IF d < Len(fr) THEN fr[d + 1].live ELSE ~c.terminated

(* Declarations that are in scope have variables, and without shadowing    *)
(* the variables are theirs.                                               *)
Resolved(vars, x, j) == vars[x] # 0 /\ ("shadow" \notin Forms => vars[x] = j)

InScope(p, fr, c, j) ==
  /\ p[j].var \in Names /\ p[j].depth <= Len(fr)
  /\ LiveAt(fr, c, p[j].depth) => Resolved(c.vars, p[j].var, j)

NamesOK(p, fr, c) ==
  \A j \in 1 .. Len(p) :
    p[j].op = "decl" /\ Encloses(p, j, Len(p) + 1) => InScope(p, fr, c, j)

(* A step of the frames that makes no code live in which it was dead. *)
Shrinks(es, fr, c, fr2, r) ==
  \A d \in Nat :
    d <= Len(fr) /\ (\A n \in 1 .. Len(es) : es[n].depth >= d) =>
      d <= Len(fr2) /\ (LiveAt(fr2, r, d) => LiveAt(fr, c, d))

LEMMA NamesStep ==
  ASSUME NEW p \in Seq(EntryType), NEW es \in Seq(EntryType), NEW fr, NEW c, NEW fr2, NEW r,
         NamesOK(p, fr, c), \A n \in 1 .. Len(es) : es[n].op # "decl",
         r.vars = c.vars, Shrinks(es, fr, c, fr2, r)
  PROVE  NamesOK(p \o es, fr2, r)
<1> DEFINE q == p \o es
<1> SUFFICES ASSUME NEW j \in 1 .. Len(q), q[j].op = "decl", Encloses(q, j, Len(q) + 1)
             PROVE  InScope(q, fr2, r, j)
  BY DEF NamesOK
<1>1. j \in 1 .. Len(p) /\ q[j] = p[j]
  <2>1. CASE j \in 1 .. Len(p)
    BY <2>1, Longer
  <2>2. CASE j \notin 1 .. Len(p)
    <3>1. PICK n \in 1 .. Len(es) : j = Len(p) + n
      BY <2>2, Longer
    <3>2. q[j] = es[n]
      BY <3>1, Longer
    <3>3. QED
      BY <3>2
  <2>3. QED
    BY <2>1, <2>2
<1>2. Encloses(p, j, Len(p) + 1) /\ \A n \in 1 .. Len(es) : es[n].depth >= p[j].depth
  BY <1>1, EnclosesEnd
<1> HIDE DEF q
<1>3. InScope(p, fr, c, j)
  BY <1>1, <1>2 DEF NamesOK
<1>4. p[j].depth \in Nat
  <2>1. p[j] \in EntryType
    BY <1>1, ElementOfSeq
  <2>2. QED
    BY <2>1 DEF EntryType
<1>5. p[j].depth <= Len(fr)
  BY <1>3 DEF InScope
<1>6. p[j].depth <= Len(fr2)
      /\ (LiveAt(fr2, r, p[j].depth) => LiveAt(fr, c, p[j].depth))
  BY <1>2, <1>4, <1>5 DEF Shrinks
<1>7. QED
  BY <1>1, <1>3, <1>6 DEF InScope, Resolved

LEMMA ShrinksSame ==
  ASSUME NEW es, NEW fr, NEW c, NEW r, c.terminated => r.terminated
  PROVE  Shrinks(es, fr, c, fr, r)
  BY DEF Shrinks, LiveAt

LEMMA ShrinksOpen ==
  ASSUME NEW es, NEW fr \in Seq(FrameType), NEW f \in FrameType, NEW c, NEW r,
         f.live => ~c.terminated
  PROVE  Shrinks(es, fr, c, Append(fr, f), r)
<1> SUFFICES ASSUME NEW d \in Nat, d <= Len(fr)
             PROVE  /\ d <= Len(Append(fr, f))
                    /\ LiveAt(Append(fr, f), r, d) => LiveAt(fr, c, d)
  BY DEF Shrinks
<1>1. Len(fr) \in Nat /\ Len(Append(fr, f)) = Len(fr) + 1
  BY AppendIndex
<1>2. d <= Len(Append(fr, f)) /\ d < Len(Append(fr, f))
  BY <1>1
<1>3. CASE d < Len(fr)
  <2>1. d + 1 \in 1 .. Len(fr)
    BY <1>1, <1>3
  <2>2. Append(fr, f)[d + 1] = fr[d + 1]
    BY <2>1, AppendIndex
  <2>3. QED
    BY <1>2, <1>3, <2>2 DEF LiveAt
<1>4. CASE ~(d < Len(fr))
  <2>1. d = Len(fr)
    BY <1>1, <1>4
  <2>2. Append(fr, f)[d + 1] = f
    BY <2>1, AppendIndex
  <2>3. QED
    BY <1>2, <1>4, <2>2 DEF LiveAt
<1>5. QED
  BY <1>3, <1>4

LEMMA LiveUnderTop ==
  ASSUME NEW fr \in Seq(FrameType), NEW f \in FrameType, NEW c, NEW d \in Nat, d <= Len(fr)
  PROVE  LiveAt(Append(fr, f), c, d) = IF d = Len(fr) THEN f.live ELSE fr[d + 1].live
<1>1. Len(fr) \in Nat /\ Len(Append(fr, f)) = Len(fr) + 1
  BY AppendIndex
<1>2. d < Len(Append(fr, f))
  BY <1>1
<1>3. d # Len(fr) => d + 1 \in 1 .. Len(fr)
  BY <1>1
<1>4. Append(fr, f)[d + 1] = IF d = Len(fr) THEN f ELSE fr[d + 1]
  BY <1>3, AppendIndex
<1>5. QED
  BY <1>2, <1>4 DEF LiveAt

LEMMA ShrinksNext ==
  ASSUME NEW es, NEW fr \in Seq(FrameType), NEW f \in FrameType, NEW g \in FrameType,
         NEW c, NEW r, g.live => f.live,
         NEW k \in 1 .. Len(es), es[k].depth = Len(fr)
  PROVE  Shrinks(es, Append(fr, f), c, Append(fr, g), r)
<1> SUFFICES ASSUME NEW d \in Nat, \A n \in 1 .. Len(es) : es[n].depth >= d
             PROVE  /\ d <= Len(Append(fr, g))
                    /\ LiveAt(Append(fr, g), r, d) => LiveAt(Append(fr, f), c, d)
  BY DEF Shrinks
<1>1. Len(fr) \in Nat /\ Len(Append(fr, g)) = Len(fr) + 1
  BY AppendIndex
<1>2. d <= Len(fr)
  BY <1>1
<1>3. d <= Len(Append(fr, g))
  BY <1>1, <1>2
<1>4. LiveAt(Append(fr, g), r, d) => LiveAt(Append(fr, f), c, d)
  BY <1>2, LiveUnderTop
<1>5. QED
  BY <1>3, <1>4

LEMMA ShrinksOut ==
  ASSUME NEW es, NEW fr \in Seq(FrameType), NEW f \in FrameType, NEW c, NEW r,
         f.live \/ r.terminated, NEW k \in 1 .. Len(es), es[k].depth = Len(fr)
  PROVE  Shrinks(es, Append(fr, f), c, fr, r)
<1> SUFFICES ASSUME NEW d \in Nat, \A n \in 1 .. Len(es) : es[n].depth >= d
             PROVE  d <= Len(fr) /\ (LiveAt(fr, r, d) => LiveAt(Append(fr, f), c, d))
  BY DEF Shrinks
<1>1. Len(fr) \in Nat
  BY AppendIndex
<1>2. d <= Len(fr) /\ (d < Len(fr) <=> d # Len(fr))
  BY <1>1
<1>3. LiveAt(fr, r, d) => LiveAt(Append(fr, f), c, d)
  BY <1>2, LiveUnderTop DEF LiveAt
<1>4. QED
  BY <1>2, <1>3

-----------------------------------------------------------------------------
(* What the code says about the source. *)
MeansItsName(p, y) ==
  /\ y.at \in 1 .. Len(p)
  /\ "shadow" \notin Forms /\ p[y.at].op \in {"set", "use"} =>
       y.decl = LexicalIn(p, y.at, p[y.at].var)
CodeOK(p, c) == \A y : HasCode(c, y) => MeansItsName(p, y)

LEMMA CodeKept ==
  ASSUME NEW p \in Seq(EntryType), NEW es \in Seq(EntryType), NEW c, CodeOK(p, c),
         NEW y, HasCode(c, y)
  PROVE  MeansItsName(p \o es, y)
<1>1. MeansItsName(p, y)
  BY DEF CodeOK
<1>2. Len(p) \in Nat
  BY LenProperties
<1>3. y.at \in 1 .. Len(p) /\ y.at \in 1 .. Len(p) + 1
  BY <1>1, <1>2 DEF MeansItsName
<1>4. (p \o es)[y.at] = p[y.at] /\ y.at \in 1 .. Len(p \o es)
  BY <1>3, Longer
<1>5. LexicalIn(p \o es, y.at, p[y.at].var) = LexicalIn(p, y.at, p[y.at].var)
  BY <1>3, LexicalBefore
<1>6. QED
  BY <1>1, <1>4, <1>5 DEF MeansItsName

LEMMA CodeGrows ==
  ASSUME NEW p \in Seq(EntryType), NEW es \in Seq(EntryType), NEW c, NEW r, CodeOK(p, c),
         Adds(c, r, Len(p) + 1, Len(p) + Len(es)),
         \A n \in 1 .. Len(es) : es[n].op \notin {"set", "use"}
  PROVE  CodeOK(p \o es, r)
<1>1. ASSUME NEW y, HasCode(r, y) PROVE MeansItsName(p \o es, y)
  <2>1. CASE HasCode(c, y)
    BY <2>1, CodeKept
  <2>2. CASE ~HasCode(c, y)
    <3>1. y.at \in Len(p) + 1 .. Len(p) + Len(es)
      BY <1>1, <2>2 DEF Adds
    <3>2. Len(p) \in Nat /\ Len(es) \in Nat /\ Len(p \o es) = Len(p) + Len(es)
      BY Longer
    <3>3. y.at \in 1 .. Len(p \o es) /\ y.at \notin 1 .. Len(p)
      BY <3>1, <3>2
    <3>4. PICK n \in 1 .. Len(es) : y.at = Len(p) + n
      BY <3>3, Longer
    <3>5. (p \o es)[y.at] = es[n]
      BY <3>4, Longer
    <3>6. es[n].op \notin {"set", "use"}
      OBVIOUS
    <3>7. QED
      BY <3>3, <3>5, <3>6 DEF MeansItsName
  <2>3. QED
    BY <2>1, <2>2
<1> HIDE DEF Adds
<1>2. QED
  BY <1>1 DEF CodeOK

LEMMA CodeOfAccess ==
  ASSUME NEW p \in Seq(EntryType), NEW e \in EntryType, NEW c, NEW r, CodeOK(p, c), NEW d,
         MoreCode(c, r, Len(p) + 1, d),
         "shadow" \notin Forms => d = LexicalIn(p, Len(p) + 1, e.var)
  PROVE  CodeOK(p \o <<e>>, r)
<1> DEFINE es == <<e>>
           q == p \o es
           i == Len(p) + 1
           new == [at |-> i, decl |-> d]
<1>1. es \in Seq(EntryType) /\ Len(es) = 1 /\ es[1] = e /\ 1 \in 1 .. Len(es)
  OBVIOUS
<1> HIDE DEF es
<1>2. Len(p) \in Nat /\ Len(q) = i /\ q[i] = e
  BY LongerByOne DEF es
<1>3. i \in 1 .. Len(p) + 1 /\ i \in 1 .. Len(q)
  BY <1>2
<1>4. LexicalIn(q, i, e.var) = LexicalIn(p, i, e.var)
  BY <1>1, <1>3, LexicalBefore
<1>5. new.at = i /\ new.decl = d
  OBVIOUS
<1> SUFFICES ASSUME NEW y, HasCode(r, y)
             PROVE  MeansItsName(q, y)
  BY DEF CodeOK, es
<1>6. HasCode(c, y) \/ y = new
  BY DEF MoreCode
<1> HIDE DEF q, i, new
<1>7. CASE HasCode(c, y)
  BY <1>1, <1>7, CodeKept DEF q
<1>8. CASE y = new
  BY <1>2, <1>3, <1>4, <1>5, <1>8 DEF MeansItsName, i
<1>9. QED
  BY <1>6, <1>7, <1>8

LEMMA MaxOfOne ==
  ASSUME NEW v \in Nat
  PROVE  Max({0} \cup {v}) = v
<1>1. v \in {0} \cup {v} /\ \A y \in {0} \cup {v} : v >= y
  OBVIOUS
<1>2. \A z \in {0} \cup {v} : (\A y \in {0} \cup {v} : z >= y) => z = v
  OBVIOUS
<1>3. QED
  BY <1>1, <1>2 DEF Max

LEMMA MaxOfNone == Max({0} \cup {}) = 0
<1>1. {0} \cup {} = {0} \cup {0}
  OBVIOUS
<1>2. QED
  BY <1>1, MaxOfOne

(* Where code is compiled, the names in scope have their variables. *)
LEMMA InLiveCode ==
  ASSUME NEW p \in Seq(EntryType), NEW fr, NEW c, InStep(fr, c), ~c.terminated,
         NamesOK(p, fr, c), NEW x
  PROVE  LET l == LexicalIn(p, Len(p) + 1, x)
         IN /\ l # 0 => x \in Names /\ c.vars[x] # 0
            /\ "shadow" \notin Forms /\ l # 0 => c.vars[x] = l
            /\ "shadow" \notin Forms /\ l = 0 => Declared(p, Len(p) + 1, x) = {}
<1> DEFINE D == Declared(p, Len(p) + 1, x)
           l == LexicalIn(p, Len(p) + 1, x)
<1>1. l = Max({0} \cup D)
  BY DEF LexicalIn
<1>2. Len(p) \in Nat /\ fr \in Seq(FrameType) /\ Below(fr, c)
  BY LenProperties, StackBelow DEF InStep, StackOK
<1>3. Len(fr) \in Nat /\ \A k \in 1 .. Len(fr) : fr[k].live
  BY <1>2, LenProperties, AllLive
<1>4. ASSUME NEW j \in D
      PROVE  x \in Names /\ Resolved(c.vars, x, j) /\ j \in Nat /\ j # 0
  <2>1. j \in 1 .. Len(p) /\ p[j].op = "decl" /\ p[j].var = x
        /\ Encloses(p, j, Len(p) + 1)
    BY <1>2 DEF Declared
  <2>2. InScope(p, fr, c, j)
    BY <2>1 DEF NamesOK
  <2>3. p[j].depth \in Nat
    <3>1. p[j] \in EntryType
      BY <2>1, ElementOfSeq
    <3>2. QED
      BY <3>1 DEF EntryType
  <2>4. LiveAt(fr, c, p[j].depth)
    <3>1. CASE p[j].depth < Len(fr)
      <4>1. p[j].depth + 1 \in 1 .. Len(fr)
        <5> DEFINE d == p[j].depth
                   n == Len(fr)
        <5>1. d \in Nat /\ n \in Nat /\ d < n
          BY <3>1, <2>3, <1>3
        <5> HIDE DEF d, n
        <5>2. d + 1 \in 1 .. n
          BY <5>1
        <5>3. QED
          BY <5>2 DEF d, n
      <4>2. QED
        BY <4>1, <3>1, <1>3 DEF LiveAt
    <3>2. CASE ~(p[j].depth < Len(fr))
      BY <3>2 DEF LiveAt
    <3>3. QED
      BY <3>1, <3>2
  <2>5. QED
    BY <2>1, <2>2, <2>4 DEF InScope
<1> HIDE DEF D, l
<1>5. CASE D = {}
  <2>1. l = 0
    BY <1>1, <1>5, MaxOfNone
  <2>2. QED
    BY <2>1, <1>5 DEF l, D
<1>6. CASE D # {}
  <2>1. PICK j \in D : TRUE
    BY <1>6
  <2>2. x \in Names /\ c.vars[x] # 0
    BY <2>1, <1>4 DEF Resolved
  <2>3. ASSUME "shadow" \notin Forms PROVE c.vars[x] = l /\ l # 0
    <3>1. \A k \in D : k = c.vars[x]
      BY <1>4, <2>3 DEF Resolved
    <3>2. D = {j} /\ c.vars[x] = j
      BY <2>1, <3>1
    <3>3. l = j
      BY <1>1, <1>4, <2>1, <3>2, MaxOfOne
    <3>4. QED
      BY <1>4, <2>1, <3>2, <3>3
  <2>4. QED
    BY <2>2, <2>3 DEF l, D
<1>7. QED
  BY <1>5, <1>6

(* A declaration takes the name over.                                      *)
LEMMA DeclareNames ==
  ASSUME NEW p \in Seq(EntryType), NEW fr, NEW c, InStep(fr, c), NamesOK(p, fr, c),
         NEW x \in Names, LexicalIn(p, Len(p) + 1, x) # 0 => "shadow" \in Forms,
         NEW e \in EntryType, e.var = x, e.depth = Len(fr),
         NEW r, r.terminated <=> c.terminated,
         c.terminated => r.vars = c.vars,
         ~c.terminated => r.vars = [c.vars EXCEPT ![x] = Len(p) + 1]
  PROVE  NamesOK(p \o <<e>>, fr, r)
<1> DEFINE es == <<e>>
           q == p \o es
           i == Len(p) + 1
<1>1. es \in Seq(EntryType) /\ Len(es) = 1 /\ es[1] = e /\ 1 \in 1 .. Len(es)
      /\ \A n \in 1 .. Len(es) : n = 1
  OBVIOUS
<1> HIDE DEF es
<1>2. Len(p) \in Nat /\ Len(q) = i /\ q[i] = e
  BY LongerByOne DEF es
<1>3. i \in Nat /\ i # 0 /\ Len(fr) \in Nat
  BY <1>2, LenProperties DEF InStep, StackOK
<1>4. c.vars \in [Names -> Nat]
  BY DEF InStep, BuilderOK, BuilderType
<1>5. ASSUME NEW j \in 1 .. Len(q), q[j].op = "decl", Encloses(q, j, Len(q) + 1),
             j \in 1 .. Len(p)
      PROVE  InScope(q, fr, r, j)
  <2>1. q[j] = p[j]
    BY <1>1, <1>5, Longer
  <2>2. Encloses(p, j, Len(p) + 1)
    BY <1>1, <1>5, EnclosesEnd
  <2>3. InScope(p, fr, c, j)
    BY <1>5, <2>1, <2>2 DEF NamesOK
  <2>4. LiveAt(fr, r, p[j].depth) <=> LiveAt(fr, c, p[j].depth)
    BY DEF LiveAt
  <2>5. CASE c.terminated
    BY <2>1, <2>3, <2>4, <2>5 DEF InScope
  <2>6. CASE ~c.terminated /\ p[j].var # x
    <3>1. r.vars[p[j].var] = c.vars[p[j].var]
      BY <1>4, <2>3, <2>6 DEF InScope
    <3>2. QED
      BY <2>1, <2>3, <2>4, <3>1 DEF InScope, Resolved
  <2>7. CASE ~c.terminated /\ p[j].var = x
    <3>1. r.vars[x] = i
      BY <1>4, <2>7
    <3>2. j \in Declared(p, Len(p) + 1, x)
      <4>1. j \in 1 .. Len(p) + 1 - 1
        BY <1>2, <1>5
      <4>2. QED
        BY <1>5, <2>1, <2>2, <2>7, <4>1 DEF Declared
    <3>3. "shadow" \in Forms
      BY <2>7, <3>2, InLiveCode
    <3>4. Resolved(r.vars, x, j)
      BY <1>3, <3>1, <3>3 DEF Resolved
    <3>5. QED
      BY <2>1, <2>3, <2>7, <3>4 DEF InScope
  <2>8. QED
    BY <2>5, <2>6, <2>7
<1>6. ASSUME NEW j \in 1 .. Len(q), j \notin 1 .. Len(p) PROVE InScope(q, fr, r, j)
  <2>1. j = i
    BY <1>2, <1>6
  <2>2. q[j].var = x /\ q[j].depth = Len(fr)
    BY <1>2, <2>1
  <2>3. LiveAt(fr, r, Len(fr)) => ~c.terminated
    BY <1>3 DEF LiveAt
  <2>4. ~c.terminated => Resolved(r.vars, x, j)
    BY <1>3, <1>4, <2>1 DEF Resolved
  <2>5. Len(fr) <= Len(fr)
    BY <1>3
  <2>6. QED
    BY <2>2, <2>3, <2>4, <2>5 DEF InScope
<1> HIDE DEF q
<1>7. NamesOK(q, fr, r)
  BY <1>5, <1>6 DEF NamesOK
<1>8. QED
  BY <1>7 DEF q, es

-----------------------------------------------------------------------------
(* The inductive invariant. *)
Tame ==
  Forms \cap {"exitArm", "noWildcard", "earlyWildcard", "strayBreak"} = {}

VarsIn(p, c) == c.vars \in [Names -> 0 .. Len(p)]

Built(p, c) ==
  p \in Seq(EntryType) /\ BuilderOK(c) /\ Truth(c) /\ VarsIn(p, c) /\ CodeOK(p, c)
Compiling(p, fr, c) == InStep(fr, c) /\ NamesOK(p, fr, c)

GenInv ==
  /\ phase \in {"compile", "run"}
  /\ Built(prog, b)
  /\ phase = "compile" => Compiling(prog, frames, b)

(* Entries that say nothing of a name. *)
Quiet(es) ==
  es \in Seq(EntryType) /\ \A n \in 1 .. Len(es) : es[n].op \notin {"decl", "set", "use"}

LEMMA StepKeeps ==
  ASSUME NEW p, NEW es, NEW fr, NEW c, NEW fr2, NEW r, Built(p, c), Compiling(p, fr, c),
         Quiet(es), InStep(fr2, r), Follows(c, r, Len(p) + 1, Len(p) + Len(es)),
         Shrinks(es, fr, c, fr2, r)
  PROVE  Built(p \o es, r) /\ Compiling(p \o es, fr2, r)
<1>1. p \in Seq(EntryType) /\ es \in Seq(EntryType) /\ CodeOK(p, c) /\ VarsIn(p, c)
  BY DEF Built, Quiet
<1>2. /\ p \o es \in Seq(EntryType) /\ Len(p) \in Nat /\ Len(es) \in Nat
      /\ Len(p \o es) = Len(p) + Len(es)
  BY <1>1, Longer
<1>3. Adds(c, r, Len(p) + 1, Len(p) + Len(es)) /\ r.vars = c.vars
  BY DEF Follows
<1>4. CodeOK(p \o es, r)
  BY <1>1, <1>3, CodeGrows DEF Quiet
<1>5. NamesOK(p \o es, fr2, r)
  BY <1>1, <1>3, NamesStep DEF Quiet, Compiling
<1>6. VarsIn(p \o es, r)
  <2>1. 0 .. Len(p) \subseteq 0 .. Len(p \o es)
    BY <1>2
  <2>2. QED
    BY <1>1, <1>3, <2>1 DEF VarsIn
<1>7. BuilderOK(r) /\ Truth(r)
  BY DEF InStep
<1>8. QED
  BY <1>2, <1>4, <1>5, <1>6, <1>7 DEF Built, Compiling

(* In dead code a step writes nothing. *)
LEMMA NothingFollows ==
  ASSUME NEW c, NEW i, NEW k
  PROVE  Follows(c, c, i, k)
  BY DEF Follows, Adds

LEMMA OneEntry ==
  ASSUME NEW e \in EntryType
  PROVE  /\ <<e>> \in Seq(EntryType) /\ Len(<<e>>) = 1 /\ <<e>>[1] = e
         /\ 1 \in 1 .. Len(<<e>>)
         /\ e.op \notin {"decl", "set", "use"} => Quiet(<<e>>)
<1>1. /\ <<e>> \in Seq(EntryType) /\ Len(<<e>>) = 1 /\ <<e>>[1] = e
      /\ 1 \in 1 .. Len(<<e>>) /\ \A n \in 1 .. Len(<<e>>) : n = 1
  OBVIOUS
<1>2. QED
  BY <1>1 DEF Quiet

LEMMA TwoEntries ==
  ASSUME NEW e \in EntryType, NEW d \in EntryType
  PROVE  /\ <<e, d>> \in Seq(EntryType) /\ Len(<<e, d>>) = 2
         /\ <<e, d>>[1] = e /\ <<e, d>>[2] = d
         /\ 1 \in 1 .. Len(<<e, d>>) /\ 2 \in 1 .. Len(<<e, d>>)
         /\ e.op \notin {"decl", "set", "use"} /\ d.op \notin {"decl", "set", "use"} =>
              Quiet(<<e, d>>)
<1>1. /\ <<e, d>> \in Seq(EntryType) /\ Len(<<e, d>>) = 2
      /\ <<e, d>>[1] = e /\ <<e, d>>[2] = d
      /\ 1 \in 1 .. Len(<<e, d>>) /\ 2 \in 1 .. Len(<<e, d>>)
      /\ \A n \in 1 .. Len(<<e, d>>) : n = 1 \/ n = 2
  OBVIOUS
<1>2. QED
  BY <1>1 DEF Quiet

-----------------------------------------------------------------------------
(* Each action keeps it. *)
LEMMA Context ==
  ASSUME GenInv, phase = "compile"
  PROVE  /\ prog \in Seq(EntryType) /\ Len(prog) \in Nat
         /\ Next1 = Len(prog) + 1 /\ Next1 \in Nat
         /\ Built(prog, b) /\ Compiling(prog, frames, b)
         /\ InStep(frames, b) /\ NamesOK(prog, frames, b)
         /\ frames \in Seq(FrameType) /\ Len(frames) \in Nat
         /\ BuilderOK(b) /\ b.terminated \in BOOLEAN
         /\ New(1) \in Nat /\ New(2) \in Nat /\ New(3) \in Nat
         /\ NewAt(b, 1, New(1)) /\ NewAt(b, 2, New(2)) /\ NewAt(b, 3, New(3))
<1>1. Built(prog, b) /\ Compiling(prog, frames, b)
  BY DEF GenInv
<1>2. prog \in Seq(EntryType) /\ BuilderOK(b)
  BY <1>1 DEF Built
<1>3. Len(prog) \in Nat /\ Next1 = Len(prog) + 1 /\ Next1 \in Nat
  BY <1>2, LenProperties DEF Next1
<1>4. InStep(frames, b) /\ NamesOK(prog, frames, b)
  BY <1>1 DEF Compiling
<1>5. frames \in Seq(FrameType) /\ Len(frames) \in Nat
  BY <1>4, LenProperties DEF InStep, StackOK
<1>6. b.terminated \in BOOLEAN /\ Len(b.blocks) \in Nat
  BY <1>2 DEF BuilderOK, BuilderType
<1>7. /\ New(1) \in Nat /\ New(2) \in Nat /\ New(3) \in Nat
      /\ NewAt(b, 1, New(1)) /\ NewAt(b, 2, New(2)) /\ NewAt(b, 3, New(3))
  BY <1>6 DEF New, NewAt
<1>8. QED
  BY <1>1, <1>2, <1>3, <1>4, <1>5, <1>6, <1>7

LEMMA EntryTyped ==
  ASSUME NEW op \in OpNames, NEW x \in Names \cup {NoVar}, NEW n \in Nat
  PROVE  /\ Entry(op, x, n) \in EntryType /\ Entry(op, x, n).op = op
         /\ Entry(op, x, n).var = x /\ Entry(op, x, n).depth = n
  BY DEF Entry, EntryType

LEMMA PlainKeeps ==
  ASSUME GenInv, NEW op \in {"expr", "return", "break"}, NEW r, Plain(op, NoVar, r),
         ~b.terminated => InStep(frames, r) /\ Follows(b, r, Next1, Next1)
  PROVE  GenInv'
<1> DEFINE e == Entry(op, NoVar, Len(frames))
           es == <<e>>
<1>1. /\ phase = "compile" /\ phase' = phase /\ frames' = frames
      /\ prog' = Append(prog, e) /\ b' = IF b.terminated THEN b ELSE r
  BY DEF Plain, Room, Compiled
<1>2. /\ prog \in Seq(EntryType) /\ Next1 = Len(prog) + 1 /\ Len(frames) \in Nat
      /\ Built(prog, b) /\ Compiling(prog, frames, b) /\ InStep(frames, b)
  BY <1>1, Context
<1>3. e \in EntryType /\ e.op \notin {"decl", "set", "use"}
  <2>1. op \in OpNames /\ NoVar \in Names \cup {NoVar}
    BY DEF OpNames
  <2>2. QED
    BY <1>2, <2>1, EntryTyped
<1> HIDE DEF e
<1>4. Quiet(es) /\ Len(es) = 1
  BY <1>3, OneEntry
<1>5. prog' = prog \o es
  BY <1>1, <1>2, <1>3, AppendIsConcat
<1> HIDE DEF es
<1>6. InStep(frames, b') /\ Follows(b, b', Len(prog) + 1, Len(prog) + Len(es))
  BY <1>1, <1>2, <1>4, NothingFollows
<1>7. Shrinks(es, frames, b, frames, b')
  BY <1>1, ShrinksSame
<1>8. Built(prog \o es, b') /\ Compiling(prog \o es, frames, b')
  BY <1>2, <1>4, <1>6, <1>7, StepKeeps
<1>9. QED
  BY <1>1, <1>5, <1>8 DEF GenInv

LEMMA OpenKeeps ==
  ASSUME GenInv, NEW es, Quiet(es), NEW f \in FrameType, f.live <=> ~b.terminated,
         NEW r, Open(es, f, r),
         ~b.terminated => /\ InStep(Append(frames, f), r)
                          /\ Follows(b, r, Next1, Len(prog) + Len(es))
  PROVE  GenInv'
<1>1. /\ phase = "compile" /\ phase' = phase /\ frames' = Append(frames, f)
      /\ prog' = prog \o es /\ b' = IF b.terminated THEN b ELSE r
  BY DEF Open, Room, Compiled
<1>2. /\ prog \in Seq(EntryType) /\ Next1 = Len(prog) + 1 /\ frames \in Seq(FrameType)
      /\ Built(prog, b) /\ Compiling(prog, frames, b) /\ InStep(frames, b)
  BY <1>1, Context
<1>3. InStep(Append(frames, f), b')
      /\ Follows(b, b', Len(prog) + 1, Len(prog) + Len(es))
  BY <1>1, <1>2, NothingFollows, DeadOpens
<1>4. Shrinks(es, frames, b, Append(frames, f), b')
  BY <1>1, <1>2, ShrinksOpen
<1>5. Built(prog \o es, b') /\ Compiling(prog \o es, Append(frames, f), b')
  BY <1>2, <1>3, <1>4, StepKeeps
<1>6. QED
  BY <1>1, <1>5 DEF GenInv

(* On to the next part of the top f, which is g. *)
LEMMA GoOnKeeps ==
  ASSUME GenInv, NEW es, Quiet(es), NEW fr \in Seq(FrameType), NEW f \in FrameType,
         frames = Append(fr, f), Top = f, NEW g \in FrameType, g.live <=> f.live,
         NEW k \in 1 .. Len(es), es[k].depth = Len(fr),
         NEW r, phase = "compile", Go(es, Append(fr, g), r),
         f.live => /\ InStep(Append(fr, g), r)
                   /\ Follows(b, r, Next1, Len(prog) + Len(es))
  PROVE  GenInv'
<1>1. /\ phase' = phase /\ frames' = Append(fr, g)
      /\ prog' = prog \o es /\ b' = IF f.live THEN r ELSE b
  BY DEF Go
<1>2. /\ prog \in Seq(EntryType) /\ Next1 = Len(prog) + 1
      /\ Built(prog, b) /\ Compiling(prog, frames, b) /\ InStep(Append(fr, f), b)
  BY Context
<1>3. InStep(Append(fr, g), b')
      /\ Follows(b, b', Len(prog) + 1, Len(prog) + Len(es))
  BY <1>1, <1>2, NothingFollows, DeadTop
<1>4. Shrinks(es, Append(fr, f), b, Append(fr, g), b')
  BY ShrinksNext
<1>5. Built(prog \o es, b') /\ Compiling(prog \o es, Append(fr, g), b')
  BY <1>2, <1>3, <1>4, StepKeeps
<1>6. QED
  BY <1>1, <1>5 DEF GenInv

(* Out of the top f. *)
LEMMA GoOutKeeps ==
  ASSUME GenInv, NEW es, Quiet(es), NEW fr \in Seq(FrameType), NEW f \in FrameType,
         frames = Append(fr, f), Top = f,
         NEW k \in 1 .. Len(es), es[k].depth = Len(fr),
         NEW r, phase = "compile", Go(es, fr, r),
         f.live => InStep(fr, r) /\ Follows(b, r, Next1, Len(prog) + Len(es))
  PROVE  GenInv'
<1>1. /\ phase' = phase /\ frames' = fr
      /\ prog' = prog \o es /\ b' = IF f.live THEN r ELSE b
  BY DEF Go
<1>2. /\ prog \in Seq(EntryType) /\ Next1 = Len(prog) + 1
      /\ Built(prog, b) /\ Compiling(prog, frames, b) /\ InStep(Append(fr, f), b)
  BY Context
<1>3. InStep(fr, b') /\ Follows(b, b', Len(prog) + 1, Len(prog) + Len(es))
      /\ (f.live \/ b'.terminated)
  BY <1>1, <1>2, NothingFollows, DeadTop
<1>4. Shrinks(es, Append(fr, f), b, fr, b')
  BY <1>3, ShrinksOut
<1>5. Built(prog \o es, b') /\ Compiling(prog \o es, fr, b')
  BY <1>2, <1>3, <1>4, StepKeeps
<1>6. QED
  BY <1>1, <1>5 DEF GenInv

LEMMA DeclareKeeps ==
  ASSUME GenInv, NEW x \in Names, Declare(x)
  PROVE  GenInv'
<1> DEFINE e == Entry("decl", x, Len(frames))
           es == <<e>>
           r == VarDeclare(b, x, Next1)
<1>1. /\ phase = "compile" /\ phase' = phase /\ frames' = frames
      /\ prog' = Append(prog, e) /\ b' = IF b.terminated THEN b ELSE r
      /\ Lexical(Next1, x) # 0 => "shadow" \in Forms
  BY DEF Declare, Plain, Room, Compiled
<1>2. /\ prog \in Seq(EntryType) /\ Len(prog) \in Nat /\ Next1 = Len(prog) + 1
      /\ Len(frames) \in Nat /\ Next1 \in Nat
      /\ Built(prog, b) /\ InStep(frames, b) /\ NamesOK(prog, frames, b)
  BY <1>1, Context
<1>3. e \in EntryType /\ e.op = "decl" /\ e.var = x /\ e.depth = Len(frames)
  <2>1. "decl" \in OpNames /\ x \in Names \cup {NoVar}
    BY DEF OpNames
  <2>2. QED
    BY <1>2, <2>1, EntryTyped
<1> HIDE DEF e
<1>4. es \in Seq(EntryType) /\ Len(es) = 1 /\ es[1] = e /\ \A n \in 1 .. Len(es) : n = 1
  BY <1>3, OneEntry
<1>5. prog' = prog \o es
  BY <1>1, <1>2, <1>3, AppendIsConcat
<1>6. LexicalIn(prog, Len(prog) + 1, x) # 0 => "shadow" \in Forms
  BY <1>1, <1>2, LexicalIsIn
<1>7. prog \o es \in Seq(EntryType) /\ Len(prog \o es) = Next1
  BY <1>2, <1>4, Longer
<1>8. b.vars \in [Names -> 0 .. Len(prog)] /\ CodeOK(prog, b)
  BY <1>2 DEF Built, VarsIn
<1>9. 0 .. Len(prog) \subseteq 0 .. Next1 /\ Next1 \in 0 .. Next1
  BY <1>2
<1>10. CASE b.terminated
  <2>1. b' = b
    BY <1>1, <1>10
  <2>2. NamesOK(prog \o es, frames, b)
    BY <1>2, <1>3, <1>6, <1>10, DeclareNames
  <2>3. VarsIn(prog \o es, b)
    BY <1>7, <1>8, <1>9 DEF VarsIn
  <2>4. CodeOK(prog \o es, b)
    BY <1>2, <1>4, <1>8, CodeKept DEF CodeOK
  <2>5. QED
    BY <1>1, <1>2, <1>5, <1>7, <2>1, <2>2, <2>3, <2>4 DEF GenInv, Built, Compiling
<1>11. CASE ~b.terminated
  <2>1. BuilderOK(b) /\ ~b.blocks[b.cur].filled
    BY <1>2, <1>11, LiveBlock
  <2>2. /\ BuilderOK(r) /\ Changed(b, r, {}, {}) /\ MoreCode(b, r, Next1, Next1)
        /\ r.cur = b.cur /\ r.terminated = b.terminated /\ r.loops = b.loops
        /\ r.vars = [b.vars EXCEPT ![x] = Next1]
    BY <1>2, <2>1, DeclareLegal
  <2> HIDE DEF r
  <2>3. InStep(frames, r)
    BY <1>2, <2>2, EmitInStep
  <2>4. NamesOK(prog \o es, frames, r)
    BY <1>2, <1>3, <1>6, <1>11, <2>2, DeclareNames
  <2>5. VarsIn(prog \o es, r)
    BY <1>7, <1>8, <1>9, <2>2 DEF VarsIn
  <2>6. Adds(b, r, Len(prog) + 1, Len(prog) + Len(es))
    <3>1. Next1 \in Len(prog) + 1 .. Len(prog) + Len(es)
      BY <1>2, <1>4
    <3>2. [at |-> Next1, decl |-> Next1].at = Next1
      OBVIOUS
    <3>3. QED
      BY <2>2, <3>1, <3>2 DEF Adds, MoreCode
  <2>7. CodeOK(prog \o es, r)
    BY <1>2, <1>3, <1>4, <1>8, <2>6, CodeGrows
  <2>8. Truth(r) /\ b' = r
    BY <1>1, <1>11, <2>3 DEF InStep
  <2>9. QED
    BY <1>1, <1>5, <1>7, <2>2, <2>3, <2>4, <2>5, <2>7, <2>8 DEF GenInv, Built, Compiling
<1>12. QED
  BY <1>10, <1>11

LEMMA AccessKeeps ==
  ASSUME GenInv, NEW op \in {"set", "use"}, NEW x \in Names, Access(op, x)
  PROVE  GenInv'
<1> DEFINE e == Entry(op, x, Len(frames))
           es == <<e>>
           d == b.vars[x]
           r == VarGet(b, x, Next1)
<1>1. /\ phase = "compile" /\ phase' = phase /\ frames' = frames
      /\ prog' = Append(prog, e) /\ b' = IF b.terminated THEN b ELSE r
      /\ Lexical(Next1, x) # 0
  BY DEF Access, Plain, Room, Compiled
<1>2. /\ prog \in Seq(EntryType) /\ Len(prog) \in Nat /\ Next1 = Len(prog) + 1
      /\ Len(frames) \in Nat /\ Next1 \in Nat
      /\ Built(prog, b) /\ InStep(frames, b) /\ NamesOK(prog, frames, b)
  BY <1>1, Context
<1>3. e \in EntryType /\ e.op # "decl" /\ e.var = x /\ e.depth = Len(frames)
  <2>1. op \in OpNames /\ x \in Names \cup {NoVar}
    BY DEF OpNames
  <2>2. QED
    BY <1>2, <2>1, EntryTyped
<1> HIDE DEF e
<1>4. es \in Seq(EntryType) /\ Len(es) = 1 /\ es[1] = e /\ \A n \in 1 .. Len(es) : n = 1
  BY <1>3, OneEntry
<1>5. prog' = prog \o es
  BY <1>1, <1>2, <1>3, AppendIsConcat
<1>6. LexicalIn(prog, Len(prog) + 1, x) # 0
  BY <1>1, <1>2, LexicalIsIn
<1>7. prog \o es \in Seq(EntryType) /\ Len(prog \o es) = Next1
  BY <1>2, <1>4, Longer
<1>8. b.vars \in [Names -> 0 .. Len(prog)] /\ CodeOK(prog, b)
  BY <1>2 DEF Built, VarsIn
<1>9. 0 .. Len(prog) \subseteq 0 .. Next1
  BY <1>2
<1>10. \A n \in 1 .. Len(es) : es[n].op # "decl"
  BY <1>3, <1>4
<1>11. CASE b.terminated
  <2>1. b' = b
    BY <1>1, <1>11
  <2>2. NamesOK(prog \o es, frames, b)
    BY <1>2, <1>4, <1>10, ShrinksSame, NamesStep
  <2>3. VarsIn(prog \o es, b)
    BY <1>7, <1>8, <1>9 DEF VarsIn
  <2>4. CodeOK(prog \o es, b)
    BY <1>2, <1>4, <1>8, CodeKept DEF CodeOK
  <2>5. QED
    BY <1>1, <1>2, <1>5, <1>7, <2>1, <2>2, <2>3, <2>4 DEF GenInv, Built, Compiling
<1>12. CASE ~b.terminated
  <2>1. BuilderOK(b) /\ ~b.blocks[b.cur].filled
    BY <1>2, <1>12, LiveBlock
  <2>2. /\ d # 0
        /\ "shadow" \notin Forms => d = LexicalIn(prog, Len(prog) + 1, x)
    BY <1>2, <1>6, <1>12, InLiveCode
  <2>3. r = Emit(b, Next1, d) /\ d \in Nat
    BY <1>2, <2>1, <2>2, GetLegal
  <2> HIDE DEF d
  <2>4. /\ BuilderOK(r) /\ Changed(b, r, {}, {}) /\ MoreCode(b, r, Next1, d)
        /\ Kept(b, r) /\ r.terminated = b.terminated
    BY <1>2, <2>1, <2>3, EmitLegal
  <2> HIDE DEF r
  <2>5. InStep(frames, r)
    BY <1>2, <2>4, EmitInStep DEF Kept
  <2>6. r.vars = b.vars /\ Shrinks(es, frames, b, frames, r)
    BY <1>12, <2>4, ShrinksSame DEF Kept
  <2>7. NamesOK(prog \o es, frames, r)
    BY <1>2, <1>4, <1>10, <2>6, NamesStep
  <2>8. VarsIn(prog \o es, r)
    BY <1>7, <1>8, <1>9, <2>6 DEF VarsIn
  <2>9. CodeOK(prog \o es, r)
    BY <1>2, <1>3, <1>8, <2>2, <2>4, CodeOfAccess
  <2>10. Truth(r) /\ b' = r
    BY <1>1, <1>12, <2>5 DEF InStep
  <2>11. QED
    BY <1>1, <1>5, <1>7, <2>4, <2>5, <2>7, <2>8, <2>9, <2>10 DEF GenInv, Built, Compiling
<1>13. QED
  BY <1>11, <1>12

LEMMA ExprKeeps ==
  ASSUME GenInv, ExprStmt
  PROVE  GenInv'
<1> DEFINE r == Emit(b, Next1, 0)
<1>1. phase = "compile" /\ Plain("expr", NoVar, r)
  BY DEF ExprStmt, Plain, Room
<1>2. ASSUME ~b.terminated PROVE InStep(frames, r) /\ Follows(b, r, Next1, Next1)
  <2>1. Next1 \in Nat /\ InStep(frames, b) /\ 0 \in Nat
    BY <1>1, Context
  <2>2. BuilderOK(b) /\ ~b.blocks[b.cur].filled
    BY <1>2, <2>1, LiveBlock
  <2>3. /\ BuilderOK(r) /\ Changed(b, r, {}, {}) /\ MoreCode(b, r, Next1, 0)
        /\ Kept(b, r) /\ r.terminated = b.terminated
    BY <2>1, <2>2, EmitLegal
  <2> HIDE DEF r
  <2>4. InStep(frames, r)
    BY <2>1, <2>3, EmitInStep DEF Kept
  <2>5. Follows(b, r, Next1, Next1)
    BY <2>1, <2>3, EmitFollows DEF Kept
  <2>6. QED
    BY <2>4, <2>5
<1> HIDE DEF r
<1>3. QED
  BY <1>1, <1>2, PlainKeeps

LEMMA NotInArm ==
  ASSUME frames \in Seq(FrameType), ~InArm
  PROVE  \A k \in 1 .. Len(frames) : frames[k].kind \notin ArmKinds
<1>1. DOMAIN frames = 1 .. Len(frames)
  OBVIOUS
<1>2. QED
  BY <1>1 DEF InArm, ArmKinds

LEMMA ReturnKeeps ==
  ASSUME Tame, GenInv, Return
  PROVE  GenInv'
<1> DEFINE r == ReturnVal(Emit(b, Next1, 0))
<1>1. phase = "compile" /\ Plain("return", NoVar, r) /\ ~InArm
  BY DEF Return, Plain, Room, Tame
<1>2. ASSUME ~b.terminated PROVE InStep(frames, r) /\ Follows(b, r, Next1, Next1)
  <2>1. Next1 \in Nat /\ InStep(frames, b) /\ frames \in Seq(FrameType)
    BY <1>1, Context
  <2>2. QED
    BY <1>1, <1>2, <2>1, NotInArm, ReturnInStep
<1> HIDE DEF r
<1>3. QED
  BY <1>1, <1>2, PlainKeeps

LEMMA BreakKeeps ==
  ASSUME Tame, GenInv, Break
  PROVE  GenInv'
<1> DEFINE r == BreakLoop(b)
<1>1. phase = "compile" /\ Plain("break", NoVar, r) /\ ~InArm /\ InLoop
  BY DEF Break, Plain, Room, Tame
<1>2. ASSUME ~b.terminated PROVE InStep(frames, r) /\ Follows(b, r, Next1, Next1)
  <2>1. Next1 \in Nat /\ InStep(frames, b) /\ frames \in Seq(FrameType)
    BY <1>1, Context
  <2>2. PICK j \in 1 .. Len(frames) : frames[j].kind = "loop"
    <3>1. DOMAIN frames = 1 .. Len(frames)
      BY <2>1
    <3>2. QED
      BY <1>1, <3>1 DEF InLoop
  <2>3. QED
    BY <1>1, <1>2, <2>1, <2>2, NotInArm, BreakInStep
<1> HIDE DEF r
<1>3. QED
  BY <1>1, <1>2, PlainKeeps

IsFrame(f, kind, h, m, n) ==
  /\ f \in FrameType /\ f.kind = kind /\ (f.live <=> ~b.terminated)
  /\ f.header = h /\ f.merge = m /\ f.next = n /\ f.last = FALSE

LEMMA FrameTyped ==
  ASSUME NEW kind \in {"then", "if", "loop"} \cup ArmKinds, NEW h \in Nat, NEW m \in Nat,
         NEW n \in Nat, b.terminated \in BOOLEAN
  PROVE  IsFrame(Frame(kind, h, m, n), kind, h, m, n)
  BY DEF IsFrame, Frame, FrameType

LEMMA HereTyped ==
  ASSUME frames \in Seq(FrameType), NEW op \in OpNames
  PROVE  Here(op) \in EntryType /\ Here(op).op = op /\ Here(op).depth = Len(frames)
<1>1. Len(frames) \in Nat /\ NoVar \in Names \cup {NoVar}
  BY LenProperties
<1>2. QED
  BY <1>1, EntryTyped DEF Here

LEMMA IfKeeps ==
  ASSUME GenInv, If(FALSE)
  PROVE  GenInv'
<1> DEFINE t == New(1)
           u == New(2)
           z == New(3)
           f == Frame("if", 0, u, z)
           e == Here("if")
           es == <<e>>
           r == Branch(b, Next1, <<0, 0>>, t, u)
<1>1. phase = "compile" /\ Open(es, f, r)
  BY DEF If, Open, Room, Branch
<1>2. /\ Next1 = Len(prog) + 1 /\ Next1 \in Nat /\ InStep(frames, b)
      /\ frames \in Seq(FrameType) /\ b.terminated \in BOOLEAN
      /\ u \in Nat /\ z \in Nat /\ NewAt(b, 1, t) /\ NewAt(b, 2, u)
  BY <1>1, Context
<1> HIDE DEF t, u, z
<1>3. f \in FrameType /\ f.kind = "if" /\ (f.live <=> ~b.terminated) /\ f.merge = u
  <2>1. "if" \in {"then", "if", "loop"} \cup ArmKinds /\ 0 \in Nat
    OBVIOUS
  <2>2. IsFrame(f, "if", 0, u, z)
    BY <1>2, <2>1, FrameTyped
  <2> HIDE DEF f
  <2>3. QED
    BY <2>2 DEF IsFrame
<1>4. e \in EntryType /\ e.op = "if"
  <2>1. "if" \in OpNames
    BY DEF OpNames
  <2>2. QED
    BY <1>2, <2>1, HereTyped
<1> HIDE DEF f, e
<1>5. Quiet(es) /\ Len(es) = 1
  BY <1>4, OneEntry
<1> HIDE DEF es
<1>6. ASSUME ~b.terminated
      PROVE  InStep(Append(frames, f), r) /\ Follows(b, r, Next1, Len(prog) + Len(es))
  BY <1>2, <1>3, <1>5, <1>6, IfOpens
<1> HIDE DEF r
<1>7. QED
  BY <1>1, <1>3, <1>5, <1>6, OpenKeeps

LEMMA IfElseKeeps ==
  ASSUME GenInv, If(TRUE)
  PROVE  GenInv'
<1> DEFINE t == New(1)
           u == New(2)
           z == New(3)
           f == Frame("then", 0, u, z)
           e == Here("if")
           es == <<e>>
           r == Branch(b, Next1, <<0, 0, 0>>, t, z)
<1>1. phase = "compile" /\ Open(es, f, r)
  BY DEF If, Open, Room, Branch
<1>2. /\ Next1 = Len(prog) + 1 /\ Next1 \in Nat /\ InStep(frames, b)
      /\ frames \in Seq(FrameType) /\ b.terminated \in BOOLEAN
      /\ u \in Nat /\ z \in Nat /\ NewAt(b, 1, t) /\ NewAt(b, 2, u) /\ NewAt(b, 3, z)
  BY <1>1, Context
<1> HIDE DEF t, u, z
<1>3. /\ f \in FrameType /\ f.kind = "then" /\ (f.live <=> ~b.terminated)
      /\ f.merge = u /\ f.next = z
  <2>1. "then" \in {"then", "if", "loop"} \cup ArmKinds /\ 0 \in Nat
    OBVIOUS
  <2>2. IsFrame(f, "then", 0, u, z)
    BY <1>2, <2>1, FrameTyped
  <2> HIDE DEF f
  <2>3. QED
    BY <2>2 DEF IsFrame
<1>4. e \in EntryType /\ e.op = "if"
  <2>1. "if" \in OpNames
    BY DEF OpNames
  <2>2. QED
    BY <1>2, <2>1, HereTyped
<1> HIDE DEF f, e
<1>5. Quiet(es) /\ Len(es) = 1
  BY <1>4, OneEntry
<1> HIDE DEF es
<1>6. ASSUME ~b.terminated
      PROVE  InStep(Append(frames, f), r) /\ Follows(b, r, Next1, Len(prog) + Len(es))
  BY <1>2, <1>3, <1>5, <1>6, ThenOpens
<1> HIDE DEF r
<1>7. QED
  BY <1>1, <1>3, <1>5, <1>6, OpenKeeps

LEMMA LoopKeeps ==
  ASSUME GenInv, Loop
  PROVE  GenInv'
<1> DEFINE t == New(1)
           u == New(2)
           f == Frame("loop", t, u, 0)
           e == Here("loop")
           es == <<e>>
           r == LoopStart(b, t, u)
<1>1. phase = "compile" /\ Open(es, f, r)
  BY DEF Loop, Open, Room, LoopStart
<1>2. /\ Next1 = Len(prog) + 1 /\ Next1 \in Nat /\ InStep(frames, b)
      /\ frames \in Seq(FrameType) /\ b.terminated \in BOOLEAN
      /\ t \in Nat /\ u \in Nat /\ NewAt(b, 1, t) /\ NewAt(b, 2, u)
  BY <1>1, Context
<1> HIDE DEF t, u
<1>3. /\ f \in FrameType /\ f.kind = "loop" /\ (f.live <=> ~b.terminated)
      /\ f.header = t /\ f.merge = u
  <2>1. "loop" \in {"then", "if", "loop"} \cup ArmKinds /\ 0 \in Nat
    OBVIOUS
  <2>2. IsFrame(f, "loop", t, u, 0)
    BY <1>2, <2>1, FrameTyped
  <2> HIDE DEF f
  <2>3. QED
    BY <2>2 DEF IsFrame
<1>4. e \in EntryType /\ e.op = "loop"
  <2>1. "loop" \in OpNames
    BY DEF OpNames
  <2>2. QED
    BY <1>2, <2>1, HereTyped
<1> HIDE DEF f, e
<1>5. Quiet(es) /\ Len(es) = 1
  BY <1>4, OneEntry
<1> HIDE DEF es
<1>6. ASSUME ~b.terminated
      PROVE  InStep(Append(frames, f), r) /\ Follows(b, r, Next1, Len(prog) + Len(es))
  BY <1>2, <1>3, <1>5, <1>6, LoopOpens
<1> HIDE DEF r
<1>7. QED
  BY <1>1, <1>3, <1>5, <1>6, OpenKeeps

LEMMA IfExprKeeps ==
  ASSUME GenInv, IfExpr
  PROVE  GenInv'
<1> DEFINE t == New(1)
           u == New(2)
           z == New(3)
           f == Frame("ifExpr", 0, z, u)
           e == Here("ifExpr")
           es == <<e>>
           r == Branch(b, Next1, <<0, 0, 1>>, t, u)
<1>1. phase = "compile" /\ Open(es, f, r)
  BY DEF IfExpr, Open, Room, Branch
<1>2. /\ Next1 = Len(prog) + 1 /\ Next1 \in Nat /\ InStep(frames, b)
      /\ frames \in Seq(FrameType) /\ b.terminated \in BOOLEAN
      /\ u \in Nat /\ z \in Nat /\ NewAt(b, 1, t) /\ NewAt(b, 2, u) /\ NewAt(b, 3, z)
  BY <1>1, Context
<1> HIDE DEF t, u, z
<1>3. /\ f \in FrameType /\ f.kind = "ifExpr" /\ (f.live <=> ~b.terminated)
      /\ f.merge = z /\ f.next = u
  <2>1. "ifExpr" \in {"then", "if", "loop"} \cup ArmKinds /\ 0 \in Nat
    BY DEF ArmKinds
  <2>2. IsFrame(f, "ifExpr", 0, z, u)
    BY <1>2, <2>1, FrameTyped
  <2> HIDE DEF f
  <2>3. QED
    BY <2>2 DEF IsFrame
<1>4. e \in EntryType /\ e.op = "ifExpr"
  <2>1. "ifExpr" \in OpNames
    BY DEF OpNames
  <2>2. QED
    BY <1>2, <2>1, HereTyped
<1> HIDE DEF f, e
<1>5. Quiet(es) /\ Len(es) = 1
  BY <1>4, OneEntry
<1> HIDE DEF es
<1>6. ASSUME ~b.terminated
      PROVE  InStep(Append(frames, f), r) /\ Follows(b, r, Next1, Len(prog) + Len(es))
  BY <1>2, <1>3, <1>5, <1>6, IfExprOpens
<1> HIDE DEF r
<1>7. QED
  BY <1>1, <1>3, <1>5, <1>6, OpenKeeps

IsArm(f, m, last) ==
  /\ f \in FrameType /\ f.kind = "arm" /\ f.merge = m /\ (f.last <=> last)
  /\ f.live <=> ~b.terminated

LEMMA ArmTyped ==
  ASSUME NEW m \in Nat, NEW n \in Nat, b.terminated \in BOOLEAN
  PROVE  /\ IsArm(ArmFrame("any", m, n, TRUE), m, TRUE)
         /\ IsArm(ArmFrame("arm", m, n, FALSE), m, FALSE)
         /\ ArmFrame("arm", m, n, FALSE).next = n
<1>1. "arm" \in {"then", "if", "loop"} \cup ArmKinds /\ 0 \in Nat
  BY DEF ArmKinds
<1> DEFINE f0 == Frame("arm", 0, m, 0)
           fn == Frame("arm", 0, m, n)
<1>2. IsFrame(f0, "arm", 0, m, 0) /\ IsFrame(fn, "arm", 0, m, n)
  BY <1>1, FrameTyped
<1>3. /\ ArmFrame("any", m, n, TRUE) = [f0 EXCEPT !.last = TRUE]
      /\ ArmFrame("arm", m, n, FALSE) = [fn EXCEPT !.last = FALSE]
  BY DEF ArmFrame
<1> HIDE DEF f0, fn
<1>4. /\ f0 \in FrameType /\ f0.kind = "arm" /\ (f0.live <=> ~b.terminated) /\ f0.merge = m
      /\ fn \in FrameType /\ fn.kind = "arm" /\ (fn.live <=> ~b.terminated)
      /\ fn.merge = m /\ fn.next = n
  BY <1>2 DEF IsFrame
<1>5. QED
  BY <1>3, <1>4 DEF FrameType, IsArm

LEMMA MatchAnyKeeps ==
  ASSUME GenInv, Matches("any", TRUE)
  PROVE  GenInv'
<1> DEFINE u == New(1)
           f == ArmFrame("any", u, New(3), TRUE)
           e == Here("match")
           d == Here("any")
           es == <<e, d>>
           r == CreateBlocks(Emit(b, Next1, 0), <<1>>)
<1>1. phase = "compile" /\ Open(es, f, r)
  BY DEF Matches, Open, Room, StartArm
<1>2. /\ Next1 = Len(prog) + 1 /\ Next1 \in Nat /\ InStep(frames, b) /\ Len(prog) \in Nat
      /\ frames \in Seq(FrameType) /\ b.terminated \in BOOLEAN
      /\ u \in Nat /\ New(3) \in Nat /\ NewAt(b, 1, u)
  BY <1>1, Context
<1> HIDE DEF u
<1>3. /\ f \in FrameType /\ f.kind = "arm" /\ (f.live <=> ~b.terminated)
      /\ f.merge = u /\ f.last
  <2>1. IsArm(f, u, TRUE)
    BY <1>2, ArmTyped
  <2> HIDE DEF f
  <2>2. QED
    BY <2>1 DEF IsArm
<1>4. e \in EntryType /\ e.op = "match" /\ d \in EntryType /\ d.op = "any"
  <2>1. "match" \in OpNames /\ "any" \in OpNames
    BY DEF OpNames
  <2>2. QED
    BY <1>2, <2>1, HereTyped
<1> HIDE DEF f, e, d
<1>5. Quiet(es) /\ Len(es) = 2
  BY <1>4, TwoEntries
<1> HIDE DEF es
<1>6. ASSUME ~b.terminated
      PROVE  InStep(Append(frames, f), r) /\ Follows(b, r, Next1, Len(prog) + Len(es))
  <2>1. InStep(Append(frames, f), r) /\ Follows(b, r, Next1, Next1)
    BY <1>2, <1>3, <1>6, MatchOpens
  <2>2. Next1 .. Next1 \subseteq Next1 .. Len(prog) + Len(es)
    BY <1>2, <1>5
  <2>3. QED
    BY <2>1, <2>2 DEF Follows, Adds
<1> HIDE DEF r
<1>7. QED
  BY <1>1, <1>3, <1>5, <1>6, OpenKeeps

LEMMA MatchArmKeeps ==
  ASSUME GenInv, Matches("arm", FALSE)
  PROVE  GenInv'
<1> DEFINE u == New(1)
           z == New(3)
           g == ArmFrame("arm", u, z, FALSE)
           f == ArmFrame("any", u, z, TRUE)
           e == Here("match")
           d == Here("arm")
           es == <<e, d>>
           c == CreateBlocks(Emit(b, Next1, 0), <<1>>)
           t == Len(c.blocks) + 1
           r == Branch(c, Next1 + 1, <<0, 0>>, t, t + 1)
<1>1. phase = "compile" /\ Open(es, g, r)
  BY DEF Matches, Open, Room, StartArm, Branch
<1>2. /\ Next1 = Len(prog) + 1 /\ Next1 \in Nat /\ InStep(frames, b) /\ Len(prog) \in Nat
      /\ frames \in Seq(FrameType) /\ b.terminated \in BOOLEAN
      /\ u \in Nat /\ z \in Nat /\ NewAt(b, 1, u) /\ NewAt(b, 3, z)
      /\ BuilderOK(b)
  BY <1>1, Context
<1> HIDE DEF u, z
<1>3. /\ f \in FrameType /\ f.kind = "arm" /\ (f.live <=> ~b.terminated)
      /\ f.merge = u /\ f.last
      /\ g \in FrameType /\ g.kind = "arm" /\ (g.live <=> ~b.terminated)
      /\ g.merge = u /\ g.next = z /\ ~g.last
  <2>1. IsArm(f, u, TRUE)
    BY <1>2, ArmTyped
  <2>2. IsArm(g, u, FALSE) /\ g.next = z
    BY <1>2, ArmTyped
  <2> HIDE DEF f, g
  <2>3. QED
    BY <2>1, <2>2 DEF IsArm
<1>4. e \in EntryType /\ e.op = "match" /\ d \in EntryType /\ d.op = "arm"
  <2>1. "match" \in OpNames /\ "arm" \in OpNames
    BY DEF OpNames
  <2>2. QED
    BY <1>2, <2>1, HereTyped
<1> HIDE DEF f, g, e, d
<1>5. Quiet(es) /\ Len(es) = 2
  BY <1>4, TwoEntries
<1> HIDE DEF es
<1>6. ASSUME ~b.terminated
      PROVE  InStep(Append(frames, g), r) /\ Follows(b, r, Next1, Len(prog) + Len(es))
  <2>1. /\ InStep(Append(frames, f), c) /\ Follows(b, c, Next1, Next1)
        /\ ~c.terminated /\ Len(c.blocks) = Len(b.blocks) + 1
    <3>1. /\ InStep(Append(frames, f), c) /\ Follows(b, c, Next1, Next1)
          /\ ~c.terminated /\ OneMore(b, c)
      BY <1>2, <1>3, <1>6, MatchOpens
    <3>2. QED
      BY <3>1 DEF OneMore
  <2> HIDE DEF c
  <2>2. Len(b.blocks) \in Nat
    BY <1>2 DEF BuilderOK, BuilderType
  <2>3. t + 1 = z /\ NewAt(c, 1, t) /\ NewAt(c, 2, z) /\ Next1 + 1 \in Nat
    BY <1>2, <2>1, <2>2 DEF NewAt
  <2>4. r = Branch(c, Next1 + 1, <<0, 0>>, t, z)
    BY <2>3
  <2> HIDE DEF t, r
  <2>5. InStep(Append(frames, g), r) /\ Follows(c, r, Next1 + 1, Next1 + 1)
    BY <1>2, <1>3, <1>6, <2>1, <2>3, <2>4, ArmStarts
  <2>6. Follows(b, r, Next1, Next1 + 1)
    <3>1. /\ Next1 .. Next1 \subseteq Next1 .. Next1 + 1
          /\ Next1 + 1 .. Next1 + 1 \subseteq Next1 .. Next1 + 1
      BY <1>2
    <3>2. QED
      BY <2>1, <2>5, <3>1 DEF Follows, Adds
  <2>7. Next1 + 1 = Len(prog) + Len(es)
    BY <1>2, <1>5
  <2>8. QED
    BY <2>5, <2>6, <2>7
<1> HIDE DEF r
<1>7. QED
  BY <1>1, <1>3, <1>5, <1>6, OpenKeeps

LEMMA TopContext ==
  ASSUME GenInv, phase = "compile", frames # <<>>
  PROVE  /\ Front(frames) \in Seq(FrameType) /\ Top \in FrameType
         /\ frames = Append(Front(frames), Top)
         /\ InStep(Append(Front(frames), Top), b)
         /\ \A op \in OpNames :
              /\ Here(op) \in EntryType /\ Here(op).op = op
              /\ Outside(op) \in EntryType /\ Outside(op).op = op
              /\ Outside(op).depth = Len(Front(frames))
<1>1. frames \in Seq(FrameType) /\ InStep(frames, b)
  BY Context
<1>2. /\ Front(frames) \in Seq(FrameType) /\ Top \in FrameType
      /\ frames = Append(Front(frames), Top)
      /\ Len(Front(frames)) = Len(frames) - 1
  BY <1>1, FrontAndTop DEF Top
<1>3. Len(Front(frames)) \in Nat /\ NoVar \in Names \cup {NoVar}
  BY <1>2, LenProperties
<1>4. InStep(Append(Front(frames), Top), b)
  BY <1>1, <1>2
<1>5. ASSUME NEW op \in OpNames
      PROVE  /\ Outside(op) \in EntryType /\ Outside(op).op = op
             /\ Outside(op).depth = Len(Front(frames))
  <2>1. Outside(op) = Entry(op, NoVar, Len(Front(frames)))
    BY <1>2 DEF Outside
  <2>2. QED
    BY <1>3, <2>1, EntryTyped
<1>6. QED
  BY <1>1, <1>2, <1>4, <1>5, HereTyped

(* The frame of the next part: what it waits for is the merge block. *)
LEMMA NewKind ==
  ASSUME NEW f \in FrameType, NEW kind \in {"then", "if", "loop"} \cup ArmKinds
  PROVE  LET g == [f EXCEPT !.kind = kind]
         IN g \in FrameType /\ g.kind = kind /\ g.live = f.live /\ g.merge = f.merge
  BY DEF FrameType

LEMMA ElseKeeps ==
  ASSUME GenInv, Else
  PROVE  GenInv'
<1> DEFINE fr == Front(frames)
           f == Top
           g == [f EXCEPT !.kind = "if"]
           e == Outside("else")
           es == <<e>>
           r == SwitchSealed(JumpTo(b, f.merge), f.next)
<1>1. phase = "compile" /\ frames # <<>> /\ f.kind = "then" /\ Go(es, Append(fr, g), r)
  BY DEF Else, In, InsteadOfTop
<1>2. /\ fr \in Seq(FrameType) /\ f \in FrameType /\ frames = Append(fr, f) /\ Top = f
      /\ InStep(Append(fr, f), b) /\ e \in EntryType /\ e.op = "else" /\ e.depth = Len(fr)
  <2>1. "else" \in OpNames
    BY DEF OpNames
  <2>2. QED
    BY <1>1, <2>1, TopContext
<1>3. Next1 = Len(prog) + 1 /\ Next1 \in Nat
  BY <1>1, Context
<1>4. Quiet(es) /\ Len(es) = 1 /\ es[1] = e /\ 1 \in 1 .. Len(es)
  BY <1>2, OneEntry
<1> HIDE DEF fr, f, e, es
<1>5. g \in FrameType /\ g.kind = "if" /\ g.live = f.live /\ g.merge = f.merge
  <2>1. "if" \in {"then", "if", "loop"} \cup ArmKinds
    OBVIOUS
  <2>2. QED
    BY <1>2, <2>1, NewKind
<1> HIDE DEF g
<1>6. ASSUME f.live
      PROVE  InStep(Append(fr, g), r) /\ Follows(b, r, Next1, Len(prog) + Len(es))
  BY <1>1, <1>2, <1>3, <1>4, <1>5, <1>6, ElseStarts
<1> HIDE DEF r
<1>7. g.live <=> f.live
  BY <1>5
<1>8. es[1].depth = Len(fr)
  BY <1>2, <1>4
<1>9. QED
  BY <1>1, <1>2, <1>4, <1>5, <1>6, <1>7, <1>8, GoOnKeeps

LEMMA EndIfKeeps ==
  ASSUME GenInv, EndIf
  PROVE  GenInv'
<1> DEFINE fr == Front(frames)
           f == Top
           e == Outside("end")
           es == <<e>>
           r == SwitchSealed(JumpTo(b, f.merge), f.merge)
<1>1. phase = "compile" /\ frames # <<>> /\ f.kind = "if" /\ Go(es, fr, r)
  BY DEF EndIf, In
<1>2. /\ fr \in Seq(FrameType) /\ f \in FrameType /\ frames = Append(fr, f) /\ Top = f
      /\ InStep(Append(fr, f), b) /\ e \in EntryType /\ e.op = "end" /\ e.depth = Len(fr)
  <2>1. "end" \in OpNames
    BY DEF OpNames
  <2>2. QED
    BY <1>1, <2>1, TopContext
<1>3. Next1 = Len(prog) + 1 /\ Next1 \in Nat
  BY <1>1, Context
<1>4. Quiet(es) /\ Len(es) = 1 /\ es[1] = e /\ 1 \in 1 .. Len(es)
  BY <1>2, OneEntry
<1> HIDE DEF fr, f, e, es
<1>5. ASSUME f.live
      PROVE  InStep(fr, r) /\ Follows(b, r, Next1, Len(prog) + Len(es))
  BY <1>1, <1>2, <1>3, <1>4, <1>5, IfEnds
<1> HIDE DEF r
<1>6. es[1].depth = Len(fr)
  BY <1>2, <1>4
<1>7. QED
  BY <1>1, <1>2, <1>4, <1>5, <1>6, GoOutKeeps

LEMMA EndLoopKeeps ==
  ASSUME GenInv, EndLoop
  PROVE  GenInv'
<1> DEFINE fr == Front(frames)
           f == Top
           e == Outside("end")
           es == <<e>>
           r == SwitchSealed(LoopStackPop(SealBlock(JumpTo(b, f.header), f.header)), f.merge)
<1>1. phase = "compile" /\ frames # <<>> /\ f.kind = "loop" /\ Go(es, fr, r)
  BY DEF EndLoop, In
<1>2. /\ fr \in Seq(FrameType) /\ f \in FrameType /\ frames = Append(fr, f) /\ Top = f
      /\ InStep(Append(fr, f), b) /\ e \in EntryType /\ e.op = "end" /\ e.depth = Len(fr)
  <2>1. "end" \in OpNames
    BY DEF OpNames
  <2>2. QED
    BY <1>1, <2>1, TopContext
<1>3. Next1 = Len(prog) + 1 /\ Next1 \in Nat
  BY <1>1, Context
<1>4. Quiet(es) /\ Len(es) = 1 /\ es[1] = e /\ 1 \in 1 .. Len(es)
  BY <1>2, OneEntry
<1> HIDE DEF fr, f, e, es
<1>5. ASSUME f.live
      PROVE  InStep(fr, r) /\ Follows(b, r, Next1, Len(prog) + Len(es))
  BY <1>1, <1>2, <1>3, <1>4, <1>5, LoopEnds
<1> HIDE DEF r
<1>6. es[1].depth = Len(fr)
  BY <1>2, <1>4
<1>7. QED
  BY <1>1, <1>2, <1>4, <1>5, <1>6, GoOutKeeps

(* The value of an arm, and what comes after it. *)
LEMMA ValueAnd ==
  ASSUME GenInv, phase = "compile", frames # <<>>, NEW op \in {"else", "end", "arm", "any"}
  PROVE  LET es == <<Here("value"), Outside(op)>>
         IN /\ Quiet(es) /\ 2 \in 1 .. Len(es) /\ es[2].depth = Len(Front(frames))
            /\ Len(prog) + Len(es) = Next1 + 1
<1> DEFINE e == Here("value")
           d == Outside(op)
           es == <<e, d>>
<1>1. "value" \in OpNames /\ op \in OpNames /\ op \notin {"decl", "set", "use"}
  BY DEF OpNames
<1>2. /\ e \in EntryType /\ e.op = "value"
      /\ d \in EntryType /\ d.op = op /\ d.depth = Len(Front(frames))
  BY <1>1, TopContext
<1> HIDE DEF e, d
<1>3. Quiet(es) /\ Len(es) = 2 /\ es[2] = d /\ 2 \in 1 .. Len(es)
  BY <1>1, <1>2, TwoEntries
<1> HIDE DEF es
<1>4. Len(prog) + Len(es) = Next1 + 1
  BY <1>3, Context
<1>5. QED
  BY <1>2, <1>3, <1>4 DEF es, e, d

LEMMA FollowsWider ==
  ASSUME NEW c, NEW r, NEW i \in Nat, Follows(c, r, i, i)
  PROVE  Follows(c, r, i, i + 1)
<1>1. i .. i \subseteq i .. i + 1
  OBVIOUS
<1>2. QED
  BY <1>1 DEF Follows, Adds

LEMMA EndArmsKeeps ==
  ASSUME GenInv, phase = "compile", frames # <<>>, Top.kind \in ArmKinds, ~HasNext(Top),
         Go(<<Here("value"), Outside("end")>>, Front(frames),
            SwitchBlock(SealBlock(Yield, Top.merge), Top.merge))
  PROVE  GenInv'
<1> DEFINE fr == Front(frames)
           f == Top
           es == <<Here("value"), Outside("end")>>
           r == SwitchBlock(SealBlock(JumpWith(Emit(b, Next1, 0), f.merge), f.merge), f.merge)
<1>1. Go(es, fr, r) /\ f.kind \in ArmKinds /\ ~HasNext(f)
  BY DEF Yield
<1>2. /\ fr \in Seq(FrameType) /\ f \in FrameType /\ frames = Append(fr, f) /\ Top = f
      /\ InStep(Append(fr, f), b)
  BY TopContext
<1>3. Next1 = Len(prog) + 1 /\ Next1 \in Nat
  BY Context
<1>4. /\ Quiet(es) /\ 2 \in 1 .. Len(es) /\ es[2].depth = Len(fr)
      /\ Len(prog) + Len(es) = Next1 + 1
  BY ValueAnd
<1> HIDE DEF fr, f, es
<1>5. ASSUME f.live
      PROVE  InStep(fr, r) /\ Follows(b, r, Next1, Len(prog) + Len(es))
  <2>1. InStep(fr, r) /\ Follows(b, r, Next1, Next1)
    BY <1>1, <1>2, <1>3, <1>5, ArmsEnd
  <2> HIDE DEF r
  <2>2. QED
    BY <1>3, <1>4, <2>1, FollowsWider
<1> HIDE DEF r
<1>6. QED
  BY <1>1, <1>2, <1>4, <1>5, GoOutKeeps

LEMMA EndMatchKeeps ==
  ASSUME GenInv, EndMatch
  PROVE  GenInv'
<1>1. /\ phase = "compile" /\ frames # <<>> /\ Top.kind = "arm" /\ Top.last
      /\ Go(<<Here("value"), Outside("end")>>, Front(frames),
            SwitchBlock(SealBlock(Yield, Top.merge), Top.merge))
  BY DEF EndMatch, In
<1>2. Top.kind \in ArmKinds /\ ~HasNext(Top)
  BY <1>1 DEF HasNext, ArmKinds
<1>3. QED
  BY <1>1, <1>2, EndArmsKeeps

LEMMA EndIfExprKeeps ==
  ASSUME GenInv, EndIfExpr
  PROVE  GenInv'
<1>1. /\ phase = "compile" /\ frames # <<>> /\ Top.kind = "elseExpr"
      /\ Go(<<Here("value"), Outside("end")>>, Front(frames),
            SwitchBlock(SealBlock(Yield, Top.merge), Top.merge))
  BY DEF EndIfExpr, In
<1>2. Top.kind \in ArmKinds /\ ~HasNext(Top)
  BY <1>1 DEF HasNext, ArmKinds
<1>3. QED
  BY <1>1, <1>2, EndArmsKeeps

LEMMA ElseExprKeeps ==
  ASSUME GenInv, ElseExpr
  PROVE  GenInv'
<1> DEFINE fr == Front(frames)
           f == Top
           g == [f EXCEPT !.kind = "elseExpr"]
           es == <<Here("value"), Outside("else")>>
           r == SwitchSealed(JumpWith(Emit(b, Next1, 0), f.merge), f.next)
<1>1. phase = "compile" /\ frames # <<>> /\ f.kind = "ifExpr" /\ Go(es, Append(fr, g), r)
  BY DEF ElseExpr, In, InsteadOfTop, Yield
<1>2. /\ fr \in Seq(FrameType) /\ f \in FrameType /\ frames = Append(fr, f) /\ Top = f
      /\ InStep(Append(fr, f), b)
  BY <1>1, TopContext
<1>3. Next1 = Len(prog) + 1 /\ Next1 \in Nat
  BY <1>1, Context
<1>4. /\ Quiet(es) /\ 2 \in 1 .. Len(es) /\ es[2].depth = Len(fr)
      /\ Len(prog) + Len(es) = Next1 + 1
  BY <1>1, ValueAnd
<1> HIDE DEF fr, f, es
<1>5. g \in FrameType /\ g.kind = "elseExpr" /\ g.live = f.live /\ g.merge = f.merge
  <2>1. "elseExpr" \in {"then", "if", "loop"} \cup ArmKinds
    BY DEF ArmKinds
  <2>2. QED
    BY <1>2, <2>1, NewKind
<1> HIDE DEF g
<1>6. f.kind \in ArmKinds /\ HasNext(f) /\ g.kind \in ArmKinds /\ ~HasNext(g)
  BY <1>1, <1>5 DEF ArmKinds, HasNext
<1>7. ASSUME f.live
      PROVE  InStep(Append(fr, g), r) /\ Follows(b, r, Next1, Len(prog) + Len(es))
  <2>1. InStep(Append(fr, g), r) /\ Follows(b, r, Next1, Next1)
    BY <1>2, <1>3, <1>5, <1>6, <1>7, PartEnds
  <2> HIDE DEF r
  <2>2. QED
    BY <1>3, <1>4, <2>1, FollowsWider
<1> HIDE DEF r
<1>8. g.live <=> f.live
  BY <1>5
<1>9. QED
  BY <1>1, <1>2, <1>4, <1>5, <1>7, <1>8, GoOnKeeps

(* The frame of the next arm after f. *)
NextFrame(f, pattern, n, last) ==
  [ArmFrame(pattern, f.merge, n, last) EXCEPT !.live = f.live]

IsNext(g, f, last) ==
  /\ g \in FrameType /\ g.kind = "arm" /\ g.merge = f.merge /\ (g.last <=> last)
  /\ g.live <=> f.live

LEMMA NextTyped ==
  ASSUME NEW f \in FrameType, NEW n \in Nat, b.terminated \in BOOLEAN
  PROVE  /\ IsNext(NextFrame(f, "any", n, TRUE), f, TRUE)
         /\ IsNext(NextFrame(f, "arm", n, FALSE), f, FALSE)
         /\ NextFrame(f, "arm", n, FALSE).next = n
<1> DEFINE m == f.merge
           h0 == ArmFrame("any", m, n, TRUE)
           g0 == ArmFrame("arm", m, n, FALSE)
<1>1. m \in Nat /\ f.live \in BOOLEAN
  BY DEF FrameType
<1>2. IsArm(h0, m, TRUE) /\ IsArm(g0, m, FALSE) /\ g0.next = n
  BY <1>1, ArmTyped
<1>3. /\ NextFrame(f, "any", n, TRUE) = [h0 EXCEPT !.live = f.live]
      /\ NextFrame(f, "arm", n, FALSE) = [g0 EXCEPT !.live = f.live]
  BY DEF NextFrame
<1> HIDE DEF h0, g0, m
<1>4. /\ h0 \in FrameType /\ h0.kind = "arm" /\ h0.merge = m /\ h0.last
      /\ g0 \in FrameType /\ g0.kind = "arm" /\ g0.merge = m /\ ~g0.last /\ g0.next = n
  BY <1>2 DEF IsArm
<1>5. QED
  BY <1>1, <1>3, <1>4 DEF FrameType, IsNext, m

(* While an arm is compiled that is not the last, the next one has its     *)
(* block.                                                                  *)
LEMMA NextIsThere ==
  ASSUME NEW fr \in Seq(FrameType), NEW f \in FrameType, f.live, HasNext(f),
         NEW c, InStep(Append(fr, f), c)
  PROVE  f.next # 0
<1>1. Pending(f, c)
  BY AppendIndex DEF InStep, StackOK
<1>2. f.next \in BlocksOf(c)
  BY <1>1 DEF Pending, Waits
<1>3. QED
  BY <1>2 DEF BlocksOf

LEMMA NextAnyKeeps ==
  ASSUME GenInv, NextArm("any", TRUE)
  PROVE  GenInv'
<1> DEFINE fr == Front(frames)
           f == Top
           g == NextFrame(f, "any", New(2), TRUE)
           es == <<Here("value"), Outside("any")>>
           y == JumpWith(Emit(b, Next1, 0), f.merge)
           r == IF f.next = 0 THEN y ELSE SwitchSealed(y, f.next)
<1>1. /\ phase = "compile" /\ frames # <<>> /\ f.kind = "arm" /\ ~f.last
      /\ Go(es, Append(fr, g), r)
  BY DEF NextArm, In, InsteadOfTop, Yield, StartArm, NextFrame
<1>2. /\ fr \in Seq(FrameType) /\ f \in FrameType /\ frames = Append(fr, f) /\ Top = f
      /\ InStep(Append(fr, f), b)
  BY <1>1, TopContext
<1>3. /\ Next1 = Len(prog) + 1 /\ Next1 \in Nat /\ b.terminated \in BOOLEAN
      /\ New(2) \in Nat
  BY <1>1, Context
<1>4. /\ Quiet(es) /\ 2 \in 1 .. Len(es) /\ es[2].depth = Len(fr)
      /\ Len(prog) + Len(es) = Next1 + 1
  BY <1>1, ValueAnd
<1> HIDE DEF fr, f, es
<1>5. /\ g \in FrameType /\ g.kind = "arm" /\ (g.live <=> f.live) /\ g.merge = f.merge
      /\ g.last
  <2>1. IsNext(g, f, TRUE)
    BY <1>2, <1>3, NextTyped
  <2> HIDE DEF g
  <2>2. QED
    BY <2>1 DEF IsNext
<1> HIDE DEF g
<1>6. f.kind \in ArmKinds /\ HasNext(f) /\ g.kind \in ArmKinds /\ ~HasNext(g)
  BY <1>1, <1>5 DEF ArmKinds, HasNext
<1>7. ASSUME f.live
      PROVE  InStep(Append(fr, g), r) /\ Follows(b, r, Next1, Len(prog) + Len(es))
  <2>1. r = SwitchSealed(y, f.next)
    BY <1>2, <1>6, <1>7, NextIsThere
  <2>2. /\ InStep(Append(fr, g), SwitchSealed(y, f.next))
        /\ Follows(b, SwitchSealed(y, f.next), Next1, Next1)
    BY <1>2, <1>3, <1>5, <1>6, <1>7, PartEnds
  <2>3. InStep(Append(fr, g), r) /\ Follows(b, r, Next1, Next1)
    BY <2>1, <2>2
  <2> HIDE DEF r
  <2>4. QED
    BY <1>3, <1>4, <2>3, FollowsWider
<1> HIDE DEF r
<1>8. QED
  BY <1>1, <1>2, <1>4, <1>5, <1>7, GoOnKeeps

LEMMA NextArmKeeps ==
  ASSUME GenInv, NextArm("arm", FALSE)
  PROVE  GenInv'
<1> DEFINE fr == Front(frames)
           f == Top
           z == New(2)
           h == NextFrame(f, "any", z, TRUE)
           g == NextFrame(f, "arm", z, FALSE)
           es == <<Here("value"), Outside("arm")>>
           y == JumpWith(Emit(b, Next1, 0), f.merge)
           c == IF f.next = 0 THEN y ELSE SwitchSealed(y, f.next)
           t == Len(c.blocks) + 1
           r == Branch(c, Next1 + 1, <<0, 0>>, t, t + 1)
<1>1. /\ phase = "compile" /\ frames # <<>> /\ f.kind = "arm" /\ ~f.last
      /\ Go(es, Append(fr, g), r)
  BY DEF NextArm, In, InsteadOfTop, Yield, StartArm, Branch, NextFrame
<1>2. /\ fr \in Seq(FrameType) /\ f \in FrameType /\ frames = Append(fr, f) /\ Top = f
      /\ InStep(Append(fr, f), b)
  BY <1>1, TopContext
<1>3. /\ Next1 = Len(prog) + 1 /\ Next1 \in Nat /\ b.terminated \in BOOLEAN
      /\ z \in Nat /\ NewAt(b, 2, z) /\ BuilderOK(b)
  BY <1>1, Context
<1>4. /\ Quiet(es) /\ 2 \in 1 .. Len(es) /\ es[2].depth = Len(fr)
      /\ Len(prog) + Len(es) = Next1 + 1
  BY <1>1, ValueAnd
<1> HIDE DEF fr, f, es, z
<1>5. /\ g \in FrameType /\ g.kind = "arm" /\ (g.live <=> f.live) /\ g.merge = f.merge
      /\ g.next = z /\ ~g.last
      /\ h \in FrameType /\ h.kind = "arm" /\ (h.live <=> f.live) /\ h.merge = f.merge
      /\ h.last
  <2>1. IsNext(h, f, TRUE)
    BY <1>2, <1>3, NextTyped
  <2>2. IsNext(g, f, FALSE) /\ g.next = z
    BY <1>2, <1>3, NextTyped
  <2> HIDE DEF g, h
  <2>3. QED
    BY <2>1, <2>2 DEF IsNext
<1> HIDE DEF g, h
<1>6. f.kind \in ArmKinds /\ HasNext(f) /\ h.kind \in ArmKinds /\ ~HasNext(h)
  BY <1>1, <1>5 DEF ArmKinds, HasNext
<1>7. ASSUME f.live
      PROVE  InStep(Append(fr, g), r) /\ Follows(b, r, Next1, Len(prog) + Len(es))
  <2>0. c = SwitchSealed(y, f.next)
    BY <1>2, <1>6, <1>7, NextIsThere
  <2>1. /\ InStep(Append(fr, h), c) /\ Follows(b, c, Next1, Next1)
        /\ ~c.terminated /\ Len(c.blocks) = Len(b.blocks)
    <3> DEFINE d == SwitchSealed(y, f.next)
    <3>1. /\ InStep(Append(fr, h), d) /\ Follows(b, d, Next1, Next1)
          /\ ~d.terminated /\ Len(d.blocks) = Len(b.blocks)
      BY <1>2, <1>3, <1>5, <1>6, <1>7, PartEnds
    <3>2. c = d
      BY <2>0
    <3> HIDE DEF c, d
    <3>3. QED
      BY <3>1, <3>2
  <2> HIDE DEF c
  <2>2. Len(b.blocks) \in Nat
    BY <1>3 DEF BuilderOK, BuilderType
  <2>3. t + 1 = z /\ NewAt(c, 1, t) /\ NewAt(c, 2, z) /\ Next1 + 1 \in Nat
    BY <1>3, <2>1, <2>2 DEF NewAt
  <2>4. r = Branch(c, Next1 + 1, <<0, 0>>, t, z)
    BY <2>3
  <2> HIDE DEF t, r
  <2>5. InStep(Append(fr, g), r) /\ Follows(c, r, Next1 + 1, Next1 + 1)
    BY <1>2, <1>5, <1>7, <2>1, <2>3, <2>4, ArmStarts
  <2>6. Follows(b, r, Next1, Next1 + 1)
    <3>1. /\ Next1 .. Next1 \subseteq Next1 .. Next1 + 1
          /\ Next1 + 1 .. Next1 + 1 \subseteq Next1 .. Next1 + 1
      BY <1>3
    <3>2. QED
      BY <2>1, <2>5, <3>1 DEF Follows, Adds
  <2>7. QED
    BY <1>4, <2>5, <2>6
<1> HIDE DEF r
<1>8. QED
  BY <1>1, <1>2, <1>4, <1>5, <1>7, GoOnKeeps

(* At the end of the body every block has been sealed, and all but the     *)
(* current one ended.                                                      *)
LEMMA FinishKeeps ==
  ASSUME GenInv, Finish
  PROVE  GenInv'
<1> DEFINE c == IF b.terminated THEN b ELSE ReturnVal(b)
<1>1. /\ phase = "compile" /\ frames = <<>> /\ phase' = "run" /\ prog' = prog
      /\ b' = Finalize(c)
  BY DEF Finish
<1>2. InStep(frames, b) /\ Built(prog, b)
  BY <1>1, Context
<1>3. /\ BuilderOK(b) /\ Truth(b) /\ b.cur \in BlocksOf(b) /\ Settled(frames, b)
  BY <1>2 DEF InStep, StackOK, BuilderOK
<1>4. \A t \in BlocksOf(b) : (b.blocks[t].filled \/ t = b.cur) /\ b.blocks[t].sealed
  <2>1. Len(frames) = 0 /\ 1 .. 0 = {}
    BY <1>1
  <2>2. \A t : ~WaitedFor(frames, t) /\ ~HeadOf(frames, t)
    BY <2>1 DEF WaitedFor, HeadOf
  <2>3. QED
    BY <1>3, <2>2 DEF Settled
<1>5. /\ BuilderOK(c) /\ SameCode(b, c) /\ c.vars = b.vars /\ Truth(c)
      /\ \A t \in BlocksOf(c) : c.blocks[t].filled /\ c.blocks[t].sealed
  <2>1. CASE b.terminated
    <3>1. c = b
      BY <2>1
    <3>2. QED
      BY <1>3, <1>4, <2>1, <3>1 DEF SameCode, Truth
  <2>2. CASE ~b.terminated
    <3> DEFINE r == ReturnVal(b)
    <3>1. c = r
      BY <2>2
    <3>2. ~b.blocks[b.cur].filled
      BY <1>3, <2>2 DEF Truth
    <3>3. /\ BuilderOK(r) /\ Changed(b, r, {b.cur}, {}) /\ SameCode(b, r) /\ Kept(b, r)
          /\ r.terminated
      BY <1>3, <3>2, ReturnLegal
    <3> HIDE DEF r, c
    <3>4. \A t \in BlocksOf(r) : r.blocks[t].filled /\ r.blocks[t].sealed
      BY <1>4, <3>3 DEF Changed, BlocksOf
    <3>5. Truth(r) /\ r.vars = b.vars
      BY <1>3, <3>3 DEF Truth, Kept, Changed
    <3>6. QED
      BY <3>1, <3>3, <3>4, <3>5
  <2>3. QED
    BY <2>1, <2>2
<1> HIDE DEF c
<1>6. b' = c
  <2>1. DOMAIN c.blocks = BlocksOf(c) /\ c \in BuilderType /\ ~c.misuse
    BY <1>5 DEF BuilderOK, BuilderType, BlocksOf
  <2>2. ~(\E t \in DOMAIN c.blocks : ~c.blocks[t].filled \/ ~c.blocks[t].sealed)
    BY <1>5, <2>1
  <2>3. Finalize(c) = [c EXCEPT !.misuse = FALSE]
    BY <2>1, <2>2 DEF Finalize, Flag, BuilderType
  <2>4. [c EXCEPT !.misuse = FALSE] = c
    BY <2>1 DEF BuilderType
  <2>5. QED
    BY <1>1, <2>3, <2>4
<1>7. Built(prog, c)
  BY <1>2, <1>5 DEF Built, VarsIn, CodeOK, SameCode
<1>8. QED
  BY <1>1, <1>6, <1>7 DEF GenInv

LEMMA StartsInOrder == GenInit => GenInv
<1> SUFFICES ASSUME GenInit PROVE GenInv
  OBVIOUS
<1> DEFINE c == NewBuilder
           fresh == NewBlock(0)
           e == [fresh EXCEPT !.sealed = TRUE]
<1>1. prog = <<>> /\ frames = <<>> /\ b = c /\ phase = "compile"
  BY DEF GenInit
<1>2. fresh \in BlockType /\ fresh.code = <<>> /\ fresh.to = <<>> /\ ~fresh.filled
  <2>1. <<>> \in Seq(Instr) /\ <<>> \in Seq(Nat) /\ 0 \in Nat
    OBVIOUS
  <2>2. QED
    BY <2>1 DEF NewBlock, BlockType
<1> HIDE DEF fresh
<1>3. e \in BlockType /\ Len(e.code) = 0 /\ Len(e.to) = 0 /\ ~e.filled /\ e.sealed
  <2>1. e \in BlockType /\ e.code = <<>> /\ e.to = <<>> /\ ~e.filled /\ e.sealed
    BY <1>2 DEF BlockType
  <2> HIDE DEF e
  <2>2. QED
    BY <2>1
<1>4. c = [blocks |-> <<e>>, cur |-> 1, terminated |-> FALSE, loops |-> <<>>,
            vars |-> [x \in Names |-> 0], misuse |-> FALSE]
  BY DEF NewBuilder, e, fresh
<1> HIDE DEF e
<1> HIDE DEF c
<1>5. /\ c.blocks = <<e>> /\ c.cur = 1 /\ ~c.terminated /\ c.loops = <<>> /\ ~c.misuse
       /\ c.vars = [x \in Names |-> 0]
  BY <1>4
<1>6. <<e>> \in Seq(BlockType) /\ Len(<<e>>) = 1 /\ <<e>>[1] = e
  BY <1>3
<1>7. c \in BuilderType
  <2>1. <<>> \in Seq([header : Nat, exit : Nat]) /\ [x \in Names |-> 0] \in [Names -> Nat]
    OBVIOUS
  <2>2. QED
    BY <1>6, <1>4, <2>1 DEF BuilderType
<1>8. BlocksOf(c) = {1} /\ c.blocks[1] = e
  BY <1>6, <1>5 DEF BlocksOf
<1>9. BuilderOK(c) /\ Truth(c)
  <2>1. \A t \in BlocksOf(c) : Len(c.blocks[t].to) = 0
    BY <1>3, <1>8
  <2>2. \A t \in BlocksOf(c) : \A n \in 1 .. Len(c.blocks[t].to) :
          c.blocks[t].to[n] \in BlocksOf(c)
    <3>1. 1 .. 0 = {}
      OBVIOUS
    <3>2. QED
      BY <2>1, <3>1
  <2>3. c.cur \in BlocksOf(c) /\ ~c.terminated /\ ~c.blocks[c.cur].filled
    BY <1>3, <1>8, <1>5
  <2>4. BuilderOK(c)
    BY <1>7, <1>5, <2>2, <2>3 DEF BuilderOK
  <2>5. QED
    BY <2>3, <2>4 DEF Truth
<1>10. Len(frames) = 0 /\ frames \in Seq(FrameType) /\ Len(prog) = 0
      /\ prog \in Seq(EntryType) /\ 1 .. 0 = {}
  BY <1>1
<1>11. StackOK(frames, c)
  <2>1. Settled(frames, c)
    BY <1>3, <1>8, <1>5 DEF Settled
  <2>2. QED
    BY <1>10, <2>1 DEF StackOK
<1>12. LoopsMatch(frames, c.loops)
  <2>1. LiveLoops(frames) = {}
    BY <1>10 DEF LiveLoops
  <2>2. Len(c.loops) = 0 /\ Cardinality({}) = 0
    BY <1>5, FS_EmptySet
  <2>3. QED
    BY <1>10, <2>1, <2>2 DEF LoopsMatch
<1>13. CodeOK(prog, c)
  BY <1>3, <1>8, <1>10 DEF CodeOK, HasCode
<1>14. VarsIn(prog, c)
  BY <1>10, <1>5 DEF VarsIn
<1>15. NamesOK(prog, frames, c)
  BY <1>10 DEF NamesOK
<1>16. QED
  BY <1>1, <1>9, <1>10, <1>11, <1>12, <1>13, <1>14, <1>15
     DEF GenInv, Built, Compiling, InStep

LEMMA GenerateKeeps ==
  ASSUME Tame, GenInv, Generate
  PROVE  GenInv'
<1>1. ASSUME NEW x \in Names, Declare(x) PROVE GenInv'
  BY <1>1, DeclareKeeps
<1>2. ASSUME NEW x \in Names, NEW op \in {"set", "use"}, Access(op, x) PROVE GenInv'
  BY <1>2, AccessKeeps
<1>3. CASE ExprStmt
  BY <1>3, ExprKeeps
<1>4. CASE Return
  BY <1>4, ReturnKeeps
<1>5. CASE Break
  BY <1>5, BreakKeeps
<1>6. CASE Else \/ EndIf
  BY <1>6, ElseKeeps, EndIfKeeps
<1>7. CASE Loop \/ EndLoop
  BY <1>7, LoopKeeps, EndLoopKeeps
<1>8. ASSUME NEW withElse \in BOOLEAN, If(withElse) PROVE GenInv'
  BY <1>8, IfKeeps, IfElseKeeps
<1>9. ASSUME NEW pattern \in Patterns, NEW last \in BOOLEAN, Exhaustive(pattern, last)
      PROVE  (pattern = "any" /\ last = TRUE) \/ (pattern = "arm" /\ last = FALSE)
  BY <1>9 DEF Exhaustive, Patterns, Tame
<1>10. ASSUME NEW pattern \in Patterns, NEW last \in BOOLEAN, Matches(pattern, last)
       PROVE  GenInv'
  <2>1. Exhaustive(pattern, last)
    BY <1>10 DEF Matches
  <2>2. QED
    BY <1>9, <1>10, <2>1, MatchAnyKeeps, MatchArmKeeps
<1>11. ASSUME NEW pattern \in Patterns, NEW last \in BOOLEAN, NextArm(pattern, last)
       PROVE  GenInv'
  <2>1. Exhaustive(pattern, last)
    BY <1>11 DEF NextArm
  <2>2. QED
    BY <1>9, <1>11, <2>1, NextAnyKeeps, NextArmKeeps
<1>12. CASE EndMatch
  BY <1>12, EndMatchKeeps
<1>13. CASE IfExpr
  BY <1>13, IfExprKeeps
<1>14. CASE ElseExpr \/ EndIfExpr
  BY <1>14, ElseExprKeeps, EndIfExprKeeps
<1>15. CASE Finish
  BY <1>15, FinishKeeps
<1>16. QED
  BY <1>1, <1>2, <1>3, <1>4, <1>5, <1>6, <1>7, <1>8, <1>10, <1>11, <1>12, <1>13, <1>14,
     <1>15 DEF Generate

LEMMA GenerationKept ==
  ASSUME Tame
  PROVE  RunSpec => []GenInv
<1>1. RunInit => GenInv
  BY StartsInOrder DEF RunInit
<1>2. ASSUME GenInv, [RunNext]_allVars PROVE GenInv'
  <2>1. CASE Generate
    BY <1>2, <2>1, GenerateKeeps
  <2>2. CASE UNCHANGED genVars
    BY <1>2, <2>2 DEF genVars, GenInv
  <2>3. QED
    BY <1>2, <2>1, <2>2 DEF RunNext, Begin, Execute, allVars
<1>3. GenInv /\ [RunNext]_allVars => GenInv'
  BY <1>2
<1>4. QED
  BY <1>1, <1>3, PTL DEF RunSpec

-----------------------------------------------------------------------------
(* What Codegen promises. *)
LEMMA LoopsCounted ==
  ASSUME GenInv, phase = "compile"
  PROVE  Len(b.loops) = Cardinality({i \in DOMAIN frames :
                                       frames[i].kind = "loop" /\ frames[i].live})
<1>1. frames \in Seq(FrameType) /\ LoopsMatch(frames, b.loops)
  BY Context DEF InStep
<1>2. DOMAIN frames = 1 .. Len(frames)
  BY <1>1
<1>3. QED
  BY <1>1, <1>2 DEF LoopsMatch, LiveLoops

LEMMA CodeIsThere ==
  ASSUME GenInv, NEW t \in DOMAIN b.blocks, NEW n \in DOMAIN b.blocks[t].code
  PROVE  MeansItsName(prog, b.blocks[t].code[n])
<1>1. BuilderOK(b) /\ CodeOK(prog, b)
  BY DEF GenInv, Built
<1>2. t \in BlocksOf(b)
  BY <1>1 DEF BuilderOK, BuilderType, BlocksOf
<1>3. n \in 1 .. Len(b.blocks[t].code)
  BY <1>1, <1>2, BlockIsTyped
<1>4. HasCode(b, b.blocks[t].code[n])
  BY <1>2, <1>3 DEF HasCode
<1>5. QED
  BY <1>1, <1>4 DEF CodeOK

LEMMA InvTypes ==
  ASSUME GenInv
  PROVE  GenTypeOK
<1>1. /\ BuilderOK(b) /\ prog \in Seq(EntryType) /\ b.vars \in [Names -> 0 .. Len(prog)]
  BY DEF GenInv, Built, VarsIn
<1>2. DOMAIN b.blocks = BlocksOf(b) /\ DOMAIN prog = 1 .. Len(prog)
  BY <1>1 DEF BuilderOK, BuilderType, BlocksOf
<1>3. b.cur \in DOMAIN b.blocks /\ b.terminated \in BOOLEAN /\ b.misuse \in BOOLEAN
  BY <1>1, <1>2 DEF BuilderOK, BuilderType
<1>4. ASSUME NEW t \in DOMAIN b.blocks, NEW n \in DOMAIN b.blocks[t].to
      PROVE  b.blocks[t].to[n] \in DOMAIN b.blocks
  <2>1. t \in BlocksOf(b)
    BY <1>2
  <2>2. n \in 1 .. Len(b.blocks[t].to)
    BY <1>1, <2>1, BlockIsTyped
  <2>3. QED
    BY <1>1, <1>2, <2>1, <2>2 DEF BuilderOK
<1>5. ASSUME NEW t \in DOMAIN b.blocks, NEW n \in DOMAIN b.blocks[t].code
      PROVE  b.blocks[t].code[n].at \in DOMAIN prog
  BY <1>2, <1>5, CodeIsThere DEF MeansItsName
<1>6. phase = "compile" =>
        Len(b.loops) = Cardinality({i \in DOMAIN frames :
                                      frames[i].kind = "loop" /\ frames[i].live})
  BY LoopsCounted
<1>7. QED
  BY <1>1, <1>3, <1>4, <1>5, <1>6 DEF GenTypeOK

(* What compile_function keeps while it walks a body of any length and     *)
(* nesting is well formed: every branch has a block to go to, every        *)
(* instruction an entry it came from, and the loop stack has one entry for *)
(* each loop around the current place that is compiled at all.             *)
THEOREM GenerationTypes ==
  ASSUME Tame
  PROVE  RunSpec => []GenTypeOK
<1>1. GenInv => GenTypeOK
  BY InvTypes
<1>2. RunSpec => []GenInv
  BY GenerationKept
<1>3. QED
  BY <1>1, <1>2, PTL

(* compile_stmt, compile_match, compile_if_expr and the loop stack keep to *)
(* the contract of Cranelift's builder for every body whose arms do not    *)
(* exit, whose matches have their one wildcard last and whose breaks are   *)
(* in loops: no instruction goes behind a terminator, no sealed block gets *)
(* a new predecessor, and in the end every block is sealed and ended.      *)
THEOREM ContractKept ==
  ASSUME Tame
  PROVE  RunSpec => []BuilderContract
<1>1. GenInv => BuilderContract
  BY DEF GenInv, Built, BuilderOK, BuilderContract
<1>2. RunSpec => []GenInv
  BY GenerationKept
<1>3. QED
  BY <1>1, <1>2, PTL

(* The flag terminated of RocaBuilder, by which compile_block leaves code  *)
(* out, says of the current block what is so.                              *)
THEOREM FlagTellsTheTruth ==
  ASSUME Tame
  PROVE  RunSpec => []TerminatedIsTrue
<1>1. GenInv => TerminatedIsTrue
  BY DEF GenInv, Built, Truth, TerminatedIsTrue
<1>2. RunSpec => []GenInv
  BY GenerationKept
<1>3. QED
  BY <1>1, <1>2, PTL

(* As long as no declaration shadows another, the one flat map of          *)
(* variables resolves every name to its declaration in the source, through *)
(* branches, loops, arms and code that is never compiled.                  *)
THEOREM NamesAreResolved ==
  ASSUME Tame, "shadow" \notin Forms
  PROVE  RunSpec => []NamesResolve
<1>1. GenInv => NamesResolve
  <2>1. ASSUME GenInv, NEW t \in DOMAIN b.blocks, NEW n \in DOMAIN b.blocks[t].code,
               prog[b.blocks[t].code[n].at].op \in {"set", "use"}
        PROVE  b.blocks[t].code[n].decl =
                 Lexical(b.blocks[t].code[n].at, prog[b.blocks[t].code[n].at].var)
    BY <2>1, CodeIsThere, LexicalIsIn DEF MeansItsName
  <2>2. QED
    BY <2>1 DEF NamesResolve
<1>2. RunSpec => []GenInv
  BY GenerationKept
<1>3. QED
  BY <1>1, <1>2, PTL

=============================================================================
