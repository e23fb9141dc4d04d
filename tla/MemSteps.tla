------------------------------- MODULE MemSteps -------------------------------
(***************************************************************************)
(* mem_free and copy as they run: one activation record per recursive      *)
(* call, one word of a block visited per step.  RocaMem describes each of  *)
(* the two calls by its result; here TLC checks that the recursion         *)
(* produces that result on every heap a caller can build (shared blocks,   *)
(* cycles and stale words included, for mem_free).                         *)
(*                                                                         *)
(* The crate is single-threaded (thread_local registries), so no other     *)
(* call runs while the stack is not empty.                                 *)
(***************************************************************************)
EXTENDS RocaMem, Sequences

VARIABLES
  stack,  \* the activation records of mem_free and copy, innermost first
  seen    \* history: the heap as callers know it, which a call in progress
          \* changes when its outermost activation returns

stepVars == <<memVars, stack, seen>>

Heap == [tag |-> tag, size |-> size, typeId |-> typeId, width |-> width,
         fields |-> fields, allocs |-> allocs, frees |-> frees, live |-> live,
         kept |-> kept, keptBytes |-> keptBytes]

Idle == stack = <<>>
Top == Head(stack)
Advance(fr) == [fr EXCEPT !.next = @ + 1]

Publish == seen' = IF stack' = <<>> THEN Heap' ELSE seen

StepInit == Init /\ stack = <<>> /\ seen = Heap

(* Calls that do not recurse are one step. *)
SimpleCall ==
  /\ Idle
  /\ Allocate \/ Store \/ Reset
  /\ UNCHANGED stack
  /\ Publish

-----------------------------------------------------------------------------
(* Entry of mem_free(w) for a tracked w: untag it, drop a struct's type    *)
(* id, keep the size for the end.                                          *)
FreeEntry(w) ==
  /\ tag' = [tag EXCEPT ![w] = "none"]
  /\ size' = [size EXCEPT ![w] = 0]
  /\ typeId' = [typeId EXCEPT ![w] = NoTypeId]
  /\ UNCHANGED <<width, fields, countVars>>

FreeFrame(w) == [op |-> "free", block |-> w, bytes |-> size[w], next |-> 0]

BeginFree ==
  /\ Idle
  /\ \E w \in Tracked : FreeEntry(w) /\ stack' = <<FreeFrame(w)>>
  /\ UNCHANGED seen

(* The definitions named Bug... are mistakes one could make in the code;    *)
(* the properties are tested against them.                                 *)
BugFreeVisitAgain ==
  /\ ~Idle /\ Top.op = "free" /\ Top.next < width[Top.block]
  /\ LET w == fields[Top.block][Top.next]
         rest == <<Advance(Top)>> \o Tail(stack)
     IN \/ w \in Addr /\ FreeEntry(w) /\ stack' = <<FreeFrame(w)>> \o rest
        \/ w \notin Addr /\ stack' = rest /\ UNCHANGED memVars
  /\ UNCHANGED seen
BugFreeVisitStays ==
  /\ ~Idle /\ Top.op = "free" /\ Top.next < width[Top.block]
  /\ LET w == fields[Top.block][Top.next]
     IN \/ IsTracked(w) /\ FreeEntry(w)
           /\ stack' = <<FreeFrame(w), Advance(Top)>> \o Tail(stack)
        \/ ~IsTracked(w) /\ UNCHANGED <<stack, memVars>>
  /\ UNCHANGED seen

(* The loop body: a word that is tracked right now is freed recursively.   *)
FreeVisit ==
  /\ ~Idle /\ Top.op = "free" /\ Top.next < width[Top.block]
  /\ LET w == fields[Top.block][Top.next]
         rest == <<Advance(Top)>> \o Tail(stack)
     IN \/ /\ w # Null /\ IsTracked(w)
           /\ FreeEntry(w)
           /\ stack' = <<FreeFrame(w)>> \o rest
        \/ /\ w = Null \/ ~IsTracked(w)
           /\ stack' = rest
           /\ UNCHANGED memVars
  /\ UNCHANGED seen

BugFreeReturnSize ==
  /\ ~Idle /\ Top.op = "free" /\ Top.next = width[Top.block]
  /\ width' = [width EXCEPT ![Top.block] = 0]
  /\ fields' = [fields EXCEPT ![Top.block] = NoFields]
  /\ frees' = frees + 1
  /\ live' = live - size[Top.block]
  /\ stack' = Tail(stack)
  /\ UNCHANGED <<tag, size, typeId, allocs, kept, keptBytes>>
  /\ Publish

(* After the loop the block's memory goes and track_free counts it. *)
FreeReturn ==
  /\ ~Idle /\ Top.op = "free" /\ Top.next = width[Top.block]
  /\ width' = [width EXCEPT ![Top.block] = 0]
  /\ fields' = [fields EXCEPT ![Top.block] = NoFields]
  /\ frees' = frees + 1
  /\ live' = live - Top.bytes
  /\ stack' = Tail(stack)
  /\ UNCHANGED <<tag, size, typeId, allocs, kept, keptBytes>>
  /\ Publish

-----------------------------------------------------------------------------
CopyFrame(s, d) == [op |-> "copy", src |-> s, dst |-> d, next |-> 0]

(* copy(s) up to its loop: the new block of a string or of a struct. *)
CopyEntry(s, d) ==
  \/ /\ tag[s] = "string"
     /\ StringNew(d, size[s] - 1)
  \/ /\ tag[s] = "struct"
     /\ StructNew(d, width[s], GetTypeId(s))

BeginCopy ==
  /\ Idle
  /\ \E s \in Tracked, d \in Addr :
       /\ IsTree(s)
       /\ allocs + Cardinality(Cloned(s)) <= MaxAllocs
       /\ Cardinality(Cloned(s)) <= Cardinality(Addr \ Tracked)
       /\ CopyEntry(s, d)
       /\ stack' = <<CopyFrame(s, d)>>
  /\ UNCHANGED seen

StoreWord(fr, w) ==
  fields' = [fields EXCEPT ![fr.dst][fr.next] = w]

(* One word of the source struct that needs no block of its own: a plain   *)
(* word is copied bit for bit, a vec or a map becomes 0.                   *)
CopyPlain ==
  /\ ~Idle /\ Top.op = "copy" /\ Top.next < width[Top.src]
  /\ LET w == fields[Top.src][Top.next]
     IN \/ /\ ~IsTracked(w)
           /\ StoreWord(Top, w)
        \/ /\ IsTracked(w) /\ tag[w] \in {"vec", "map"}
           /\ StoreWord(Top, Null)
  /\ stack' = <<Advance(Top)>> \o Tail(stack)
  /\ UNCHANGED <<tag, size, typeId, width, countVars, seen>>

(* A tracked string or struct: copy calls itself; the frame below keeps    *)
(* its index, the callee's result goes there.                              *)
CopyRecurse ==
  /\ ~Idle /\ Top.op = "copy" /\ Top.next < width[Top.src]
  /\ LET w == fields[Top.src][Top.next]
     IN /\ IsTracked(w)
        /\ \E d \in Addr : CopyEntry(w, d) /\ stack' = <<CopyFrame(w, d)>> \o stack
  /\ UNCHANGED seen

BugCopyReturnShares ==
  /\ ~Idle /\ Top.op = "copy" /\ Top.next = width[Top.src]
  /\ LET callers == Tail(stack)
     IN IF callers = <<>>
        THEN stack' = <<>> /\ UNCHANGED fields
        ELSE /\ StoreWord(Head(callers), Top.src)
             /\ stack' = <<Advance(Head(callers))>> \o Tail(callers)
  /\ UNCHANGED <<tag, size, typeId, width, countVars>>
  /\ Publish

CopyReturn ==
  /\ ~Idle /\ Top.op = "copy" /\ Top.next = width[Top.src]
  /\ LET callers == Tail(stack)
     IN IF callers = <<>>
        THEN stack' = <<>> /\ UNCHANGED fields
        ELSE /\ StoreWord(Head(callers), Top.dst)
             /\ stack' = <<Advance(Head(callers))>> \o Tail(callers)
  /\ UNCHANGED <<tag, size, typeId, width, countVars>>
  /\ Publish

-----------------------------------------------------------------------------
Running == FreeVisit \/ FreeReturn \/ CopyPlain \/ CopyRecurse \/ CopyReturn

StepNext == SimpleCall \/ BeginFree \/ BeginCopy \/ Running

(* The thread runs: a call that has begun keeps executing. *)
StepSpec == StepInit /\ [][StepNext]_stepVars /\ WF_stepVars(Running)

-----------------------------------------------------------------------------
Mem == INSTANCE RocaMem WITH
         tag <- seen.tag, size <- seen.size, typeId <- seen.typeId,
         width <- seen.width, fields <- seen.fields, allocs <- seen.allocs,
         frees <- seen.frees, live <- seen.live, kept <- seen.kept,
         keptBytes <- seen.keptBytes

(* The recursive code implements the one-step description: mem_free frees  *)
(* exactly Reach(w), each block once, and copy builds one disjoint clone.  *)
ImplementsRocaMem == Mem!Spec

(* mem_free returns on every heap, cyclic ones included (it untags before  *)
(* it descends), and copy returns on every tree.                           *)
CallsReturn == ~Idle ~> Idle

(* No block is entered twice by one mem_free: the records on the stack are *)
(* of distinct blocks, already untagged, whose memory is still there to    *)
(* read.                                                                   *)
NoReentry ==
  /\ \A i, j \in DOMAIN stack :
       i # j /\ stack[i].op = "free" /\ stack[j].op = "free"
         => stack[i].block # stack[j].block
  /\ \A i \in DOMAIN stack :
       stack[i].op = "free" => ~IsTracked(stack[i].block)
=============================================================================
