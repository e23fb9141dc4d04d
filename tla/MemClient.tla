------------------------------ MODULE MemClient ------------------------------
(***************************************************************************)
(* A caller of roca-mem that keeps the language's ownership rules          *)
(* (docs/src/spec/memory.md): it holds the blocks it owns, stores an owned *)
(* block into a field once and gives it up by that, never writes over a    *)
(* field that owns something, frees only what it holds, and asks the gate  *)
(* to store a borrowed value only when roca-mem does not track it.         *)
(*                                                                         *)
(* The registry itself asks for none of this.  The last section adds the   *)
(* calls a caller may make that the rules do not cover, one at a time.     *)
(***************************************************************************)
EXTENDS RocaMem

VARIABLES
  held,   \* history: the addresses the caller owns
  stale   \* history: addresses it freed and may still have copies of

clientVars == <<memVars, held, stale>>

CInit == Init /\ held = {} /\ stale = {}

(* A fresh block belongs to whoever asked for it. *)
CNew ==
  \E a \in Addr :
    /\ \/ \E len \in StrLen : StringNew(a, len)
       \/ \E n \in 0 .. MaxFields, tid \in TypeIds : StructNew(a, n, tid)
       \/ ArrayNew(a)
       \/ MapNew(a)
    /\ held' = held \cup {a}
    /\ UNCHANGED stale

OwnsNothing(p, i) == InRange(p, i) /\ fields[p][i] \notin Addr

(* Moving v into a field of p.  p may be held or borrowed from a block     *)
(* that is, but not from v itself: v is gone once it is moved.             *)
CMove ==
  \E p \in Tracked, i \in Slot, v \in held :
    /\ OwnsNothing(p, i)
    /\ p \notin Reach(v)
    /\ SetOwnedMove(p, i, v)
    /\ held' = held \ {v}
    /\ UNCHANGED stale

CStoreBorrowed ==
  \E p \in Tracked, i \in Slot, c \in CStr, len \in StrLen, a \in Addr :
    /\ OwnsNothing(p, i)
    /\ SetOwnedCopy(p, i, c, len, a)
    /\ UNCHANGED <<held, stale>>

CStoreNumber ==
  \E p \in Tracked, i \in Slot, w \in Num \cup {Null} :
    /\ OwnsNothing(p, i)
    /\ SetF64(p, i, w)
    /\ UNCHANGED <<held, stale>>

CFree ==
  \E p \in held :
    /\ MemFree(p)
    /\ held' = held \ {p}
    /\ stale' = stale \cup {p}

(* A stale handle, null or a word that never was a block: nothing happens. *)
CFreeAgain ==
  \E w \in Word : ~IsTracked(w) /\ MemFree(w) /\ UNCHANGED <<held, stale>>

CCopy ==
  \E p \in Tracked : \E f \in [Cloned(p) -> Addr \ Tracked] :
    /\ Copy(p, f)
    /\ held' = held \cup {f[p]}
    /\ UNCHANGED stale

CReset == Reset /\ UNCHANGED <<held, stale>>

CNext ==
  \/ CNew \/ CMove \/ CStoreBorrowed \/ CStoreNumber
  \/ CFree \/ CFreeAgain \/ CCopy \/ CReset

CSpec == CInit /\ [][CNext]_clientVars

-----------------------------------------------------------------------------
(* What the caller holds is live. *)
HeldLive == held \subseteq Tracked

(* No field of a live block refers to memory that has been freed: freeing  *)
(* a held block takes all it owns with it and nothing anybody else owns    *)
(* ("Containers always own their fields").                                 *)
NoDangling ==
  \A b \in Tracked, i \in Slot : fields[b][i] \in Addr => fields[b][i] \in Tracked

(* A block has at most one owner: one field of one block, or the caller.   *)
OneOwner ==
  \A b, c \in Tracked, i, j \in Slot :
    fields[b][i] \in Addr =>
      /\ fields[b][i] \notin held
      /\ fields[b][i] = fields[c][j] => b = c /\ i = j

(* Whatever is allocated can still be freed: it hangs below something the  *)
(* caller holds, so freeing all of held leaves the registry empty.         *)
NoLeak == \A a \in Tracked : \E h \in held : a \in Reach(h)

(* copy always applies to what such a caller has. *)
AlwaysTrees == \A p \in Tracked : IsTree(p)

(* A step frees only blocks below the one handle it gives up: whatever     *)
(* hangs below another handle is still there, of the same tag and type.    *)
FreeIsLocal ==
  [][\A h \in held \cap held' :
       \A a \in Reach(h) : a \in Tracked' /\ tag'[a] = tag[a] /\ typeId'[a] = typeId[a]]_clientVars

-----------------------------------------------------------------------------
(* Calls outside the rules, each allowed by the C ABI.                     *)

(* Storing a value that is borrowed from another block, and so tracked.    *)
StoreTrackedBorrow ==
  \E p, v \in Tracked, i \in Slot :
    /\ v \notin held /\ OwnsNothing(p, i) /\ p \notin Reach(v)
    /\ SetOwnedMove(p, i, v)
    /\ UNCHANGED <<held, stale>>

(* Assigning a field that already owns a block: the old one is not freed.  *)
Overwrite ==
  \E p \in Tracked, i \in Slot, v \in held :
    /\ InRange(p, i) /\ fields[p][i] \in Addr /\ p \notin Reach(v)
    /\ SetOwnedMove(p, i, v)
    /\ held' = held \ {v}
    /\ UNCHANGED stale

(* Freeing a handle a second time when its address may be in use again.    *)
FreeStale == \E p \in stale : MemFree(p) /\ UNCHANGED <<held, stale>>

(* A borrowed value that is stored is copied, whoever tracks it ("Storing  *)
(* a borrowed value in a struct field or array automatically copies it"):  *)
(* a field never comes to hold a block the caller did not own.             *)
BorrowsAreCopied ==
  [][\A p \in Tracked, i \in Slot :
       fields'[p][i] \in Tracked /\ fields'[p][i] # fields[p][i]
         => fields'[p][i] \in held]_clientVars

(* A struct's clone has a value wherever the original has one ("deep       *)
(* copy").                                                                 *)
CopyKeepsFields ==
  [][\A p \in Tracked : \A f \in [Cloned(p) -> Addr \ Tracked] :
       Copy(p, f) => \A a \in Cloned(p), i \in Slot :
                       fields[a][i] # Null => fields'[f[a]][i] # Null]_clientVars
=============================================================================
