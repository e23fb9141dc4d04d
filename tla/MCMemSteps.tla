----------------------------- MODULE MCMemSteps -----------------------------
(* An instance of MemSteps for TLC.                                        *)
EXTENDS MemSteps, FiniteSetsExt

(* Without mem_reset the counters bound the heap's whole history: room for *)
(* a fourth address, that is for the copy of a struct with a block in it.  *)
NoReset == allocs' >= allocs

(* Two fields in all between calls: in one struct or in two.  A vec stands *)
(* for a map, which both calls treat alike.                                *)
SmallHeap ==
  /\ Idle => MapThenSumSet(LAMBDA a : width[a], Addr) <= 2
  /\ \A a \in Addr : tag[a] # "map"
=============================================================================
