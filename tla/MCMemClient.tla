----------------------------- MODULE MCMemClient -----------------------------
(* Instances of MemClient for TLC: addresses are interchangeable.          *)
EXTENDS MemClient, TLC

AddrSymmetry == Permutations(Addr)

(* mem_reset touches no block; without it the counters bound the history.  *)
NoReset == allocs' >= allocs
NoResetSpec == CInit /\ [][CNext /\ NoReset]_clientVars
NoResetBorrowSpec == CInit /\ [][(CNext \/ StoreTrackedBorrow) /\ NoReset]_clientVars
NoResetStaleSpec == CInit /\ [][(CNext \/ FreeStale) /\ NoReset]_clientVars
NoResetOverwriteSpec == CInit /\ [][(CNext \/ Overwrite) /\ NoReset]_clientVars
=============================================================================
