----------------------------- MODULE MCRocaMem -----------------------------
(* Instances of RocaMem for TLC: addresses are interchangeable.            *)
EXTENDS RocaMem, TLC

AddrSymmetry == Permutations(Addr)
=============================================================================
