----------------------------- MODULE MCTtlHeap -----------------------------
(* The instance of TtlHeap that TLC checks: six entries make a heap of     *)
(* three levels whose last one is incomplete.                              *)
EXTENDS TtlHeap, TLC

EntrySymmetry == Permutations(Entries)

=============================================================================
