---------------------------- MODULE MCHashTable ----------------------------
(* A map that starts with two slots, so that a few nodes make it grow      *)
(* twice; two nodes have the same hash.                                    *)
EXTENDS HashTable, Sequences

NodeNumbers == 1 .. 6
Hashes == [n \in NodeNumbers |-> <<0, 0, 1, 2, 3, 6>>[n]]
=============================================================================
