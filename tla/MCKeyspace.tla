----------------------------- MODULE MCKeyspace -----------------------------
(* The instance of Keyspace that TLC checks: two keys, three addresses, so *)
(* that a freed one is given out again while another entry is in the pool; *)
(* sets of one member are small, of two are large; two keys can expire     *)
(* in one pass, of which the second reaches the limit MaxWorks.            *)
EXTENDS Keyspace, TLC

MCTtls == {-1, 0, 1}

KeyspaceSymmetry ==
  Permutations(Entries) \cup Permutations(Keys) \cup Permutations(Vals)
    \cup Permutations(Names)

=============================================================================
