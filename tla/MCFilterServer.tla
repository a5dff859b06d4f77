---------------------------- MODULE MCFilterServer ----------------------------
(* FilterServer on small sets, with the symmetry TLC may use for safety. *)
EXTENDS FilterServer, TLC

Interchangeable ==
  Permutations(Filters) \cup Permutations(Threads) \cup Permutations(Handlers)
=============================================================================
