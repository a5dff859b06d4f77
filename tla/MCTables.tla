------------------------------- MODULE MCTables -------------------------------
(* Tables for TLC: filters, slots and names are interchangeable.              *)
EXTENDS Tables, TLC

Interchangeable == Permutations(Filters) \union Permutations(Slots) \union Permutations(Names)
=============================================================================
