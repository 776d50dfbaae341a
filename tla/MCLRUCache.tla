----------------------------- MODULE MCLRUCache -----------------------------
(* LRUCache on a pool of interchangeable nodes and keys. *)
EXTENDS LRUCache, TLC

Interchangeable == Permutations(Nodes) \cup Permutations(Keys)
=============================================================================
