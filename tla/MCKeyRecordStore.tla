-------------------------- MODULE MCKeyRecordStore --------------------------
(* Small instances of the key record store. *)
EXTENDS KeyRecordStore, TLC

Symmetry == Permutations(Callers) \cup Permutations(Handles) \cup Permutations(PublicIds)
=============================================================================
