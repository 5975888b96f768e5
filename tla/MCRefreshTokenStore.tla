------------------------- MODULE MCRefreshTokenStore -------------------------
(***************************************************************************)
(* Small instances of the refresh token store.  Four ticks make a second,  *)
(* two a microsecond, and a duration wraps at 16 ticks, so lifetimes -4..3 *)
(* are the representable ones.                                             *)
(***************************************************************************)
EXTENDS RefreshTokenStore, TLC

(* At the cutoff 5 the first token is expired; the second expires at 5 exactly,
   half a microsecond past a column value, and must be kept. *)
MCTokens == {[creation |-> 1, lifetime |-> 0], [creation |-> 1, lifetime |-> 1]}
MCCutoffs == {5}

MCExpiredTokens == {[creation |-> 1, lifetime |-> 0]}

(* One lifetime that a duration cannot represent *)
MCWrappingTokens == {[creation |-> 1, lifetime |-> 1], [creation |-> 1, lifetime |-> 4]}

Symmetry == Permutations(Callers) \cup Permutations(Handles)
=============================================================================
