--------------------------- MODULE MCSessionStore ---------------------------
(***************************************************************************)
(* A small instance of the session store.  Two ticks make a microsecond;   *)
(* at the cutoff 5 a session expiring at 3 is overdue and one at 5 is not. *)
(***************************************************************************)
EXTENDS SessionStore, TLC

CONSTANTS alice, bob, web

MCCutoffs == {5}

(* Sessions of two subjects and of none, that expired, expire just at the cutoff,
   or never expire; one lists a client, as a caller knew it when it read *)
MCRecords ==
    {[subject |-> of[1], expires |-> of[2], client_ids |-> of[3]] :
        of \in {<<alice, 3, <<>>>>, <<alice, Never, <<web>>>>,
                <<bob, 3, <<>>>>, <<NoSubject, 5, <<>>>>}}

Symmetry == Permutations(Callers) \cup Permutations(SessionIds)
=============================================================================
