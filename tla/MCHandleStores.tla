--------------------------- MODULE MCHandleStores ---------------------------
(***************************************************************************)
(* Small instances of the handle stores.  Four ticks make a second and two *)
(* a microsecond; at the cutoff 5 a record expiring at 3 is just overdue   *)
(* and one expiring at 7 is not expired.                                   *)
(***************************************************************************)
EXTENDS HandleStores

CONSTANTS alice, bob, web

MCCutoffs == {5}
MCCodes == {[creation |-> 3, lifetime |-> 0], [creation |-> 3, lifetime |-> 1]}

MCTokens ==
    {[creation |-> 3, lifetime |-> 0, subject |-> alice, client |-> web],
     [creation |-> 3, lifetime |-> 1, subject |-> bob, client |-> web]}

(* Waiting and about to expire, or approved and extended *)
MCDeviceCodes ==
    {[creation |-> 3, lifetime |-> 0, approved |-> FALSE],
     [creation |-> 3, lifetime |-> 1, approved |-> TRUE]}

MCRequests == {[expires |-> 3], [expires |-> Never]}
=============================================================================
