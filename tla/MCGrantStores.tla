---------------------------- MODULE MCGrantStores ----------------------------
(***************************************************************************)
(* A small instance of the grant and consent stores.  Two ticks make a     *)
(* microsecond; at the cutoff 5 a record expiring at 3 is overdue.         *)
(***************************************************************************)
EXTENDS GrantStores

CONSTANTS alice, bob, web, app, refresh, login

MCKeys == {<<alice, web>>, <<bob, web>>}
MCNames == {alice, bob, web, app, refresh, login, Unset}
MCCutoffs == {5}

(* They differ in one or several of the filter's dimensions; one has no session *)
MCGrants ==
    {[subject |-> of[1], session |-> of[2], client |-> of[3], type |-> of[4], expires |-> of[5]] :
        of \in {<<alice, login, web, refresh, 3>>,
                <<alice, Unset, app, refresh, Never>>,
                <<bob, login, app, login, 3>>}}

NoFilter == [subject |-> Unset, session |-> Unset, client |-> Unset, type |-> Unset,
             clients |-> {}, types |-> {}]

(* Everything; by subject; a client beside a list of clients; a session and types *)
MCFilters ==
    {NoFilter,
     [NoFilter EXCEPT !.subject = alice],
     [NoFilter EXCEPT !.client = web, !.clients = {web, app}],
     [NoFilter EXCEPT !.session = login, !.types = {refresh}]}

MCConsents ==
    {[subject |-> key[1], client |-> key[2], expires |-> expires] :
        key \in MCKeys, expires \in {3, Never}}
=============================================================================
