--------------------------- MODULE RevocableStore ---------------------------
(***************************************************************************)
(* What a store whose records are revoked and reclaimed in bulk promises   *)
(* its callers, with no statements, snapshots or locks in sight.  A call   *)
(* on one record takes effect at one instant.  A revocation or a cleanup   *)
(* lasts: it ends by removing at least the records that it had to take all *)
(* the while, and nothing it may not take.  An error that is not a         *)
(* sentinel leaves the caller uncertain whether the write happened.        *)
(*                                                                         *)
(* GrantStores, HandleStores and SessionStore implement this               *)
(* specification; the last six constants are where they differ.  It says   *)
(* what becomes of the records; what a read returns is left to properties  *)
(* of those modules.                                                       *)
(***************************************************************************)
CONSTANTS
    Keys, Callers,
    Targets,          \* what an update may name
    Demands,          \* what may be asked of a revocation or a cleanup: [op, arg]
    Absent,           \* no record under a key
    Owes(_, _),       \* Owes(demand, record): the demand has to take it
    Takes(_, _),      \* Takes(demand, record): it may
    Meets(_, _, _),   \* Meets(target, key, record): an update by the target changes it
    Replaces,         \* storing under a key that is taken replaces the record
    ByKey(_)          \* ByKey(demand): it removes the keys it once selected, whatever
                      \* is stored under them by then

VARIABLES
    store,      \* key -> its record, or Absent
    clearing,   \* caller -> the revocation or cleanup it has under way
    outcome     \* how the call that returned in the latest step came out

vars == <<store, clearing, outcome>>

-----------------------------------------------------------------------------
Silence == [op |-> "none"]
Idle == [busy |-> FALSE]

(* due: had to be taken ever since the call began; spared: there, and not to be
   taken, ever since *)
Clearing(by, due, spared) == [busy |-> TRUE, by |-> by, due |-> due, spared |-> spared]

Busy(p) == clearing[p].busy
Present(k) == store[k] # Absent

Answer(p, ops, errors) == outcome' \in [caller : {p}, op : ops, err : errors]

Revised(c) ==
    IF c.busy
    THEN Clearing(c.by, {k \in c.due : store'[k] # Absent /\ Owes(c.by, store'[k])},
                        {k \in c.spared : store'[k] # Absent /\ ~Takes(c.by, store'[k])})
    ELSE c

(* A call of p changes the records; p has none of its own under way afterwards *)
Revise(p) ==
    clearing' = [q \in Callers |-> IF q = p THEN Idle ELSE Revised(clearing[q])]

(* The records under K become others *)
Write(p, K) ==
    /\ store' = [k \in Keys |-> IF k \in K THEN store'[k] ELSE store[k]]
    /\ \A k \in K : store'[k] # Absent
    /\ Revise(p)

Drop(p, K) ==
    /\ store' = [k \in Keys |-> IF k \in K THEN Absent ELSE store[k]]
    /\ Revise(p)

-----------------------------------------------------------------------------
Look(p) ==
    /\ Answer(p, {"get", "list"}, {"ok", "missing"})
    /\ ~Busy(p)
    /\ UNCHANGED <<store, clearing>>

(* The call fails for a reason of the infrastructure and has no effect *)
Fail(p) ==
    /\ Answer(p, {"get", "list", "store", "update", "remove"}, {"wrapped"})
    /\ ~Busy(p)
    /\ UNCHANGED <<store, clearing>>

(* No two records are met by one target *)
Store(p) ==
    /\ Answer(p, {"store"}, {"ok", "wrapped"})
    /\ ~Busy(p)
    /\ \E k \in Keys :
          /\ Present(k) => Replaces
          /\ Write(p, {k})
          /\ \A t \in Targets, j \in Keys \ {k} :
                Present(j) /\ Meets(t, j, store[j]) => ~Meets(t, k, store'[k])

Refuse(p) ==
    /\ Answer(p, {"store"}, {"duplicate"})
    /\ ~Busy(p)
    /\ ~Replaces
    /\ \E k \in Keys : Present(k)
    /\ UNCHANGED <<store, clearing>>

Met(t) == {k \in Keys : Present(k) /\ Meets(t, k, store[k])}

(* An update changes what its target meets and creates nothing; the target goes on
   meeting it *)
Update(p) ==
    /\ Answer(p, {"update"}, {"ok", "wrapped"})
    /\ ~Busy(p)
    /\ \E t \in Targets :
          /\ Write(p, Met(t))
          /\ \A k \in Met(t) : Meets(t, k, store'[k])

Remove(p) ==
    /\ Answer(p, {"remove"}, {"ok", "wrapped"})
    /\ ~Busy(p)
    /\ \E k \in Keys : Drop(p, {k})

(* A revocation or a cleanup is at work behind its call *)
Work ==
    /\ outcome' = Silence
    /\ UNCHANGED <<store, clearing>>

-----------------------------------------------------------------------------
Begin(p) ==
    /\ outcome' \in {outcome, Silence}
    /\ ~Busy(p)
    /\ \E by \in Demands :
          clearing' = [clearing EXCEPT ![p] =
             Clearing(by, {k \in Keys : Present(k) /\ Owes(by, store[k])},
                          {k \in Keys : ByKey(by) /\ Present(k) /\ ~Takes(by, store[k])})]
    /\ UNCHANGED store

(* Whether or not the caller learns of it, all that is due goes and nothing that is
   spared; unless it goes by key, nothing that may not be taken *)
Finish(p) ==
    /\ Busy(p)
    /\ Answer(p, {clearing[p].by.op}, {"ok", "wrapped"})
    /\ \E H \in SUBSET Keys :
          /\ clearing[p].due \subseteq H
          /\ H \cap clearing[p].spared = {}
          /\ ByKey(clearing[p].by) \/ \A k \in H : Present(k) /\ Takes(clearing[p].by, store[k])
          /\ Drop(p, H)

Abandon(p) ==
    /\ Busy(p)
    /\ Answer(p, {clearing[p].by.op}, {"wrapped"})
    /\ clearing' = [clearing EXCEPT ![p] = Idle]
    /\ UNCHANGED store

-----------------------------------------------------------------------------
Init ==
    /\ store = [k \in Keys |-> Absent]
    /\ clearing = [p \in Callers |-> Idle]
    /\ outcome = Silence

CallNext(p) ==
    \/ Look(p) \/ Store(p) \/ Refuse(p) \/ Update(p) \/ Remove(p) \/ Fail(p)
    \/ Begin(p) \/ Finish(p) \/ Abandon(p)

Next == Work \/ \E p \in Callers : CallNext(p)

Spec == Init /\ [][Next]_vars
=============================================================================
