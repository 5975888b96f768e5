--------------------------- MODULE VersionedStore ---------------------------
(***************************************************************************)
(* What an optimistic-concurrency store of this repository promises its    *)
(* callers, with no database in sight: every call takes effect at one      *)
(* instant, a record is replaced only by a caller that names its current   *)
(* version, the replacement carries the next version, and an error that is *)
(* not a sentinel leaves the caller uncertain whether the write happened.  *)
(*                                                                         *)
(* RefreshTokenStore and KeyRecordStore implement this specification; the  *)
(* last four constants are where the two families differ.                  *)
(***************************************************************************)
EXTENDS Naturals, FiniteSets

CONSTANTS
    Handles, Callers, Bodies, Versions, Cutoffs,
    Absent,                 \* no record under a handle
    Expired(_, _),          \* Expired(body, cutoff): a cleanup may reclaim it
    Collide(_, _),          \* two bodies that may not be stored side by side
    RemoveReportsMissing,   \* removing nothing is an error, not a no-op
    CanceledReadIsMissing   \* a read under a canceled context reports missing

VARIABLES
    store,   \* handle -> the [body, version] a read returns, or Absent
    reply    \* the latest answer given to a caller

vars == <<store, reply>>

-----------------------------------------------------------------------------
Answer(p, op, err) == reply' = [caller |-> p, op |-> op, err |-> err]

Collision(h, body) ==
    \E g \in Handles \ {h} : store[g] # Absent /\ Collide(store[g].body, body)

Put(h, body, version) ==
    store' = [store EXCEPT ![h] = [body |-> body, version |-> version]]

Drop(H) == store' = [h \in Handles |-> IF h \in H THEN Absent ELSE store[h]]

(* The call fails for a reason of the infrastructure and has no effect *)
Fail(p) ==
    /\ \E op \in {"store", "get", "list", "update", "remove", "removeExpired"} :
            Answer(p, op, "wrapped")
    /\ UNCHANGED store

-----------------------------------------------------------------------------
Create(p, h, body) ==
    \/ /\ store[h] = Absent
       /\ ~Collision(h, body)
       /\ Put(h, body, 1)
       /\ \E err \in {"ok", "wrapped"} : Answer(p, "store", err)
    \/ /\ store[h] # Absent \/ Collision(h, body)
       /\ Answer(p, "store", "duplicate")
       /\ UNCHANGED store

Read(p, h) ==
    /\ \/ /\ store[h] # Absent
          /\ reply' = [caller |-> p, op |-> "get", err |-> "ok", got |-> store[h]]
       \/ /\ store[h] = Absent \/ CanceledReadIsMissing
          /\ Answer(p, "get", "missing")
    /\ UNCHANGED store

List(p) ==
    /\ reply' = [caller |-> p, op |-> "list", err |-> "ok",
                 all |-> [h \in {g \in Handles : store[g] # Absent} |-> store[h]]]
    /\ UNCHANGED store

(* A conflict is only ever reported while there is a record to conflict with *)
Replace(p, h, body, expected) ==
    \/ /\ store[h] # Absent
       /\ store[h].version = expected
       /\ ~Collision(h, body)
       /\ Put(h, body, expected + 1)
       /\ \E err \in {"ok", "wrapped"} : Answer(p, "update", err)
    \/ /\ \/ Collision(h, body) /\ Answer(p, "update", "duplicate")
          \/ store[h] = Absent /\ Answer(p, "update", "missing")
          \/ store[h] # Absent /\ Answer(p, "update", "conflict")
       /\ UNCHANGED store

Remove(p, h) ==
    \/ /\ Drop({h})
       /\ store[h] # Absent \/ ~RemoveReportsMissing
       /\ \E err \in {"ok", "wrapped"} : Answer(p, "remove", err)
    \/ /\ store[h] = Absent
       /\ RemoveReportsMissing
       /\ Answer(p, "remove", "missing")
       /\ UNCHANGED store

(* A cleanup removes expired records only; the count it reports is exact *)
Reclaim(p, H, cutoff) ==
    /\ \A h \in H : store[h] # Absent /\ Expired(store[h].body, cutoff)
    /\ Drop(H)
    /\ \/ reply' = [caller |-> p, op |-> "removeExpired", err |-> "ok",
                    count |-> Cardinality(H)]
       \/ Answer(p, "removeExpired", "wrapped")

-----------------------------------------------------------------------------
Init ==
    /\ store = [h \in Handles |-> Absent]
    /\ reply = Absent

Next ==
    \E p \in Callers :
        \/ Fail(p)
        \/ List(p)
        \/ \E h \in Handles :
              \/ Read(p, h)
              \/ Remove(p, h)
              \/ \E body \in Bodies :
                    \/ Create(p, h, body)
                    \/ \E expected \in Versions : Replace(p, h, body, expected)
        \/ \E H \in SUBSET Handles, cutoff \in Cutoffs : Reclaim(p, H, cutoff)

Spec == Init /\ [][Next]_vars
=============================================================================
