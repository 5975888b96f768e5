------------------------------ MODULE RowTable ------------------------------
(***************************************************************************)
(* One PostgreSQL table as the statements of the stores use it.  A         *)
(* statement on one row is one autocommitted action.  A multi-row DELETE   *)
(* takes several: it scans one snapshot, locks its rows one by one while   *)
(* other statements run, and removes them together when it commits.  A     *)
(* failed statement may have been committed (the answer was lost) or not.  *)
(***************************************************************************)
EXTENDS Expiry, FiniteSets

CONSTANTS
    Keys,      \* primary keys of the table
    Callers,   \* goroutines of the host processes that share the database
    Cutoffs,   \* instants handed to RemoveExpired
    Absent     \* no row, nothing found

ASSUME CutoffsAssumption == Cutoffs \subseteq Int

VARIABLES
    rows,    \* key -> its row, or Absent; a row has at least expires_at and payload
    call,    \* caller -> the call it has between two steps
    reply    \* the answer of the call that returned in the latest step, or Silence

tableVars == <<rows, call, reply>>

Idle == [op |-> "none"]
Silence == [op |-> "none"]
Deleting(op, arg, scan, locked) ==
    [op |-> op, arg |-> arg, scan |-> scan, locked |-> locked]

Open(p) == call[p] # Idle
Present(k) == rows[k] # Absent

(* The DELETE of no caller holds the lock on this row *)
Unlocked(k) == \A q \in Callers : Open(q) => k \notin call[q].locked

Answer(p, op, err) == reply' = [caller |-> p, op |-> op, err |-> err]

-----------------------------------------------------------------------------
(* WHERE handle = $1 *)
RowsAt(k) == {j \in {k} : Present(j)}

(* SELECT payload of the one row in K, if there is one *)
ReadRow(p, K) ==
    /\ ~Open(p)
    /\ \/ \E k \in K : reply' = [caller |-> p, op |-> "get", err |-> "ok",
                                 key |-> k, got |-> rows[k].payload]
       \/ K = {} /\ Answer(p, "get", "missing")
       \/ Answer(p, "get", "wrapped")
    /\ UNCHANGED <<rows, call>>

(* SELECT payload of all rows in K *)
ReadRows(p, arg, K) ==
    /\ ~Open(p)
    /\ \/ reply' = [caller |-> p, op |-> "list", err |-> "ok",
                    arg |-> arg, all |-> [k \in K |-> rows[k].payload]]
       \/ Answer(p, "list", "wrapped")
    /\ UNCHANGED <<rows, call>>

(* INSERT; a row in rivals breaks a unique index.  It waits for a rival that is
   being deleted. *)
InsertRow(p, k, row, rivals) ==
    /\ ~Open(p)
    /\ \/ /\ rivals = {}
          /\ rows' = [rows EXCEPT ![k] = row]
          /\ \E err \in {"ok", "wrapped"} : Answer(p, "store", err)
       \/ /\ \E rival \in rivals : Unlocked(rival)
          /\ Answer(p, "store", "duplicate")
          /\ UNCHANGED rows
       \/ Answer(p, "store", "wrapped") /\ UNCHANGED rows
    /\ UNCHANGED call

(* UPDATE of the rows in K, and the update of an upsert *)
WriteRows(p, op, K, row) ==
    /\ ~Open(p)
    /\ \/ /\ \A k \in K : Unlocked(k)
          /\ rows' = [k \in Keys |-> IF k \in K THEN row[k] ELSE rows[k]]
          /\ \E err \in {"ok", "wrapped"} : Answer(p, op, err)
       \/ Answer(p, op, "wrapped") /\ UNCHANGED rows
    /\ UNCHANGED call

(* Deletion ends the life of a row: an open DELETE does not see one stored under
   the same key afterwards; a list of keys that a caller holds still names it *)
Remaining(q, H) ==
    IF Open(q) /\ call[q].op # "collect"
    THEN Deleting(call[q].op, call[q].arg, call[q].scan \ H, call[q].locked)
    ELSE call[q]

Remove(p, H) ==
    /\ rows' = [k \in Keys |-> IF k \in H THEN Absent ELSE rows[k]]
    /\ call' = [q \in Callers |-> IF q = p THEN Idle ELSE Remaining(q, H)]

(* DELETE of the one row under k, a no-op when there is none *)
Fault_SkipLocked(p, k) ==
    /\ ~Open(p)
    /\ Remove(p, IF Unlocked(k) THEN {k} ELSE {})
    /\ reply' = [caller |-> p, op |-> "remove", err |-> "ok", key |-> k]

DeleteRow(p, k) ==
    /\ ~Open(p)
    /\ \/ /\ Unlocked(k)
          /\ Remove(p, {k})
          /\ \/ reply' = [caller |-> p, op |-> "remove", err |-> "ok", key |-> k]
             \/ Answer(p, "remove", "wrapped")
       \/ Answer(p, "remove", "wrapped") /\ UNCHANGED <<rows, call>>

-----------------------------------------------------------------------------
(* A DELETE of many rows: its snapshot... *)
BeginDelete(p, op, arg, scan) ==
    /\ ~Open(p)
    /\ call' = [call EXCEPT ![p] = Deleting(op, arg, scan, {})]
    /\ reply' = Silence
    /\ UNCHANGED rows

(* ...a row of it, locked once no other DELETE holds it if its latest version
   still satisfies the WHERE clause... *)
Fault_LockWhatWasScanned(p, k, selected) ==
    /\ Unlocked(k)
    /\ call' = [call EXCEPT ![p] = Deleting(@.op, @.arg, @.scan \ {k}, @.locked \cup {k})]
    /\ reply' = Silence
    /\ UNCHANGED rows

Fault_PassOverLocked(p, k, selected) ==
    /\ call' = [call EXCEPT ![p] =
                  Deleting(@.op, @.arg, @.scan \ {k},
                           IF selected /\ Unlocked(k) THEN @.locked \cup {k} ELSE @.locked)]
    /\ reply' = Silence
    /\ UNCHANGED rows

Fault_RetryUntilSelected(p, k, selected) ==
    /\ Unlocked(k)
    /\ call' = [call EXCEPT ![p] =
                  IF selected THEN Deleting(@.op, @.arg, @.scan \ {k}, @.locked \cup {k}) ELSE @]
    /\ reply' = Silence
    /\ UNCHANGED rows

LockRow(p, k, selected) ==
    /\ Unlocked(k)
    /\ call' = [call EXCEPT ![p] =
                  Deleting(@.op, @.arg, @.scan \ {k},
                           IF selected THEN @.locked \cup {k} ELSE @.locked)]
    /\ reply' = Silence
    /\ UNCHANGED rows

(* ...and the removal of all rows it locked, when it commits *)
CommitDelete(p) ==
    /\ Open(p) /\ call[p].op # "collect"
    /\ call[p].scan = {}
    /\ Remove(p, call[p].locked)
    /\ \/ reply' = [caller |-> p, op |-> call[p].op, err |-> "ok",
                    count |-> Cardinality(call[p].locked)]
       \/ Answer(p, call[p].op, "wrapped")

(* The call is canceled, or chosen to break a deadlock with another *)
AbortCall(p) ==
    /\ Open(p)
    /\ Answer(p, call[p].op, "wrapped")
    /\ call' = [call EXCEPT ![p] = Idle]
    /\ UNCHANGED rows

(* Open DELETEs each of which waits for rows that the others hold *)
Deadlocked(p) ==
    \E ring \in SUBSET Callers :
        /\ p \in ring
        /\ \A r \in ring : /\ Open(r) /\ call[r].op # "collect" /\ call[r].scan # {}
                           /\ \A k \in call[r].scan : \E q \in ring :
                                 Open(q) /\ k \in call[q].locked

-----------------------------------------------------------------------------
(* WHERE expires_at IS NOT NULL AND expires_at < $1 *)
Fault_NullIsExpired(k, cutoff) ==
    Present(k) /\ (rows[k].expires_at = Never \/ rows[k].expires_at < Micros(cutoff))

Expired(k, cutoff) == Present(k) /\ Reclaimable(rows[k].expires_at, cutoff)

ExpiredRows(cutoff) == {k \in Keys : Expired(k, cutoff)}

(* The columns of a record that carries CreationTime and Lifetime, and of one that
   carries an optional instant *)
Fault_ZeroLifetimeNeverExpires(rec) ==
    [expires_at |-> IF rec.lifetime = 0 THEN Never ELSE DerivedExpiry(rec.creation, rec.lifetime),
     payload |-> rec]

TimedRow(rec) == [expires_at |-> DerivedExpiry(rec.creation, rec.lifetime), payload |-> rec]

OptionalRow(rec) == [expires_at |-> OptionalExpiry(rec.expires), payload |-> rec]

Init ==
    /\ rows = [k \in Keys |-> Absent]
    /\ call = [p \in Callers |-> Idle]
    /\ reply = Silence
=============================================================================
