--------------------------- MODULE KeyRecordStore ---------------------------
(***************************************************************************)
(* The key record store: records of signing keys under an optimistic       *)
(* version guard and a partial unique index, which lets at most one record *)
(* that is not retired carry a public id.  Unlike the token stores it has  *)
(* no cleanup, reports a missing record on Delete, and answers a read      *)
(* under a canceled context with the missing sentinel.                     *)
(*                                                                         *)
(* Every call is one autocommitted statement and one action, except an     *)
(* update that matches no row, which looks the handle up again.            *)
(***************************************************************************)
EXTENDS Naturals

CONSTANTS
    Handles,      \* primary keys of key_records
    Callers,      \* goroutines of the host processes that share the database
    PublicIds,
    Phases,
    Retired,      \* the phase the partial unique index leaves out
    MaxVersion,   \* math.MaxInt64, the largest value of the version column
    Absent        \* no row, no answer, nothing read

Versions == 1..MaxVersion

(* What the store reads of a record, beside its handle and version *)
Bodies  == [public_id : PublicIds, phase : Phases]
Payload == [body : Bodies, version : Versions]
Row     == [public_id : PublicIds, phase : Phases, version : Versions, payload : Payload]
Copy    == [handle : Handles, payload : Payload]

ASSUME PhaseAssumption == Retired \in Phases
ASSUME PublicIdAssumption == PublicIds # {}
ASSUME MaxVersionAssumption == MaxVersion \in Nat \ {0}
ASSUME AbsentAssumption == Absent \notin Row /\ Absent \notin Payload /\ Absent \notin Copy

VARIABLES
    rows,    \* handle -> its row in key_records, or Absent
    call,    \* caller -> the update it has between its two statements
    copy,    \* caller -> the record object the store last filled in for it, while
             \* the row it stands for lives
    reply    \* the latest answer of the store

vars == <<rows, call, copy, reply>>

-----------------------------------------------------------------------------
Idle == [op |-> "none"]
Updating(h, expected) == [op |-> "update", handle |-> h, expected |-> expected]

Answer(p, op, err) == reply' = [caller |-> p, op |-> op, err |-> err]

(* The call fails and changes nothing: encoding, transport, a canceled context *)
Fail(p, op) == Answer(p, op, "wrapped") /\ UNCHANGED <<rows, copy>>

(* The object the caller passed in, or was returned, now holds this payload *)
WriteBack(p, h, payload) ==
    copy' = [copy EXCEPT ![p] = [handle |-> h, payload |-> payload]]

NewRow(body, column, version) ==
    [public_id |-> body.public_id, phase |-> body.phase, version |-> column,
     payload |-> [body |-> body, version |-> version]]

(* idx_key_records_public_id_unique ... WHERE phase <> 'retired' *)
Fault_UniqueOnlyOnInsert(h, body) ==
    /\ rows[h] = Absent
    /\ body.phase # Retired
    /\ \E g \in Handles \ {h} : /\ rows[g] # Absent
                                /\ rows[g].phase # Retired
                                /\ rows[g].public_id = body.public_id

IndexClash(h, body) ==
    /\ body.phase # Retired
    /\ \E g \in Handles \ {h} : /\ rows[g] # Absent
                                /\ rows[g].phase # Retired
                                /\ rows[g].public_id = body.public_id

-----------------------------------------------------------------------------
(* A canceled context makes Get answer that the record is missing *)
Get(p, h) ==
    /\ call[p] = Idle
    /\ \/ /\ rows[h] # Absent
          /\ reply' = [caller |-> p, op |-> "get", err |-> "ok", got |-> rows[h].payload]
          /\ WriteBack(p, h, rows[h].payload)
       \/ Answer(p, "get", "missing") /\ UNCHANGED copy
       \/ Answer(p, "get", "wrapped") /\ UNCHANGED copy
    /\ UNCHANGED <<rows, call>>

List(p) ==
    /\ call[p] = Idle
    /\ \/ reply' = [caller |-> p, op |-> "list", err |-> "ok",
                    all |-> [h \in {g \in Handles : rows[g] # Absent} |-> rows[h].payload]]
       \/ Answer(p, "list", "wrapped")
    /\ UNCHANGED <<rows, call, copy>>

Create(p, h, body) ==
    /\ call[p] = Idle
    /\ \/ /\ rows[h] = Absent
          /\ ~IndexClash(h, body)
          /\ rows' = [rows EXCEPT ![h] = NewRow(body, 1, 1)]
          /\ \/ Answer(p, "store", "ok") /\ WriteBack(p, h, [body |-> body, version |-> 1])
             \/ Answer(p, "store", "wrapped") /\ UNCHANGED copy
       \/ /\ rows[h] # Absent \/ IndexClash(h, body)
          /\ Answer(p, "store", "duplicate")
          /\ UNCHANGED <<rows, copy>>
       \/ Fail(p, "store")
    /\ UNCHANGED call

(* SET version = version + 1, public_id = $2, phase = $3, payload = $4 *)
Fault_PhaseColumnNotSet(h, body, expected) ==
    [NewRow(body, rows[h].version + 1, expected + 1) EXCEPT !.phase = rows[h].phase]

Replacement(h, body, expected) == NewRow(body, rows[h].version + 1, expected + 1)

(* WHERE handle = $1 AND version = $5 *)
Fault_GuardAcceptsOlder(h, expected) == rows[h] # Absent /\ rows[h].version >= expected

Matches(h, expected) == rows[h] # Absent /\ rows[h].version = expected

(* An expectation at the top of the column's range is refused up front *)
Fault_RangeCheckMissing(expected) == TRUE

InRange(expected) == expected < MaxVersion

Update(p, h, body, expected) ==
    /\ call[p] = Idle
    /\ \/ /\ InRange(expected)
          /\ Matches(h, expected)
          /\ ~IndexClash(h, body)
          /\ rows' = [rows EXCEPT ![h] = Replacement(h, body, expected)]
          /\ \/ /\ Answer(p, "update", "ok")
                /\ WriteBack(p, h, [body |-> body, version |-> expected + 1])
             \/ Answer(p, "update", "wrapped") /\ UNCHANGED copy
          /\ UNCHANGED call
       \/ /\ InRange(expected)
          /\ Matches(h, expected)
          /\ IndexClash(h, body)
          /\ Answer(p, "update", "duplicate")
          /\ UNCHANGED <<rows, call, copy>>
       \/ /\ InRange(expected)
          /\ ~Matches(h, expected)
          /\ call' = [call EXCEPT ![p] = Updating(h, expected)]
          /\ UNCHANGED <<rows, copy, reply>>
       \/ Fail(p, "update") /\ UNCHANGED call

(* SELECT 1: is the handle missing, or was it only the version *)
RecheckExistence(p) ==
    /\ call[p].op = "update"
    /\ \/ rows[call[p].handle] # Absent /\ Answer(p, "update", "conflict")
       \/ rows[call[p].handle] = Absent /\ Answer(p, "update", "missing")
       \/ Answer(p, "update", "wrapped")
    /\ call' = [call EXCEPT ![p] = Idle]
    /\ UNCHANGED <<rows, copy>>

(* Objects read from a deleted row stand for nothing any more *)
Fault_DeleteNothingSucceeds(p, h) ==
    /\ call[p] = Idle
    /\ rows' = [rows EXCEPT ![h] = Absent]
    /\ copy' = [q \in Callers |->
                  IF copy[q] # Absent /\ copy[q].handle = h THEN Absent ELSE copy[q]]
    /\ Answer(p, "remove", "ok")
    /\ UNCHANGED call

Delete(p, h) ==
    /\ call[p] = Idle
    /\ \/ /\ rows[h] # Absent
          /\ rows' = [rows EXCEPT ![h] = Absent]
          /\ copy' = [q \in Callers |->
                        IF copy[q] # Absent /\ copy[q].handle = h THEN Absent ELSE copy[q]]
          /\ \E err \in {"ok", "wrapped"} : Answer(p, "remove", err)
       \/ /\ rows[h] = Absent
          /\ Answer(p, "remove", "missing")
          /\ UNCHANGED <<rows, copy>>
       \/ Fail(p, "remove")
    /\ UNCHANGED call

-----------------------------------------------------------------------------
Init ==
    /\ rows = [h \in Handles |-> Absent]
    /\ call = [p \in Callers |-> Idle]
    /\ copy = [p \in Callers |-> Absent]
    /\ reply = Absent

Next ==
    \E p \in Callers :
        \/ \E h \in Handles :
              \/ Get(p, h)
              \/ Delete(p, h)
              \/ \E body \in Bodies :
                    \/ Create(p, h, body)
                    \/ \E expected \in Versions : Update(p, h, body, expected)
        \/ List(p)
        \/ RecheckExistence(p)

Spec == Init /\ [][Next]_vars

-----------------------------------------------------------------------------
UpdateCall == [op : {"update"}, handle : Handles, expected : Versions]

(* Every variable holds a value of its type: in particular the version column
   and the encoded version never leave the range of a bigint, because Update
   refuses the expectation from which the next version would. *)
TypeOK ==
    /\ rows \in [Handles -> Row \cup {Absent}]
    /\ call \in [Callers -> {Idle} \cup UpdateCall]
    /\ copy \in [Callers -> Copy \cup {Absent}]

(* The columns behind the unique index and the guard say what the payload says:
   Create and Update write them with the payload, in one statement. *)
ColumnsMirrorPayload ==
    \A h \in Handles : rows[h] # Absent =>
        /\ rows[h].version = rows[h].payload.version
        /\ rows[h].public_id = rows[h].payload.body.public_id
        /\ rows[h].phase = rows[h].payload.body.phase

(* Of the records as callers read them, no two that are not retired share a
   public id, whichever way they got there: created, given another public id,
   or brought back from retirement by an update. *)
UniquePublicIds ==
    \A g, h \in Handles :
        /\ g # h /\ rows[g] # Absent /\ rows[h] # Absent
        /\ rows[g].payload.body.phase # Retired
        /\ rows[h].payload.body.phase # Retired
        => rows[g].payload.body.public_id # rows[h].payload.body.public_id

(* A record object a caller holds is never ahead of the row, and is the row's
   content if it carries the row's version: an Update guarded with the version
   of the caller's object replaces what the caller has seen, so two callers
   that work from the same version cannot both succeed. *)
VersionIdentifiesContent ==
    \A p \in Callers : copy[p] # Absent =>
        LET row == rows[copy[p].handle]
        IN  /\ row # Absent
            /\ copy[p].payload.version <= row.payload.version
            /\ copy[p].payload.version = row.payload.version => copy[p].payload = row.payload

-----------------------------------------------------------------------------
Collide(a, b) == a.phase # Retired /\ b.phase # Retired /\ a.public_id = b.public_id
NeverExpired(body, cutoff) == FALSE

(* What reads return: the payloads, without the columns beside them *)
StoredPayloads == [h \in Handles |-> IF rows[h] = Absent THEN Absent ELSE rows[h].payload]

VS == INSTANCE VersionedStore
        WITH store <- StoredPayloads, Cutoffs <- {}, Expired <- NeverExpired,
             RemoveReportsMissing <- TRUE, CanceledReadIsMissing <- TRUE

(* The store gives every caller the answers of the atomic versioned store, with
   the duplicate sentinel for a public id that is taken as for a handle. *)
ImplementsVersionedStore == VS!Spec
=============================================================================
