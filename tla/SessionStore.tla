---------------------------- MODULE SessionStore ----------------------------
(***************************************************************************)
(* The session store: whole-row writes without a version guard, an atomic  *)
(* append to the list of clients, and two calls that delete many rows in   *)
(* one statement, the cleanup by expiry and the revocation by subject.     *)
(*                                                                         *)
(* Calls on one row are one autocommitted statement and one action.  A     *)
(* multi-row DELETE takes several: it scans one snapshot, locks its rows   *)
(* one by one while other statements run, and removes them together when   *)
(* it commits.  "wrapped" answers come with and without an effect.         *)
(***************************************************************************)
EXTENDS Expiry, FiniteSets, Sequences, Functions

CONSTANTS
    SessionIds, Callers, Clients,
    Subjects,      \* subjects that are not empty
    NoSubject,     \* the empty subject
    Records,       \* what callers write: subject, expires and client_ids
    Cutoffs,       \* instants handed to DeleteExpired
    Absent         \* no row, SQL NULL in subject_id

Record == [subject : Subjects \cup {NoSubject}, expires : Int \cup {Never},
           client_ids : Seq(Clients)]
Row    == [subject_id : Subjects \cup {Absent}, client_ids : Seq(Clients),
           expires : Int \cup {Never}, payload : Record]

(* The core never lists a client twice *)
ASSUME RecordsAssumption ==
    Records \subseteq Record /\ \A rec \in Records : IsInjective(rec.client_ids)
ASSUME CutoffsAssumption == Cutoffs \subseteq Int
ASSUME AbsentAssumption == Absent \notin Row /\ Absent \notin Subjects \cup {NoSubject}
ASSUME NoSubjectAssumption == NoSubject \notin Subjects

VARIABLES
    rows,    \* session id -> its row in sessions, or Absent
    call,    \* caller -> the multi-row DELETE it has open
    reply,   \* the latest answer of the store, Silence before the first
    added,   \* auxiliary: session id -> clients whose append was confirmed since
             \* the row was last written as a whole
    due      \* auxiliary: caller -> sessions that its DELETE has had to take, by the
             \* records themselves, ever since it began

vars == <<rows, call, reply, added, due>>

-----------------------------------------------------------------------------
Idle == [op |-> "none"]
Silence == [op |-> "none"]
Deleting(op, arg, scan, locked) ==
    [op |-> op, arg |-> arg, scan |-> scan, locked |-> locked]

Open(p) == call[p] # Idle

(* The DELETE of no caller holds the lock on this row *)
Unlocked(id) == \A q \in Callers : Open(q) => id \notin call[q].locked

Answer(p, op, err) == reply' = [caller |-> p, op |-> op, err |-> err]

(* The statement fails and changes nothing *)
Fail(p, op) == Answer(p, op, "wrapped") /\ UNCHANGED <<rows, call, added, due>>

(* An empty subject is stored as NULL *)
Fault_EmptySubjectStored(rec) == rec.subject

SubjectColumn(rec) == IF rec.subject = NoSubject THEN Absent ELSE rec.subject

(* The columns and payload of one whole-row write *)
Fault_ZeroTimeStored(rec) ==
    [subject_id |-> SubjectColumn(rec), client_ids |-> rec.client_ids,
     expires |-> IF rec.expires = Never THEN 0 ELSE Micros(rec.expires),
     payload |-> rec]

RowOf(rec) ==
    [subject_id |-> SubjectColumn(rec), client_ids |-> rec.client_ids,
     expires |-> OptionalExpiry(rec.expires), payload |-> rec]

(* What a read returns: the decoded payload with ClientIDs from the column *)
Fault_ClientsFromPayload(id) == rows[id].payload

Loaded(id) == [rows[id].payload EXCEPT !.client_ids = rows[id].client_ids]

(* What the two multi-row DELETEs have to take, by the record: the sessions of the
   subject, and those that are overdue *)
Owned(subject, rec) == subject # NoSubject /\ rec.subject = subject

Late(rec, cutoff) == rec.expires # Never /\ Overdue(rec.expires, cutoff)

Owed(op, arg, rec) == IF op = "deleteBySubject" THEN Owned(arg, rec) ELSE Late(rec, arg)

(* The row under id is rewritten with this record *)
Spare(id, rec) ==
    due' = [q \in Callers |->
              IF Open(q) /\ ~Owed(call[q].op, call[q].arg, rec) THEN due[q] \ {id} ELSE due[q]]

Remaining(q, H) ==
    IF Open(q) THEN Deleting(call[q].op, call[q].arg, call[q].scan \ H, call[q].locked)
               ELSE call[q]

(* Deletion ends the life of a row: an open DELETE does not see one stored under
   the same id afterwards.  It also ends the DELETE of p, if p has one open. *)
Delete(p, H) ==
    /\ rows' = [id \in SessionIds |-> IF id \in H THEN Absent ELSE rows[id]]
    /\ added' = [id \in SessionIds |-> IF id \in H THEN {} ELSE added[id]]
    /\ call' = [q \in Callers |-> IF q = p THEN Idle ELSE Remaining(q, H)]
    /\ due' = [q \in Callers |-> IF q = p THEN {} ELSE due[q] \ H]

-----------------------------------------------------------------------------
(* A canceled context makes GetSession answer that the session is missing *)
GetSession(p, id) ==
    /\ ~Open(p)
    /\ \/ /\ rows[id] # Absent
          /\ reply' = [caller |-> p, op |-> "get", err |-> "ok", id |-> id, got |-> Loaded(id)]
       \/ Answer(p, "get", "missing")
       \/ Answer(p, "get", "wrapped")
    /\ UNCHANGED <<rows, call, added, due>>

GetSessionsBySubjectID(p, subject) ==
    LET found == {id \in SessionIds : rows[id] # Absent /\ rows[id].subject_id = subject} IN
    /\ ~Open(p)
    /\ \/ reply' = [caller |-> p, op |-> "list", err |-> "ok", all |-> [id \in found |-> Loaded(id)]]
       \/ Answer(p, "list", "wrapped")
    /\ UNCHANGED <<rows, call, added, due>>

(* An id that is taken fails with the wrapped unique violation *)
CreateSession(p, id, rec) ==
    /\ ~Open(p)
    /\ \/ /\ rows[id] = Absent
          /\ rows' = [rows EXCEPT ![id] = RowOf(rec)]
          /\ \E err \in {"ok", "wrapped"} : Answer(p, "create", err)
          /\ UNCHANGED <<call, added, due>>
       \/ Fail(p, "create")

(* The whole row is replaced, whatever it holds; a missing one stays missing *)
Fault_UpdateUpserts(p, id, rec) ==
    /\ ~Open(p)
    /\ Unlocked(id)
    /\ rows' = [rows EXCEPT ![id] = RowOf(rec)]
    /\ added' = [added EXCEPT ![id] = {}]
    /\ Spare(id, rec)
    /\ Answer(p, "update", "ok")
    /\ UNCHANGED call

Fault_UpdateKeepsSubjectColumn(p, id, rec) ==
    /\ ~Open(p)
    /\ rows[id] # Absent
    /\ Unlocked(id)
    /\ rows' = [rows EXCEPT ![id] = [RowOf(rec) EXCEPT !.subject_id = rows[id].subject_id]]
    /\ added' = [added EXCEPT ![id] = {}]
    /\ Spare(id, rec)
    /\ Answer(p, "update", "ok")
    /\ UNCHANGED call

UpdateSession(p, id, rec) ==
    /\ ~Open(p)
    /\ \/ /\ rows[id] # Absent
          /\ Unlocked(id)
          /\ rows' = [rows EXCEPT ![id] = RowOf(rec)]
          /\ added' = [added EXCEPT ![id] = {}]
          /\ Spare(id, rec)
          /\ \E err \in {"ok", "wrapped"} : Answer(p, "update", err)
          /\ UNCHANGED call
       \/ /\ rows[id] = Absent
          /\ Answer(p, "update", "ok")
          /\ UNCHANGED <<rows, call, added, due>>
       \/ Fail(p, "update")

DeleteSession(p, id) ==
    /\ ~Open(p)
    /\ \/ /\ Unlocked(id)
          /\ Delete(p, {id})
          /\ \E err \in {"ok", "wrapped"} : Answer(p, "delete", err)
       \/ Fail(p, "delete")

(* array_append(client_ids, $2) WHERE ... AND NOT ($2 = ANY(client_ids)) *)
Fault_AppendUnconditionally(list, client) == Append(list, client)

Appended(list, client) ==
    IF \E i \in DOMAIN list : list[i] = client THEN list ELSE Append(list, client)

AddClientID(p, id, client) ==
    /\ ~Open(p)
    /\ \/ /\ rows[id] # Absent
          /\ Unlocked(id)
          /\ rows' = [rows EXCEPT ![id].client_ids = Appended(@, client)]
          /\ \/ Answer(p, "addClient", "ok")
                /\ added' = [added EXCEPT ![id] = @ \cup {client}]
             \/ Answer(p, "addClient", "wrapped") /\ UNCHANGED added
          /\ UNCHANGED <<call, due>>
       \/ /\ rows[id] = Absent
          /\ Answer(p, "addClient", "ok")
          /\ UNCHANGED <<rows, call, added, due>>
       \/ Fail(p, "addClient")

-----------------------------------------------------------------------------
(* The WHERE clauses of the two multi-row DELETEs *)
Selects(op, arg, id) ==
    /\ rows[id] # Absent
    /\ \/ op = "deleteBySubject" /\ rows[id].subject_id = arg
       \/ op = "deleteExpired" /\ Reclaimable(rows[id].expires, arg)

Begin(p, op, arg) ==
    /\ ~Open(p)
    /\ call' = [call EXCEPT ![p] =
                  Deleting(op, arg, {id \in SessionIds : Selects(op, arg, id)}, {})]
    /\ due' = [due EXCEPT ![p] =
                 {id \in SessionIds : rows[id] # Absent /\ Owed(op, arg, rows[id].payload)}]
    /\ UNCHANGED <<rows, reply, added>>

DeleteSessionsBySubjectID(p, subject) == Begin(p, "deleteBySubject", subject)

DeleteExpired(p, cutoff) == Begin(p, "deleteExpired", cutoff)

(* The DELETE reaches a row of its snapshot and, unless the row was changed to
   escape the WHERE clause, locks it *)
Fault_DeleteWhatWasScanned(p, id) ==
    /\ Open(p)
    /\ id \in call[p].scan
    /\ Unlocked(id)
    /\ call' = [call EXCEPT ![p] = Deleting(@.op, @.arg, @.scan \ {id}, @.locked \cup {id})]
    /\ UNCHANGED <<rows, reply, added, due>>

LockRow(p, id) ==
    /\ Open(p)
    /\ id \in call[p].scan
    /\ Unlocked(id)
    /\ call' = [call EXCEPT ![p] =
                  Deleting(@.op, @.arg, @.scan \ {id},
                           IF Selects(@.op, @.arg, id) THEN @.locked \cup {id} ELSE @.locked)]
    /\ UNCHANGED <<rows, reply, added, due>>

Commit(p) ==
    /\ Open(p)
    /\ call[p].scan = {}
    /\ Delete(p, call[p].locked)
    /\ \/ reply' = [caller |-> p, op |-> call[p].op, err |-> "ok",
                    count |-> Cardinality(call[p].locked)]
       \/ Answer(p, call[p].op, "wrapped")

(* The DELETE is canceled, or chosen to break a deadlock with another *)
Abort(p) ==
    /\ Open(p)
    /\ Answer(p, call[p].op, "wrapped")
    /\ call' = [call EXCEPT ![p] = Idle]
    /\ due' = [due EXCEPT ![p] = {}]
    /\ UNCHANGED <<rows, added>>

-----------------------------------------------------------------------------
Init ==
    /\ rows = [id \in SessionIds |-> Absent]
    /\ call = [p \in Callers |-> Idle]
    /\ reply = Silence
    /\ added = [id \in SessionIds |-> {}]
    /\ due = [p \in Callers |-> {}]

Next ==
    \E p \in Callers :
        \/ \E id \in SessionIds :
              \/ GetSession(p, id)
              \/ DeleteSession(p, id)
              \/ LockRow(p, id)
              \/ \E rec \in Records : CreateSession(p, id, rec) \/ UpdateSession(p, id, rec)
              \/ \E client \in Clients : AddClientID(p, id, client)
        \/ \E subject \in Subjects \cup {NoSubject} :
              \/ GetSessionsBySubjectID(p, subject)
              \/ DeleteSessionsBySubjectID(p, subject)
        \/ \E cutoff \in Cutoffs : DeleteExpired(p, cutoff)
        \/ Commit(p)
        \/ Abort(p)

Spec == Init /\ [][Next]_vars

-----------------------------------------------------------------------------
DeleteCall ==
    [op : {"deleteBySubject"}, arg : Subjects \cup {NoSubject},
     scan : SUBSET SessionIds, locked : SUBSET SessionIds]
    \cup [op : {"deleteExpired"}, arg : Cutoffs,
          scan : SUBSET SessionIds, locked : SUBSET SessionIds]

(* Every variable holds a value of its type. *)
TypeOK ==
    /\ rows \in [SessionIds -> Row \cup {Absent}]
    /\ call \in [Callers -> {Idle} \cup DeleteCall]
    /\ added \in [SessionIds -> SUBSET Clients]
    /\ due \in [Callers -> SUBSET SessionIds]

(* A session lists every client whose append was confirmed since its row was last
   written as a whole, and lists none twice, however appends, reads, cleanups and
   revocations interleave. *)
AppendsSurvive ==
    \A id \in SessionIds : rows[id] # Absent =>
        /\ \A client \in added[id] : \E i \in DOMAIN rows[id].client_ids :
               rows[id].client_ids[i] = client
        /\ IsInjective(rows[id].client_ids)

(* A read shows those clients, although the payload it decodes is a snapshot
   taken before they were appended. *)
ReadsShowClients ==
    [][\A id \in SessionIds :
          (reply' # reply /\ reply'.op = "get" /\ reply'.err = "ok" /\ reply'.id = id)
          => \A client \in added[id] : \E i \in DOMAIN reply'.got.client_ids :
                 reply'.got.client_ids[i] = client]_vars

(* A revocation that returns has removed every session that belonged to the
   subject, by its own record, from the moment the call began: none is left behind
   because a refresh rewrote its row meanwhile.  So has a cleanup removed every
   session that was overdue all the while, although it compares rounded columns. *)
DeletesAreComplete ==
    [][\A p \in Callers :
          (Open(p) /\ ~Open(p)' /\ reply'.err = "ok")
          => \A id \in due[p] : rows'[id] = Absent]_vars

(* It removes nothing else: a session that was moved to another subject while the
   DELETE ran is kept, and the empty subject names no session at all. *)
RevocationIsExact ==
    [][\A p \in Callers, id \in SessionIds :
          /\ Open(p) /\ call[p].op = "deleteBySubject" /\ ~Open(p)'
          /\ rows[id] # Absent /\ rows'[id] = Absent
          => rows[id].payload.subject = call[p].arg /\ call[p].arg # NoSubject]_vars

(* Cleanup removes expired sessions only, by the record's own Expires at the
   moment of removal: a session without an expiry is never removed, and neither
   is one that a concurrent refresh renewed. *)
CleanupIsSafe ==
    [][\A p \in Callers, id \in SessionIds :
          /\ Open(p) /\ call[p].op = "deleteExpired" /\ ~Open(p)'
          /\ rows[id] # Absent /\ rows'[id] = Absent
          => LET expires == rows[id].payload.expires
             IN  expires # Never /\ expires < call[p].arg]_vars

(* A session that is gone comes back only when it is created: the update of a
   caller that read it earlier does not undo a revocation. *)
NoResurrection ==
    [][\A id \in SessionIds :
          rows[id] = Absent /\ rows'[id] # Absent => reply'.op = "create"]_vars

-----------------------------------------------------------------------------
Ended(row, cutoff) == row.payload.expires # Never /\ row.payload.expires < cutoff

Owes(by, row) ==
    IF by.op = "revoke" THEN Owned(by.arg, row.payload) ELSE Late(row.payload, by.arg)

Takes(by, row) == IF by.op = "revoke" THEN Owned(by.arg, row.payload) ELSE Ended(row, by.arg)

IsItself(target, id, row) == target = id

ByKey(by) == FALSE

Demands ==
    [op : {"revoke"}, arg : Subjects \cup {NoSubject}]
    \cup [op : {"removeExpired"}, arg : Cutoffs]

OpName(op) ==
    CASE op = "create"          -> "store"
      [] op = "addClient"       -> "update"
      [] op = "delete"          -> "remove"
      [] op = "deleteBySubject" -> "revoke"
      [] op = "deleteExpired"   -> "removeExpired"
      [] OTHER                  -> op

Outcome ==
    IF reply = Silence THEN Silence
    ELSE [caller |-> reply.caller, op |-> OpName(reply.op), err |-> reply.err]

Clearings ==
    [p \in Callers |->
        IF Open(p)
        THEN [busy |-> TRUE, by |-> [op |-> OpName(call[p].op), arg |-> call[p].arg],
              due |-> due[p], spared |-> {}]
        ELSE [busy |-> FALSE]]

RS == INSTANCE RevocableStore
        WITH Keys <- SessionIds, store <- rows, clearing <- Clearings, outcome <- Outcome,
             Targets <- SessionIds, Meets <- IsItself, Replaces <- FALSE

(* The store, with its row locks and columns, does to the sessions what the abstract
   store does: nothing but a creation brings a session into being, and a revocation
   is one removal, of the sessions that are the subject's at that moment. *)
ImplementsRevocableStore == RS!Spec
=============================================================================
