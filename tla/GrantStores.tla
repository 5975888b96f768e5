----------------------------- MODULE GrantStores -----------------------------
(***************************************************************************)
(* The two stores whose records are replaced in place and found by their   *)
(* columns: persisted grants and user consents.  As with the handle        *)
(* stores, a behaviour is one of one of the two tables.                    *)
(***************************************************************************)
EXTENDS PersistedGrantStore, UserConsentStore

VARIABLES
    table,   \* the table this behaviour is about
    due      \* auxiliary: caller -> what its DELETE has had to take, by the records
             \* themselves, ever since it began

vars == <<rows, call, reply, table, due>>

-----------------------------------------------------------------------------
(* The WHERE clause of an open DELETE *)
Selected(p, k) ==
    IF call[p].op = "revoke" THEN k \in Filtered(call[p].arg) ELSE Expired(k, call[p].arg)

LockNext(p, k) ==
    /\ Open(p)
    /\ k \in call[p].scan
    /\ LockRow(p, k, Selected(p, k))

CallNext(p) ==
    \/ table = "persisted_grants" /\ PersistedGrantNext(p)
    \/ table = "user_consents" /\ UserConsentNext(p)
    \/ \E k \in Keys : LockNext(p, k)
    \/ CommitDelete(p)
    \/ AbortCall(p)

(* A record and the conditions of a filter, each compared by name *)
Matching(filter, grant) ==
    /\ \A field \in {"subject", "session", "client", "type"} :
          filter[field] \in {Unset, grant[field]}
    /\ filter.clients = {} \/ grant.client \in filter.clients
    /\ filter.types = {} \/ grant.type \in filter.types

(* The two WHERE clauses on the record instead of its columns; no filter is for
   consents.  A cleanup has to take what is overdue, and may take what has expired. *)
Chosen(filter, row) == row.payload \in Grants /\ Matching(filter, row.payload)

Late(row, cutoff) == row.payload.expires # Never /\ Overdue(row.payload.expires, cutoff)

Owes(by, row) == IF by.op = "revoke" THEN Chosen(by.arg, row) ELSE Late(row, by.arg)

Observe ==
    /\ UNCHANGED table
    /\ due' = [p \in Callers |->
                 IF Open(p)'
                 THEN {k \in (IF Open(p) THEN due[p] ELSE Keys) :
                          rows'[k] # Absent /\ Owes(call'[p], rows'[k])}
                 ELSE {}]

-----------------------------------------------------------------------------
GrantInit ==
    /\ Init
    /\ table \in {"persisted_grants", "user_consents"}
    /\ due = [p \in Callers |-> {}]

Next == \E p \in Callers : CallNext(p) /\ Observe

Spec == GrantInit /\ [][Next]_vars

(* As for the handle stores: locks are served in order, a DELETE that has its rows
   commits, and the deadlock detector cancels one of those that wait for each other *)
Fairness ==
    /\ \A p \in Callers :
          /\ SF_vars(\E k \in Keys : LockNext(p, k) /\ Observe)
          /\ WF_vars(CommitDelete(p) /\ Observe)
    /\ WF_vars(\E p \in Callers : Deadlocked(p) /\ AbortCall(p) /\ Observe)

FairSpec == Spec /\ Fairness

-----------------------------------------------------------------------------
PersistedGrantRow ==
    [subject_id : Names, session_id : Names, client_id : Names, type : Names,
     expires_at : Int \cup {Never}, payload : Grants]
UserConsentRow ==
    [subject_id : {key[1] : key \in Keys}, client_id : {key[2] : key \in Keys},
     expires_at : Int \cup {Never}, payload : Consents]

ASSUME AbsentAssumption == Absent \notin PersistedGrantRow \cup UserConsentRow

RowType == IF table = "persisted_grants" THEN PersistedGrantRow ELSE UserConsentRow

DeleteCall ==
    [op : {"revoke"}, arg : Filters, scan : SUBSET Keys, locked : SUBSET Keys]
    \cup [op : {"removeExpired"}, arg : Cutoffs, scan : SUBSET Keys, locked : SUBSET Keys]

(* Every variable holds a value of its type; no column but expires_at is NULL. *)
TypeOK ==
    /\ table \in {"persisted_grants", "user_consents"}
    /\ rows \in [Keys -> RowType \cup {Absent}]
    /\ call \in [Callers -> {Idle} \cup DeleteCall]
    /\ due \in [Callers -> SUBSET Keys]

(* Every column that a filter, a listing or a cleanup reads says what the record
   beside it says, however often the record was replaced: no value of an earlier
   grant survives the upsert, and a consent lies under its own subject and client. *)
ColumnsMirrorRecord ==
    \A k \in Keys : Present(k) =>
        LET row == rows[k] IN
        /\ row.subject_id = row.payload.subject
        /\ row.client_id = row.payload.client
        /\ row.expires_at = OptionalExpiry(row.payload.expires)
        /\ IF table = "persisted_grants"
           THEN row.session_id = row.payload.session /\ row.type = row.payload.type
           ELSE k = NaturalKey(row.payload)

(* A listing returns exactly the records that match, by their own fields: every
   condition that is set, and none for an empty list or an empty string. *)
ListingsAreExact ==
    [][(reply' # reply /\ reply'.op = "list" /\ reply'.err = "ok")
       => reply'.all =
             [k \in {j \in Keys : Present(j) /\
                        IF table = "persisted_grants" THEN Matching(reply'.arg, rows[j].payload)
                                                      ELSE rows[j].payload.subject = reply'.arg}
              |-> rows[k].payload]]_vars

(* A revocation by filter that returns has removed every grant that matched the
   filter all the while, including those that were replaced by another matching
   grant under its feet.  So has a cleanup removed what was overdue all the while,
   although it compares rounded columns. *)
DeletesAreComplete ==
    [][\A p \in Callers :
          (Open(p) /\ ~Open(p)' /\ reply'.err = "ok") => \A k \in due[p] : ~Present(k)']_vars

(* It removes nothing else: a grant that was replaced by one outside the filter
   after the DELETE had scanned it is kept. *)
RevocationIsExact ==
    [][\A p \in Callers, k \in Keys :
          /\ Open(p) /\ call[p].op = "revoke" /\ ~Open(p)'
          /\ Present(k) /\ ~Present(k)'
          => Matching(call[p].arg, rows[k].payload)]_vars

(* Cleanup never takes a live record: a grant or consent that it deletes has expired
   by the record stored at that moment, even when it was renewed after the DELETE
   had scanned it, and one without an expiration is never deleted. *)
CleanupIsSafe ==
    [][\A p \in Callers, k \in Keys :
          /\ Open(p) /\ call[p].op = "removeExpired" /\ ~Open(p)'
          /\ Present(k) /\ ~Present(k)'
          => LET expires == rows[k].payload.expires
             IN  expires # Never /\ expires < call[p].arg]_vars

(* Every call comes back, although revocations with different filters and cleanups
   may lock the same rows in opposite orders. *)
CallsReturn == \A p \in Callers : Open(p) ~> ~Open(p)

-----------------------------------------------------------------------------
Ended(row, cutoff) == row.payload.expires # Never /\ row.payload.expires < cutoff

Takes(by, row) == IF by.op = "revoke" THEN Chosen(by.arg, row) ELSE Ended(row, by.arg)

Nothing(target, k, row) == FALSE

ByKey(by) == FALSE

Demands == [op : {"revoke"}, arg : Filters] \cup [op : {"removeExpired"}, arg : Cutoffs]

Outcome ==
    IF reply = Silence THEN Silence
    ELSE [caller |-> reply.caller, op |-> reply.op, err |-> reply.err]

Clearings ==
    [p \in Callers |->
        IF Open(p)
        THEN [busy |-> TRUE, by |-> [op |-> call[p].op, arg |-> call[p].arg],
              due |-> due[p], spared |-> {}]
        ELSE [busy |-> FALSE]]

RS == INSTANCE RevocableStore
        WITH store <- rows, clearing <- Clearings, outcome <- Outcome,
             Targets <- {}, Meets <- Nothing, Replaces <- TRUE

(* The two stores, with their row locks and columns, do to the records what the
   abstract store does: a revocation or cleanup that waits for others, meets rows
   that were replaced or is canceled is one removal, of what it may remove. *)
ImplementsRevocableStore == RS!Spec
=============================================================================
