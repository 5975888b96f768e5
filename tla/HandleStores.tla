---------------------------- MODULE HandleStores ----------------------------
(***************************************************************************)
(* The four stores whose rows are found by a handle and inserted once:     *)
(* authorization codes, reference tokens, device authorizations and        *)
(* backchannel authentication requests.  Each has a table of its own and   *)
(* no statement touches two, so a behaviour is one of one of the stores;   *)
(* what is claimed of removal, expiry and progress is claimed of all four. *)
(***************************************************************************)
EXTENDS AuthorizationCodeStore, ReferenceTokenStore, DeviceFlowStore,
        BackchannelAuthenticationRequestStore

VARIABLES
    table,   \* the table this behaviour is about
    lived,   \* auxiliary: caller -> keys whose row has lived since its open call began,
             \* and has been overdue all the while if that call is a cleanup
    gone,    \* auxiliary: keys whose removal was confirmed, until they are stored again
    found    \* auxiliary: caller -> the key whose record it last read, by either of
             \* its two codes, while the row lives; or Absent

observers == <<lived, gone, found>>
vars == <<rows, call, reply, table, lived, gone, found>>

Tables == {"authorization_codes", "reference_tokens", "device_codes", "backchannel_auth_requests"}

-----------------------------------------------------------------------------
(* The WHERE clause of an open DELETE; the handle of a row never changes *)
Selected(p, k) == call[p].op = "removeExpired" => Expired(k, call[p].arg)

LockNext(p, k) ==
    /\ Open(p) /\ call[p].op # "collect"
    /\ k \in call[p].scan
    /\ LockRow(p, k, Selected(p, k))

CallNext(p) ==
    \/ table = "authorization_codes" /\ AuthorizationCodeNext(p)
    \/ table = "reference_tokens" /\ ReferenceTokenNext(p)
    \/ table = "device_codes" /\ DeviceFlowNext(p)
    \/ table = "backchannel_auth_requests" /\ BackchannelNext(p)
    \/ \E k \in Keys : LockNext(p, k)
    \/ CommitDelete(p)
    \/ AbortCall(p)

(* The keys whose removal the answer of this step confirms *)
Confirmed ==
    IF reply' = Silence \/ reply'.err # "ok" THEN {}
    ELSE IF reply'.op = "remove" THEN {reply'.key}
    ELSE {k \in Keys : Present(k) /\ ~Present(k)'}

(* The instant a record itself says it expires at, in exact arithmetic, is before the
   cutoff, or so long before that no column can hide it; a request without an instant
   never expires *)
Lapsed(name, payload, cutoff) ==
    IF name = "backchannel_auth_requests"
    THEN payload.expires # Never /\ payload.expires < cutoff
    ELSE Expiry(payload.creation, payload.lifetime) < cutoff

Late(name, payload, cutoff) ==
    IF name = "backchannel_auth_requests"
    THEN payload.expires # Never /\ Overdue(payload.expires, cutoff)
    ELSE Overdue(Expiry(payload.creation, payload.lifetime), cutoff)

Observe ==
    /\ UNCHANGED table
    /\ lived' = [p \in Callers |->
                   IF Open(p)'
                   THEN {k \in (IF Open(p) THEN lived[p] ELSE Keys) :
                            /\ Present(k)'
                            /\ call'[p].op = "removeExpired"
                               => Late(table, rows'[k].payload, call'[p].arg)}
                   ELSE {}]
    /\ gone' = (gone \cup Confirmed)
                  \ {k \in Keys : ~Present(k) /\ Present(k)' /\ reply'.op = "store"}
    /\ found' = [p \in Callers |->
                   IF /\ table = "device_codes"
                      /\ reply'.op = "get" /\ reply'.caller = p /\ reply'.err = "ok"
                   THEN reply'.key
                   ELSE IF found[p] # Absent /\ rows'[found[p]] # Absent THEN found[p] ELSE Absent]

-----------------------------------------------------------------------------
HandleInit ==
    /\ Init
    /\ table \in Tables
    /\ lived = [p \in Callers |-> {}]
    /\ gone = {}
    /\ found = [p \in Callers |-> Absent]

Next == \E p \in Callers : CallNext(p) /\ Observe

Spec == HandleInit /\ [][Next]_vars

(* A call that has begun runs on: a caller with its list of handles sends the next
   statement, a lock queue is served in order, a DELETE that has its rows commits,
   and the deadlock detector cancels one of those that wait for each other. *)
Fairness ==
    /\ \A p \in Callers :
          /\ WF_vars(RevokeCollected(p) /\ Observe)
          /\ SF_vars(\E k \in Keys : LockNext(p, k) /\ Observe)
          /\ WF_vars(CommitDelete(p) /\ Observe)
    /\ WF_vars(\E p \in Callers : Deadlocked(p) /\ AbortCall(p) /\ Observe)

FairSpec == Spec /\ Fairness

-----------------------------------------------------------------------------
CodeRow == [expires_at : Int, payload : Codes]
TokenRow == [expires_at : Int, payload : Tokens]
DeviceCodeRow == [user_code : UserCodes, expires_at : Int, payload : DeviceCodes]
RequestRow == [expires_at : Int \cup {Never}, payload : Requests]

ASSUME AbsentAssumption ==
    Absent \notin CodeRow \cup TokenRow \cup DeviceCodeRow \cup RequestRow

RowType ==
    CASE table = "authorization_codes" -> CodeRow
      [] table = "reference_tokens" -> TokenRow
      [] table = "device_codes" -> DeviceCodeRow
      [] table = "backchannel_auth_requests" -> RequestRow

DeleteCall ==
    [op : {"collect", "revoke"}, arg : Subjects \X Clients,
     scan : SUBSET Keys, locked : SUBSET Keys]
    \cup [op : {"removeExpired"}, arg : Cutoffs, scan : SUBSET Keys, locked : SUBSET Keys]

(* Every variable holds a value of its type. *)
TypeOK ==
    /\ table \in Tables
    /\ rows \in [Keys -> RowType \cup {Absent}]
    /\ call \in [Callers -> {Idle} \cup DeleteCall]
    /\ lived \in [Callers -> SUBSET Keys]
    /\ gone \in SUBSET Keys
    /\ found \in [Callers -> Keys \cup {Absent}]

(* Cleanup never takes a live record: what a RemoveExpired deletes has expired by
   the record stored at the moment of removal, even if an update extended it after
   the DELETE had scanned the table, and a request without expiry stays. *)
CleanupIsSafe ==
    [][\A p \in Callers, k \in Keys :
          /\ Open(p) /\ call[p].op = "removeExpired" /\ ~Open(p)'
          /\ Present(k) /\ ~Present(k)'
          => Lapsed(table, rows[k].payload, call[p].arg)]_vars

(* A confirmed removal holds.  Once a consumed code, a revoked token or a finished
   request was answered as removed, no row of that key exists until one is stored:
   not because the DELETE met a row that a cleanup holds and then gives back, and
   not because the update of a caller that read the record earlier writes it anew. *)
RemovalsHold == \A k \in gone : ~Present(k)

(* Codes and reference tokens never change while they live, whatever else is stored
   under their handle; the other two change only by an update, and a device
   authorization keeps its user code. *)
RecordsKeepTheirHandle ==
    [][\A k \in Keys :
          Present(k) /\ Present(k)' /\ rows'[k] # rows[k]
          => /\ table \in {"device_codes", "backchannel_auth_requests"}
             /\ reply'.op = "update"
             /\ table = "device_codes" => rows'[k].user_code = rows[k].user_code]_vars

(* A decision reaches the authorization it was made for.  While the authorization a
   caller found is there, the caller's update by that user code changes it and no
   other; another one is hit only after the found one is gone. *)
UpdatesReachWhatWasFound ==
    [][\A p \in Callers, k \in Keys :
          /\ table = "device_codes"
          /\ reply'.op = "update" /\ reply'.caller = p /\ rows'[k] # rows[k]
          /\ found[p] # Absent /\ rows[found[p]].user_code = rows[k].user_code
          => k = found[p]]_vars

Cleans(p) == call[p].op = "removeExpired"
Belongs(token, pair) == <<token.subject, token.client>> = pair

(* A revocation by subject and client that returns has removed every matching token
   that was there when it began, although the list of handles was made by an
   earlier statement; a list cut short by an error is never taken for all. *)
RevocationIsComplete ==
    [][\A p \in Callers, k \in Keys :
          /\ Open(p) /\ call[p].op \in {"collect", "revoke"} /\ ~Open(p)'
          /\ reply'.err = "ok"
          /\ k \in lived[p] /\ Belongs(rows[k].payload, call[p].arg)
          => ~Present(k)']_vars

(* No DELETE leaves behind what it had to take: a revocation none of the tokens just
   said, and a RemoveExpired no record that was overdue from the moment it began,
   whatever updates rewrote it and however the columns round. *)
DeletesAreComplete ==
    [][\A p \in Callers :
          Open(p) /\ ~Open(p)' /\ reply'.err = "ok"
          => \A k \in lived[p] :
                Cleans(p) \/ Belongs(rows[k].payload, call[p].arg) => ~Present(k)']_vars

(* A revocation removes no other token that was there all along.  The one case in which it
   takes a token of another subject is a handle that was removed and stored again
   between its two statements. *)
RevocationIsExact ==
    [][\A p \in Callers, k \in Keys :
          /\ Open(p) /\ call[p].op = "revoke" /\ ~Open(p)'
          /\ k \in lived[p] /\ Present(k) /\ ~Present(k)'
          => Belongs(rows[k].payload, call[p].arg)]_vars

(* Every call comes back, although a revocation and a cleanup may lock the same
   rows in opposite orders. *)
CallsReturn == \A p \in Callers : Open(p) ~> ~Open(p)

-----------------------------------------------------------------------------
(* A record of the abstract store is a row with the name of its table *)
Entry(k) == [table |-> IF Present(k) THEN table ELSE "none", row |-> rows[k]]
NoEntry == [table |-> "none", row |-> Absent]

Taken(pair, entry) == entry.table = "reference_tokens" /\ Belongs(entry.row.payload, pair)

Owes(by, entry) ==
    IF by.op = "revoke" THEN Taken(by.arg, entry)
                        ELSE Late(entry.table, entry.row.payload, by.arg)

Takes(by, entry) ==
    IF by.op = "revoke" THEN Taken(by.arg, entry)
                        ELSE Lapsed(entry.table, entry.row.payload, by.arg)

ByKey(by) == by.op = "revoke"

Demands ==
    [op : {"revoke"}, arg : Subjects \X Clients] \cup [op : {"removeExpired"}, arg : Cutoffs]

(* What an update names: a user code, or the id of a request *)
Names(target, k, entry) ==
    \/ entry.table = "device_codes" /\ target = entry.row.user_code
    \/ entry.table = "backchannel_auth_requests" /\ target = k

(* The two statements of a revocation are one *)
OpName(op) == IF op = "collect" THEN "revoke" ELSE op

Outcome ==
    IF reply = Silence THEN Silence
    ELSE [caller |-> reply.caller, op |-> OpName(reply.op), err |-> reply.err]

Entries == [k \in Keys |-> Entry(k)]

Clearings ==
    [p \in Callers |->
        IF Open(p)
        THEN [busy |-> TRUE, by |-> [op |-> OpName(call[p].op), arg |-> call[p].arg],
              due |-> {k \in lived[p] : Cleans(p) \/ Taken(call[p].arg, Entry(k))},
              spared |-> {k \in lived[p] : ~Cleans(p) /\ ~Taken(call[p].arg, Entry(k))}]
        ELSE [busy |-> FALSE]]

RS == INSTANCE RevocableStore
        WITH store <- Entries, Absent <- NoEntry, clearing <- Clearings, outcome <- Outcome,
             Targets <- Keys \cup UserCodes, Meets <- Names, Replaces <- FALSE

(* The four stores do to the records what the abstract store does: nothing is
   replaced by storing, an update changes the one record it names, the revocation in
   two statements is one removal, of the tokens that matched at the first, and so is a
   cleanup, of what was overdue and has not been extended. *)
ImplementsRevocableStore == RS!Spec
=============================================================================
