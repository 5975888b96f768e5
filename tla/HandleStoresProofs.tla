------------------------- MODULE HandleStoresProofs -------------------------
(***************************************************************************)
(* Theorems of the four handle stores, for every set of keys, callers,     *)
(* records and cutoffs and every scale of time.                            *)
(***************************************************************************)
EXTENDS HandleStores, RowTableProofs

(* The expiry columns hold numbers, or NULL where the code writes it *)
LEMMA ExpiryTyped ==
    /\ \A creation, lifetime \in Int : DerivedExpiry(creation, lifetime) \in Int
    /\ \A instant \in Int \cup {Never} : OptionalExpiry(instant) \in Int \cup {Never}
<1>1. \A lifetime \in Int : Duration(lifetime) \in Int
  BY ExpiryAssumption DEF Duration
<1>2. \A instant \in Int : Micros(instant) \in Int
  BY ExpiryAssumption DEF Micros
<1> QED BY <1>1, <1>2 DEF DerivedExpiry, OptionalExpiry

(* What the type of an open call says of its parts *)
LEMMA OpenTyped ==
    ASSUME TypeOK, NEW p \in Callers, Open(p)
    PROVE  /\ call[p].scan \in SUBSET Keys /\ call[p].locked \in SUBSET Keys
           /\ \/ call[p].op \in {"collect", "revoke"} /\ call[p].arg \in Subjects \X Clients
              \/ call[p].op = "removeExpired" /\ call[p].arg \in Cutoffs
BY DEF TypeOK, Open, DeleteCall

LEMMA DeletingTyped ==
    ASSUME NEW op, NEW arg, NEW s \in SUBSET Keys, NEW l \in SUBSET Keys,
           \/ op \in {"collect", "revoke"} /\ arg \in Subjects \X Clients
           \/ op = "removeExpired" /\ arg \in Cutoffs
    PROVE  Deleting(op, arg, s, l) \in DeleteCall /\ op \in DeleteOps
BY DEF Deleting, DeleteCall, DeleteOps

LEMMA ShapeOfCalls == TypeOK => CallShape
<1> SUFFICES ASSUME TypeOK PROVE CallShape
  OBVIOUS
<1>1. call = [p \in Callers |-> call[p]]
  BY DEF TypeOK
<1>2. \A p \in Callers : Open(p) => call[p].op \in DeleteOps
  BY OpenTyped DEF DeleteOps
<1> QED BY <1>1, <1>2, OpenTyped DEF CallShape

-----------------------------------------------------------------------------
(* What a step does to the table and to the open calls *)
NewRow(row) ==
    \/ table = "authorization_codes" /\ \E code \in Codes : row = TimedRow(code)
    \/ table = "reference_tokens" /\ \E token \in Tokens : row = TimedRow(token)
    \/ /\ table = "device_codes"
       /\ \E u \in UserCodes, data \in DeviceCodes : row = DeviceRow(u, data) /\ RowsOf(u) = {}
    \/ table = "backchannel_auth_requests" /\ \E data \in Requests : row = OptionalRow(data)

Inserts(k, row) ==
    /\ ~Present(k)
    /\ NewRow(row)
    /\ rows' = [rows EXCEPT ![k] = row]
    /\ call' = call

UpdatesDevice(u, data) ==
    /\ table = "device_codes"
    /\ \A k \in RowsOf(u) : Unlocked(k)
    /\ rows' = [k \in Keys |-> IF k \in RowsOf(u) THEN DeviceRow(u, data) ELSE rows[k]]
    /\ call' = call
    /\ reply'.op = "update"

UpdatesRequest(id, data) ==
    /\ table = "backchannel_auth_requests"
    /\ \A k \in RowsAt(id) : Unlocked(k)
    /\ rows' = [k \in Keys |-> IF k \in RowsAt(id) THEN OptionalRow(data) ELSE rows[k]]
    /\ call' = call
    /\ reply'.op = "update"

Begins(p) ==
    \/ \E cutoff \in Cutoffs : BeginDelete(p, "removeExpired", cutoff, ExpiredRows(cutoff))
    \/ /\ table = "reference_tokens"
       /\ \E pair \in Subjects \X Clients : RemoveReferenceTokens(p, pair)

HandsOver(p) ==
    /\ Open(p) /\ call[p].op = "collect"
    /\ call' = [call EXCEPT ![p] =
                  Deleting("revoke", call[p].arg, {h \in call[p].scan : Present(h)}, {})]
    /\ rows' = rows

Ends(p) ==
    /\ Open(p)
    /\ reply'.err = "wrapped" \/ (call[p].op = "collect" /\ call[p].scan = {})
    /\ call' = [call EXCEPT ![p] = Idle]
    /\ rows' = rows

Kinds ==
    \/ UNCHANGED <<rows, call>>
    \/ \E k \in Keys : \E row : Inserts(k, row)
    \/ \E u \in UserCodes, data \in DeviceCodes : UpdatesDevice(u, data)
    \/ \E id \in Keys, data \in Requests : UpdatesRequest(id, data)
    \/ \E p \in Callers, H \in SUBSET Keys : Deletes(p, H)
    \/ \E p \in Callers : Begins(p) \/ HandsOver(p) \/ Ends(p)
    \/ \E p \in Callers, k \in Keys : LockNext(p, k)

(* What an answer says: a key that was found has its row, a key that was removed has
   none, and a row appears by a store only *)
Answered ==
    /\ reply'.err = "ok" /\ reply'.op = "get"
          => reply'.key \in Keys /\ rows'[reply'.key] # Absent
    /\ reply'.err = "ok" /\ reply'.op = "remove"
          => reply'.key \in Keys /\ rows'[reply'.key] = Absent
    /\ \A k \in Keys : rows[k] = Absent /\ rows'[k] # Absent => reply'.op = "store"

LEMMA ReadKind ==
    ASSUME NEW p \in Callers, NEW K \in SUBSET Keys, \A k \in K : Present(k), ReadRow(p, K)
    PROVE  Kinds /\ Answered
BY DEF ReadRow, Kinds, Answered, Answer, Present

LEMMA InsertKind ==
    ASSUME TypeOK, NEW p \in Callers, NEW k \in Keys, NEW row, NEW rivals,
           RowsAt(k) \subseteq rivals, rivals = {} => NewRow(row),
           InsertRow(p, k, row, rivals)
    PROVE  Kinds /\ Answered
<1>1. CASE UNCHANGED rows
  BY <1>1 DEF InsertRow, Kinds, Answered, Answer
<1>2. CASE rivals = {} /\ rows' = [rows EXCEPT ![k] = row]
  <2>1. ~Present(k)
    BY <1>2 DEF RowsAt
  <2>2. Inserts(k, row)
    BY <1>2, <2>1 DEF Inserts, InsertRow
  <2>3. reply'.op = "store"
    BY <1>2 DEF InsertRow, Answer
  <2> QED BY <2>2, <2>3 DEF Kinds, Answered
<1> QED BY <1>1, <1>2 DEF InsertRow

LEMMA RemoveKind ==
    ASSUME TypeOK, NEW p \in Callers, NEW k \in Keys, DeleteRow(p, k)
    PROVE  Kinds /\ Answered
<1>1. CASE UNCHANGED <<rows, call>> /\ Answer(p, "remove", "wrapped")
  BY <1>1 DEF Kinds, Answered, Answer
<1>2. CASE /\ Unlocked(k)
           /\ Remove(p, {k})
           /\ \/ reply' = [caller |-> p, op |-> "remove", err |-> "ok", key |-> k]
              \/ Answer(p, "remove", "wrapped")
  <2>1. Deletes(p, {k})
    BY <1>2 DEF Deletes, DeleteRow
  <2>2. \A j \in Keys : rows'[j] = IF j \in {k} THEN Absent ELSE rows[j]
    BY <1>2 DEF Remove
  <2>3. Answered
    BY <1>2, <2>2 DEF Answered, Answer
  <2> QED BY <2>1, <2>3 DEF Kinds
<1> QED BY <1>1, <1>2 DEF DeleteRow

LEMMA CommitKind ==
    ASSUME TypeOK, NEW p \in Callers, CommitDelete(p)
    PROVE  Kinds /\ Answered
<1>1. Deletes(p, call[p].locked) /\ call[p].locked \in SUBSET Keys
  BY OpenTyped DEF CommitDelete, Deletes
<1>2. \A j \in Keys : rows'[j] = IF j \in call[p].locked THEN Absent ELSE rows[j]
  BY DEF CommitDelete, Remove
<1>3. reply'.op \in {"revoke", "removeExpired"}
  BY OpenTyped DEF CommitDelete, Answer
<1> QED BY <1>1, <1>2, <1>3 DEF Kinds, Answered

LEMMA BeginKind ==
    ASSUME NEW p \in Callers, Begins(p)
    PROVE  Kinds /\ Answered
<1>1. rows' = rows /\ reply' = Silence /\ Silence.op = "none"
  BY DEF Begins, RemoveReferenceTokens, BeginDelete, Silence
<1> QED BY <1>1 DEF Kinds, Answered

LEMMA CodeKinds ==
    ASSUME TypeOK, NEW p \in Callers, table = "authorization_codes", AuthorizationCodeNext(p)
    PROVE  Kinds /\ Answered
<1>1. ASSUME NEW h \in Keys, NEW code \in Codes, StoreAuthorizationCode(p, h, code)
      PROVE  Kinds /\ Answered
  BY <1>1, InsertKind DEF StoreAuthorizationCode, NewRow
<1>2. ASSUME NEW h \in Keys, GetAuthorizationCode(p, h)
      PROVE  Kinds /\ Answered
  BY <1>2, ReadKind DEF GetAuthorizationCode, RowsAt
<1>3. ASSUME NEW h \in Keys, RemoveAuthorizationCode(p, h)
      PROVE  Kinds /\ Answered
  BY <1>3, RemoveKind DEF RemoveAuthorizationCode
<1>4. ASSUME NEW cutoff \in Cutoffs, RemoveExpiredCodes(p, cutoff)
      PROVE  Kinds /\ Answered
  BY <1>4, BeginKind DEF RemoveExpiredCodes, Begins
<1> QED BY <1>1, <1>2, <1>3, <1>4 DEF AuthorizationCodeNext

LEMMA TokenKinds ==
    ASSUME TypeOK, NEW p \in Callers, table = "reference_tokens", ReferenceTokenNext(p)
    PROVE  Kinds /\ Answered
<1>1. ASSUME NEW h \in Keys, NEW token \in Tokens, StoreReferenceToken(p, h, token)
      PROVE  Kinds /\ Answered
  BY <1>1, InsertKind DEF StoreReferenceToken, NewRow
<1>2. ASSUME NEW h \in Keys, GetReferenceToken(p, h)
      PROVE  Kinds /\ Answered
  BY <1>2, ReadKind DEF GetReferenceToken, RowsAt
<1>3. ASSUME NEW h \in Keys, RemoveReferenceToken(p, h)
      PROVE  Kinds /\ Answered
  BY <1>3, RemoveKind DEF RemoveReferenceToken
<1>4. ASSUME NEW cutoff \in Cutoffs, RemoveExpiredTokens(p, cutoff)
      PROVE  Kinds /\ Answered
  BY <1>4, BeginKind DEF RemoveExpiredTokens, Begins
<1>5. ASSUME NEW pair \in Subjects \X Clients, RemoveReferenceTokens(p, pair)
      PROVE  Kinds /\ Answered
  BY <1>5, BeginKind DEF Begins
<1>6. ASSUME RevokeCollected(p)
      PROVE  Kinds /\ Answered
  <2>1. HandsOver(p) \/ Ends(p)
    BY <1>6 DEF RevokeCollected, HandsOver, Ends
  <2>2. rows' = rows /\ (reply' = Silence \/ reply'.op = "revoke")
    BY <1>6 DEF RevokeCollected, Answer
  <2> QED BY <2>1, <2>2 DEF Kinds, Answered, Silence
<1> QED BY <1>1, <1>2, <1>3, <1>4, <1>5, <1>6 DEF ReferenceTokenNext

LEMMA DeviceKinds ==
    ASSUME TypeOK, NEW p \in Callers, table = "device_codes", DeviceFlowNext(p)
    PROVE  Kinds /\ Answered
<1>1. ASSUME NEW h \in Keys, NEW u \in UserCodes, NEW data \in DeviceCodes,
             StoreDeviceAuthorization(p, h, u, data)
      PROVE  Kinds /\ Answered
  <2>1. RowsAt(h) \cup RowsOf(u) = {} => NewRow(DeviceRow(u, data))
    BY DEF NewRow
  <2> QED BY <1>1, <2>1, InsertKind DEF StoreDeviceAuthorization
<1>2. ASSUME NEW h \in Keys, FindByDeviceCode(p, h)
      PROVE  Kinds /\ Answered
  BY <1>2, ReadKind DEF FindByDeviceCode, RowsAt
<1>3. ASSUME NEW u \in UserCodes, FindByUserCode(p, u)
      PROVE  Kinds /\ Answered
  BY <1>3, ReadKind DEF FindByUserCode, RowsOf
<1>4. ASSUME NEW h \in Keys, RemoveByDeviceCode(p, h)
      PROVE  Kinds /\ Answered
  BY <1>4, RemoveKind DEF RemoveByDeviceCode
<1>5. ASSUME NEW cutoff \in Cutoffs, RemoveExpiredAuthorizations(p, cutoff)
      PROVE  Kinds /\ Answered
  BY <1>5, BeginKind DEF RemoveExpiredAuthorizations, Begins
<1>6. ASSUME NEW u \in UserCodes, NEW data \in DeviceCodes, UpdateByUserCode(p, u, data)
      PROVE  Kinds /\ Answered
  <2>1. reply'.op = "update"
    BY <1>6 DEF UpdateByUserCode, WriteRows, Answer
  <2>2. UNCHANGED <<rows, call>> \/ UpdatesDevice(u, data)
    BY <1>6, <2>1 DEF UpdateByUserCode, WriteRows, UpdatesDevice
  <2>3. \A k \in Keys : rows[k] = Absent => rows'[k] = Absent
    BY <2>2 DEF UpdatesDevice, RowsOf, Present
  <2> QED BY <2>1, <2>2, <2>3 DEF Kinds, Answered
<1> QED BY <1>1, <1>2, <1>3, <1>4, <1>5, <1>6 DEF DeviceFlowNext

LEMMA RequestKinds ==
    ASSUME TypeOK, NEW p \in Callers, table = "backchannel_auth_requests", BackchannelNext(p)
    PROVE  Kinds /\ Answered
<1>1. ASSUME NEW id \in Keys, NEW data \in Requests,
             StoreBackchannelAuthenticationRequest(p, id, data)
      PROVE  Kinds /\ Answered
  BY <1>1, InsertKind DEF StoreBackchannelAuthenticationRequest, NewRow
<1>2. ASSUME NEW id \in Keys, NEW data \in Requests,
             UpdateBackchannelAuthenticationRequest(p, id, data)
      PROVE  Kinds /\ Answered
  <2>1. reply'.op = "update"
    BY <1>2 DEF UpdateBackchannelAuthenticationRequest, WriteRows, Answer
  <2>2. UNCHANGED <<rows, call>> \/ UpdatesRequest(id, data)
    BY <1>2, <2>1 DEF UpdateBackchannelAuthenticationRequest, WriteRows, UpdatesRequest
  <2>3. \A k \in Keys : rows[k] = Absent => rows'[k] = Absent
    BY <2>2 DEF UpdatesRequest, RowsAt, Present
  <2> QED BY <2>1, <2>2, <2>3 DEF Kinds, Answered
<1>3. ASSUME NEW id \in Keys, FindBackchannelAuthenticationRequest(p, id)
      PROVE  Kinds /\ Answered
  BY <1>3, ReadKind DEF FindBackchannelAuthenticationRequest, RowsAt
<1>4. ASSUME NEW id \in Keys, RemoveBackchannelAuthenticationRequest(p, id)
      PROVE  Kinds /\ Answered
  BY <1>4, RemoveKind DEF RemoveBackchannelAuthenticationRequest
<1>5. ASSUME NEW cutoff \in Cutoffs, RemoveExpiredRequests(p, cutoff)
      PROVE  Kinds /\ Answered
  BY <1>5, BeginKind DEF RemoveExpiredRequests, Begins
<1> QED BY <1>1, <1>2, <1>3, <1>4, <1>5 DEF BackchannelNext

(* Every step of a call answers truly and does one of these things to the table *)
LEMMA StepKinds ==
    ASSUME TypeOK, NEW p \in Callers, CallNext(p)
    PROVE  Kinds /\ Answered
<1>1. ASSUME NEW k \in Keys, LockNext(p, k)
      PROVE  Kinds /\ Answered
  BY <1>1 DEF LockNext, LockRow, Kinds, Answered, Silence
<1>2. ASSUME AbortCall(p)
      PROVE  Kinds /\ Answered
  <2>1. Ends(p) /\ reply'.err # "ok"
    BY <1>2 DEF AbortCall, Ends, Answer
  <2> QED BY <2>1 DEF Ends, Kinds, Answered
<1> QED
  BY <1>1, <1>2, CodeKinds, TokenKinds, DeviceKinds, RequestKinds, CommitKind DEF CallNext

-----------------------------------------------------------------------------
(* The expiry column says what the record beside it says *)
ColumnOf(row) ==
    IF table = "backchannel_auth_requests"
    THEN row.expires_at = OptionalExpiry(row.payload.expires)
    ELSE row.expires_at = DerivedExpiry(row.payload.creation, row.payload.lifetime)

ColumnsRight == \A k \in Keys : Present(k) => ColumnOf(rows[k])

(* What a cleanup has locked is still expired *)
LockedRight ==
    \A p \in Callers : Open(p) /\ call[p].op = "removeExpired" =>
        \A k \in call[p].locked : Expired(k, call[p].arg)

(* Of the tokens that have lived since it began, a revocation has exactly the
   matching ones on its list, still to be visited or locked *)
Owed ==
    \A p \in Callers : Open(p) /\ call[p].op \in {"collect", "revoke"} =>
        /\ table = "reference_tokens"
        /\ call[p].op = "collect" => call[p].locked = {}
        /\ \A k \in lived[p] :
              /\ Present(k)
              /\ Belongs(rows[k].payload, call[p].arg) <=> k \in call[p].scan \cup call[p].locked

(* idx_device_codes_user_code: no user code is in use twice *)
UserCodesUnique ==
    table = "device_codes" =>
        \A j, k \in Keys :
            Present(j) /\ Present(k) /\ rows[j].user_code = rows[k].user_code => j = k

FoundRight == \A p \in Callers : found[p] # Absent => found[p] \in Keys /\ Present(found[p])

(* The part of the invariant that speaks of the table and the calls *)
Core ==
    /\ rows \in [Keys -> RowType \cup {Absent}]
    /\ call \in [Callers -> {Idle} \cup DeleteCall]
    /\ LocksApart
    /\ ColumnsRight
    /\ LockedRight
    /\ Owed
    /\ UserCodesUnique

Inv == TypeOK /\ Core /\ FoundRight /\ RemovalsHold

(* The row of a new record has the type of its table and the right column *)
LEMMA NewRowTyped ==
    ASSUME NEW row, NewRow(row)
    PROVE  row \in RowType /\ ColumnOf(row)
<1>1. CASE table = "authorization_codes"
  BY <1>1, CodesAssumption, ExpiryTyped DEF NewRow, RowType, CodeRow, TimedRow, ColumnOf
<1>2. CASE table = "reference_tokens"
  BY <1>2, TokensAssumption, ExpiryTyped DEF NewRow, RowType, TokenRow, Token, TimedRow, ColumnOf
<1>3. CASE table = "device_codes"
  <2>1. PICK u \in UserCodes, data \in DeviceCodes : row = DeviceRow(u, data)
    BY <1>3 DEF NewRow
  <2>2. DerivedExpiry(data.creation, data.lifetime) \in Int
    BY DeviceCodesAssumption, ExpiryTyped
  <2> QED BY <1>3, <2>1, <2>2 DEF RowType, DeviceCodeRow, DeviceRow, TimedRow, ColumnOf
<1>4. CASE table = "backchannel_auth_requests"
  <2>1. PICK data \in Requests : row = OptionalRow(data)
    BY <1>4 DEF NewRow
  <2>2. OptionalExpiry(data.expires) \in Int \cup {Never}
    BY RequestsAssumption, ExpiryTyped
  <2> QED BY <1>4, <2>1, <2>2 DEF RowType, RequestRow, OptionalRow, ColumnOf
<1> QED BY <1>1, <1>2, <1>3, <1>4 DEF NewRow

(* So has a row that an update replaces *)
LEMMA DeviceRowTyped ==
    ASSUME NEW u \in UserCodes, NEW data \in DeviceCodes, table = "device_codes"
    PROVE  DeviceRow(u, data) \in RowType /\ ColumnOf(DeviceRow(u, data))
           /\ DeviceRow(u, data).user_code = u
<1>1. DerivedExpiry(data.creation, data.lifetime) \in Int
  BY DeviceCodesAssumption, ExpiryTyped
<1> QED BY <1>1 DEF RowType, DeviceCodeRow, DeviceRow, TimedRow, ColumnOf

(* What the auxiliary variables record, and that removals hold *)
LEMMA Observed ==
    ASSUME TypeOK, FoundRight, RemovalsHold, Answered, Observe
    PROVE  /\ table' = table
           /\ lived' \in [Callers -> SUBSET Keys]
           /\ \A p \in Callers : \A k \in lived'[p] :
                 Present(k)' /\ Open(p)' /\ (Open(p) => k \in lived[p])
           /\ gone' \in SUBSET Keys
           /\ found' \in [Callers -> Keys \cup {Absent}]
           /\ FoundRight'
           /\ RemovalsHold'
<1>1. /\ table' = table
      /\ lived' \in [Callers -> SUBSET Keys]
      /\ \A p \in Callers : \A k \in lived'[p] :
            Present(k)' /\ Open(p)' /\ (Open(p) => k \in lived[p])
  BY DEF Observe, TypeOK
<1>2. Confirmed \in SUBSET Keys /\ \A k \in Confirmed : rows'[k] = Absent
  BY DEF Confirmed, Answered, Present
<1>3. gone' \in SUBSET Keys
  BY <1>2 DEF Observe, TypeOK
<1>4. RemovalsHold'
  <2> SUFFICES ASSUME NEW k \in gone', rows'[k] # Absent PROVE FALSE
    BY DEF RemovalsHold, Present
  <2>1. k \in gone \/ k \in Confirmed
    BY DEF Observe
  <2>2. k \in Keys /\ ~Present(k)
    BY <1>2, <2>1 DEF TypeOK, RemovalsHold
  <2>3. reply'.op = "store"
    BY <2>2 DEF Answered, Present
  <2> QED BY <2>2, <2>3 DEF Observe, Present
<1>5. ASSUME NEW p \in Callers
      PROVE  /\ found'[p] \in Keys \cup {Absent}
             /\ found'[p] # Absent => found'[p] \in Keys /\ rows'[found'[p]] # Absent
  BY DEF Observe, TypeOK, Answered
<1>6. found' \in [Callers -> Keys \cup {Absent}] /\ FoundRight'
  <2>1. found' = [p \in Callers |-> found'[p]]
    BY DEF Observe
  <2> QED BY <1>5, <2>1 DEF FoundRight, Present
<1> QED BY <1>1, <1>3, <1>4, <1>6

-----------------------------------------------------------------------------
(* What each kind of step does to the table and the calls; Watching is what Observed
   says of the tokens that live on *)
Watching ==
    /\ table' = table
    /\ lived' \in [Callers -> SUBSET Keys]
    /\ \A p \in Callers : \A k \in lived'[p] :
          Present(k)' /\ Open(p)' /\ (Open(p) => k \in lived[p])

(* An answer without effect *)
LEMMA QuietStep ==
    ASSUME Inv, Watching, UNCHANGED <<rows, call>>
    PROVE  Core'
<1>1. /\ rows' \in [Keys -> RowType' \cup {Absent}]
      /\ call' \in [Callers -> {Idle} \cup DeleteCall]
  BY DEF Inv, Core, Watching, RowType
<1>2. LocksApart' /\ \A q \in Callers : Open(q)' <=> Open(q)
  BY CallsStay, ShapeOfCalls DEF Inv, Core
<1>3. ColumnsRight' /\ UserCodesUnique'
  BY DEF Inv, Core, Watching, ColumnsRight, ColumnOf, UserCodesUnique, Present
<1>4. LockedRight'
  BY <1>2 DEF Inv, Core, LockedRight, Expired, Present
<1>5. Owed'
  BY <1>2 DEF Inv, Core, Watching, Owed, Present
<1> QED BY <1>1, <1>2, <1>3, <1>4, <1>5 DEF Core

(* A new row: no DELETE has seen it, no revocation owes it *)
LEMMA InsertStep ==
    ASSUME Inv, Watching, NEW k \in Keys, NEW row, Inserts(k, row)
    PROVE  Core'
<1>1. /\ rows' \in [Keys -> RowType' \cup {Absent}]
      /\ rows'[k] = row
      /\ \A j \in Keys \ {k} : rows'[j] = rows[j]
      /\ rows[k] = Absent
      /\ call' = call
  BY NewRowTyped DEF Inv, Core, Inserts, Watching, RowType, Present
<1>2. call' \in [Callers -> {Idle} \cup DeleteCall]
  BY <1>1 DEF Inv, Core
<1>3. LocksApart' /\ \A q \in Callers : Open(q)' <=> Open(q)
  BY <1>1, CallsStay, ShapeOfCalls DEF Inv, Core
<1>4. ColumnsRight'
  <2>1. ColumnOf(row)
    BY NewRowTyped DEF Inserts
  <2>2. \A j \in Keys : Present(j)' => ColumnOf(rows'[j])
    BY <1>1, <2>1 DEF Inv, Core, ColumnsRight, Present
  <2> QED BY <2>2 DEF ColumnsRight, ColumnOf, Watching
<1>5. LockedRight'
  BY <1>1, <1>3, OpenTyped DEF Inv, Core, LockedRight, Expired, Present
<1>6. Owed'
  BY <1>1, <1>3 DEF Inv, Core, Watching, Owed, Present, TypeOK
<1>7. UserCodesUnique'
  <2> SUFFICES ASSUME table = "device_codes"
               PROVE  \A i, j \in Keys :
                         rows'[i] # Absent /\ rows'[j] # Absent
                            /\ rows'[i].user_code = rows'[j].user_code => i = j
    BY DEF UserCodesUnique, Watching, Present
  <2>1. PICK u \in UserCodes, data \in DeviceCodes : row = DeviceRow(u, data) /\ RowsOf(u) = {}
    BY DEF Inserts, NewRow
  <2>2. row.user_code = u
    BY <2>1 DEF DeviceRow
  <2>3. \A j \in Keys : rows[j] # Absent => rows[j].user_code # u
    BY <2>1 DEF RowsOf, Present
  <2>4. \A i, j \in Keys :
            rows[i] # Absent /\ rows[j] # Absent /\ rows[i].user_code = rows[j].user_code => i = j
    BY DEF Inv, Core, UserCodesUnique, Present
  <2>5. ASSUME NEW i \in Keys, NEW j \in Keys, rows'[i] # Absent, rows'[j] # Absent,
               rows'[i].user_code = rows'[j].user_code, i # j
        PROVE  FALSE
    <3>1. CASE i # k /\ j # k
      BY <1>1, <2>4, <2>5, <3>1
    <3>2. CASE i = k
      BY <1>1, <2>2, <2>3, <2>5, <3>2
    <3>3. CASE j = k
      BY <1>1, <2>2, <2>3, <2>5, <3>3
    <3> QED BY <3>1, <3>2, <3>3
  <2> QED BY <2>5
<1> QED BY <1>1, <1>2, <1>3, <1>4, <1>5, <1>6, <1>7 DEF Core

(* An update of rows that nobody has locked, in a table without revocations *)
LEMMA UpdateStep ==
    ASSUME Inv, Watching, table # "reference_tokens", NEW K \in SUBSET Keys, NEW row,
           row \in RowType, ColumnOf(row),
           \A k \in K : Present(k) /\ Unlocked(k),
           rows' = [k \in Keys |-> IF k \in K THEN row ELSE rows[k]],
           call' = call,
           table = "device_codes" => \A k \in K : row.user_code = rows[k].user_code
    PROVE  Core'
<1>1. /\ rows' \in [Keys -> RowType' \cup {Absent}]
      /\ \A k \in Keys : rows'[k] = IF k \in K THEN row ELSE rows[k]
  BY DEF Inv, Core, Watching, RowType
<1>2. call' \in [Callers -> {Idle} \cup DeleteCall]
  BY DEF Inv, Core
<1>3. LocksApart' /\ \A q \in Callers : Open(q)' <=> Open(q)
  BY CallsStay, ShapeOfCalls DEF Inv, Core
<1>4. ColumnsRight'
  <2>1. \A k \in Keys : rows'[k] # Absent => ColumnOf(rows'[k])
    BY <1>1 DEF Inv, Core, ColumnsRight, Present
  <2> QED BY <2>1 DEF ColumnsRight, ColumnOf, Watching, Present
<1>5. LockedRight'
  <2>1. ASSUME NEW p \in Callers, Open(p), NEW k \in call[p].locked
        PROVE  k \in Keys /\ rows'[k] = rows[k]
    BY <1>1, <2>1, OpenTyped DEF Inv, Unlocked
  <2> QED BY <1>3, <2>1 DEF Inv, Core, LockedRight, Expired, Present
<1>6. Owed'
  BY <1>3 DEF Inv, Core, Watching, Owed
<1>7. UserCodesUnique'
  BY <1>1 DEF Inv, Core, UserCodesUnique, Watching, Present
<1> QED BY <1>1, <1>2, <1>3, <1>4, <1>5, <1>6, <1>7 DEF Core

(* A removal: what others have locked, listed or promised is not touched, and a
   revocation looks no further for a token that is gone *)
LEMMA DeleteStep ==
    ASSUME Inv, Watching, NEW p \in Callers, NEW H \in SUBSET Keys, Deletes(p, H)
    PROVE  Core'
<1>0. CallShape /\ LocksApart
  BY ShapeOfCalls DEF Inv, Core
<1>1. /\ \A k \in Keys : rows'[k] = IF k \in H THEN Absent ELSE rows[k]
      /\ rows' = [k \in Keys |-> IF k \in H THEN Absent ELSE rows[k]]
      /\ call'[p] = Idle /\ ~Open(p)'
      /\ \A q \in Callers \ {p} : Open(q)' <=> Open(q)
      /\ \A q \in Callers \ {p} : ~Open(q) => call'[q] = Idle
      /\ LocksApart' /\ CallShape'
  BY <1>0, RowsGo
<1>2. \A q \in Callers \ {p} : Open(q) =>
             /\ call'[q].op = call[q].op /\ call'[q].arg = call[q].arg
             /\ call'[q].scan = IF call[q].op = "collect" THEN call[q].scan
                                                          ELSE call[q].scan \ H
             /\ call'[q].locked = call[q].locked
             /\ call[q].locked \cap H = {}
             /\ \/ call'[q] = call[q]
                \/ call'[q] = Deleting(call[q].op, call[q].arg, call[q].scan \ H,
                                       call[q].locked)
  BY <1>0, RowsGo
<1>3. rows' \in [Keys -> RowType' \cup {Absent}]
  BY <1>1 DEF Inv, Core, Watching, RowType
<1>4. call' \in [Callers -> {Idle} \cup DeleteCall]
  <2>1. ASSUME NEW q \in Callers \ {p}, Open(q)
        PROVE  call'[q] \in DeleteCall
    <3>1. call[q] \in DeleteCall /\ call[q].scan \ H \in SUBSET Keys
      BY <2>1, OpenTyped DEF Inv, TypeOK, Open
    <3>2. Deleting(call[q].op, call[q].arg, call[q].scan \ H, call[q].locked) \in DeleteCall
      BY <2>1, <3>1, OpenTyped, DeletingTyped DEF Inv
    <3> QED BY <1>2, <2>1, <3>1, <3>2
  <2>2. call' = [q \in Callers |-> call'[q]]
    BY <1>1 DEF CallShape
  <2> QED BY <1>1, <2>1, <2>2
<1>5. ColumnsRight' /\ UserCodesUnique'
  BY <1>1 DEF Inv, Core, Watching, ColumnsRight, ColumnOf, UserCodesUnique, Present
<1>6. LockedRight'
  <2> SUFFICES ASSUME NEW q \in Callers, Open(q)', call'[q].op = "removeExpired",
                      NEW k \in call'[q].locked
               PROVE  Expired(k, call[q].arg)'
    BY DEF LockedRight
  <2>1. q # p /\ Open(q)
    BY <1>1
  <2>2. /\ k \in call[q].locked /\ k \in Keys /\ k \notin H
        /\ call[q].op = "removeExpired" /\ call'[q].arg = call[q].arg
    BY <1>2, <2>1, OpenTyped DEF Inv
  <2>3. Expired(k, call[q].arg)
    BY <2>1, <2>2 DEF Inv, Core, LockedRight
  <2>4. rows'[k] = rows[k]
    BY <1>1, <2>2
  <2> QED BY <2>2, <2>3, <2>4 DEF Expired, Present
<1>7. Owed'
  <2> SUFFICES ASSUME NEW q \in Callers, Open(q)', call'[q].op \in {"collect", "revoke"}
               PROVE  /\ table = "reference_tokens"
                      /\ call'[q].op = "collect" => call'[q].locked = {}
                      /\ \A k \in lived'[q] :
                            /\ Present(k)'
                            /\ Belongs(rows'[k].payload, call'[q].arg)
                                  <=> k \in call'[q].scan \cup call'[q].locked
    BY DEF Owed, Watching
  <2>1. q # p /\ Open(q) /\ call[q].op \in {"collect", "revoke"}
    BY <1>1, <1>2
  <2>2. /\ table = "reference_tokens"
        /\ call[q].op = "collect" => call[q].locked = {}
        /\ \A k \in lived[q] :
              Belongs(rows[k].payload, call[q].arg) <=> k \in call[q].scan \cup call[q].locked
    BY <2>1 DEF Inv, Core, Owed
  <2>3. ASSUME NEW k \in lived'[q]
        PROVE  /\ Present(k)' /\ k \in lived[q] /\ k \in Keys /\ k \notin H /\ rows'[k] = rows[k]
    BY <1>1, <2>1 DEF Watching, Inv, TypeOK, Present
  <2>4. ASSUME NEW k \in lived'[q]
        PROVE  k \in call'[q].scan \cup call'[q].locked <=> k \in call[q].scan \cup call[q].locked
    BY <1>2, <2>1, <2>3
  <2> QED BY <1>2, <2>1, <2>2, <2>3, <2>4
<1> QED BY <1>1, <1>3, <1>4, <1>5, <1>6, <1>7 DEF Core

(* A call that begins or goes on leaves the rows, and with them the columns and the
   user codes, and what the others have locked or owe *)
LEMMA CallStep ==
    ASSUME Inv, Watching, NEW p \in Callers, NEW op, NEW arg, NEW s \in SUBSET Keys,
           NEW l \in SUBSET Keys,
           \/ op \in {"collect", "revoke"} /\ arg \in Subjects \X Clients
           \/ op = "removeExpired" /\ arg \in Cutoffs,
           rows' = rows,
           call' = [call EXCEPT ![p] = Deleting(op, arg, s, l)],
           \A q \in Callers \ {p} : Open(q) => l \cap call[q].locked = {},
           op = "removeExpired" => \A k \in l : Expired(k, arg),
           op \in {"collect", "revoke"} =>
              /\ table = "reference_tokens"
              /\ op = "collect" => l = {}
              /\ \A k \in lived'[p] : Belongs(rows[k].payload, arg) <=> k \in s \cup l
    PROVE  Core'
<1>0. CallShape /\ LocksApart
  BY ShapeOfCalls DEF Inv, Core
<1>1. Deleting(op, arg, s, l) \in DeleteCall /\ op \in DeleteOps
  BY DeletingTyped
<1>2. /\ Open(p)'
      /\ call'[p].op = op /\ call'[p].arg = arg
      /\ call'[p].scan = s /\ call'[p].locked = l
      /\ \A q \in Callers \ {p} : call'[q] = call[q] /\ (Open(q)' <=> Open(q))
      /\ LocksApart'
  <2>1. /\ Open(p)'
        /\ \A q \in Callers \ {p} : call'[q] = call[q] /\ (Open(q)' <=> Open(q))
        /\ LocksApart'
    BY <1>0, <1>1, CallGoesOn
  <2>2. call'[p] = Deleting(op, arg, s, l)
    BY DEF Inv, Core
  <2> QED BY <2>1, <2>2, CallParts
<1>3. /\ rows' \in [Keys -> RowType' \cup {Absent}]
      /\ call' \in [Callers -> {Idle} \cup DeleteCall]
  BY <1>1 DEF Inv, Core, Watching, RowType
<1>4. ColumnsRight' /\ UserCodesUnique'
  BY DEF Inv, Core, Watching, ColumnsRight, ColumnOf, UserCodesUnique, Present
<1>5. LockedRight'
  <2>1. ASSUME NEW k, NEW cutoff, Expired(k, cutoff)
        PROVE  Expired(k, cutoff)'
    BY <2>1 DEF Expired, Present
  <2> QED BY <1>2, <2>1 DEF Inv, Core, LockedRight
<1>6. Owed'
  <2> SUFFICES ASSUME NEW q \in Callers, Open(q)', call'[q].op \in {"collect", "revoke"}
               PROVE  /\ table = "reference_tokens"
                      /\ call'[q].op = "collect" => call'[q].locked = {}
                      /\ \A k \in lived'[q] :
                            Belongs(rows[k].payload, call'[q].arg)
                               <=> k \in call'[q].scan \cup call'[q].locked
    BY DEF Owed, Watching
  <2>1. CASE q = p
    BY <1>2, <2>1
  <2>2. CASE q # p
    BY <1>2, <2>2 DEF Inv, Core, Owed, Watching
  <2> QED BY <2>1, <2>2
<1> QED BY <1>2, <1>3, <1>4, <1>5, <1>6 DEF Core

(* A DELETE takes its snapshot: a revocation lists the tokens that match now *)
LEMMA BeginStep ==
    ASSUME Inv, Watching, NEW p \in Callers, Begins(p)
    PROVE  Core'
<1>1. ASSUME NEW cutoff \in Cutoffs, BeginDelete(p, "removeExpired", cutoff, ExpiredRows(cutoff))
      PROVE  Core'
  <2>1. /\ rows' = rows
        /\ call' = [call EXCEPT ![p] = Deleting("removeExpired", cutoff, ExpiredRows(cutoff), {})]
        /\ ExpiredRows(cutoff) \in SUBSET Keys /\ {} \in SUBSET Keys
    BY <1>1 DEF BeginDelete, ExpiredRows
  <2> QED BY <2>1, CallStep
<1>2. ASSUME table = "reference_tokens", NEW pair \in Subjects \X Clients,
             RemoveReferenceTokens(p, pair)
      PROVE  Core'
  <2> DEFINE listed == {h \in Keys : Present(h) /\ MatchesPair(rows[h].payload, pair)}
  <2>1. /\ rows' = rows
        /\ call' = [call EXCEPT ![p] = Deleting("collect", pair, listed, {})]
        /\ listed \in SUBSET Keys /\ {} \in SUBSET Keys
    BY <1>2 DEF RemoveReferenceTokens, BeginDelete
  <2>2. ASSUME NEW k \in lived'[p]
        PROVE  Belongs(rows[k].payload, pair) <=> k \in listed \cup {}
    <3>1. Present(k)' /\ Open(p)'
      BY DEF Watching
    <3>2. rows[k] # Absent
      BY <2>1, <3>1 DEF Present
    <3>3. k \in Keys
      BY <1>2 DEF Watching
    <3> QED BY <3>2, <3>3 DEF Present, Belongs, MatchesPair
  <2> HIDE DEF listed
  <2> QED BY <1>2, <2>1, <2>2, CallStep
<1> QED BY <1>1, <1>2 DEF Begins

(* A row is locked if it is still selected: one that a cleanup takes is expired, one
   that a revocation owes is taken *)
LEMMA LockStep ==
    ASSUME Inv, Watching, NEW p \in Callers, NEW k \in Keys, LockNext(p, k)
    PROVE  Core'
<1> DEFINE less == call[p].scan \ {k}
           more == IF Selected(p, k) THEN call[p].locked \cup {k} ELSE call[p].locked
<1>1. /\ Open(p) /\ call[p].op # "collect" /\ k \in call[p].scan /\ Unlocked(k)
      /\ rows' = rows
      /\ call' = [call EXCEPT ![p] = Deleting(call[p].op, call[p].arg, less, more)]
  BY DEF LockNext, LockRow
<1>2. /\ less \in SUBSET Keys /\ more \in SUBSET Keys
      /\ \/ call[p].op \in {"collect", "revoke"} /\ call[p].arg \in Subjects \X Clients
         \/ call[p].op = "removeExpired" /\ call[p].arg \in Cutoffs
  BY <1>1, OpenTyped DEF Inv
<1>3. \A q \in Callers \ {p} : Open(q) => more \cap call[q].locked = {}
  BY <1>1 DEF Inv, Core, LocksApart, Unlocked
<1>4. call[p].op = "removeExpired" => \A j \in more : Expired(j, call[p].arg)
  BY <1>1 DEF Inv, Core, LockedRight, Selected
<1>5. call[p].op \in {"collect", "revoke"} =>
         /\ table = "reference_tokens"
         /\ \A j \in lived'[p] : Belongs(rows[j].payload, call[p].arg) <=> j \in less \cup more
  <2> SUFFICES ASSUME call[p].op \in {"collect", "revoke"}
               PROVE  /\ table = "reference_tokens"
                      /\ \A j \in lived'[p] :
                            Belongs(rows[j].payload, call[p].arg) <=> j \in less \cup more
    OBVIOUS
  <2>1. Selected(p, k)
    BY DEF Selected
  <2>2. less \cup more = call[p].scan \cup call[p].locked
    BY <1>1, <2>1
  <2>3. \A j \in lived'[p] : j \in lived[p]
    BY <1>1 DEF Watching
  <2> QED BY <1>1, <2>2, <2>3 DEF Inv, Core, Owed
<1> HIDE DEF less, more
<1> QED BY <1>1, <1>2, <1>3, <1>4, <1>5, CallStep

(* The DELETE of a revocation begins: the tokens it owes are still there *)
LEMMA HandOverStep ==
    ASSUME Inv, Watching, NEW p \in Callers, HandsOver(p)
    PROVE  Core'
<1> DEFINE left == {h \in call[p].scan : Present(h)}
<1>1. /\ Open(p) /\ call[p].op = "collect"
      /\ rows' = rows
      /\ call' = [call EXCEPT ![p] = Deleting("revoke", call[p].arg, left, {})]
  BY DEF HandsOver
<1>2. /\ left \in SUBSET Keys /\ {} \in SUBSET Keys
      /\ call[p].arg \in Subjects \X Clients
  BY <1>1, OpenTyped DEF Inv
<1>3. table = "reference_tokens" /\ call[p].locked = {}
  BY <1>1 DEF Inv, Core, Owed
<1>4. \A j \in lived'[p] : Belongs(rows[j].payload, call[p].arg) <=> j \in left \cup {}
  <2>1. \A j \in lived'[p] : j \in lived[p]
    BY <1>1 DEF Watching
  <2>2. \A j \in lived[p] : Present(j) /\ (Belongs(rows[j].payload, call[p].arg)
                                             <=> j \in call[p].scan \cup call[p].locked)
    BY <1>1 DEF Inv, Core, Owed
  <2> QED BY <1>3, <2>1, <2>2
<1> HIDE DEF left
<1> QED BY <1>1, <1>2, <1>3, <1>4, CallStep

(* A call that ends without a commit has changed nothing *)
LEMMA EndStep ==
    ASSUME Inv, Watching, NEW p \in Callers, Ends(p)
    PROVE  Core'
<1>0. CallShape /\ LocksApart
  BY ShapeOfCalls DEF Inv, Core
<1>1. rows' = rows /\ call' = [call EXCEPT ![p] = Idle]
  BY DEF Ends
<1>2. /\ ~Open(p)'
      /\ \A q \in Callers \ {p} : call'[q] = call[q] /\ (Open(q)' <=> Open(q))
      /\ LocksApart'
  BY <1>0, <1>1, CallEnds
<1>3. /\ rows' \in [Keys -> RowType' \cup {Absent}]
      /\ call' \in [Callers -> {Idle} \cup DeleteCall]
  BY <1>1 DEF Inv, Core, Watching, RowType
<1>4. ColumnsRight' /\ UserCodesUnique'
  BY <1>1 DEF Inv, Core, Watching, ColumnsRight, ColumnOf, UserCodesUnique, Present
<1>5. LockedRight'
  <2>1. ASSUME NEW k, NEW cutoff, Expired(k, cutoff)
        PROVE  Expired(k, cutoff)'
    BY <1>1, <2>1 DEF Expired, Present
  <2> QED BY <1>2, <2>1 DEF Inv, Core, LockedRight
<1>6. Owed'
  BY <1>1, <1>2 DEF Inv, Core, Owed, Watching, Present
<1> QED BY <1>2, <1>3, <1>4, <1>5, <1>6 DEF Core

-----------------------------------------------------------------------------
(* Empty tables satisfy the invariant *)
LEMMA InitInv == HandleInit => Inv
<1> SUFFICES ASSUME HandleInit PROVE Inv
  OBVIOUS
<1>1. TypeOK
  BY DEF HandleInit, Init, TypeOK
<1>2. \A p \in Callers : ~Open(p)
  BY DEF HandleInit, Init, Open
<1>3. \A k \in Keys : ~Present(k)
  BY DEF HandleInit, Init, Present
<1>4. Core
  BY <1>1, <1>2, <1>3 DEF Core, TypeOK, LocksApart, ColumnsRight, LockedRight, Owed, UserCodesUnique
<1> QED BY <1>1, <1>4 DEF HandleInit, Inv, FoundRight, RemovalsHold

LEMMA CoreStep ==
    ASSUME Inv, Watching, Kinds
    PROVE  Core'
<1>1. ASSUME NEW u \in UserCodes, NEW data \in DeviceCodes, UpdatesDevice(u, data)
      PROVE  Core'
  <2>1. /\ table = "device_codes" /\ table # "reference_tokens"
        /\ RowsOf(u) \in SUBSET Keys
        /\ \A k \in RowsOf(u) : Present(k) /\ Unlocked(k) /\ rows[k].user_code = u
        /\ rows' = [k \in Keys |-> IF k \in RowsOf(u) THEN DeviceRow(u, data) ELSE rows[k]]
        /\ call' = call
    BY <1>1 DEF UpdatesDevice, RowsOf
  <2> QED BY <2>1, DeviceRowTyped, UpdateStep
<1>2. ASSUME NEW id \in Keys, NEW data \in Requests, UpdatesRequest(id, data)
      PROVE  Core'
  <2>1. /\ table = "backchannel_auth_requests"
        /\ table # "reference_tokens" /\ table # "device_codes"
        /\ RowsAt(id) \in SUBSET Keys
        /\ \A k \in RowsAt(id) : Present(k) /\ Unlocked(k)
        /\ rows' = [k \in Keys |-> IF k \in RowsAt(id) THEN OptionalRow(data) ELSE rows[k]]
        /\ call' = call
    BY <1>2 DEF UpdatesRequest, RowsAt
  <2>2. NewRow(OptionalRow(data))
    BY <2>1 DEF NewRow
  <2> QED BY <2>1, <2>2, NewRowTyped, UpdateStep
<1> QED
  BY <1>1, <1>2, QuietStep, InsertStep, DeleteStep, BeginStep, HandOverStep, EndStep, LockStep
     DEF Kinds

(* No call breaks it *)
LEMMA InvStep == Inv /\ [Next]_vars => Inv'
<1> SUFFICES ASSUME Inv, [Next]_vars PROVE Inv'
  OBVIOUS
<1>1. CASE UNCHANGED vars
  <2>1. /\ rows' = rows /\ call' = call /\ table' = table
        /\ lived' = lived /\ gone' = gone /\ found' = found
    BY <1>1 DEF vars
  <2>2. TypeOK' /\ FoundRight' /\ RemovalsHold'
    BY <2>1 DEF Inv, TypeOK, RowType, FoundRight, RemovalsHold, Present
  <2>3. /\ rows' \in [Keys -> RowType' \cup {Absent}]
        /\ call' \in [Callers -> {Idle} \cup DeleteCall]
    BY <2>1 DEF Inv, Core, RowType
  <2>4. LocksApart' /\ \A p \in Callers : Open(p)' <=> Open(p)
    BY <2>1, CallsStay, ShapeOfCalls DEF Inv, Core
  <2>5. ColumnsRight' /\ UserCodesUnique'
    BY <2>1 DEF Inv, Core, ColumnsRight, ColumnOf, UserCodesUnique, Present
  <2>6. LockedRight' /\ Owed'
    BY <2>1, <2>4 DEF Inv, Core, LockedRight, Owed, Expired, Present
  <2> QED BY <2>2, <2>3, <2>4, <2>5, <2>6 DEF Inv, Core
<1>2. CASE Next
  <2>1. Kinds /\ Answered /\ Observe
    BY <1>2, StepKinds DEF Next, Inv
  <2>2. /\ Watching
        /\ gone' \in SUBSET Keys
        /\ found' \in [Callers -> Keys \cup {Absent}]
        /\ FoundRight' /\ RemovalsHold'
    BY <2>1, Observed DEF Inv, Watching
  <2>3. Core'
    BY <2>1, <2>2, CoreStep
  <2>4. TypeOK'
    BY <2>2, <2>3 DEF Core, TypeOK, Watching, Inv
  <2> QED BY <2>2, <2>3, <2>4 DEF Inv
<1> QED BY <1>1, <1>2

(* The inductive invariant holds in every behaviour *)
LEMMA Invariance == Spec => []Inv
BY InitInv, InvStep, PTL DEF Spec

-----------------------------------------------------------------------------
(* Whatever the calls and their order, every variable keeps its type: the columns of
   every row of the four tables hold what the stores wrote into them. *)
THEOREM TypeCorrect == Spec => []TypeOK
<1>1. Inv => TypeOK
  BY DEF Inv
<1> QED BY Invariance, <1>1, PTL

(* A removal that was confirmed (RemoveAuthorizationCode and its like, a cleanup, a
   revocation) holds until the key is stored again, by no effect of another call. *)
THEOREM RemovalsCorrect == Spec => []RemovalsHold
<1>1. Inv => RemovalsHold
  BY DEF Inv
<1> QED BY Invariance, <1>1, PTL

(* A call ends by the removal of what it has locked, or without effect *)
LEMMA Closes ==
    ASSUME Inv, Kinds, NEW p \in Callers, Open(p), ~Open(p)'
    PROVE  \/ /\ Deletes(p, call[p].locked)
              /\ call[p].op # "collect" /\ call[p].scan = {}
              /\ \A k \in Keys : rows'[k] = IF k \in call[p].locked THEN Absent ELSE rows[k]
           \/ Ends(p)
<1>0. CallShape /\ LocksApart
  BY ShapeOfCalls DEF Inv, Core
<1>1. call' # call
  BY DEF Open
<1>2. ASSUME NEW q \in Callers, NEW H \in SUBSET Keys, Deletes(q, H)
      PROVE  /\ Deletes(p, call[p].locked)
             /\ call[p].op # "collect" /\ call[p].scan = {}
             /\ \A k \in Keys : rows'[k] = IF k \in call[p].locked THEN Absent ELSE rows[k]
  <2>1. q = p /\ \A k \in Keys : rows'[k] = IF k \in H THEN Absent ELSE rows[k]
    BY <1>0, <1>2, RowsGo
  <2>2. H = call[p].locked /\ call[p].op # "collect" /\ call[p].scan = {}
    BY <1>2, <2>1 DEF Deletes
  <2> QED BY <1>2, <2>1, <2>2
<1>3. ASSUME NEW q \in Callers, Ends(q)
      PROVE  Ends(p)
  BY <1>3, <1>0, CallEnds DEF Ends
<1>4. ASSUME NEW q \in Callers, NEW op \in DeleteOps, NEW arg, NEW s, NEW l,
             call' = [call EXCEPT ![q] = Deleting(op, arg, s, l)]
      PROVE  FALSE
  <2>1. q = p => call'[p] = Deleting(op, arg, s, l)
    BY <1>4 DEF Inv, Core
  <2>2. q # p => call'[p] = call[p]
    BY <1>4 DEF Inv, Core
  <2> QED BY <2>1, <2>2, CallParts DEF Open
<1>5. ASSUME NEW q \in Callers, Begins(q)
      PROVE  FALSE
  <2>1. "collect" \in DeleteOps /\ "removeExpired" \in DeleteOps
    BY DEF DeleteOps
  <2> QED BY <1>4, <1>5, <2>1 DEF Begins, RemoveReferenceTokens, BeginDelete
<1>6. ASSUME NEW q \in Callers, HandsOver(q)
      PROVE  FALSE
  <2>1. "revoke" \in DeleteOps
    BY DEF DeleteOps
  <2> QED BY <1>4, <1>6, <2>1 DEF HandsOver
<1>7. ASSUME NEW q \in Callers, NEW k \in Keys, LockNext(q, k)
      PROVE  FALSE
  <2>1. call[q].op \in DeleteOps
    BY <1>0, <1>7 DEF CallShape, LockNext
  <2> QED BY <1>4, <1>7, <2>1 DEF LockNext, LockRow
<1> QED
  BY <1>1, <1>2, <1>3, <1>5, <1>6, <1>7 DEF Kinds, Inserts, UpdatesDevice, UpdatesRequest

LEMMA NextKinds ==
    ASSUME Inv, Next
    PROVE  Kinds /\ Answered
BY StepKinds DEF Next, Inv

(* RemoveReferenceTokens, when it returns without an error, has removed every token
   of the subject and client that was there when it began: nothing that happens
   between its two statements makes it miss one. *)
LEMMA RevokedAll ==
    ASSUME Inv, Next, NEW p \in Callers, Open(p), call[p].op \in {"collect", "revoke"},
           ~Open(p)', reply'.err = "ok",
           NEW k \in Keys, k \in lived[p], Belongs(rows[k].payload, call[p].arg)
    PROVE  ~Present(k)'
<1>1. /\ k \in call[p].scan \cup call[p].locked
      /\ call[p].op = "collect" => call[p].locked = {}
  BY DEF Inv, Core, Owed
<1>2. CASE Ends(p)
  BY <1>1, <1>2 DEF Ends
<1>3. CASE /\ call[p].scan = {}
           /\ \A j \in Keys : rows'[j] = IF j \in call[p].locked THEN Absent ELSE rows[j]
  BY <1>1, <1>3 DEF Present
<1> QED BY <1>2, <1>3, NextKinds, Closes

(* It does so whatever lifetimes the stored tokens have. *)
THEOREM RevocationComplete == Spec => RevocationIsComplete
<1>1. Inv /\ [Next]_vars =>
        [\A p \in Callers, k \in Keys :
          /\ Open(p) /\ call[p].op \in {"collect", "revoke"} /\ ~Open(p)'
          /\ reply'.err = "ok"
          /\ k \in lived[p] /\ Belongs(rows[k].payload, call[p].arg)
          => ~Present(k)']_vars
  BY RevokedAll
<1> QED BY <1>1, Invariance, PTL DEF Spec, RevocationIsComplete

(* A row that disappears as a DELETE ends was locked by it *)
LEMMA RemovesLocked ==
    ASSUME Inv, Next, NEW p \in Callers, Open(p), ~Open(p)',
           NEW k \in Keys, Present(k), ~Present(k)'
    PROVE  k \in call[p].locked
<1>1. CASE Ends(p)
  BY <1>1 DEF Ends, Present
<1>2. CASE \A j \in Keys : rows'[j] = IF j \in call[p].locked THEN Absent ELSE rows[j]
  BY <1>2 DEF Present
<1> QED BY <1>1, <1>2, NextKinds, Closes

(* It takes no token of another subject or client, unless the handle was removed and
   stored again while it ran. *)
THEOREM RevocationExact == Spec => RevocationIsExact
<1>1. Inv /\ [Next]_vars =>
        [\A p \in Callers, k \in Keys :
          /\ Open(p) /\ call[p].op = "revoke" /\ ~Open(p)'
          /\ k \in lived[p] /\ Present(k) /\ ~Present(k)'
          => Belongs(rows[k].payload, call[p].arg)]_vars
  <2> SUFFICES ASSUME Inv, Next, NEW p \in Callers, NEW k \in Keys,
                      Open(p), call[p].op = "revoke", ~Open(p)',
                      k \in lived[p], Present(k), ~Present(k)'
               PROVE  Belongs(rows[k].payload, call[p].arg)
    OBVIOUS
  <2>1. k \in call[p].locked
    BY RemovesLocked
  <2> QED BY <2>1 DEF Inv, Core, Owed
<1> QED BY <1>1, Invariance, PTL DEF Spec, RevocationIsExact

(* What a cleanup selects by the column has expired by the record *)
LEMMA ExpiredLapsed ==
    ASSUME \A rec \in Codes \cup Tokens \cup DeviceCodes : Representable(rec.lifetime),
           Inv, NEW k \in Keys, NEW cutoff \in Cutoffs, Expired(k, cutoff)
    PROVE  Lapsed(table, rows[k].payload, cutoff)
<1> DEFINE rec == rows[k].payload
<1>1. Reclaimable(rows[k].expires_at, cutoff) /\ cutoff \in Int
  BY CutoffsAssumption DEF Expired
<1>2. ColumnOf(rows[k]) /\ rows[k] \in RowType /\ table \in Tables
  BY DEF Inv, Core, ColumnsRight, TypeOK, Present, Expired
<1>3. CASE table = "backchannel_auth_requests"
  <2>1. rec \in Requests /\ rec.expires \in Int \cup {Never}
    BY <1>2, <1>3, RequestsAssumption DEF RowType, RequestRow
  <2>2. Reclaimable(OptionalExpiry(rec.expires), cutoff)
    BY <1>1, <1>2, <1>3 DEF ColumnOf
  <2> HIDE DEF rec
  <2>3. rec.expires # Never
    BY <2>2 DEF Reclaimable, OptionalExpiry
  <2>4. Micros(rec.expires) < Micros(cutoff)
    BY <2>2, <2>3 DEF Reclaimable, OptionalExpiry
  <2>5. rec.expires < cutoff
    BY <1>1, <2>1, <2>3, <2>4, MicrosStrict
  <2> QED BY <1>3, <2>3, <2>5 DEF Lapsed, rec
<1>4. CASE table # "backchannel_auth_requests"
  <2>1. rec \in Codes \cup Tokens \cup DeviceCodes
    BY <1>2, <1>4 DEF RowType, CodeRow, TokenRow, DeviceCodeRow, Tables
  <2>2. rec.creation \in Int /\ rec.lifetime \in Int
    BY <2>1, CodesAssumption, TokensAssumption, DeviceCodesAssumption DEF Token
  <2>3. Reclaimable(DerivedExpiry(rec.creation, rec.lifetime), cutoff)
    BY <1>1, <1>2, <1>4 DEF ColumnOf
  <2> HIDE DEF rec
  <2>4. Expiry(rec.creation, rec.lifetime) < cutoff
    BY <1>1, <2>1, <2>2, <2>3, ReclaimIsSafe
  <2> QED BY <1>4, <2>4 DEF Lapsed, rec
<1> QED BY <1>3, <1>4

(* The RemoveExpired of the four stores takes a record only if that record, as it is
   when it disappears, expired before the cutoff in exact arithmetic.  Callers are
   assumed to store lifetimes that fit a duration; refresh tokens show what happens
   when they do not. *)
THEOREM CleanupSafe ==
    ASSUME \A rec \in Codes \cup Tokens \cup DeviceCodes : Representable(rec.lifetime)
    PROVE  Spec => CleanupIsSafe
<1>1. Inv /\ [Next]_vars =>
        [\A p \in Callers, k \in Keys :
          /\ Open(p) /\ call[p].op = "removeExpired" /\ ~Open(p)'
          /\ Present(k) /\ ~Present(k)'
          => Lapsed(table, rows[k].payload, call[p].arg)]_vars
  <2> SUFFICES ASSUME Inv, Next, NEW p \in Callers, NEW k \in Keys,
                      Open(p), call[p].op = "removeExpired", ~Open(p)',
                      Present(k), ~Present(k)'
               PROVE  Lapsed(table, rows[k].payload, call[p].arg)
    OBVIOUS
  <2>1. Expired(k, call[p].arg)
    BY RemovesLocked DEF Inv, Core, LockedRight
  <2>2. call[p].arg \in Cutoffs
    BY OpenTyped DEF Inv
  <2> QED BY <2>1, <2>2, ExpiredLapsed
<1> QED BY <1>1, Invariance, PTL DEF Spec, CleanupIsSafe

(* What is overdue by the record a cleanup selects by the column *)
LEMMA LateExpired ==
    ASSUME \A rec \in Codes \cup Tokens \cup DeviceCodes : Representable(rec.lifetime),
           Inv, NEW k \in Keys, Present(k), NEW cutoff \in Cutoffs,
           Late(table, rows[k].payload, cutoff)
    PROVE  Expired(k, cutoff)
<1> DEFINE rec == rows[k].payload
<1>1. ColumnOf(rows[k]) /\ rows[k] \in RowType /\ table \in Tables /\ cutoff \in Int
  BY CutoffsAssumption DEF Inv, Core, ColumnsRight, TypeOK, Present
<1>2. CASE table = "backchannel_auth_requests"
  <2>1. rec \in Requests /\ rec.expires \in Int \cup {Never}
    BY <1>1, <1>2, RequestsAssumption DEF RowType, RequestRow
  <2>2. rec.expires # Never /\ Overdue(rec.expires, cutoff)
    BY <1>2 DEF Late
  <2>3. rows[k].expires_at = OptionalExpiry(rec.expires)
    BY <1>1, <1>2 DEF ColumnOf
  <2> HIDE DEF rec
  <2>4. rec.expires \in Int
    BY <2>1, <2>2
  <2>5. Micros(rec.expires) < Micros(cutoff) /\ Micros(rec.expires) \in Int
    <3>1. Micros(rec.expires) < Micros(cutoff)
      BY <1>1, <2>2, <2>4, MicrosApart
    <3> QED BY <2>4, <3>1, ExpiryAssumption DEF Micros
  <2>6. Reclaimable(rows[k].expires_at, cutoff)
    BY <2>2, <2>3, <2>5, ExpiryAssumption DEF Reclaimable, OptionalExpiry
  <2> QED BY <2>6 DEF Expired
<1>3. CASE table # "backchannel_auth_requests"
  <2>1. rec \in Codes \cup Tokens \cup DeviceCodes
    BY <1>1, <1>3 DEF RowType, CodeRow, TokenRow, DeviceCodeRow, Tables
  <2>2. rec.creation \in Int /\ rec.lifetime \in Int
    BY <2>1, CodesAssumption, TokensAssumption, DeviceCodesAssumption DEF Token
  <2>3. rows[k].expires_at = DerivedExpiry(rec.creation, rec.lifetime)
    BY <1>1, <1>3 DEF ColumnOf
  <2>4. Overdue(Expiry(rec.creation, rec.lifetime), cutoff)
    BY <1>3 DEF Late
  <2> HIDE DEF rec
  <2>5. Reclaimable(rows[k].expires_at, cutoff)
    BY <1>1, <2>1, <2>2, <2>3, <2>4, ReclaimIsPrompt
  <2> QED BY <2>5 DEF Expired
<1> QED BY <1>2, <1>3

(* A cleanup has each record that has been overdue since it began still to visit, or has
   locked it already *)
Visits ==
    \A p \in Callers : Open(p) /\ call[p].op = "removeExpired" =>
        \A k \in lived[p] :
            /\ Present(k)
            /\ Late(table, rows[k].payload, call[p].arg)
            /\ k \in call[p].scan \cup call[p].locked

(* A cleanup that is open after a step has begun with a snapshot of what the columns say,
   or was open before and has lost from its sight only rows that are gone or that it
   did not select when it reached them *)
LEMMA CleanupGoesOn ==
    ASSUME Inv, Kinds, NEW q \in Callers, Open(q)', call'[q].op = "removeExpired"
    PROVE  \/ /\ ~Open(q) /\ rows' = rows
              /\ \E cutoff \in Cutoffs : /\ call'[q].arg = cutoff
                                         /\ call'[q].scan = ExpiredRows(cutoff)
           \/ /\ Open(q) /\ call[q].op = "removeExpired" /\ call'[q].arg = call[q].arg
              /\ \A k \in call[q].scan \cup call[q].locked :
                    Present(k)' /\ Expired(k, call[q].arg)
                    => k \in call'[q].scan \cup call'[q].locked
<1> DEFINE Began == /\ ~Open(q) /\ rows' = rows
                    /\ \E cutoff \in Cutoffs : /\ call'[q].arg = cutoff
                                               /\ call'[q].scan = ExpiredRows(cutoff)
           WentOn == /\ Open(q) /\ call[q].op = "removeExpired" /\ call'[q].arg = call[q].arg
                     /\ \A k \in call[q].scan \cup call[q].locked :
                           Present(k)' /\ Expired(k, call[q].arg)
                           => k \in call'[q].scan \cup call'[q].locked
<1>0. CallShape /\ LocksApart
  BY ShapeOfCalls DEF Inv, Core
<1>1. CASE call'[q] = call[q]
  BY <1>1 DEF Open
<1>2. ASSUME NEW p \in Callers, NEW H \in SUBSET Keys, Deletes(p, H)
      PROVE  WentOn
  <2> HIDE DEF WentOn, Began
  <2>0. /\ \A k \in Keys : rows'[k] = IF k \in H THEN Absent ELSE rows[k]
        /\ ~Open(p)' /\ \A r \in Callers \ {p} : Open(r)' <=> Open(r)
        /\ \A r \in Callers \ {p} : Open(r) =>
              /\ call'[r].op = call[r].op /\ call'[r].arg = call[r].arg
              /\ call'[r].scan = IF call[r].op = "collect" THEN call[r].scan
                                                           ELSE call[r].scan \ H
              /\ call'[r].locked = call[r].locked
    BY <1>0, <1>2, RowsGo
  <2>1. q # p /\ Open(q)
    BY <2>0
  <2>3. /\ call'[q].op = call[q].op /\ call'[q].arg = call[q].arg
        /\ call'[q].scan = call[q].scan \ H
        /\ call'[q].locked = call[q].locked
    BY <2>0, <2>1
  <2>4. \A k \in H : ~Present(k)'
    BY <2>0 DEF Present
  <2> QED BY <2>1, <2>3, <2>4, OpenTyped DEF WentOn, Inv
<1>3. ASSUME NEW p \in Callers, Begins(p), call'[q] # call[q]
      PROVE  Began
  <2>1. ASSUME NEW op, NEW arg, NEW s, BeginDelete(p, op, arg, s)
        PROVE  /\ p = q /\ ~Open(q) /\ rows' = rows
               /\ call'[q].op = op /\ call'[q].arg = arg /\ call'[q].scan = s
    BY <1>3, <2>1, CallParts DEF BeginDelete, Inv, TypeOK
  <2>2. CASE \E cutoff \in Cutoffs : BeginDelete(p, "removeExpired", cutoff, ExpiredRows(cutoff))
    BY <2>1, <2>2
  <2>3. CASE \E pair \in Subjects \X Clients : RemoveReferenceTokens(p, pair)
    BY <2>1, <2>3 DEF RemoveReferenceTokens
  <2> QED BY <1>3, <2>2, <2>3 DEF Begins
<1>4. ASSUME NEW p \in Callers, HandsOver(p) \/ Ends(p)
      PROVE  call'[q] = call[q]
  <2>1. q # p => call'[q] = call[q]
    BY <1>4 DEF HandsOver, Ends, Inv, TypeOK
  <2>2. ASSUME q = p
        PROVE  FALSE
    <3>1. \/ call'[q] = Deleting("revoke", call[p].arg, {h \in call[p].scan : Present(h)}, {})
          \/ call'[q] = Idle
      BY <1>4, <2>2 DEF HandsOver, Ends, Inv, TypeOK
    <3> QED BY <3>1, CallParts DEF Open
  <2> QED BY <2>1, <2>2
<1>5. ASSUME NEW p \in Callers, NEW j \in Keys, LockNext(p, j), call'[q] # call[q]
      PROVE  WentOn
  <2> DEFINE more == IF Selected(q, j) THEN call[q].locked \cup {j} ELSE call[q].locked
  <2>1. /\ p = q /\ Open(q)
        /\ call'[q] = Deleting(call[q].op, call[q].arg, call[q].scan \ {j}, more)
    BY <1>5 DEF LockNext, LockRow, Inv, TypeOK
  <2>2. /\ call'[q].op = call[q].op /\ call'[q].arg = call[q].arg
        /\ call'[q].scan = call[q].scan \ {j} /\ call'[q].locked = more
    BY <2>1, CallParts
  <2>3. Expired(j, call[q].arg) => j \in more
    BY DEF Selected
  <2> QED BY <2>1, <2>2, <2>3
<1> QED
  BY <1>1, <1>2, <1>3, <1>4, <1>5 DEF Kinds, Inserts, UpdatesDevice, UpdatesRequest

(* No step makes a cleanup lose sight of what it owes: a lock that is waited for, a row
   that is rewritten or one that others remove *)
LEMMA VisitsStep ==
    ASSUME \A rec \in Codes \cup Tokens \cup DeviceCodes : Representable(rec.lifetime),
           Inv, Inv', Visits, [Next]_vars
    PROVE  Visits'
<1>1. CASE UNCHANGED vars
  BY <1>1 DEF vars, Visits, Open, Present
<1>2. CASE Next
  <2>1. Kinds /\ Observe
    BY <1>2, StepKinds DEF Next, Inv
  <2> SUFFICES ASSUME NEW q \in Callers, Open(q)', call'[q].op = "removeExpired",
                      NEW k \in lived'[q]
               PROVE  /\ Present(k)'
                      /\ Late(table', rows'[k].payload, call'[q].arg)
                      /\ k \in call'[q].scan \cup call'[q].locked
    BY DEF Visits
  <2>2. /\ table' = table /\ k \in Keys /\ Present(k)'
        /\ Late(table, rows'[k].payload, call'[q].arg)
        /\ Open(q) => k \in lived[q]
    BY <2>1 DEF Observe, Inv, TypeOK
  <2>3. ASSUME ~Open(q), rows' = rows, NEW cutoff \in Cutoffs, call'[q].arg = cutoff,
               call'[q].scan = ExpiredRows(cutoff)
        PROVE  k \in call'[q].scan
    BY <2>2, <2>3, LateExpired DEF ExpiredRows, Present
  <2>4. ASSUME Open(q), call[q].op = "removeExpired", call'[q].arg = call[q].arg,
               \A j \in call[q].scan \cup call[q].locked :
                  Present(j)' /\ Expired(j, call[q].arg)
                  => j \in call'[q].scan \cup call'[q].locked
        PROVE  k \in call'[q].scan \cup call'[q].locked
    <3>1. /\ k \in call[q].scan \cup call[q].locked /\ Present(k)
          /\ Late(table, rows[k].payload, call[q].arg)
      BY <2>2, <2>4 DEF Visits
    <3>2. call[q].arg \in Cutoffs
      BY <2>4, OpenTyped DEF Inv
    <3>3. Expired(k, call[q].arg)
      BY <2>2, <3>1, <3>2, LateExpired
    <3> QED BY <2>2, <2>4, <3>1, <3>3
  <2>5. k \in call'[q].scan \cup call'[q].locked
    BY <2>1, <2>3, <2>4, CleanupGoesOn
  <2> QED BY <2>2, <2>5
<1> QED BY <1>1, <1>2

LEMMA VisitsAlways ==
    ASSUME \A rec \in Codes \cup Tokens \cup DeviceCodes : Representable(rec.lifetime)
    PROVE  Spec => [](Inv /\ Visits)
<1>1. HandleInit => Visits
  BY DEF HandleInit, Init, Visits, Open
<1>2. Inv /\ Visits /\ [Next]_vars => (Inv /\ Visits)'
  BY VisitsStep, InvStep
<1> QED BY <1>1, <1>2, InitInv, PTL DEF Spec

(* A RemoveExpired that returns without an error has removed every record that was
   overdue, in exact arithmetic, from the moment it began: no update that rewrote one, no
   DELETE that held its lock and no rounding of a column makes it miss one.  A lifetime
   that does not fit a duration would. *)
LEMMA CleanedAll ==
    ASSUME Inv, Visits, Next, NEW p \in Callers, Open(p), Cleans(p), ~Open(p)',
           reply'.err = "ok", NEW k \in lived[p]
    PROVE  ~Present(k)'
<1>1. k \in call[p].scan \cup call[p].locked /\ k \in Keys
  BY DEF Visits, Cleans, Inv, TypeOK
<1>2. ~Ends(p)
  BY DEF Ends, Cleans
<1>3. /\ call[p].scan = {}
      /\ \A j \in Keys : rows'[j] = IF j \in call[p].locked THEN Absent ELSE rows[j]
  BY <1>2, NextKinds, Closes
<1> QED BY <1>1, <1>3 DEF Present

(* No DELETE of the four stores that returns without an error, RemoveExpired or
   RemoveReferenceTokens, has left behind a record that it had to take all the while. *)
THEOREM DeletesComplete ==
    ASSUME \A rec \in Codes \cup Tokens \cup DeviceCodes : Representable(rec.lifetime)
    PROVE  Spec => DeletesAreComplete
<1>1. Inv /\ Visits /\ [Next]_vars =>
        [\A p \in Callers :
          Open(p) /\ ~Open(p)' /\ reply'.err = "ok"
          => \A k \in lived[p] :
                Cleans(p) \/ Belongs(rows[k].payload, call[p].arg) => ~Present(k)']_vars
  <2> SUFFICES ASSUME Inv, Visits, Next, NEW p \in Callers, Open(p), ~Open(p)',
                      reply'.err = "ok", NEW k \in lived[p],
                      Cleans(p) \/ Belongs(rows[k].payload, call[p].arg)
               PROVE  ~Present(k)'
    OBVIOUS
  <2>1. CASE Cleans(p)
    BY <2>1, CleanedAll
  <2>2. CASE ~Cleans(p)
    <3>1. call[p].op \in {"collect", "revoke"} /\ k \in Keys
      BY <2>2, OpenTyped DEF Cleans, Inv, TypeOK
    <3> QED BY <2>2, <3>1, RevokedAll
  <2> QED BY <2>1, <2>2
<1> QED BY <1>1, VisitsAlways, PTL DEF Spec, DeletesAreComplete

(* Codes and tokens never change, requests and authorizations only by an update, and
   no update moves an authorization to another user code. *)
THEOREM HandlesKept == Spec => RecordsKeepTheirHandle
<1>1. Inv /\ [Next]_vars =>
        [\A k \in Keys :
          Present(k) /\ Present(k)' /\ rows'[k] # rows[k]
          => /\ table \in {"device_codes", "backchannel_auth_requests"}
             /\ reply'.op = "update"
             /\ table = "device_codes" => rows'[k].user_code = rows[k].user_code]_vars
  <2> SUFFICES ASSUME Inv, Next, NEW k \in Keys,
                      Present(k), Present(k)', rows'[k] # rows[k]
               PROVE  /\ table \in {"device_codes", "backchannel_auth_requests"}
                      /\ reply'.op = "update"
                      /\ table = "device_codes" => rows'[k].user_code = rows[k].user_code
    OBVIOUS
  <2>1. ASSUME NEW j \in Keys, NEW row, Inserts(j, row)
        PROVE  FALSE
    <3>1. \A i \in Keys \ {j} : rows'[i] = rows[i]
      BY <2>1 DEF Inserts, Inv, Core
    <3> QED BY <2>1, <3>1 DEF Inserts
  <2>2. ASSUME NEW u \in UserCodes, NEW data \in DeviceCodes, UpdatesDevice(u, data)
        PROVE  /\ table = "device_codes" /\ reply'.op = "update"
               /\ rows'[k].user_code = rows[k].user_code
    <3>1. k \in RowsOf(u) /\ rows'[k] = DeviceRow(u, data)
      BY <2>2 DEF UpdatesDevice
    <3> QED BY <2>2, <3>1 DEF UpdatesDevice, DeviceRow, RowsOf
  <2>3. ASSUME NEW id \in Keys, NEW data \in Requests, UpdatesRequest(id, data)
        PROVE  table = "backchannel_auth_requests" /\ reply'.op = "update"
    BY <2>3 DEF UpdatesRequest
  <2>4. ASSUME NEW p \in Callers, NEW H \in SUBSET Keys, Deletes(p, H)
        PROVE  FALSE
    BY <2>4 DEF Deletes, Remove, Present
  <2>5. ASSUME NEW p \in Callers, Begins(p) \/ HandsOver(p) \/ Ends(p)
        PROVE  FALSE
    BY <2>5 DEF Begins, RemoveReferenceTokens, BeginDelete, HandsOver, Ends
  <2>6. ASSUME NEW p \in Callers, NEW j \in Keys, LockNext(p, j)
        PROVE  FALSE
    BY <2>6 DEF LockNext, LockRow
  <2> QED BY <2>1, <2>2, <2>3, <2>4, <2>5, <2>6, NextKinds DEF Kinds
<1> QED BY <1>1, Invariance, PTL DEF Spec, RecordsKeepTheirHandle

(* The decision of a caller that found an authorization (UpdateByUserCode) reaches no
   other one as long as the one it found is there. *)
THEOREM UpdatesCorrect == Spec => UpdatesReachWhatWasFound
<1>1. Inv /\ [Next]_vars =>
        [\A p \in Callers, k \in Keys :
          /\ table = "device_codes"
          /\ reply'.op = "update" /\ reply'.caller = p /\ rows'[k] # rows[k]
          /\ found[p] # Absent /\ rows[found[p]].user_code = rows[k].user_code
          => k = found[p]]_vars
  <2> SUFFICES ASSUME Inv, Next, NEW p \in Callers, NEW k \in Keys,
                      table = "device_codes", reply'.op = "update", rows'[k] # rows[k],
                      found[p] # Absent, rows[found[p]].user_code = rows[k].user_code
               PROVE  k = found[p]
    OBVIOUS
  <2>1. Present(k)
    BY NextKinds DEF Answered, Present
  <2>2. found[p] \in Keys /\ Present(found[p])
    BY DEF Inv, FoundRight
  <2> QED BY <2>1, <2>2 DEF Inv, Core, UserCodesUnique
<1> QED BY <1>1, Invariance, PTL DEF Spec, UpdatesReachWhatWasFound

-----------------------------------------------------------------------------
(* What is seen of the answers and of the open calls *)
LEMMA OpNames ==
    /\ OpName("collect") = "revoke" /\ OpName("revoke") = "revoke"
    /\ \A op : OpName(op) = "removeExpired" <=> op = "removeExpired"
    /\ \A op : op # "collect" => OpName(op) = op
BY DEF OpName

LEMMA OutcomeIs ==
    /\ reply' = Silence => Outcome' = RS!Silence
    /\ reply'.op # "none" =>
          Outcome' = [caller |-> reply'.caller, op |-> OpName(reply'.op), err |-> reply'.err]
BY DEF Outcome, Silence, RS!Silence

Demand(p) == [op |-> OpName(call[p].op), arg |-> call[p].arg]

LEMMA ClearingParts ==
    \A p \in Callers :
        /\ RS!Busy(p) <=> Open(p)
        /\ ~Open(p) => Clearings[p] = RS!Idle
        /\ Open(p) => /\ Clearings[p].by = Demand(p)
                      /\ Clearings[p].by.op = OpName(call[p].op)
        /\ Open(p) /\ Cleans(p) =>
              Clearings[p] = RS!Clearing(Demand(p), lived[p], {})
        /\ Open(p) /\ ~Cleans(p) =>
              Clearings[p] = RS!Clearing(Demand(p),
                                         {k \in lived[p] : Taken(call[p].arg, Entry(k))},
                                         {k \in lived[p] : ~Taken(call[p].arg, Entry(k))})
<1> SUFFICES ASSUME NEW p \in Callers
             PROVE  /\ RS!Busy(p) <=> Open(p)
                    /\ ~Open(p) => Clearings[p] = RS!Idle
                    /\ Open(p) => /\ Clearings[p].by = Demand(p)
                                  /\ Clearings[p].by.op = OpName(call[p].op)
                    /\ Open(p) /\ Cleans(p) =>
                          Clearings[p] = RS!Clearing(Demand(p), lived[p], {})
                    /\ Open(p) /\ ~Cleans(p) =>
                          Clearings[p] =
                             RS!Clearing(Demand(p),
                                         {k \in lived[p] : Taken(call[p].arg, Entry(k))},
                                         {k \in lived[p] : ~Taken(call[p].arg, Entry(k))})
  OBVIOUS
<1>1. CASE ~Open(p)
  BY <1>1 DEF Clearings, RS!Busy, RS!Idle
<1>2. CASE Open(p)
  <2>1. Clearings[p] =
          RS!Clearing(Demand(p), {k \in lived[p] : Cleans(p) \/ Taken(call[p].arg, Entry(k))},
                                 {k \in lived[p] : ~Cleans(p) /\ ~Taken(call[p].arg, Entry(k))})
    BY <1>2 DEF Clearings, Demand, RS!Clearing
  <2>2. RS!Busy(p) /\ Clearings[p].by = Demand(p) /\ Clearings[p].by.op = OpName(call[p].op)
    BY <2>1 DEF RS!Busy, RS!Clearing, Demand
  <2>3. CASE Cleans(p)
    <3>1. /\ {k \in lived[p] : Cleans(p) \/ Taken(call[p].arg, Entry(k))} = lived[p]
          /\ {k \in lived[p] : ~Cleans(p) /\ ~Taken(call[p].arg, Entry(k))} = {}
      BY <2>3
    <3> QED BY <1>2, <2>1, <2>2, <2>3, <3>1
  <2>4. CASE ~Cleans(p)
    <3>1. /\ {k \in lived[p] : Cleans(p) \/ Taken(call[p].arg, Entry(k))}
                = {k \in lived[p] : Taken(call[p].arg, Entry(k))}
          /\ {k \in lived[p] : ~Cleans(p) /\ ~Taken(call[p].arg, Entry(k))}
                = {k \in lived[p] : ~Taken(call[p].arg, Entry(k))}
      BY <2>4
    <3> QED BY <1>2, <2>1, <2>2, <2>4, <3>1
  <2> QED BY <2>3, <2>4
<1> QED BY <1>1, <1>2

(* What a demand owes and may take *)
LEMMA DemandParts ==
    ASSUME NEW op \in DeleteOps, NEW arg, NEW entry
    PROVE  LET by == [op |-> OpName(op), arg |-> arg]
           IN  /\ op = "removeExpired" =>
                     /\ Owes(by, entry) <=> Late(entry.table, entry.row.payload, arg)
                     /\ Takes(by, entry) <=> Lapsed(entry.table, entry.row.payload, arg)
                     /\ ~ByKey(by)
               /\ op # "removeExpired" =>
                     /\ Owes(by, entry) <=> Taken(arg, entry)
                     /\ Takes(by, entry) <=> Taken(arg, entry)
                     /\ ByKey(by)
BY OpNames DEF Owes, Takes, ByKey, DeleteOps

(* A key has an entry as long as it has a row, and no entry is of no table *)
LEMMA EntryIs ==
    ASSUME table \in Tables, NEW k
    PROVE  /\ Entry(k) = NoEntry <=> ~Present(k)
           /\ Present(k) => Entry(k).table = table
           /\ Entry(k).row = rows[k]
<1>1. /\ Entry(k).table = (IF Present(k) THEN table ELSE "none") /\ Entry(k).row = rows[k]
      /\ NoEntry.table = "none" /\ table # "none"
  BY DEF Entry, NoEntry, Tables
<1>2. ~Present(k) => Entry(k) = NoEntry
  BY DEF Entry, NoEntry, Present
<1> QED BY <1>1, <1>2

LEMMA EntryAfter ==
    ASSUME table' \in Tables
    PROVE  \A k : Entry(k)' # NoEntry <=> Present(k)'
<1>1. \A k : /\ Entry(k)'.table = IF Present(k)' THEN table' ELSE "none"
             /\ ~Present(k)' => Entry(k)' = NoEntry
  BY DEF Entry, NoEntry, Present
<1>2. NoEntry.table = "none" /\ table' # "none"
  BY DEF NoEntry, Tables
<1> QED BY <1>1, <1>2

LEMMA EntryPresent ==
    ASSUME table \in Tables, NEW k \in Keys
    PROVE  RS!Present(k) <=> Present(k)
BY EntryIs DEF RS!Present, Entries

LEMMA EntryKept ==
    ASSUME table' = table, NEW k, rows'[k] = rows[k]
    PROVE  Entry(k)' = Entry(k)
BY DEF Entry, Present

(* Only the entries of the rows in K change *)
LEMMA EntriesBut ==
    ASSUME table' = table, NEW K, \A k \in Keys \ K : rows'[k] = rows[k]
    PROVE  Entries' = [k \in Keys |-> IF k \in K THEN Entries'[k] ELSE Entries[k]]
<1>1. \A k \in Keys \ K : Entry(k)' = Entry(k)
  BY EntryKept
<1> QED BY <1>1 DEF Entries

LEMMA EntriesGo ==
    ASSUME table \in Tables, table' = table, NEW H,
           rows' = [k \in Keys |-> IF k \in H THEN Absent ELSE rows[k]]
    PROVE  Entries' = [k \in Keys |-> IF k \in H THEN NoEntry ELSE Entries[k]]
<1>1. ASSUME NEW k \in Keys \ H
      PROVE  Entry(k)' = Entry(k)
  BY <1>1, EntryKept
<1>2. ASSUME NEW k \in Keys \cap H
      PROVE  Entry(k)' = NoEntry
  BY <1>2 DEF Entry, NoEntry, Present
<1> QED BY <1>1, <1>2 DEF Entries

-----------------------------------------------------------------------------
(* A token is not changed while its row is there *)
Kept ==
    table = "reference_tokens" =>
        \A k \in Keys : Present(k) /\ Present(k)' => rows'[k] = rows[k]

(* The call of q is, or is not, the same revocation or cleanup as before *)
Goes(q) ==
    /\ Open(q)' <=> Open(q)
    /\ Open(q) => /\ OpName(call'[q].op) = OpName(call[q].op)
                  /\ call'[q].arg = call[q].arg

(* Of the rows that have lived since it began, a call loses the ones that go, and a
   cleanup those that are overdue no more *)
LEMMA LivedOn ==
    ASSUME Inv, Visits, Observe, NEW q \in Callers, Open(q), Goes(q)
    PROVE  /\ Open(q)' /\ (Cleans(q)' <=> Cleans(q)) /\ Demand(q)' = Demand(q)
           /\ table' = table /\ lived[q] \in SUBSET Keys
           /\ \A k \in lived[q] : Present(k)
           /\ Cleans(q) =>
                 /\ \A k \in lived[q] : Late(table, rows[k].payload, call[q].arg)
                 /\ lived'[q] = {k \in lived[q] :
                                   Present(k)' /\ Late(table, rows'[k].payload, call[q].arg)}
           /\ ~Cleans(q) =>
                 /\ table = "reference_tokens"
                 /\ lived'[q] = {k \in lived[q] : Present(k)'}
<1>1. /\ Open(q)' /\ OpName(call'[q].op) = OpName(call[q].op) /\ call'[q].arg = call[q].arg
  BY DEF Goes
<1>2. Cleans(q)' <=> Cleans(q)
  BY <1>1, OpNames DEF Cleans
<1>3. Demand(q)' = Demand(q)
  BY <1>1 DEF Demand
<1>4. table' = table /\ lived[q] \in SUBSET Keys
  BY DEF Observe, Inv, TypeOK
<1>5. lived'[q] = {k \in lived[q] :
                     /\ Present(k)'
                     /\ Cleans(q)' => Late(table, rows'[k].payload, call'[q].arg)}
  BY <1>1 DEF Observe, Cleans
<1>6. CASE Cleans(q)
  <2>1. \A k \in lived[q] : Present(k) /\ Late(table, rows[k].payload, call[q].arg)
    BY <1>6 DEF Visits, Cleans
  <2> QED BY <1>1, <1>2, <1>3, <1>4, <1>5, <1>6, <2>1
<1>7. CASE ~Cleans(q)
  <2>1. call[q].op \in {"collect", "revoke"}
    BY <1>7, OpenTyped DEF Inv, Cleans
  <2>2. table = "reference_tokens" /\ \A k \in lived[q] : Present(k)
    BY <2>1 DEF Inv, Core, Owed
  <2>3. lived'[q] = {k \in lived[q] : Present(k)'}
    BY <1>2, <1>5, <1>7
  <2> QED BY <1>1, <1>2, <1>3, <1>4, <1>7, <2>2, <2>3
<1> QED BY <1>6, <1>7

(* A revocation or a cleanup under way follows the records *)
LEMMA Followed ==
    ASSUME Inv, Inv', Visits, Observe, Kept, NEW q \in Callers, Goes(q)
    PROVE  Clearings'[q] = RS!Revised(Clearings[q])
<1>1. CASE ~Open(q)
  BY <1>1 DEF Goes, Clearings, RS!Revised
<1>2. CASE Open(q)
  <2> DEFINE arg == call[q].arg
             by  == Demand(q)
  <2>1. /\ Open(q)' /\ (Cleans(q)' <=> Cleans(q)) /\ Demand(q)' = by /\ call'[q].arg = arg
        /\ table' = table /\ lived[q] \in SUBSET Keys
        /\ \A k \in lived[q] : Present(k)
    BY <1>2, LivedOn DEF Goes
  <2>2. \A k \in Keys : Entry(k)' # NoEntry <=> Present(k)'
    BY EntryAfter DEF Inv, TypeOK
  <2>3. call[q].op \in DeleteOps
    BY <1>2, OpenTyped DEF Inv, DeleteOps
  <2>4. ASSUME NEW due0, NEW spared0, NEW due1, NEW spared1,
               due0 \in SUBSET Keys, spared0 \in SUBSET Keys,
               Clearings[q] = RS!Clearing(by, due0, spared0),
               Clearings'[q] = RS!Clearing(by, due1, spared1),
               due1 = {k \in due0 : Entry(k)' # NoEntry /\ Owes(by, Entry(k)')},
               spared1 = {k \in spared0 : Entry(k)' # NoEntry /\ ~Takes(by, Entry(k)')}
        PROVE  Clearings'[q] = RS!Revised(Clearings[q])
    <3>1. \A k \in Keys : Entries'[k] = Entry(k)'
      BY DEF Entries
    <3>2. /\ due1 = {k \in due0 : Entries'[k] # NoEntry /\ Owes(by, Entries'[k])}
          /\ spared1 = {k \in spared0 : Entries'[k] # NoEntry /\ ~Takes(by, Entries'[k])}
      BY <2>4, <3>1
    <3> HIDE DEF by
    <3>3. RS!Revised(RS!Clearing(by, due0, spared0))
            = RS!Clearing(by, {k \in due0 : Entries'[k] # NoEntry /\ Owes(by, Entries'[k])},
                          {k \in spared0 : Entries'[k] # NoEntry /\ ~Takes(by, Entries'[k])})
      BY DEF RS!Revised, RS!Clearing
    <3> QED BY <2>4, <3>2, <3>3
  <2>5. CASE Cleans(q)
    <3>1. lived'[q] = {k \in lived[q] : Present(k)' /\ Late(table, rows'[k].payload, arg)}
      BY <1>2, <2>5, LivedOn
    <3>2. \A k \in Keys : Present(k)' =>
             (Owes(by, Entry(k)') <=> Late(table, rows'[k].payload, arg))
      <4>1. \A k \in Keys : Present(k)' => Entry(k)'.table = table /\ Entry(k)'.row = rows'[k]
        BY <2>1 DEF Entry
      <4>2. \A k \in Keys : Owes(by, Entry(k)')
                               <=> Late(Entry(k)'.table, Entry(k)'.row.payload, arg)
        BY <2>3, <2>5, DemandParts DEF Cleans, Demand
      <4> QED BY <4>1, <4>2
    <3>3. lived'[q] = {k \in lived[q] : Entry(k)' # NoEntry /\ Owes(by, Entry(k)')}
      BY <2>1, <2>2, <3>1, <3>2
    <3>4. {} = {k \in {} : Entry(k)' # NoEntry /\ ~Takes(by, Entry(k)')}
      OBVIOUS
    <3>5. /\ Clearings[q] = RS!Clearing(by, lived[q], {})
          /\ Clearings'[q] = RS!Clearing(by, lived'[q], {})
      BY <1>2, <2>1, <2>5, ClearingParts DEF Clearings, Demand, RS!Clearing
    <3> HIDE DEF by, arg
    <3> QED BY <2>1, <2>4, <3>3, <3>4, <3>5
  <2>6. CASE ~Cleans(q)
    <3> DEFINE due0 == {k \in lived[q] : Taken(arg, Entry(k))}
               spared0 == {k \in lived[q] : ~Taken(arg, Entry(k))}
               due1 == {k \in lived'[q] : Taken(arg, Entry(k)')}
               spared1 == {k \in lived'[q] : ~Taken(arg, Entry(k)')}
    <3>1. lived'[q] = {k \in lived[q] : Present(k)'} /\ table = "reference_tokens"
      BY <1>2, <2>6, LivedOn
    <3>2. \A k \in lived'[q] : Entry(k)' = Entry(k)
      BY <2>1, <3>1, EntryKept DEF Kept
    <3>3. \A k : (Owes(by, Entry(k)') <=> Taken(arg, Entry(k)'))
              /\ (Takes(by, Entry(k)') <=> Taken(arg, Entry(k)'))
      BY <2>3, <2>6, DemandParts DEF Cleans, Demand
    <3>4. /\ due1 = {k \in due0 : Entry(k)' # NoEntry /\ Owes(by, Entry(k)')}
          /\ spared1 = {k \in spared0 : Entry(k)' # NoEntry /\ ~Takes(by, Entry(k)')}
      BY <2>1, <2>2, <3>1, <3>2, <3>3
    <3>5. Clearings[q] = RS!Clearing(by, due0, spared0)
      BY <1>2, <2>6, ClearingParts
    <3>6. Clearings'[q] = RS!Clearing(by, due1, spared1)
      <4>1. Clearings'[q] =
              RS!Clearing(Demand(q)',
                 {k \in lived'[q] : Cleans(q)' \/ Taken(call'[q].arg, Entry(k)')},
                 {k \in lived'[q] : ~Cleans(q)' /\ ~Taken(call'[q].arg, Entry(k)')})
        BY <2>1 DEF Clearings, Demand, RS!Clearing
      <4> QED BY <2>1, <2>6, <4>1
    <3>7. due0 \in SUBSET Keys /\ spared0 \in SUBSET Keys
      BY <2>1
    <3> HIDE DEF by, due0, spared0, due1, spared1
    <3> QED BY <2>4, <3>4, <3>5, <3>6, <3>7
  <2> QED BY <2>5, <2>6
<1> QED BY <1>1, <1>2

(* It is untouched when the records are *)
LEMMA Untouched ==
    ASSUME Inv, Visits, Observe, rows' = rows, NEW q \in Callers, Goes(q)
    PROVE  Clearings'[q] = Clearings[q]
<1>1. CASE ~Open(q)
  BY <1>1 DEF Goes, Clearings
<1>2. CASE Open(q)
  <2>1. /\ Open(q)' /\ (Cleans(q)' <=> Cleans(q)) /\ Demand(q)' = Demand(q)
        /\ call'[q].arg = call[q].arg
    BY <1>2, LivedOn DEF Goes
  <2>2. lived'[q] = lived[q]
    <3>1. \A k : Present(k)' <=> Present(k)
      BY DEF Present
    <3> QED BY <1>2, <3>1, LivedOn
  <2>3. \A k : Entry(k)' = Entry(k)
    BY <1>2, EntryKept DEF Observe
  <2> QED BY <1>2, <2>1, <2>2, <2>3 DEF Clearings, Demand
<1> QED BY <1>1, <1>2

(* A step that leaves the rows and all demands alone *)
LEMMA Steady ==
    ASSUME Inv, Visits, Observe, rows' = rows, \A q \in Callers : Goes(q)
    PROVE  UNCHANGED <<Entries, Clearings>>
<1>1. \A q \in Callers : Clearings'[q] = Clearings[q]
  BY Untouched
<1>2. \A k \in Keys : Entry(k)' = Entry(k)
  BY EntryKept DEF Observe
<1>3. /\ Clearings' = [q \in Callers |-> Clearings'[q]]
      /\ Clearings = [q \in Callers |-> Clearings[q]]
  BY DEF Clearings
<1> QED BY <1>1, <1>2, <1>3 DEF Entries

(* A step that ends the call of p, if it has one, and leaves the others alone *)
LEMMA Revises ==
    ASSUME Inv, Inv', Visits, Observe, Kept, NEW p \in Callers, ~Open(p)',
           \A q \in Callers \ {p} : Goes(q)
    PROVE  RS!Revise(p)
<1>1. \A q \in Callers \ {p} : Clearings'[q] = RS!Revised(Clearings[q])
  BY Followed
<1>2. Clearings'[p] = RS!Idle
  BY DEF Clearings, RS!Idle
<1>3. Clearings' = [q \in Callers |-> Clearings'[q]]
  BY DEF Clearings
<1> QED BY <1>1, <1>2, <1>3 DEF RS!Revise

(* The calls go on when none is touched *)
LEMMA AllGo ==
    ASSUME call' = call
    PROVE  \A q \in Callers : Goes(q)
BY DEF Goes, Open

-----------------------------------------------------------------------------
LEMMA FailRefines ==
    ASSUME Inv, Visits, Observe, NEW p \in Callers, ~Open(p), UNCHANGED <<rows, call>>,
           NEW op \in {"get", "list", "store", "update", "remove"}, Answer(p, op, "wrapped")
    PROVE  RS!CallNext(p)
<1>1. Outcome' = [caller |-> p, op |-> op, err |-> "wrapped"]
  BY OutcomeIs, OpNames DEF Answer
<1>2. ~RS!Busy(p)
  BY ClearingParts
<1>3. UNCHANGED <<Entries, Clearings>>
  BY AllGo, Steady
<1> QED BY <1>1, <1>2, <1>3 DEF RS!CallNext, RS!Fail, RS!Answer

LEMMA ReadRefines ==
    ASSUME Inv, Visits, Observe, NEW p \in Callers, NEW K, ReadRow(p, K)
    PROVE  RS!CallNext(p)
<1>1. ~Open(p) /\ UNCHANGED <<rows, call>>
  BY DEF ReadRow
<1>2. CASE Answer(p, "get", "wrapped")
  BY <1>1, <1>2, FailRefines
<1>3. CASE ~Answer(p, "get", "wrapped")
  <2>1. reply'.caller = p /\ reply'.op = "get" /\ reply'.err \in {"ok", "missing"}
    BY <1>3 DEF ReadRow, Answer
  <2>2. Outcome' = [caller |-> p, op |-> "get", err |-> reply'.err]
    BY <2>1, OutcomeIs, OpNames
  <2>3. UNCHANGED <<Entries, Clearings>> /\ ~RS!Busy(p)
    BY <1>1, AllGo, Steady, ClearingParts
  <2>4. RS!Look(p)
    BY <2>1, <2>2, <2>3 DEF RS!Look, RS!Answer
  <2> QED BY <2>4 DEF RS!CallNext
<1> QED BY <1>2, <1>3

(* Two records are never named by the same code or id *)
LEMMA NamesOne ==
    ASSUME Inv, NEW t, NEW j \in Keys, NEW k \in Keys, Present(j), Present(k),
           Names(t, j, Entry(j)), Names(t, k, Entry(k))
    PROVE  j = k
<1>1. /\ Entry(j).table = table /\ Entry(k).table = table
      /\ Entry(j).row = rows[j] /\ Entry(k).row = rows[k]
  BY EntryIs DEF Inv, TypeOK
<1> QED BY <1>1 DEF Names, Inv, Core, UserCodesUnique

LEMMA StoreRefines ==
    ASSUME Inv, Inv', Visits, Observe, NEW p \in Callers, NEW k \in Keys, NEW row,
           NEW rivals \in SUBSET Keys, \A j \in rivals : Present(j), RowsAt(k) \subseteq rivals,
           rivals = {} => NewRow(row),
           InsertRow(p, k, row, rivals)
    PROVE  RS!CallNext(p)
<1>1. ~Open(p) /\ call' = call /\ table' = table /\ table \in Tables
  BY DEF InsertRow, Observe, Inv, TypeOK
<1>2. ~RS!Busy(p) /\ \A q \in Callers : Goes(q)
  BY <1>1, AllGo, ClearingParts
<1>3. CASE Answer(p, "store", "wrapped") /\ UNCHANGED rows
  BY <1>1, <1>3, FailRefines
<1>4. CASE /\ \E rival \in rivals : Unlocked(rival)
           /\ Answer(p, "store", "duplicate") /\ UNCHANGED rows
  <2>1. Outcome' = [caller |-> p, op |-> "store", err |-> "duplicate"]
    BY <1>4, OutcomeIs, OpNames DEF Answer
  <2>2. \E j \in Keys : RS!Present(j)
    BY <1>1, <1>4, EntryPresent
  <2>3. UNCHANGED <<Entries, Clearings>>
    BY <1>2, <1>4, Steady
  <2>4. RS!Refuse(p)
    BY <1>2, <2>1, <2>2, <2>3 DEF RS!Refuse, RS!Answer
  <2> QED BY <2>4 DEF RS!CallNext
<1>5. CASE /\ rivals = {} /\ rows' = [rows EXCEPT ![k] = row]
           /\ \E err \in {"ok", "wrapped"} : Answer(p, "store", err)
  <2>1. ~Present(k)
    BY <1>5 DEF RowsAt
  <2>2. rows'[k] # Absent
    <3>1. row \in RowType
      BY <1>5, NewRowTyped
    <3>2. row # Absent
      BY <1>1, <3>1, AbsentAssumption DEF RowType, Tables
    <3> QED BY <1>5, <3>2 DEF Inv, TypeOK
  <2>3. \A j \in Keys \ {k} : rows'[j] = rows[j]
    BY <1>5 DEF Inv, TypeOK
  <2>4. Kept
    BY <2>1, <2>3 DEF Kept
  <2>5. RS!Revise(p)
    <3>1. ~Open(p)'
      BY <1>1 DEF Open
    <3> QED BY <1>2, <2>4, <3>1, Revises
  <2>6. Entries'[k] # NoEntry
    BY <1>1, <2>2, EntryAfter DEF Entries, Present
  <2>7. RS!Write(p, {k})
    BY <1>1, <2>3, <2>5, <2>6, EntriesBut DEF RS!Write
  <2>8. ASSUME NEW t, NEW j \in Keys \ {k}, RS!Present(j), Names(t, j, Entries[j]),
               Names(t, k, Entries'[k])
        PROVE  FALSE
    <3>1. Present(j)' /\ Present(k)' /\ Entry(j)' = Entry(j)
      BY <1>1, <2>2, <2>3, <2>8, EntryKept, EntryPresent DEF Present
    <3>2. Names(t, j, Entry(j)') /\ Names(t, k, Entry(k)')
      BY <2>8, <3>1 DEF Entries
    <3>3. ASSUME NEW i \in Keys, Present(i)'
          PROVE  Entry(i)'.table = table /\ Entry(i)'.row = rows'[i]
      BY <1>1, <3>3 DEF Entry
    <3>4. \A i, l \in Keys : table = "device_codes" /\ Present(i)' /\ Present(l)'
             /\ rows'[i].user_code = rows'[l].user_code => i = l
      BY <1>1 DEF Inv, Core, UserCodesUnique
    <3> QED BY <3>1, <3>2, <3>3, <3>4 DEF Names
  <2>9. Outcome' \in [caller : {p}, op : {"store"}, err : {"ok", "wrapped"}]
    BY <1>5, OutcomeIs, OpNames DEF Answer
  <2>10. ~RS!Present(k)
    BY <1>1, <2>1, EntryPresent
  <2>11. RS!Store(p)
    BY <1>2, <2>7, <2>8, <2>9, <2>10 DEF RS!Store, RS!Answer
  <2> QED BY <2>11 DEF RS!CallNext
<1> QED BY <1>1, <1>3, <1>4, <1>5 DEF InsertRow

(* A write of exactly the rows that the target names, which it goes on naming *)
LEMMA UpdateRefines ==
    ASSUME Inv, Inv', Visits, Observe, NEW p \in Callers, table # "reference_tokens",
           NEW t \in Keys \cup UserCodes, NEW K \in SUBSET Keys,
           \A k \in Keys : k \in K <=> Present(k) /\ Names(t, k, Entry(k)),
           NEW row, \A k \in K : row[k] # Absent /\ Names(t, k, [table |-> table, row |-> row[k]]),
           WriteRows(p, "update", K, row)
    PROVE  RS!CallNext(p)
<1>1. ~Open(p) /\ call' = call /\ table' = table /\ table \in Tables
  BY DEF WriteRows, Observe, Inv, TypeOK
<1>2. ~RS!Busy(p) /\ \A q \in Callers : Goes(q)
  BY <1>1, AllGo, ClearingParts
<1>3. CASE Answer(p, "update", "wrapped") /\ UNCHANGED rows
  BY <1>1, <1>3, FailRefines
<1>4. CASE /\ rows' = [k \in Keys |-> IF k \in K THEN row[k] ELSE rows[k]]
           /\ \E err \in {"ok", "wrapped"} : Answer(p, "update", err)
  <2>1. /\ \A k \in Keys \ K : rows'[k] = rows[k]
        /\ \A k \in K : rows'[k] = row[k]
    BY <1>4
  <2>2. RS!Met(t) = K
    <3>1. \A k \in Keys : RS!Present(k) /\ Names(t, k, Entries[k]) <=> k \in K
      BY <1>1, EntryPresent DEF Entries
    <3> QED BY <3>1 DEF RS!Met
  <2>3. RS!Revise(p)
    <3>1. ~Open(p)'
      BY <1>1 DEF Open
    <3>2. Kept
      BY DEF Kept
    <3> QED BY <1>2, <3>1, <3>2, Revises
  <2>4. ASSUME NEW k \in K
        PROVE  Entries'[k] = [table |-> table, row |-> row[k]] /\ Entries'[k] # NoEntry
    <3>1. Present(k)'
      BY <2>1 DEF Present
    <3>2. Entry(k)' = [table |-> table, row |-> row[k]]
      BY <1>1, <2>1, <3>1 DEF Entry
    <3> QED BY <1>1, <3>1, <3>2, EntryAfter DEF Entries
  <2>5. RS!Write(p, K)
    BY <1>1, <2>1, <2>3, <2>4, EntriesBut DEF RS!Write
  <2>6. \A k \in K : Names(t, k, Entries'[k])
    BY <2>4
  <2>7. Outcome' \in [caller : {p}, op : {"update"}, err : {"ok", "wrapped"}]
    BY <1>4, OutcomeIs, OpNames DEF Answer
  <2>8. RS!Update(p)
    BY <1>2, <2>2, <2>5, <2>6, <2>7 DEF RS!Update, RS!Answer
  <2> QED BY <2>8 DEF RS!CallNext
<1> QED BY <1>1, <1>3, <1>4 DEF WriteRows

(* A removal takes the entries in H; the revocations of other callers go on *)
LEMMA DropRefines ==
    ASSUME Inv, Inv', Visits, Observe, NEW p \in Callers, NEW H \in SUBSET Keys, Deletes(p, H)
    PROVE  RS!Drop(p, H)
<1>0. CallShape /\ LocksApart
  BY ShapeOfCalls DEF Inv, Core
<1>1. /\ rows' = [j \in Keys |-> IF j \in H THEN Absent ELSE rows[j]]
      /\ ~Open(p)'
      /\ \A q \in Callers \ {p} : Open(q)' <=> Open(q)
      /\ \A q \in Callers \ {p} : Open(q) =>
            call'[q].op = call[q].op /\ call'[q].arg = call[q].arg
  BY <1>0, RowsGo
<1>2. ~Open(p)'
  BY <1>1
<1>3. ASSUME NEW q \in Callers \ {p}
      PROVE  Goes(q)
  BY <1>1 DEF Goes
<1>4. Kept
  BY <1>1 DEF Kept, Present
<1>5. RS!Revise(p)
  BY <1>2, <1>3, <1>4, Revises
<1>6. Entries' = [k \in Keys |-> IF k \in H THEN NoEntry ELSE Entries[k]]
  BY <1>1, EntriesGo DEF Inv, TypeOK, Observe
<1> QED BY <1>5, <1>6 DEF RS!Drop

LEMMA RemoveRefines ==
    ASSUME Inv, Inv', Visits, Observe, NEW p \in Callers, NEW k \in Keys, DeleteRow(p, k)
    PROVE  RS!CallNext(p)
<1>1. ~Open(p)
  BY DEF DeleteRow
<1>2. CASE UNCHANGED <<rows, call>> /\ Answer(p, "remove", "wrapped")
  BY <1>1, <1>2, FailRefines
<1>3. CASE Unlocked(k) /\ Remove(p, {k})
           /\ (Answer(p, "remove", "wrapped")
               \/ reply' = [caller |-> p, op |-> "remove", err |-> "ok", key |-> k])
  <2>1. Deletes(p, {k}) /\ {k} \in SUBSET Keys
    BY <1>1, <1>3 DEF Deletes
  <2>2. RS!Drop(p, {k})
    BY <2>1, DropRefines
  <2>3. Outcome' \in [caller : {p}, op : {"remove"}, err : {"ok", "wrapped"}]
    BY <1>3, OutcomeIs, OpNames DEF Answer
  <2>4. RS!Remove(p)
    BY <1>1, <2>2, <2>3, ClearingParts DEF RS!Remove, RS!Answer
  <2> QED BY <2>4 DEF RS!CallNext
<1> QED BY <1>2, <1>3 DEF DeleteRow

-----------------------------------------------------------------------------
(* A statement that is neither the first nor the last of its call shows nothing *)
LEMMA WorkRefines ==
    ASSUME Inv, Visits, Observe, NEW p \in Callers, Open(p),
           NEW op \in DeleteOps, OpName(op) = OpName(call[p].op), NEW s, NEW l,
           call' = [call EXCEPT ![p] = Deleting(op, call[p].arg, s, l)],
           rows' = rows, reply' = Silence
    PROVE  RS!Work
<1>1. /\ call'[p] = Deleting(op, call[p].arg, s, l)
      /\ \A q \in Callers \ {p} : call'[q] = call[q]
  BY DEF Inv, TypeOK
<1>2. Open(p)' /\ call'[p].op = op /\ call'[p].arg = call[p].arg
  BY <1>1, CallParts DEF Open
<1>3. Goes(p)
  BY <1>2 DEF Goes
<1>4. ASSUME NEW q \in Callers \ {p}
      PROVE  Goes(q)
  BY <1>1 DEF Goes, Open
<1>5. UNCHANGED <<Entries, Clearings>>
  BY <1>3, <1>4, Steady
<1> QED BY <1>5, OutcomeIs DEF RS!Work

LEMMA LockRefines ==
    ASSUME Inv, Visits, Observe, NEW p \in Callers, NEW k \in Keys, LockNext(p, k)
    PROVE  RS!Work
<1> DEFINE more == IF Selected(p, k) THEN call[p].locked \cup {k} ELSE call[p].locked
<1>1. /\ Open(p) /\ rows' = rows /\ reply' = Silence
      /\ call' = [call EXCEPT ![p] =
                    Deleting(call[p].op, call[p].arg, call[p].scan \ {k}, more)]
  BY DEF LockNext, LockRow
<1>2. call[p].op \in DeleteOps
  BY <1>1, OpenTyped DEF Inv, DeleteOps
<1> HIDE DEF more
<1> QED BY <1>1, <1>2, WorkRefines

(* The snapshot of a DELETE, or the list of handles of a revocation, is taken as the
   call begins *)
LEMMA BeginRefines ==
    ASSUME Inv, Visits, Observe, NEW p \in Callers, NEW op \in DeleteOps, NEW by \in Demands,
           by.op = OpName(op), NEW s, BeginDelete(p, op, by.arg, s)
    PROVE  RS!CallNext(p)
<1> DEFINE owed == {k \in Keys : RS!Present(k) /\ Owes(by, Entries[k])}
           kept == {k \in Keys : ByKey(by) /\ RS!Present(k) /\ ~Takes(by, Entries[k])}
<1>1. /\ ~Open(p) /\ rows' = rows /\ reply' = Silence
      /\ call' = [call EXCEPT ![p] = Deleting(op, by.arg, s, {})]
  BY DEF BeginDelete
<1>2. /\ call'[p] = Deleting(op, by.arg, s, {})
      /\ \A q \in Callers \ {p} : call'[q] = call[q]
  BY <1>1 DEF Inv, TypeOK
<1>3. Open(p)' /\ call'[p].op = op /\ call'[p].arg = by.arg
  BY <1>2, CallParts DEF Open
<1>4. by = [op |-> OpName(op), arg |-> by.arg]
  BY DEF Demands
<1>5. /\ table' = table /\ \A k : (Present(k)' <=> Present(k)) /\ Entry(k)' = Entry(k)
  BY <1>1, EntryKept DEF Observe, Present
<1>6. \A k \in Keys : Entries[k] = Entry(k) /\ (RS!Present(k) <=> Present(k))
  BY EntryPresent DEF Entries, Inv, TypeOK
<1>7. lived'[p] = {k \in Keys : Present(k) /\ (op = "removeExpired"
                                               => Late(table, rows[k].payload, by.arg))}
  BY <1>1, <1>3, <1>5 DEF Observe
<1>8. Clearings'[p] = RS!Clearing(by, owed, kept)
  <2>1. Clearings'[p] = RS!Clearing(by, {k \in lived'[p] : Cleans(p)' \/ Taken(by.arg, Entry(k))},
                                {k \in lived'[p] : ~Cleans(p)' /\ ~Taken(by.arg, Entry(k))})
    <3>1. Clearings'[p] =
            [busy |-> TRUE, by |-> [op |-> OpName(call'[p].op), arg |-> call'[p].arg],
             due |-> {k \in lived'[p] : Cleans(p)' \/ Taken(call'[p].arg, Entry(k)')},
             spared |-> {k \in lived'[p] : ~Cleans(p)' /\ ~Taken(call'[p].arg, Entry(k)')}]
      BY <1>3 DEF Clearings
    <3>2. /\ {k \in lived'[p] : Cleans(p)' \/ Taken(call'[p].arg, Entry(k)')}
                = {k \in lived'[p] : Cleans(p)' \/ Taken(by.arg, Entry(k))}
          /\ {k \in lived'[p] : ~Cleans(p)' /\ ~Taken(call'[p].arg, Entry(k)')}
                = {k \in lived'[p] : ~Cleans(p)' /\ ~Taken(by.arg, Entry(k))}
      BY <1>3, <1>5
    <3> QED BY <1>3, <1>4, <3>1, <3>2 DEF RS!Clearing
  <2>2. CASE op = "removeExpired"
    <3>1. \A k \in Keys : Present(k) =>
            (Owes(by, Entry(k)) <=> Late(table, rows[k].payload, by.arg))
      <4>1. \A k : Owes(by, Entry(k)) <=> Late(Entry(k).table, Entry(k).row.payload, by.arg)
        BY <1>4, <2>2, DemandParts
      <4>2. \A k : Present(k) => Entry(k).table = table /\ Entry(k).row = rows[k]
        BY EntryIs DEF Inv, TypeOK
      <4> QED BY <4>1, <4>2
    <3>2. ~ByKey(by)
      BY <1>4, <2>2, DemandParts
    <3>3. lived'[p] = owed /\ kept = {}
      BY <1>6, <1>7, <2>2, <3>1, <3>2
    <3>4. Cleans(p)'
      BY <1>3, <2>2 DEF Cleans
    <3>5. /\ {k \in lived'[p] : Cleans(p)' \/ Taken(by.arg, Entry(k))} = lived'[p]
          /\ {k \in lived'[p] : ~Cleans(p)' /\ ~Taken(by.arg, Entry(k))} = {}
      BY <3>4
    <3> QED BY <2>1, <3>3, <3>5
  <2>3. CASE op # "removeExpired"
    <3>1. \A k \in Keys : /\ Owes(by, Entry(k)) <=> Taken(by.arg, Entry(k))
                          /\ Takes(by, Entry(k)) <=> Taken(by.arg, Entry(k))
      BY <1>4, <2>3, DemandParts
    <3>2. ByKey(by)
      BY <1>4, <2>3, DemandParts
    <3>3. ~Cleans(p)'
      BY <1>3, <2>3 DEF Cleans
    <3>4. lived'[p] = {k \in Keys : Present(k)}
      BY <1>7, <2>3
    <3>5. owed = {k \in lived'[p] : Cleans(p)' \/ Taken(by.arg, Entry(k))}
      BY <1>6, <3>1, <3>3, <3>4
    <3>6. kept = {k \in lived'[p] : ~Cleans(p)' /\ ~Taken(by.arg, Entry(k))}
      BY <1>6, <3>1, <3>2, <3>3, <3>4
    <3> QED BY <2>1, <3>5, <3>6
  <2> QED BY <2>2, <2>3
<1>9. \A q \in Callers \ {p} : Clearings'[q] = Clearings[q]
  <2> SUFFICES ASSUME NEW q \in Callers \ {p} PROVE Clearings'[q] = Clearings[q]
    OBVIOUS
  <2>1. Goes(q)
    BY <1>2 DEF Goes, Open
  <2> QED BY <1>1, <2>1, Untouched
<1>10. Clearings' = [Clearings EXCEPT ![p] = RS!Clearing(by, owed, kept)]
  BY <1>8, <1>9 DEF Clearings
<1>11. Entries' = Entries /\ Outcome' = RS!Silence /\ ~RS!Busy(p)
  BY <1>1, <1>5, OutcomeIs, ClearingParts DEF Entries
<1>12. RS!Begin(p)
  BY <1>10, <1>11 DEF RS!Begin
<1> QED BY <1>12 DEF RS!CallNext

(* What a call owes at the end is still to be visited or locked, and nothing of it was
   spared *)
LEMMA OwedParts ==
    ASSUME Inv, Visits, NEW p \in Callers, Open(p)
    PROVE  /\ Clearings[p].due \subseteq call[p].scan \cup call[p].locked
           /\ Clearings[p].spared \cap (call[p].scan \cup call[p].locked) = {}
<1>1. CASE Cleans(p)
  <2>1. Clearings[p].due = lived[p] /\ Clearings[p].spared = {}
    <3>1. Clearings[p] = RS!Clearing(Demand(p), lived[p], {})
      BY <1>1, ClearingParts
    <3> QED BY <3>1 DEF RS!Clearing
  <2>2. lived[p] \subseteq call[p].scan \cup call[p].locked
    BY <1>1 DEF Visits, Cleans
  <2> QED BY <2>1, <2>2
<1>2. CASE ~Cleans(p)
  <2>1. /\ Clearings[p].due = {k \in lived[p] : Taken(call[p].arg, Entry(k))}
        /\ Clearings[p].spared = {k \in lived[p] : ~Taken(call[p].arg, Entry(k))}
    <3>1. Clearings[p] =
            RS!Clearing(Demand(p), {k \in lived[p] : Taken(call[p].arg, Entry(k))},
                                   {k \in lived[p] : ~Taken(call[p].arg, Entry(k))})
      BY <1>2, ClearingParts
    <3> QED BY <3>1 DEF RS!Clearing
  <2>2. call[p].op \in {"collect", "revoke"}
    BY <1>2, OpenTyped DEF Inv, Cleans
  <2>3. /\ table = "reference_tokens" /\ table \in Tables
        /\ \A k \in lived[p] :
              /\ Present(k)
              /\ Belongs(rows[k].payload, call[p].arg) <=> k \in call[p].scan \cup call[p].locked
    BY <2>2 DEF Inv, Core, Owed, TypeOK
  <2>4. \A k \in lived[p] :
          Taken(call[p].arg, Entry(k)) <=> k \in call[p].scan \cup call[p].locked
    BY <2>3, EntryIs DEF Taken
  <2> QED BY <2>1, <2>4
<1> QED BY <1>1, <1>2

(* Nothing matched: the revocation ends without a second statement *)
LEMMA HandOverRefines ==
    ASSUME Inv, Inv', Visits, Observe, NEW p \in Callers, RevokeCollected(p)
    PROVE  RS!Next
<1>1. /\ Open(p) /\ call[p].op = "collect" /\ rows' = rows
      /\ OpName(call[p].op) = "revoke"
  BY OpNames DEF RevokeCollected
<1>2. CASE /\ call[p].scan = {}
           /\ call' = [call EXCEPT ![p] = Idle]
           /\ Answer(p, "revoke", "ok")
  <2>1. ~Open(p)' /\ \A q \in Callers \ {p} : call'[q] = call[q]
    BY <1>2 DEF Open, Inv, TypeOK
  <2>2. ASSUME NEW q \in Callers \ {p}
        PROVE  Goes(q)
    BY <2>1 DEF Goes, Open
  <2>3. RS!Revise(p)
    BY <1>1, <2>1, <2>2, Revises DEF Kept
  <2>4. Entries' = [k \in Keys |-> IF k \in {} THEN NoEntry ELSE Entries[k]]
    BY <1>1, EntryKept DEF Entries, Observe
  <2>5. RS!Drop(p, {})
    BY <2>3, <2>4 DEF RS!Drop
  <2>6. Clearings[p].due \subseteq {}
    BY <1>1, <1>2, OwedParts DEF Inv, Core, Owed
  <2>7. Outcome' = [caller |-> p, op |-> "revoke", err |-> "ok"]
    BY <1>2, OutcomeIs, OpNames DEF Answer
  <2>8. RS!Busy(p) /\ Clearings[p].by.op = "revoke" /\ ByKey(Clearings[p].by)
    BY <1>1, ClearingParts DEF ByKey
  <2>9. RS!Finish(p)
    BY <2>5, <2>6, <2>7, <2>8 DEF RS!Finish, RS!Answer
  <2> QED BY <2>9 DEF RS!CallNext, RS!Next
<1>3. CASE /\ call' = [call EXCEPT ![p] =
                        Deleting("revoke", call[p].arg, {h \in call[p].scan : Present(h)}, {})]
           /\ reply' = Silence
  <2> DEFINE left == {h \in call[p].scan : Present(h)}
  <2>1. call' = [call EXCEPT ![p] = Deleting("revoke", call[p].arg, left, {})]
    BY <1>3
  <2> HIDE DEF left
  <2>2. "revoke" \in DeleteOps /\ OpName("revoke") = OpName(call[p].op)
    BY <1>1, OpNames DEF DeleteOps
  <2>3. RS!Work
    BY <1>1, <1>3, <2>1, <2>2, WorkRefines
  <2> QED BY <2>3 DEF RS!Next
<1> QED BY <1>2, <1>3 DEF RevokeCollected

(* A commit removes what was locked: all that is due, and nothing that may not go *)
LEMMA CommitRefines ==
    ASSUME \A rec \in Codes \cup Tokens \cup DeviceCodes : Representable(rec.lifetime),
           Inv, Inv', Visits, Observe, NEW p \in Callers, CommitDelete(p)
    PROVE  RS!CallNext(p)
<1> DEFINE H == call[p].locked
           arg == call[p].arg
           by == Clearings[p].by
<1>1. /\ Open(p) /\ H \in SUBSET Keys /\ Deletes(p, H)
      /\ call[p].op # "collect" /\ call[p].scan = {}
      /\ reply'.op = call[p].op /\ reply'.caller = p /\ reply'.err \in {"ok", "wrapped"}
  BY OpenTyped DEF Inv, CommitDelete, Deletes, Answer
<1>2. call[p].op \in DeleteOps
  BY <1>1, OpenTyped DEF Inv, DeleteOps
<1>3. RS!Drop(p, H)
  BY <1>1, DropRefines
<1>4. Clearings[p].due \subseteq H /\ H \cap Clearings[p].spared = {}
  BY <1>1, OwedParts
<1>5. RS!Busy(p) /\ by = Demand(p) /\ by.op = OpName(call[p].op)
  BY <1>1, ClearingParts
<1>6. Outcome' \in [caller : {p}, op : {by.op}, err : {"ok", "wrapped"}]
  <2>1. reply'.op # "none"
    BY <1>1, <1>2 DEF DeleteOps
  <2>2. Outcome' = [caller |-> p, op |-> by.op, err |-> reply'.err]
    BY <1>1, <1>5, <2>1, OutcomeIs
  <2> QED BY <1>1, <2>2
<1>7. ByKey(by) \/ \A k \in H : RS!Present(k) /\ Takes(by, Entries[k])
  <2>1. CASE call[p].op = "removeExpired"
    <3>1. \A k \in H : k \in Keys /\ Expired(k, arg)
      BY <1>1, <2>1 DEF Inv, Core, LockedRight
    <3>2. arg \in Cutoffs
      BY <1>1, <2>1, OpenTyped DEF Inv
    <3>3. ASSUME NEW k \in H
          PROVE  RS!Present(k) /\ Takes(by, Entries[k])
      <4>1. k \in Keys /\ Expired(k, arg) /\ Present(k)
        BY <3>1 DEF Expired
      <4>2. Lapsed(table, rows[k].payload, arg)
        BY <3>2, <4>1, ExpiredLapsed
      <4>3. Entry(k).table = table /\ Entry(k).row = rows[k] /\ RS!Present(k)
        BY <4>1, EntryIs, EntryPresent DEF Inv, TypeOK
      <4>4. Takes(by, Entry(k)) <=> Lapsed(Entry(k).table, Entry(k).row.payload, arg)
        BY <1>2, <1>5, <2>1, DemandParts DEF Demand
      <4> QED BY <4>1, <4>2, <4>3, <4>4 DEF Entries
    <3> QED BY <3>3
  <2>2. CASE call[p].op # "removeExpired"
    BY <1>2, <1>5, <2>2, DemandParts DEF Demand
  <2> QED BY <2>1, <2>2
<1> HIDE DEF H, by
<1>8. RS!Finish(p)
  BY <1>1, <1>3, <1>4, <1>5, <1>6, <1>7 DEF RS!Finish, RS!Answer, by
<1> QED BY <1>8 DEF RS!CallNext

(* A call that is given up has changed nothing *)
LEMMA AbortRefines ==
    ASSUME Inv, Visits, Observe, NEW p \in Callers, AbortCall(p)
    PROVE  RS!CallNext(p)
<1>1. /\ Open(p) /\ rows' = rows /\ ~Open(p)'
      /\ \A q \in Callers \ {p} : call'[q] = call[q]
  BY DEF AbortCall, Inv, TypeOK, Open
<1>2. ASSUME NEW q \in Callers \ {p}
      PROVE  Goes(q)
  BY <1>1 DEF Goes, Open
<1>3. /\ \A q \in Callers \ {p} : Clearings'[q] = Clearings[q]
      /\ Clearings'[p] = RS!Idle
  BY <1>1, <1>2, Untouched DEF Clearings, RS!Idle
<1>4. Clearings' = [Clearings EXCEPT ![p] = RS!Idle]
  BY <1>3 DEF Clearings
<1>5. Entries' = Entries
  BY <1>1, EntryKept DEF Entries, Observe
<1>6. RS!Busy(p) /\ Clearings[p].by.op = OpName(call[p].op)
  BY <1>1, ClearingParts
<1>7. Outcome' = [caller |-> p, op |-> OpName(call[p].op), err |-> "wrapped"]
  <2>1. call[p].op # "none"
    BY <1>1, OpenTyped DEF Inv
  <2> QED BY <2>1, OutcomeIs DEF AbortCall, Answer
<1>8. RS!Abandon(p)
  BY <1>4, <1>5, <1>6, <1>7 DEF RS!Abandon, RS!Answer
<1> QED BY <1>8 DEF RS!CallNext

-----------------------------------------------------------------------------
(* The calls of the four stores, one store at a time *)
LEMMA RevokeRefines ==
    ASSUME Inv, Visits, Observe, NEW p \in Callers, NEW pair \in Subjects \X Clients,
           RemoveReferenceTokens(p, pair)
    PROVE  RS!CallNext(p)
<1> DEFINE by == [op |-> "revoke", arg |-> pair]
           s == {h \in Keys : Present(h) /\ MatchesPair(rows[h].payload, pair)}
<1>1. /\ by \in Demands /\ by.op = OpName("collect") /\ "collect" \in DeleteOps
      /\ BeginDelete(p, "collect", by.arg, s)
  BY OpNames DEF Demands, DeleteOps, RemoveReferenceTokens
<1> HIDE DEF by, s
<1> QED BY <1>1, BeginRefines

LEMMA CleanupRefines ==
    ASSUME Inv, Visits, Observe, NEW p \in Callers, NEW cutoff \in Cutoffs,
           BeginDelete(p, "removeExpired", cutoff, ExpiredRows(cutoff))
    PROVE  RS!CallNext(p)
<1> DEFINE by == [op |-> "removeExpired", arg |-> cutoff]
<1>1. /\ by \in Demands /\ by.op = OpName("removeExpired") /\ "removeExpired" \in DeleteOps
      /\ BeginDelete(p, "removeExpired", by.arg, ExpiredRows(cutoff))
  BY OpNames DEF Demands, DeleteOps
<1> HIDE DEF by
<1> QED BY <1>1, BeginRefines

LEMMA RowsThere ==
    /\ \A k \in Keys : RowsAt(k) \in SUBSET Keys /\ \A j \in RowsAt(k) : Present(j)
    /\ \A u : RowsOf(u) \in SUBSET Keys /\ \A j \in RowsOf(u) : Present(j)
BY DEF RowsAt, RowsOf

LEMMA CodeRefines ==
    ASSUME Inv, Inv', Visits, Observe, NEW p \in Callers, table = "authorization_codes",
           AuthorizationCodeNext(p)
    PROVE  RS!Next
<1>1. ASSUME NEW h \in Keys, NEW code \in Codes, StoreAuthorizationCode(p, h, code)
      PROVE  RS!CallNext(p)
  BY <1>1, RowsThere, StoreRefines DEF StoreAuthorizationCode, NewRow
<1>2. ASSUME NEW h \in Keys, GetAuthorizationCode(p, h) \/ RemoveAuthorizationCode(p, h)
      PROVE  RS!CallNext(p)
  BY <1>2, ReadRefines, RemoveRefines DEF GetAuthorizationCode, RemoveAuthorizationCode
<1>3. ASSUME NEW cutoff \in Cutoffs, RemoveExpiredCodes(p, cutoff)
      PROVE  RS!CallNext(p)
  BY <1>3, CleanupRefines DEF RemoveExpiredCodes
<1> QED BY <1>1, <1>2, <1>3 DEF AuthorizationCodeNext, RS!Next

LEMMA TokenRefines ==
    ASSUME Inv, Inv', Visits, Observe, NEW p \in Callers, table = "reference_tokens",
           ReferenceTokenNext(p)
    PROVE  RS!Next
<1>1. ASSUME NEW h \in Keys, NEW token \in Tokens, StoreReferenceToken(p, h, token)
      PROVE  RS!CallNext(p)
  BY <1>1, RowsThere, StoreRefines DEF StoreReferenceToken, NewRow
<1>2. ASSUME NEW h \in Keys, GetReferenceToken(p, h) \/ RemoveReferenceToken(p, h)
      PROVE  RS!CallNext(p)
  BY <1>2, ReadRefines, RemoveRefines DEF GetReferenceToken, RemoveReferenceToken
<1>3. ASSUME NEW pair \in Subjects \X Clients, RemoveReferenceTokens(p, pair)
      PROVE  RS!CallNext(p)
  BY <1>3, RevokeRefines
<1>4. ASSUME NEW cutoff \in Cutoffs, RemoveExpiredTokens(p, cutoff)
      PROVE  RS!CallNext(p)
  BY <1>4, CleanupRefines DEF RemoveExpiredTokens
<1> QED BY <1>1, <1>2, <1>3, <1>4, HandOverRefines DEF ReferenceTokenNext, RS!Next

LEMMA DeviceRefines ==
    ASSUME Inv, Inv', Visits, Observe, NEW p \in Callers, table = "device_codes", DeviceFlowNext(p)
    PROVE  RS!Next
<1>1. ASSUME NEW h \in Keys, NEW u \in UserCodes, NEW data \in DeviceCodes,
             StoreDeviceAuthorization(p, h, u, data)
      PROVE  RS!CallNext(p)
  <2>1. /\ RowsAt(h) \cup RowsOf(u) \in SUBSET Keys
        /\ \A j \in RowsAt(h) \cup RowsOf(u) : Present(j)
    BY RowsThere
  <2>2. RowsAt(h) \cup RowsOf(u) = {} => NewRow(DeviceRow(u, data))
    BY DEF NewRow
  <2> QED BY <1>1, <2>1, <2>2, StoreRefines DEF StoreDeviceAuthorization
<1>2. ASSUME NEW h \in Keys, FindByDeviceCode(p, h) \/ RemoveByDeviceCode(p, h)
      PROVE  RS!CallNext(p)
  BY <1>2, ReadRefines, RemoveRefines DEF FindByDeviceCode, RemoveByDeviceCode
<1>3. ASSUME NEW u \in UserCodes, FindByUserCode(p, u)
      PROVE  RS!CallNext(p)
  BY <1>3, ReadRefines DEF FindByUserCode
<1>4. ASSUME NEW u \in UserCodes, NEW data \in DeviceCodes, UpdateByUserCode(p, u, data)
      PROVE  RS!CallNext(p)
  <2> DEFINE K == RowsOf(u)
             row == [k \in K |-> DeviceRow(u, data)]
  <2>1. K \in SUBSET Keys /\ WriteRows(p, "update", K, row)
    BY <1>4 DEF UpdateByUserCode, RowsOf
  <2>2. \A k \in Keys : k \in K <=> Present(k) /\ Names(u, k, Entry(k))
    BY EntryIs DEF RowsOf, Names, Inv, TypeOK
  <2>3. ASSUME NEW k \in K
        PROVE  row[k] # Absent /\ Names(u, k, [table |-> table, row |-> row[k]])
    <3>1. row[k] = DeviceRow(u, data)
      OBVIOUS
    <3>2. row[k] \in DeviceCodeRow /\ row[k].user_code = u
      BY <3>1, DeviceRowTyped DEF RowType
    <3> QED BY <3>2, AbsentAssumption DEF Names
  <2> HIDE DEF K, row
  <2> QED BY <2>1, <2>2, <2>3, UpdateRefines
<1>5. ASSUME NEW cutoff \in Cutoffs, RemoveExpiredAuthorizations(p, cutoff)
      PROVE  RS!CallNext(p)
  BY <1>5, CleanupRefines DEF RemoveExpiredAuthorizations
<1> QED BY <1>1, <1>2, <1>3, <1>4, <1>5 DEF DeviceFlowNext, RS!Next

LEMMA RequestRefines ==
    ASSUME Inv, Inv', Visits, Observe, NEW p \in Callers, table = "backchannel_auth_requests",
           BackchannelNext(p)
    PROVE  RS!Next
<1>1. ASSUME NEW id \in Keys, NEW data \in Requests,
             StoreBackchannelAuthenticationRequest(p, id, data)
      PROVE  RS!CallNext(p)
  BY <1>1, RowsThere, StoreRefines DEF StoreBackchannelAuthenticationRequest, NewRow
<1>2. ASSUME NEW id \in Keys, NEW data \in Requests,
             UpdateBackchannelAuthenticationRequest(p, id, data)
      PROVE  RS!CallNext(p)
  <2> DEFINE K == RowsAt(id)
             row == [k \in K |-> OptionalRow(data)]
  <2>1. K \in SUBSET Keys /\ WriteRows(p, "update", K, row)
    BY <1>2 DEF UpdateBackchannelAuthenticationRequest, RowsAt
  <2>2. \A k \in Keys : k \in K <=> Present(k) /\ Names(id, k, Entry(k))
    BY EntryIs DEF RowsAt, Names, Inv, TypeOK
  <2>3. ASSUME NEW k \in K
        PROVE  row[k] # Absent /\ Names(id, k, [table |-> table, row |-> row[k]])
    <3>1. row[k] = OptionalRow(data) /\ k = id
      BY DEF RowsAt
    <3>2. NewRow(OptionalRow(data))
      BY DEF NewRow
    <3>3. row[k] \in RequestRow
      BY <3>1, <3>2, NewRowTyped DEF RowType
    <3> QED BY <3>1, <3>3, AbsentAssumption DEF Names
  <2> HIDE DEF K, row
  <2> QED BY <2>1, <2>2, <2>3, UpdateRefines
<1>3. ASSUME NEW id \in Keys,
             \/ FindBackchannelAuthenticationRequest(p, id)
             \/ RemoveBackchannelAuthenticationRequest(p, id)
      PROVE  RS!CallNext(p)
  BY <1>3, ReadRefines, RemoveRefines
     DEF FindBackchannelAuthenticationRequest, RemoveBackchannelAuthenticationRequest
<1>4. ASSUME NEW cutoff \in Cutoffs, RemoveExpiredRequests(p, cutoff)
      PROVE  RS!CallNext(p)
  BY <1>4, CleanupRefines DEF RemoveExpiredRequests
<1> QED BY <1>1, <1>2, <1>3, <1>4 DEF BackchannelNext, RS!Next

(* Every step of the four stores is one of the abstract store, or changes nothing of it *)
LEMMA RefinesStep ==
    ASSUME \A rec \in Codes \cup Tokens \cup DeviceCodes : Representable(rec.lifetime),
           Inv, Visits, [Next]_vars
    PROVE  [RS!Next]_(RS!vars)
<1>1. CASE UNCHANGED vars
  BY <1>1 DEF vars, RS!vars, Entries, Entry, Present, Clearings, Cleans, Open, Outcome
<1>2. CASE Next
  <2>1. PICK p \in Callers : CallNext(p) /\ Observe
    BY <1>2 DEF Next
  <2>2. Inv'
    BY <1>2, InvStep
  <2>3. ASSUME NEW k \in Keys, LockNext(p, k)
        PROVE  RS!Next
    BY <2>1, <2>3, LockRefines DEF RS!Next
  <2>4. ASSUME CommitDelete(p) \/ AbortCall(p)
        PROVE  RS!Next
    BY <2>1, <2>2, <2>4, CommitRefines, AbortRefines DEF RS!Next
  <2> QED
    BY <2>1, <2>2, <2>3, <2>4, CodeRefines, TokenRefines, DeviceRefines, RequestRefines
       DEF CallNext
<1> QED BY <1>1, <1>2

(* Codes, reference tokens, device authorizations and backchannel requests are kept as an
   abstract revocable store keeps them: none is replaced by storing, an update changes the
   one record it names, and RemoveReferenceTokens, which reads the handles by one statement
   and deletes them by another, is one removal: of all tokens that matched at the first,
   and of none that was there all along without matching.  RemoveExpired takes only what
   has expired, and all that was overdue.  Callers are assumed to store lifetimes that fit
   a duration, which its promise about expiry needs. *)
THEOREM Refinement ==
    ASSUME \A rec \in Codes \cup Tokens \cup DeviceCodes : Representable(rec.lifetime)
    PROVE  Spec => ImplementsRevocableStore
<1>1. HandleInit => RS!Init
  BY DEF HandleInit, Init, RS!Init, Entries, Entry, NoEntry, Present, Clearings,
         Open, RS!Idle, Outcome, RS!Silence, Silence
<1>2. Inv /\ Visits /\ [Next]_vars => [RS!Next]_(RS!vars)
  BY RefinesStep
<1> QED BY <1>1, <1>2, VisitsAlways, PTL DEF Spec, ImplementsRevocableStore, RS!Spec
=============================================================================
