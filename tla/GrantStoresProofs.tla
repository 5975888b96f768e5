-------------------------- MODULE GrantStoresProofs --------------------------
(***************************************************************************)
(* Theorems of the persisted grant and user consent stores, for every set  *)
(* of keys, callers, records, filters and cutoffs.                         *)
(***************************************************************************)
EXTENDS GrantStores, RowTableProofs

(* The expiry column holds a number or NULL *)
LEMMA ExpiryTyped ==
    \A instant \in Int \cup {Never} : OptionalExpiry(instant) \in Int \cup {Never}
<1>1. \A instant \in Int : Micros(instant) \in Int
  BY ExpiryAssumption DEF Micros
<1> QED BY <1>1 DEF OptionalExpiry

(* What the type of an open call says of its parts *)
LEMMA OpenTyped ==
    ASSUME TypeOK, NEW p \in Callers, Open(p)
    PROVE  /\ call[p].scan \in SUBSET Keys /\ call[p].locked \in SUBSET Keys
           /\ \/ call[p].op = "revoke" /\ call[p].arg \in Filters
              \/ call[p].op = "removeExpired" /\ call[p].arg \in Cutoffs
BY DEF TypeOK, Open, DeleteCall

LEMMA DeletingTyped ==
    ASSUME NEW op, NEW arg, NEW s \in SUBSET Keys, NEW l \in SUBSET Keys,
           \/ op = "revoke" /\ arg \in Filters
           \/ op = "removeExpired" /\ arg \in Cutoffs
    PROVE  Deleting(op, arg, s, l) \in DeleteCall /\ op \in DeleteOps
BY DEF Deleting, DeleteCall, DeleteOps

LEMMA ShapeOfCalls == TypeOK => CallShape
<1> SUFFICES ASSUME TypeOK PROVE CallShape
  OBVIOUS
<1>1. call = [p \in Callers |-> call[p]]
  BY DEF TypeOK
<1>2. \A p \in Callers : Open(p) => call[p].op \in DeleteOps
  BY OpenTyped DEF DeleteOps
<1> QED BY <1>1, <1>2, OpenTyped DEF CallShape

-----------------------------------------------------------------------------
(* The columns of one row say what its record says *)
Mirrors(k, row) ==
    /\ row.subject_id = row.payload.subject
    /\ row.client_id = row.payload.client
    /\ row.expires_at = OptionalExpiry(row.payload.expires)
    /\ IF table = "persisted_grants"
       THEN row.session_id = row.payload.session /\ row.type = row.payload.type
       ELSE k = NaturalKey(row.payload)

LEMMA MirrorsAll == ColumnsMirrorRecord <=> \A k \in Keys : Present(k) => Mirrors(k, rows[k])
BY DEF ColumnsMirrorRecord, Mirrors

(* The WHERE clause on the columns selects by the fields of the record *)
LEMMA FilterMatches ==
    ASSUME NEW filter \in Filters, NEW k, NEW row, table = "persisted_grants", Mirrors(k, row)
    PROVE  buildFilter(filter, row) <=> Matching(filter, row.payload)
<1>1. \A grant : (\A field \in {"subject", "session", "client", "type"} :
                      filter[field] \in {Unset, grant[field]})
                 <=> /\ filter.subject \in {Unset, grant.subject}
                     /\ filter.session \in {Unset, grant.session}
                     /\ filter.client \in {Unset, grant.client}
                     /\ filter.type \in {Unset, grant.type}
  OBVIOUS
<1> QED BY <1>1 DEF buildFilter, Matching, Mirrors

(* The instant of a record, if it has one, is a number *)
LEMMA InstantTyped ==
    ASSUME TypeOK, NEW k \in Keys, Present(k)
    PROVE  rows[k].payload.expires \in Int \cup {Never}
<1>1. rows[k] \in RowType
  BY DEF TypeOK, Present
<1>2. rows[k].payload \in Grants \/ rows[k].payload \in Consents
  BY <1>1 DEF RowType, PersistedGrantRow, UserConsentRow
<1> QED BY <1>2, GrantsAssumption, ConsentsAssumption DEF Grant

(* A filter chooses the grants that it matches *)
LEMMA ChosenMatches ==
    ASSUME TypeOK, NEW k \in Keys, Present(k), table = "persisted_grants", NEW filter
    PROVE  Chosen(filter, rows[k]) <=> Matching(filter, rows[k].payload)
<1>1. rows[k] \in PersistedGrantRow
  BY DEF TypeOK, RowType, Present
<1> QED BY <1>1 DEF Chosen, PersistedGrantRow

(* What a DELETE has to take, by the record, its WHERE clause selects by the columns *)
LEMMA OwedSelected ==
    ASSUME TypeOK, NEW k \in Keys, Present(k), Mirrors(k, rows[k]), NEW by,
           \/ by.op = "revoke" /\ by.arg \in Filters /\ table = "persisted_grants"
           \/ by.op = "removeExpired" /\ by.arg \in Cutoffs,
           Owes(by, rows[k])
    PROVE  IF by.op = "revoke" THEN k \in Filtered(by.arg) ELSE Expired(k, by.arg)
<1>1. CASE by.op = "revoke"
  BY <1>1, ChosenMatches, FilterMatches DEF Owes, Filtered
<1>2. CASE by.op = "removeExpired"
  <2> DEFINE expires == rows[k].payload.expires
             cutoff == by.arg
  <2>1. /\ expires \in Int /\ expires # Never /\ cutoff \in Int
        /\ Overdue(expires, cutoff)
    BY <1>2, InstantTyped, CutoffsAssumption DEF Owes, Late
  <2>2. rows[k].expires_at = OptionalExpiry(expires)
    BY DEF Mirrors
  <2> HIDE DEF expires, cutoff
  <2>3. Micros(expires) < Micros(cutoff) /\ Micros(expires) \in Int
    BY <2>1, MicrosApart, ExpiryAssumption DEF Micros
  <2>4. Reclaimable(rows[k].expires_at, cutoff)
    BY <2>1, <2>2, <2>3, ExpiryAssumption DEF Reclaimable, OptionalExpiry
  <2> QED BY <1>2, <2>4 DEF Expired, cutoff
<1> QED BY <1>1, <1>2

-----------------------------------------------------------------------------
(* What a step does to the table and to the open calls *)
Upserts(k, row) ==
    /\ Unlocked(k)
    /\ row \in RowType /\ Mirrors(k, row)
    /\ rows' = [j \in Keys |-> IF j = k THEN row ELSE rows[j]]
    /\ call' = call

Begins(p) ==
    \/ \E cutoff \in Cutoffs : BeginDelete(p, "removeExpired", cutoff, ExpiredRows(cutoff))
    \/ table = "persisted_grants" /\ \E filter \in Filters : RemoveAll(p, filter)

Ends(p) ==
    /\ Open(p)
    /\ reply'.err = "wrapped"
    /\ call' = [call EXCEPT ![p] = Idle]
    /\ rows' = rows

Kinds ==
    \/ UNCHANGED <<rows, call>>
    \/ \E k \in Keys : \E row : Upserts(k, row)
    \/ \E p \in Callers, H \in SUBSET Keys : Deletes(p, H)
    \/ \E p \in Callers : Begins(p) \/ Ends(p)
    \/ \E p \in Callers, k \in Keys : LockNext(p, k)

(* A listing that is answered is exact *)
Listing ==
    (reply'.op = "list" /\ reply'.err = "ok")
    => reply'.all =
          [k \in {j \in Keys : Present(j) /\
                     IF table = "persisted_grants" THEN Matching(reply'.arg, rows[j].payload)
                                                   ELSE rows[j].payload.subject = reply'.arg}
           |-> rows[k].payload]

LEMMA ReadKind ==
    ASSUME NEW p \in Callers, NEW K, ReadRow(p, K)
    PROVE  Kinds /\ Listing
BY DEF ReadRow, Kinds, Listing, Answer

LEMMA UpsertKind ==
    ASSUME NEW p \in Callers, NEW k \in Keys, NEW row, row \in RowType, Mirrors(k, row),
           WriteRows(p, "store", {k}, [j \in {k} |-> row])
    PROVE  Kinds /\ Listing
<1>1. Listing
  BY DEF WriteRows, Answer, Listing
<1>2. UNCHANGED <<rows, call>> \/ Upserts(k, row)
  BY DEF WriteRows, Upserts
<1> QED BY <1>1, <1>2 DEF Kinds

LEMMA RemoveKind ==
    ASSUME NEW p \in Callers, NEW k \in Keys, DeleteRow(p, k)
    PROVE  Kinds /\ Listing
<1>1. Listing
  BY DEF DeleteRow, Answer, Listing
<1>2. UNCHANGED <<rows, call>> \/ Deletes(p, {k})
  BY DEF DeleteRow, Deletes
<1> QED BY <1>1, <1>2 DEF Kinds

LEMMA BeginKind ==
    ASSUME NEW p \in Callers, Begins(p)
    PROVE  Kinds /\ Listing
BY DEF Begins, Kinds, Listing, RemoveAll, BeginDelete, Silence

(* What is stored in either table is one of its rows *)
LEMMA GrantTyped ==
    ASSUME table = "persisted_grants", NEW grant \in Grants
    PROVE  GrantRow(grant) \in RowType
<1>1. grant \in Grant /\ OptionalExpiry(grant.expires) \in Int \cup {Never}
  BY GrantsAssumption, ExpiryTyped DEF Grant
<1> QED BY <1>1 DEF RowType, PersistedGrantRow, GrantRow, Grant

LEMMA ConsentTyped ==
    ASSUME table = "user_consents", NEW consent \in Consents
    PROVE  NaturalKey(consent) \in Keys /\ ConsentRow(consent) \in RowType
<1>1. /\ NaturalKey(consent) \in Keys
      /\ OptionalExpiry(consent.expires) \in Int \cup {Never}
  BY ConsentsAssumption, ExpiryTyped DEF NaturalKey
<1>2. /\ consent.subject \in {key[1] : key \in Keys}
      /\ consent.client \in {key[2] : key \in Keys}
  BY <1>1 DEF NaturalKey
<1>3. table # "persisted_grants"
  OBVIOUS
<1> QED BY <1>1, <1>2, <1>3 DEF RowType, UserConsentRow, ConsentRow

LEMMA GrantKinds ==
    ASSUME ColumnsMirrorRecord, NEW p \in Callers, table = "persisted_grants",
           PersistedGrantNext(p)
    PROVE  Kinds /\ Listing
<1>1. ASSUME NEW key \in Keys, NEW grant \in Grants, Store(p, key, grant)
      PROVE  Kinds /\ Listing
  <2>1. Mirrors(key, GrantRow(grant))
    BY DEF Mirrors, GrantRow
  <2> QED BY <1>1, <2>1, GrantTyped, UpsertKind DEF Store
<1>2. ASSUME NEW key \in Keys, Get(p, key)
      PROVE  Kinds /\ Listing
  BY <1>2, ReadKind DEF Get
<1>3. ASSUME NEW key \in Keys, RemoveGrant(p, key)
      PROVE  Kinds /\ Listing
  BY <1>3, RemoveKind DEF RemoveGrant
<1>4. ASSUME NEW filter \in Filters, GetAll(p, filter)
      PROVE  Kinds /\ Listing
  <2>1. Filtered(filter) = {j \in Keys : Present(j) /\ Matching(filter, rows[j].payload)}
    BY FilterMatches, MirrorsAll DEF Filtered
  <2>2. CASE Answer(p, "list", "wrapped")
    BY <1>4, <2>2 DEF GetAll, ReadRows, Answer, Kinds, Listing
  <2>3. CASE reply' = [caller |-> p, op |-> "list", err |-> "ok", arg |-> filter,
                       all |-> [k \in Filtered(filter) |-> rows[k].payload]]
    BY <1>4, <2>1, <2>3 DEF GetAll, ReadRows, Kinds, Listing
  <2> QED BY <1>4, <2>2, <2>3 DEF GetAll, ReadRows
<1>5. ASSUME NEW filter \in Filters, RemoveAll(p, filter)
      PROVE  Kinds /\ Listing
  BY <1>5, BeginKind DEF Begins
<1>6. ASSUME NEW cutoff \in Cutoffs, RemoveExpiredGrants(p, cutoff)
      PROVE  Kinds /\ Listing
  BY <1>6, BeginKind DEF Begins, RemoveExpiredGrants
<1> QED BY <1>1, <1>2, <1>3, <1>4, <1>5, <1>6 DEF PersistedGrantNext

LEMMA ConsentKinds ==
    ASSUME ColumnsMirrorRecord, NEW p \in Callers, table = "user_consents", UserConsentNext(p)
    PROVE  Kinds /\ Listing
<1>0. table # "persisted_grants"
  OBVIOUS
<1>1. ASSUME NEW consent \in Consents, StoreUserConsent(p, consent)
      PROVE  Kinds /\ Listing
  <2>1. Mirrors(NaturalKey(consent), ConsentRow(consent))
    BY <1>0 DEF Mirrors, ConsentRow
  <2> QED BY <1>1, <2>1, ConsentTyped, UpsertKind DEF StoreUserConsent
<1>2. ASSUME NEW key \in Keys, GetUserConsent(p, key[1], key[2])
      PROVE  Kinds /\ Listing
  BY <1>2, ReadKind DEF GetUserConsent
<1>3. ASSUME NEW key \in Keys, RemoveUserConsent(p, key[1], key[2])
      PROVE  Kinds /\ Listing
  BY <1>3, RemoveKind, KeysAssumption DEF RemoveUserConsent
<1>4. ASSUME NEW key \in Keys, GetAllUserConsents(p, key[1])
      PROVE  Kinds /\ Listing
  <2> DEFINE s == key[1]
             shown == {k \in Keys : Present(k) /\ rows[k].subject_id = s}
  <2>1. shown = {j \in Keys : Present(j) /\ rows[j].payload.subject = s}
    BY DEF ColumnsMirrorRecord
  <2>2. /\ UNCHANGED <<rows, call>>
        /\ \/ reply' = [caller |-> p, op |-> "list", err |-> "ok",
                        arg |-> s, all |-> [k \in shown |-> rows[k].payload]]
           \/ Answer(p, "list", "wrapped")
    BY <1>4 DEF GetAllUserConsents, ReadRows
  <2> HIDE DEF s, shown
  <2>3. CASE Answer(p, "list", "wrapped")
    BY <2>2, <2>3 DEF Answer, Kinds, Listing
  <2>4. CASE reply' = [caller |-> p, op |-> "list", err |-> "ok",
                       arg |-> s, all |-> [k \in shown |-> rows[k].payload]]
    BY <1>0, <2>1, <2>2, <2>4 DEF Kinds, Listing
  <2> QED BY <2>2, <2>3, <2>4
<1>5. ASSUME NEW cutoff \in Cutoffs, RemoveExpiredConsents(p, cutoff)
      PROVE  Kinds /\ Listing
  BY <1>5, BeginKind DEF Begins, RemoveExpiredConsents
<1> QED BY <1>1, <1>2, <1>3, <1>4, <1>5 DEF UserConsentNext

(* Every step of a call does one of these things, and lists exactly *)
LEMMA StepKinds ==
    ASSUME TypeOK, ColumnsMirrorRecord, NEW p \in Callers, CallNext(p)
    PROVE  Kinds /\ Listing
<1>1. ASSUME NEW k \in Keys, LockNext(p, k)
      PROVE  Kinds /\ Listing
  BY <1>1 DEF LockNext, LockRow, Kinds, Listing, Silence
<1>2. ASSUME CommitDelete(p)
      PROVE  Kinds /\ Listing
  <2>1. Deletes(p, call[p].locked) /\ call[p].locked \in SUBSET Keys
    BY <1>2, OpenTyped DEF CommitDelete, Deletes
  <2>2. reply'.op \in {"revoke", "removeExpired"}
    BY <1>2, OpenTyped DEF CommitDelete, Answer
  <2> QED BY <2>1, <2>2 DEF Kinds, Listing
<1>3. ASSUME AbortCall(p)
      PROVE  Kinds /\ Listing
  BY <1>3 DEF AbortCall, Ends, Answer, Kinds, Listing
<1> QED BY <1>1, <1>2, <1>3, GrantKinds, ConsentKinds DEF CallNext

-----------------------------------------------------------------------------
(* What an open DELETE has locked still satisfies its WHERE clause *)
LockedRight ==
    \A p \in Callers : Open(p) =>
        /\ call[p].op = "revoke" => table = "persisted_grants"
        /\ \A k \in call[p].locked : Selected(p, k)

(* A DELETE still visits, or has locked, all that it has had to take all the while *)
DueRight ==
    \A p \in Callers : \A k \in due[p] :
        /\ Open(p) /\ Present(k) /\ Owes(call[p], rows[k])
        /\ k \in call[p].scan \cup call[p].locked

Inv == TypeOK /\ LocksApart /\ ColumnsMirrorRecord /\ LockedRight /\ DueRight

(* What Observe notes: a record is due as long as it is owed *)
Watching ==
    /\ table' = table
    /\ due' \in [Callers -> SUBSET Keys]
    /\ \A p \in Callers : \A k \in due'[p] :
          /\ k \in Keys /\ Open(p)'
          /\ Present(k)' /\ Owes(call'[p], rows'[k])
          /\ Open(p) => k \in due[p]

LEMMA Observed == TypeOK /\ Observe => Watching
<1> SUFFICES ASSUME TypeOK, Observe PROVE Watching
  OBVIOUS
<1> DEFINE Kept(p) == {k \in (IF Open(p) THEN due[p] ELSE Keys) :
                          rows'[k] # Absent /\ Owes(call'[p], rows'[k])}
<1>1. \A p \in Callers : due'[p] = IF Open(p)' THEN Kept(p) ELSE {}
  BY DEF Observe
<1>2. ASSUME NEW p \in Callers, NEW k \in due'[p]
      PROVE  /\ k \in Keys /\ Open(p)'
             /\ rows'[k] # Absent /\ Owes(call'[p], rows'[k])
             /\ Open(p) => k \in due[p]
  <2>1. Open(p)' /\ k \in Kept(p)
    BY <1>1, <1>2
  <2>2. due[p] \in SUBSET Keys
    BY DEF TypeOK
  <2> QED BY <2>1, <2>2
<1>3. due' \in [Callers -> SUBSET Keys]
  <2>1. due' = [p \in Callers |-> due'[p]]
    BY DEF Observe
  <2>2. \A p \in Callers : due'[p] \in SUBSET Keys
    BY <1>2
  <2> QED BY <2>1, <2>2
<1> QED BY <1>2, <1>3 DEF Watching, Observe, Present

(* What is selected stays selected as long as the call goes on and the row is not
   written *)
LEMMA SelectedUnchanged ==
    ASSUME NEW p \in Callers, NEW k, rows'[k] = rows[k],
           call'[p].op = call[p].op, call'[p].arg = call[p].arg
    PROVE  Selected(p, k)' <=> Selected(p, k)
BY DEF Selected, Expired, Present, Filtered, buildFilter

-----------------------------------------------------------------------------
(* One lemma for each kind of step *)
LEMMA QuietStep ==
    ASSUME Inv, Watching, UNCHANGED <<rows, call>>
    PROVE  Inv'
<1>1. LocksApart' /\ \A q \in Callers : Open(q)' <=> Open(q)
  BY CallsStay, ShapeOfCalls DEF Inv
<1>2. TypeOK'
  BY DEF Inv, TypeOK, Watching, RowType
<1>3. ColumnsMirrorRecord'
  BY DEF Inv, ColumnsMirrorRecord, Watching, Present
<1>4. LockedRight'
  BY <1>1, SelectedUnchanged DEF Inv, LockedRight, Watching
<1>5. DueRight'
  BY <1>1 DEF Inv, DueRight, Watching
<1> QED BY <1>1, <1>2, <1>3, <1>4, <1>5 DEF Inv

(* An upsert waits for the DELETE that holds its row *)
LEMMA UpsertStep ==
    ASSUME Inv, Watching, NEW k \in Keys, NEW row, Upserts(k, row)
    PROVE  Inv'
<1>1. LocksApart' /\ \A q \in Callers : Open(q)' <=> Open(q)
  BY CallsStay, ShapeOfCalls DEF Inv, Upserts
<1>2. /\ rows'[k] = row
      /\ \A j \in Keys \ {k} : rows'[j] = rows[j]
      /\ call' = call
      /\ table' = table
  BY DEF Upserts, Watching
<1>3. TypeOK'
  <2>1. rows' \in [Keys -> RowType \cup {Absent}]
    BY DEF Inv, TypeOK, Upserts
  <2>2. RowType' = RowType
    BY <1>2 DEF RowType
  <2> QED BY <1>2, <2>1, <2>2 DEF Inv, TypeOK, Watching
<1>4. ColumnsMirrorRecord'
  <2>1. \A j \in Keys : rows'[j] # Absent => Mirrors(j, rows'[j])
    BY <1>2, MirrorsAll DEF Inv, Upserts, Present
  <2> QED BY <1>2, <2>1 DEF ColumnsMirrorRecord, Mirrors, Present
<1>5. LockedRight'
  <2>1. ASSUME NEW p \in Callers, Open(p), NEW j \in call[p].locked
        PROVE  Selected(p, j)'
    <3>1. j \in Keys /\ j # k
      BY <2>1, OpenTyped DEF Inv, Upserts, Unlocked
    <3> QED BY <1>2, <2>1, <3>1, SelectedUnchanged DEF Inv, LockedRight
  <2> QED BY <1>1, <1>2, <2>1 DEF Inv, LockedRight
<1>6. DueRight'
  BY <1>1, <1>2 DEF Inv, DueRight, Watching
<1> QED BY <1>1, <1>3, <1>4, <1>5, <1>6 DEF Inv

(* A removal takes nothing that another call has locked, and nothing that is still due *)
LEMMA DeleteStep ==
    ASSUME Inv, Watching, NEW p \in Callers, NEW H \in SUBSET Keys, Deletes(p, H)
    PROVE  Inv'
<1>0. CallShape /\ LocksApart
  BY ShapeOfCalls DEF Inv
<1>1. /\ \A k \in Keys : rows'[k] = IF k \in H THEN Absent ELSE rows[k]
      /\ rows' = [k \in Keys |-> IF k \in H THEN Absent ELSE rows[k]]
      /\ call'[p] = Idle /\ ~Open(p)'
      /\ \A q \in Callers \ {p} : Open(q)' <=> Open(q)
      /\ \A q \in Callers \ {p} : ~Open(q) => call'[q] = Idle
      /\ LocksApart' /\ CallShape'
  BY <1>0, RowsGo
<1>2. \A q \in Callers \ {p} : Open(q) =>
             /\ call'[q].op = call[q].op /\ call'[q].arg = call[q].arg
             /\ call[q].op # "collect" => call'[q].scan = call[q].scan \ H
             /\ call'[q].locked = call[q].locked
             /\ call[q].locked \cap H = {}
             /\ \/ call'[q] = call[q]
                \/ call'[q] = Deleting(call[q].op, call[q].arg, call[q].scan \ H,
                                       call[q].locked)
  BY <1>0, RowsGo
<1>3. rows' \in [Keys -> RowType' \cup {Absent}]
  BY <1>1 DEF Inv, TypeOK, Watching, RowType
<1>4. call' \in [Callers -> {Idle} \cup DeleteCall]
  <2>1. ASSUME NEW q \in Callers \ {p}, Open(q)
        PROVE  call'[q] \in DeleteCall
    <3>1. call[q] \in DeleteCall /\ call[q].scan \ H \in SUBSET Keys
      BY <2>1, OpenTyped DEF Inv, TypeOK, Open
    <3>2. Deleting(call[q].op, call[q].arg, call[q].scan \ H, call[q].locked) \in DeleteCall
      BY <2>1, <3>1, OpenTyped, DeletingTyped DEF Inv
    <3> QED BY <1>2, <2>1, <3>1, <3>2
  <2>2. call' = [q \in Callers |-> call'[q]]
    BY <1>1 DEF CallShape
  <2> QED BY <1>1, <2>1, <2>2
<1>5. TypeOK'
  BY <1>3, <1>4 DEF Inv, TypeOK, Watching
<1>6. ColumnsMirrorRecord'
  BY <1>1 DEF Inv, Watching, ColumnsMirrorRecord, Present
<1>7. LockedRight'
  <2> SUFFICES ASSUME NEW q \in Callers, Open(q)'
               PROVE  /\ call'[q].op = "revoke" => table' = "persisted_grants"
                      /\ \A k \in call'[q].locked : Selected(q, k)'
    BY DEF LockedRight
  <2>1. q # p /\ Open(q)
    BY <1>1
  <2>2. ASSUME NEW k \in call'[q].locked
        PROVE  Selected(q, k)'
    <3>1. k \in call[q].locked /\ k \in Keys /\ k \notin H
      BY <1>2, <2>1, <2>2, OpenTyped DEF Inv
    <3>2. rows'[k] = rows[k] /\ Selected(q, k)
      BY <1>1, <2>1, <3>1 DEF Inv, LockedRight
    <3> QED BY <1>2, <2>1, <3>2, SelectedUnchanged
  <2> QED BY <1>2, <2>1, <2>2 DEF Inv, LockedRight, Watching
<1>8. DueRight'
  <2> SUFFICES ASSUME NEW q \in Callers, NEW k \in due'[q]
               PROVE  k \in call'[q].scan \cup call'[q].locked
    BY DEF DueRight, Watching
  <2>1. k \in Keys /\ Open(q)' /\ Present(k)'
    BY DEF Watching
  <2>2. q # p /\ Open(q) /\ k \in due[q] /\ k \notin H
    BY <1>1, <2>1 DEF Watching, Present
  <2>3. k \in call[q].scan \cup call[q].locked /\ call[q].op # "collect"
    BY <2>2, OpenTyped DEF Inv, DueRight
  <2> QED BY <1>2, <2>2, <2>3
<1> QED BY <1>1, <1>5, <1>6, <1>7, <1>8 DEF Inv

(* A call that begins or goes on leaves the rows alone *)
LEMMA CallStep ==
    ASSUME Inv, Watching, NEW p \in Callers, NEW op, NEW arg, NEW s \in SUBSET Keys,
           NEW l \in SUBSET Keys,
           \/ op = "revoke" /\ arg \in Filters /\ table = "persisted_grants"
           \/ op = "removeExpired" /\ arg \in Cutoffs,
           rows' = rows,
           call' = [call EXCEPT ![p] = Deleting(op, arg, s, l)],
           \A q \in Callers \ {p} : Open(q) => l \cap call[q].locked = {},
           \A k \in l : IF op = "revoke" THEN k \in Filtered(arg) ELSE Expired(k, arg),
           \A k \in due'[p] : k \in s \cup l
    PROVE  Inv'
<1>0. CallShape /\ LocksApart
  BY ShapeOfCalls DEF Inv
<1>1. Deleting(op, arg, s, l) \in DeleteCall /\ op \in DeleteOps
  BY DeletingTyped
<1>2. /\ Open(p)'
      /\ call'[p].op = op /\ call'[p].arg = arg
      /\ call'[p].scan = s /\ call'[p].locked = l
      /\ \A q \in Callers \ {p} : call'[q] = call[q] /\ (Open(q)' <=> Open(q))
      /\ LocksApart'
  <2>1. /\ Open(p)'
        /\ \A q \in Callers \ {p} : call'[q] = call[q] /\ (Open(q)' <=> Open(q))
        /\ LocksApart'
    BY <1>0, <1>1, CallGoesOn
  <2>2. call'[p] = Deleting(op, arg, s, l)
    BY DEF Inv, TypeOK
  <2> QED BY <2>1, <2>2, CallParts
<1>3. TypeOK'
  BY <1>1 DEF Inv, TypeOK, Watching, RowType
<1>4. ColumnsMirrorRecord'
  BY DEF Inv, Watching, ColumnsMirrorRecord, Present
<1>5. LockedRight'
  <2>1. \A k \in l : Selected(p, k)'
    BY <1>2 DEF Selected, Expired, Present, Filtered, buildFilter
  <2>2. ASSUME NEW q \in Callers \ {p}, NEW k
        PROVE  Selected(q, k)' <=> Selected(q, k)
    BY <1>2, SelectedUnchanged
  <2> QED BY <1>2, <2>1, <2>2 DEF Inv, LockedRight, Watching
<1>6. DueRight'
  <2> SUFFICES ASSUME NEW q \in Callers, NEW k \in due'[q]
               PROVE  k \in call'[q].scan \cup call'[q].locked
    BY DEF DueRight, Watching
  <2>1. CASE q = p
    BY <1>2, <2>1 DEF Watching
  <2>2. CASE q # p
    BY <1>2, <2>2 DEF Inv, DueRight, Watching
  <2> QED BY <2>1, <2>2
<1> QED BY <1>2, <1>3, <1>4, <1>5, <1>6 DEF Inv

(* The snapshot of a DELETE holds all that it has to take now *)
LEMMA BeginStep ==
    ASSUME Inv, Watching, NEW p \in Callers, Begins(p)
    PROVE  Inv'
<1>1. ASSUME NEW cutoff \in Cutoffs, BeginDelete(p, "removeExpired", cutoff, ExpiredRows(cutoff))
      PROVE  Inv'
  <2>1. /\ rows' = rows
        /\ call' = [call EXCEPT ![p] = Deleting("removeExpired", cutoff, ExpiredRows(cutoff), {})]
        /\ ExpiredRows(cutoff) \in SUBSET Keys /\ {} \in SUBSET Keys
    BY <1>1 DEF BeginDelete, ExpiredRows
  <2>2. ASSUME NEW op, NEW arg
        PROVE  /\ \A q \in Callers \ {p} : Open(q) => {} \cap call[q].locked = {}
               /\ \A k \in {} : IF op = "revoke" THEN k \in Filtered(arg) ELSE Expired(k, arg)
    OBVIOUS
  <2>3. call'[p].op = "removeExpired" /\ call'[p].arg = cutoff
    <3>1. call'[p] = Deleting("removeExpired", cutoff, ExpiredRows(cutoff), {})
      BY <2>1 DEF Inv, TypeOK
    <3> QED BY <3>1, CallParts
  <2>4. ASSUME NEW k \in due'[p]
        PROVE  k \in ExpiredRows(cutoff) \cup {}
    <3>1. k \in Keys /\ Present(k) /\ Owes(call'[p], rows[k])
      BY <2>1 DEF Watching, Present
    <3>2. Mirrors(k, rows[k])
      BY <3>1, MirrorsAll DEF Inv
    <3>3. Expired(k, cutoff)
      BY <2>3, <3>1, <3>2, OwedSelected DEF Inv
    <3> QED BY <3>1, <3>3 DEF ExpiredRows
  <2> QED BY <2>1, <2>2, <2>4, CallStep
<1>2. ASSUME table = "persisted_grants", NEW filter \in Filters, RemoveAll(p, filter)
      PROVE  Inv'
  <2>1. /\ rows' = rows
        /\ call' = [call EXCEPT ![p] = Deleting("revoke", filter, Filtered(filter), {})]
        /\ Filtered(filter) \in SUBSET Keys /\ {} \in SUBSET Keys
    BY <1>2 DEF RemoveAll, BeginDelete, Filtered
  <2>2. call'[p].op = "revoke" /\ call'[p].arg = filter
    <3>1. call'[p] = Deleting("revoke", filter, Filtered(filter), {})
      BY <2>1 DEF Inv, TypeOK
    <3> QED BY <3>1, CallParts
  <2>3. ASSUME NEW k \in due'[p]
        PROVE  k \in Filtered(filter) \cup {}
    <3>1. k \in Keys /\ Present(k) /\ Owes(call'[p], rows[k])
      BY <2>1 DEF Watching, Present
    <3>2. Mirrors(k, rows[k])
      BY <3>1, MirrorsAll DEF Inv
    <3> QED BY <1>2, <2>2, <3>1, <3>2, OwedSelected DEF Inv
  <2>4. /\ \A q \in Callers \ {p} : Open(q) => {} \cap call[q].locked = {}
        /\ \A k \in {} : k \in Filtered(filter)
    OBVIOUS
  <2> QED BY <1>2, <2>1, <2>3, <2>4, CallStep
<1> QED BY <1>1, <1>2 DEF Begins

(* A row is locked if it is still selected; one that is passed over is no longer owed *)
LEMMA LockStep ==
    ASSUME Inv, Watching, NEW p \in Callers, NEW k \in Keys, LockNext(p, k)
    PROVE  Inv'
<1> DEFINE less == call[p].scan \ {k}
           more == IF Selected(p, k) THEN call[p].locked \cup {k} ELSE call[p].locked
<1>1. /\ Open(p) /\ k \in call[p].scan /\ Unlocked(k)
      /\ rows' = rows
      /\ call' = [call EXCEPT ![p] = Deleting(call[p].op, call[p].arg, less, more)]
  BY DEF LockNext, LockRow
<1>2. /\ less \in SUBSET Keys /\ more \in SUBSET Keys
      /\ \/ call[p].op = "revoke" /\ call[p].arg \in Filters /\ table = "persisted_grants"
         \/ call[p].op = "removeExpired" /\ call[p].arg \in Cutoffs
  BY <1>1, OpenTyped DEF Inv, LockedRight
<1>3. \A q \in Callers \ {p} : Open(q) => more \cap call[q].locked = {}
  BY <1>1 DEF Inv, LocksApart, Unlocked
<1>4. \A j \in more : IF call[p].op = "revoke" THEN j \in Filtered(call[p].arg)
                                               ELSE Expired(j, call[p].arg)
  BY <1>1 DEF Inv, LockedRight, Selected
<1>5. \A j \in due'[p] : j \in less \cup more
  <2> SUFFICES ASSUME NEW j \in due'[p]
               PROVE  j \in less \cup more
    OBVIOUS
  <2>1. j \in due[p] /\ j \in call[p].scan \cup call[p].locked
    BY <1>1 DEF Watching, Inv, DueRight
  <2>2. CASE j # k
    BY <2>1, <2>2
  <2>3. CASE j = k
    <3>1. Present(k) /\ Owes(call[p], rows[k])
      BY <2>1, <2>3 DEF Inv, DueRight
    <3>2. Mirrors(k, rows[k])
      BY <3>1, MirrorsAll DEF Inv
    <3>3. Selected(p, k)
      BY <1>2, <3>1, <3>2, OwedSelected DEF Selected, Inv
    <3> QED BY <2>3, <3>3
  <2> QED BY <2>2, <2>3
<1> HIDE DEF less, more
<1> QED BY <1>1, <1>2, <1>3, <1>4, <1>5, CallStep

(* A call that ends without a commit has changed nothing *)
LEMMA EndStep ==
    ASSUME Inv, Watching, NEW p \in Callers, Ends(p)
    PROVE  Inv'
<1>0. CallShape /\ LocksApart
  BY ShapeOfCalls DEF Inv
<1>1. rows' = rows /\ call' = [call EXCEPT ![p] = Idle]
  BY DEF Ends
<1>2. /\ ~Open(p)'
      /\ \A q \in Callers \ {p} : call'[q] = call[q] /\ (Open(q)' <=> Open(q))
      /\ LocksApart'
  BY <1>0, <1>1, CallEnds
<1>3. TypeOK'
  BY <1>1 DEF Inv, TypeOK, Watching, RowType
<1>4. ColumnsMirrorRecord'
  BY <1>1 DEF Inv, Watching, ColumnsMirrorRecord, Present
<1>5. LockedRight'
  <2>1. ASSUME NEW q \in Callers \ {p}, NEW k
        PROVE  Selected(q, k)' <=> Selected(q, k)
    BY <1>1, <1>2, SelectedUnchanged
  <2> QED BY <1>2, <2>1 DEF Inv, LockedRight, Watching
<1>6. DueRight'
  BY <1>1, <1>2 DEF Inv, DueRight, Watching
<1> QED BY <1>2, <1>3, <1>4, <1>5, <1>6 DEF Inv

-----------------------------------------------------------------------------
(* Empty tables satisfy the invariant *)
LEMMA InitInv == GrantInit => Inv
<1> SUFFICES ASSUME GrantInit PROVE Inv
  OBVIOUS
<1>1. TypeOK
  BY DEF GrantInit, Init, TypeOK
<1>2. \A p \in Callers : ~Open(p)
  BY DEF GrantInit, Init, Open
<1>3. \A k \in Keys : ~Present(k)
  BY DEF GrantInit, Init, Present
<1>4. \A p \in Callers : due[p] = {}
  BY DEF GrantInit
<1> QED
  BY <1>1, <1>2, <1>3, <1>4 DEF Inv, LocksApart, ColumnsMirrorRecord, LockedRight, DueRight

LEMMA NextKinds ==
    ASSUME Inv, Next
    PROVE  Kinds /\ Listing /\ Watching
BY StepKinds, Observed DEF Next, Inv

(* No call breaks it *)
LEMMA InvStep == Inv /\ [Next]_vars => Inv'
<1> SUFFICES ASSUME Inv, [Next]_vars PROVE Inv'
  OBVIOUS
<1>1. CASE UNCHANGED vars
  <2>1. /\ rows' = rows /\ call' = call /\ table' = table /\ due' = due
    BY <1>1 DEF vars
  <2>2. TypeOK' /\ ColumnsMirrorRecord'
    BY <2>1 DEF Inv, TypeOK, RowType, ColumnsMirrorRecord, Present
  <2>3. LocksApart' /\ \A p \in Callers : Open(p)' <=> Open(p)
    BY <2>1, CallsStay, ShapeOfCalls DEF Inv
  <2>4. LockedRight'
    BY <2>1, <2>3, SelectedUnchanged DEF Inv, LockedRight
  <2>5. DueRight'
    BY <2>1, <2>3 DEF Inv, DueRight, Present
  <2> QED BY <2>2, <2>3, <2>4, <2>5 DEF Inv
<1>2. CASE Next
  BY <1>2, NextKinds, QuietStep, UpsertStep, DeleteStep, BeginStep, EndStep, LockStep DEF Kinds
<1> QED BY <1>1, <1>2

(* The inductive invariant holds in every behaviour *)
LEMMA Invariance == Spec => []Inv
BY InitInv, InvStep, PTL DEF Spec

-----------------------------------------------------------------------------
(* Whatever the calls and their order, every variable keeps its type: no column of a
   grant or a consent that a filter reads is ever NULL. *)
THEOREM TypeCorrect == Spec => []TypeOK
<1>1. Inv => TypeOK
  BY DEF Inv
<1> QED BY Invariance, <1>1, PTL

(* However often a grant or consent is stored again, every column says what the record
   beside it says. *)
THEOREM ColumnsCorrect == Spec => []ColumnsMirrorRecord
<1>1. Inv => ColumnsMirrorRecord
  BY DEF Inv
<1> QED BY Invariance, <1>1, PTL

(* GetAll and GetAllUserConsents answer exactly the records that match by their own
   fields, although the query compares columns. *)
THEOREM ListingsExact == Spec => ListingsAreExact
<1>1. Inv /\ [Next]_vars =>
        [(reply' # reply /\ reply'.op = "list" /\ reply'.err = "ok")
         => reply'.all =
               [k \in {j \in Keys : Present(j) /\
                          IF table = "persisted_grants" THEN Matching(reply'.arg, rows[j].payload)
                                                        ELSE rows[j].payload.subject = reply'.arg}
                |-> rows[k].payload]]_vars
  BY NextKinds DEF Listing
<1> QED BY <1>1, Invariance, PTL DEF Spec, ListingsAreExact

(* A call ends by the removal of what it has locked, or without effect *)
LEMMA Closes ==
    ASSUME Inv, Kinds, NEW p \in Callers, Open(p), ~Open(p)'
    PROVE  \/ /\ call[p].scan = {}
              /\ \A k \in Keys : rows'[k] = IF k \in call[p].locked THEN Absent ELSE rows[k]
           \/ reply'.err = "wrapped" /\ rows' = rows
<1>0. CallShape /\ LocksApart
  BY ShapeOfCalls DEF Inv
<1>1. call' # call
  BY DEF Open
<1>2. ASSUME NEW q \in Callers, NEW H \in SUBSET Keys, Deletes(q, H)
      PROVE  /\ call[p].scan = {}
             /\ \A k \in Keys : rows'[k] = IF k \in call[p].locked THEN Absent ELSE rows[k]
  <2>1. q = p /\ \A k \in Keys : rows'[k] = IF k \in H THEN Absent ELSE rows[k]
    BY <1>0, <1>2, RowsGo
  <2>2. H = call[p].locked /\ call[p].scan = {}
    BY <1>2, <2>1 DEF Deletes
  <2> QED BY <2>1, <2>2
<1>3. ASSUME NEW q \in Callers, NEW op \in DeleteOps, NEW arg, NEW s, NEW l,
             call' = [call EXCEPT ![q] = Deleting(op, arg, s, l)]
      PROVE  FALSE
  <2>1. q = p => call'[p] = Deleting(op, arg, s, l)
    BY <1>3 DEF Inv, TypeOK
  <2>2. q # p => call'[p] = call[p]
    BY <1>3 DEF Inv, TypeOK
  <2> QED BY <2>1, <2>2, CallParts DEF Open
<1>4. ASSUME NEW q \in Callers, Begins(q)
      PROVE  FALSE
  <2>1. "revoke" \in DeleteOps /\ "removeExpired" \in DeleteOps
    BY DEF DeleteOps
  <2> QED BY <1>3, <1>4, <2>1 DEF Begins, RemoveAll, BeginDelete
<1>5. ASSUME NEW q \in Callers, NEW k \in Keys, LockNext(q, k)
      PROVE  FALSE
  <2>1. call[q].op \in DeleteOps
    BY <1>0, <1>5 DEF CallShape, LockNext
  <2> QED BY <1>3, <1>5, <2>1 DEF LockNext, LockRow
<1> QED BY <1>1, <1>2, <1>4, <1>5 DEF Kinds, Upserts, Ends

(* A row that disappears as a DELETE ends was selected by its WHERE clause *)
LEMMA RemovesSelected ==
    ASSUME Inv, Next, NEW p \in Callers, Open(p), ~Open(p)',
           NEW k \in Keys, Present(k), ~Present(k)'
    PROVE  Selected(p, k) /\ Mirrors(k, rows[k])
<1>1. k \in call[p].locked
  BY NextKinds, Closes DEF Present
<1> QED BY <1>1, MirrorsAll DEF Inv, LockedRight

(* RemoveAll, when it returns without an error, has removed every grant that matched
   its filter throughout, whatever upserts replaced it while the DELETE ran; and
   RemoveExpired every record that was overdue throughout. *)
THEOREM DeletesComplete == Spec => DeletesAreComplete
<1>1. Inv /\ [Next]_vars =>
        [\A p \in Callers :
          (Open(p) /\ ~Open(p)' /\ reply'.err = "ok") => \A k \in due[p] : ~Present(k)']_vars
  <2> SUFFICES ASSUME Inv, Next, NEW p \in Callers, Open(p), ~Open(p)', reply'.err = "ok",
                      NEW k \in due[p]
               PROVE  ~Present(k)'
    OBVIOUS
  <2>1. k \in Keys /\ k \in call[p].scan \cup call[p].locked
    BY DEF Inv, DueRight, TypeOK
  <2> QED BY <2>1, NextKinds, Closes DEF Present
<1> QED BY <1>1, Invariance, PTL DEF Spec, DeletesAreComplete

(* RemoveAll removes only grants that match its filter as they are when they disappear. *)
THEOREM RevocationExact == Spec => RevocationIsExact
<1>1. Inv /\ [Next]_vars =>
        [\A p \in Callers, k \in Keys :
          /\ Open(p) /\ call[p].op = "revoke" /\ ~Open(p)'
          /\ Present(k) /\ ~Present(k)'
          => Matching(call[p].arg, rows[k].payload)]_vars
  <2> SUFFICES ASSUME Inv, Next, NEW p \in Callers, NEW k \in Keys,
                      Open(p), call[p].op = "revoke", ~Open(p)', Present(k), ~Present(k)'
               PROVE  Matching(call[p].arg, rows[k].payload)
    OBVIOUS
  <2>1. buildFilter(call[p].arg, rows[k]) /\ Mirrors(k, rows[k])
    BY RemovesSelected DEF Selected, Filtered
  <2>2. call[p].arg \in Filters /\ table = "persisted_grants"
    BY OpenTyped DEF Inv, LockedRight
  <2> QED BY <2>1, <2>2, FilterMatches
<1> QED BY <1>1, Invariance, PTL DEF Spec, RevocationIsExact

(* What the cleanup selects by the column has ended by its record *)
LEMMA ExpiredEnded ==
    ASSUME TypeOK, NEW k \in Keys, Present(k), Mirrors(k, rows[k]),
           NEW cutoff \in Cutoffs, Expired(k, cutoff)
    PROVE  Ended(rows[k], cutoff)
<1> DEFINE expires == rows[k].payload.expires
<1>1. Reclaimable(OptionalExpiry(expires), cutoff)
  BY DEF Expired, Mirrors
<1>2. expires \in Int \cup {Never} /\ cutoff \in Int
  BY InstantTyped, CutoffsAssumption
<1> HIDE DEF expires
<1>3. expires # Never
  BY <1>1 DEF Reclaimable, OptionalExpiry
<1>4. Micros(expires) < Micros(cutoff)
  BY <1>1, <1>3 DEF Reclaimable, OptionalExpiry
<1>5. expires < cutoff
  BY <1>2, <1>3, <1>4, MicrosStrict
<1> QED BY <1>3, <1>5 DEF Ended, expires

(* RemoveExpired of both stores takes a record only if that record, as it is when it
   disappears, carries an expiration before the cutoff. *)
THEOREM CleanupSafe == Spec => CleanupIsSafe
<1>1. Inv /\ [Next]_vars =>
        [\A p \in Callers, k \in Keys :
          /\ Open(p) /\ call[p].op = "removeExpired" /\ ~Open(p)'
          /\ Present(k) /\ ~Present(k)'
          => LET expires == rows[k].payload.expires
             IN  expires # Never /\ expires < call[p].arg]_vars
  <2> SUFFICES ASSUME Inv, Next, NEW p \in Callers, NEW k \in Keys,
                      Open(p), call[p].op = "removeExpired", ~Open(p)',
                      Present(k), ~Present(k)'
               PROVE  /\ rows[k].payload.expires # Never
                      /\ rows[k].payload.expires < call[p].arg
    OBVIOUS
  <2>1. Expired(k, call[p].arg) /\ Mirrors(k, rows[k])
    BY RemovesSelected DEF Selected
  <2>2. call[p].arg \in Cutoffs
    BY OpenTyped DEF Inv
  <2> QED BY <2>1, <2>2, ExpiredEnded DEF Inv, Ended
<1> QED BY <1>1, Invariance, PTL DEF Spec, CleanupIsSafe

-----------------------------------------------------------------------------
(* The refinement: every step is a step of the abstract store, or changes nothing of it. *)

(* What is seen of the answers and of the open calls *)
LEMMA OutcomeIs ==
    /\ reply' = Silence => Outcome' = RS!Silence
    /\ reply'.op # "none" =>
          Outcome' = [caller |-> reply'.caller, op |-> reply'.op, err |-> reply'.err]
BY DEF Outcome, Silence, RS!Silence

LEMMA ClearingParts ==
    \A p \in Callers :
        /\ Clearings[p].busy <=> Open(p)
        /\ RS!Busy(p) <=> Open(p)
        /\ ~Open(p) => Clearings[p] = RS!Idle
        /\ Open(p) => /\ Clearings[p].by.op = call[p].op
                      /\ Clearings[p].by.arg = call[p].arg
                      /\ Clearings[p].due = due[p]
                      /\ Clearings[p].spared = {}
BY DEF Clearings, RS!Busy, RS!Idle

(* Only the operation and its argument matter to what is owed and what may be taken *)
LEMMA SameDemand ==
    ASSUME NEW by, NEW c, by.op = c.op, by.arg = c.arg, NEW row
    PROVE  (Owes(by, row) <=> Owes(c, row)) /\ (Takes(by, row) <=> Takes(c, row))
BY DEF Owes, Takes

(* A call goes on with the demand it was opened for *)
GoesOn(q) ==
    /\ Open(q)' <=> Open(q)
    /\ Open(q) => call'[q].op = call[q].op /\ call'[q].arg = call[q].arg

(* A revocation or a cleanup under way follows the records *)
LEMMA Followed ==
    ASSUME Observe, NEW q \in Callers, GoesOn(q)
    PROVE  Clearings'[q] = RS!Revised(Clearings[q])
<1>1. CASE ~Open(q)
  BY <1>1 DEF Clearings, RS!Revised, GoesOn
<1>2. CASE Open(q)
  <2> DEFINE by == [op |-> call[q].op, arg |-> call[q].arg]
  <2>1. Open(q)' /\ call'[q].op = by.op /\ call'[q].arg = by.arg
    BY <1>2 DEF GoesOn
  <2>2. due'[q] = {k \in due[q] : rows'[k] # Absent /\ Owes(call'[q], rows'[k])}
    BY <1>2, <2>1 DEF Observe
  <2>3. \A k : Owes(call'[q], rows'[k]) <=> Owes(by, rows'[k])
    BY <2>1 DEF Owes
  <2>4. due'[q] = {k \in due[q] : rows'[k] # Absent /\ Owes(by, rows'[k])}
    BY <2>2, <2>3
  <2>5. Clearings'[q] = RS!Clearing(by, due'[q], {})
    BY <2>1 DEF Clearings, RS!Clearing
  <2>6. Clearings[q] = RS!Clearing(by, due[q], {})
    BY <1>2 DEF Clearings, RS!Clearing
  <2> HIDE DEF by
  <2>7. RS!Revised(Clearings[q])
          = RS!Clearing(by, {k \in due[q] : rows'[k] # Absent /\ Owes(by, rows'[k])}, {})
    BY <2>6 DEF RS!Revised, RS!Clearing
  <2> QED BY <2>4, <2>5, <2>7
<1> QED BY <1>1, <1>2

(* It is untouched when the records are *)
LEMMA Untouched ==
    ASSUME Inv, Observe, rows' = rows, NEW q \in Callers, GoesOn(q)
    PROVE  Clearings'[q] = Clearings[q]
<1>1. CASE ~Open(q)
  BY <1>1 DEF Clearings, GoesOn
<1>2. CASE Open(q)
  <2>1. due'[q] = {k \in due[q] : rows'[k] # Absent /\ Owes(call'[q], rows'[k])}
    BY <1>2 DEF Observe, GoesOn
  <2>2. \A k : Owes(call'[q], rows[k]) <=> Owes(call[q], rows[k])
    BY <1>2 DEF GoesOn, Owes
  <2>3. due'[q] = due[q]
    BY <2>1, <2>2 DEF Inv, DueRight, Present
  <2> QED BY <1>2, <2>3 DEF Clearings, GoesOn
<1> QED BY <1>1, <1>2

(* A step that leaves the rows and all demands alone *)
LEMMA Steady ==
    ASSUME Inv, Observe, rows' = rows, \A q \in Callers : GoesOn(q)
    PROVE  UNCHANGED <<rows, Clearings>>
<1>1. \A q \in Callers : Clearings'[q] = Clearings[q]
  BY Untouched
<1> QED BY <1>1 DEF Clearings

(* A step that ends the call of p, if it has one, and leaves the others alone *)
LEMMA Revises ==
    ASSUME Observe, NEW p \in Callers, ~Open(p)', \A q \in Callers \ {p} : GoesOn(q)
    PROVE  RS!Revise(p)
<1>1. \A q \in Callers \ {p} : Clearings'[q] = RS!Revised(Clearings[q])
  BY Followed
<1>2. Clearings'[p] = RS!Idle
  BY DEF Clearings, RS!Idle
<1>3. Clearings' = [q \in Callers |-> Clearings'[q]]
  BY DEF Clearings
<1> QED BY <1>1, <1>2, <1>3 DEF RS!Revise

LEMMA Quiet ==
    ASSUME Inv, Observe, UNCHANGED <<rows, call>>
    PROVE  UNCHANGED <<rows, Clearings>>
<1>1. \A q \in Callers : GoesOn(q)
  BY DEF GoesOn, Open
<1> QED BY <1>1, Steady

LEMMA FailRefines ==
    ASSUME Inv, Observe, NEW p \in Callers, ~Open(p), UNCHANGED <<rows, call>>,
           NEW op \in {"get", "list", "store", "remove"}, Answer(p, op, "wrapped")
    PROVE  RS!CallNext(p)
<1>1. Outcome' = [caller |-> p, op |-> op, err |-> "wrapped"]
  BY OutcomeIs DEF Answer
<1>2. ~RS!Busy(p)
  BY ClearingParts
<1> QED BY <1>1, <1>2, Quiet DEF RS!CallNext, RS!Fail, RS!Answer

LEMMA ReadRefines ==
    ASSUME Inv, Observe, NEW p \in Callers,
           \/ \E K : ReadRow(p, K)
           \/ \E arg, K : ReadRows(p, arg, K)
    PROVE  RS!CallNext(p)
<1>1. ~Open(p) /\ UNCHANGED <<rows, call>>
  BY DEF ReadRow, ReadRows
<1>2. ~RS!Busy(p)
  BY <1>1, ClearingParts
<1>3. CASE Answer(p, "get", "wrapped") \/ Answer(p, "list", "wrapped")
  BY <1>1, <1>3, FailRefines
<1>4. CASE ~(Answer(p, "get", "wrapped") \/ Answer(p, "list", "wrapped"))
  <2>1. /\ reply'.caller = p /\ reply'.op \in {"get", "list"}
        /\ reply'.err \in {"ok", "missing"}
    BY <1>4 DEF ReadRow, ReadRows, Answer
  <2>2. Outcome' = [caller |-> p, op |-> reply'.op, err |-> reply'.err]
    BY <2>1, OutcomeIs
  <2>3. RS!Look(p)
    BY <1>1, <1>2, <2>1, <2>2, Quiet DEF RS!Look, RS!Answer
  <2> QED BY <2>3 DEF RS!CallNext
<1> QED BY <1>3, <1>4

LEMMA StoreRefines ==
    ASSUME Inv, Observe, NEW p \in Callers, NEW k \in Keys, NEW row \in RowType,
           WriteRows(p, "store", {k}, [j \in {k} |-> row])
    PROVE  RS!CallNext(p)
<1>1. ~Open(p) /\ call' = call
  BY DEF WriteRows
<1>2. CASE rows' = rows /\ Answer(p, "store", "wrapped")
  BY <1>1, <1>2, FailRefines
<1>3. CASE /\ rows' = [j \in Keys |-> IF j \in {k} THEN [i \in {k} |-> row][j] ELSE rows[j]]
           /\ \E err \in {"ok", "wrapped"} : Answer(p, "store", err)
  <2>1. rows' = [j \in Keys |-> IF j \in {k} THEN rows'[j] ELSE rows[j]] /\ rows'[k] = row
    BY <1>3
  <2>2. row # Absent
    BY AbsentAssumption DEF RowType
  <2>3. RS!Revise(p)
    BY <1>1, Revises DEF GoesOn, Open
  <2>4. RS!Write(p, {k})
    BY <2>1, <2>2, <2>3 DEF RS!Write
  <2>5. Outcome' \in [caller : {p}, op : {"store"}, err : {"ok", "wrapped"}]
    BY <1>3, OutcomeIs DEF Answer
  <2>6. ~RS!Busy(p)
    BY <1>1, ClearingParts
  <2>7. RS!Store(p)
    BY <2>4, <2>5, <2>6 DEF RS!Store, RS!Answer
  <2> QED BY <2>7 DEF RS!CallNext
<1> QED BY <1>2, <1>3 DEF WriteRows

LEMMA RemoveRefines ==
    ASSUME Inv, Observe, NEW p \in Callers, NEW k \in Keys, DeleteRow(p, k)
    PROVE  RS!CallNext(p)
<1>0. CallShape /\ LocksApart
  BY ShapeOfCalls DEF Inv
<1>1. ~Open(p)
  BY DEF DeleteRow
<1>2. CASE UNCHANGED <<rows, call>> /\ Answer(p, "remove", "wrapped")
  BY <1>1, <1>2, FailRefines
<1>3. CASE Unlocked(k) /\ Remove(p, {k})
           /\ (Answer(p, "remove", "wrapped")
               \/ reply' = [caller |-> p, op |-> "remove", err |-> "ok", key |-> k])
  <2>1. Deletes(p, {k})
    BY <1>1, <1>3 DEF Deletes
  <2>2. /\ rows' = [j \in Keys |-> IF j \in {k} THEN Absent ELSE rows[j]]
        /\ ~Open(p)'
        /\ \A q \in Callers \ {p} : Open(q)' <=> Open(q)
        /\ \A q \in Callers \ {p} : Open(q) =>
              call'[q].op = call[q].op /\ call'[q].arg = call[q].arg
    <3>1. {k} \in SUBSET Keys
      OBVIOUS
    <3> QED BY <1>0, <2>1, <3>1, RowsGo
  <2>3. RS!Revise(p)
    BY <2>2, Revises DEF GoesOn
  <2>4. RS!Drop(p, {k})
    BY <2>2, <2>3 DEF RS!Drop
  <2>5. Outcome' \in [caller : {p}, op : {"remove"}, err : {"ok", "wrapped"}]
    BY <1>3, OutcomeIs DEF Answer
  <2>6. ~RS!Busy(p)
    BY <1>1, ClearingParts
  <2>7. RS!Remove(p)
    BY <2>4, <2>5, <2>6 DEF RS!Remove, RS!Answer
  <2> QED BY <2>7 DEF RS!CallNext
<1> QED BY <1>2, <1>3 DEF DeleteRow

(* A DELETE that locks a row works behind its call *)
LEMMA WorkRefines ==
    ASSUME Inv, Observe, NEW p \in Callers, NEW k \in Keys, LockNext(p, k)
    PROVE  RS!Work
<1>1. PICK s, l :
          call' = [call EXCEPT ![p] = Deleting(call[p].op, call[p].arg, s, l)]
  BY DEF LockNext, LockRow
<1>2. Open(p) /\ call[p].op \in DeleteOps
  BY OpenTyped DEF LockNext, Inv, DeleteOps
<1>3. /\ call'[p] = Deleting(call[p].op, call[p].arg, s, l)
      /\ \A q \in Callers \ {p} : call'[q] = call[q]
  BY <1>1 DEF Inv, TypeOK
<1>4. \A q \in Callers : GoesOn(q)
  BY <1>2, <1>3, CallParts DEF GoesOn, Open
<1>5. rows' = rows /\ reply' = Silence
  BY DEF LockNext, LockRow
<1> QED BY <1>4, <1>5, Steady, OutcomeIs DEF RS!Work

(* The snapshot of a DELETE is taken as it begins *)
LEMMA BeginRefines ==
    ASSUME Inv, Observe, NEW p \in Callers, NEW by \in Demands, NEW s,
           BeginDelete(p, by.op, by.arg, s)
    PROVE  RS!CallNext(p)
<1>1. /\ ~Open(p) /\ rows' = rows /\ reply' = Silence
      /\ call' = [call EXCEPT ![p] = Deleting(by.op, by.arg, s, {})]
  BY DEF BeginDelete
<1>2. /\ call'[p] = Deleting(by.op, by.arg, s, {})
      /\ \A q \in Callers \ {p} : call'[q] = call[q]
  BY <1>1 DEF Inv, TypeOK
<1>3. by.op \in DeleteOps /\ by = [op |-> by.op, arg |-> by.arg]
  BY DEF Demands, DeleteOps
<1>4. Open(p)' /\ call'[p].op = by.op /\ call'[p].arg = by.arg
  BY <1>2, <1>3, CallParts DEF Open
<1>5. \A q \in Callers \ {p} : Clearings'[q] = Clearings[q]
  BY <1>1, <1>2, Untouched DEF GoesOn, Open
<1>6. due'[p] = {k \in Keys : Present(k) /\ Owes(by, rows[k])}
  <2>1. due'[p] = {k \in Keys : rows[k] # Absent /\ Owes(call'[p], rows[k])}
    BY <1>1, <1>4 DEF Observe
  <2>2. \A k \in Keys : Owes(call'[p], rows[k]) <=> Owes(by, rows[k])
    BY <1>4 DEF Owes
  <2> QED BY <2>1, <2>2 DEF Present
<1> DEFINE new == RS!Clearing(by, {k \in Keys : Present(k) /\ Owes(by, rows[k])},
                              {k \in Keys : ByKey(by) /\ Present(k) /\ ~Takes(by, rows[k])})
<1>7. Clearings'[p] = new
  <2>1. Clearings'[p] = [busy |-> TRUE, by |-> [op |-> call'[p].op, arg |-> call'[p].arg],
                         due |-> due'[p], spared |-> {}]
    BY <1>4 DEF Clearings
  <2>2. {k \in Keys : ByKey(by) /\ Present(k) /\ ~Takes(by, rows[k])} = {}
    BY DEF ByKey
  <2> QED BY <1>3, <1>4, <1>6, <2>1, <2>2 DEF RS!Clearing
<1>8. Clearings' = [Clearings EXCEPT ![p] = new]
  BY <1>5, <1>7 DEF Clearings
<1>9. Outcome' = RS!Silence /\ ~RS!Busy(p)
  BY <1>1, OutcomeIs, ClearingParts
<1> QED BY <1>1, <1>8, <1>9 DEF RS!Begin, RS!Present, Present, RS!CallNext

(* What the WHERE clause selects may be taken by the record *)
LEMMA SelectedTaken ==
    ASSUME Inv, NEW p \in Callers, Open(p), NEW k \in Keys, Present(k), Selected(p, k)
    PROVE  Takes(call[p], rows[k])
<1>1. Mirrors(k, rows[k])
  BY MirrorsAll DEF Inv
<1>2. CASE call[p].op = "revoke"
  <2>1. table = "persisted_grants" /\ call[p].arg \in Filters
    BY <1>2, OpenTyped DEF Inv, LockedRight
  <2>2. Chosen(call[p].arg, rows[k])
    BY <1>1, <1>2, <2>1, FilterMatches, ChosenMatches DEF Selected, Filtered, Inv
  <2> QED BY <1>2, <2>2 DEF Takes
<1>3. CASE call[p].op = "removeExpired"
  <2>1. call[p].arg \in Cutoffs
    BY <1>3, OpenTyped DEF Inv
  <2>2. Ended(rows[k], call[p].arg)
    BY <1>1, <1>3, <2>1, ExpiredEnded DEF Selected, Inv
  <2> QED BY <1>3, <2>2 DEF Takes
<1> QED BY <1>2, <1>3, OpenTyped DEF Inv

(* A commit removes what was locked: all that is due, and all of it to be taken at that
   moment *)
LEMMA CommitRefines ==
    ASSUME Inv, Observe, NEW p \in Callers, CommitDelete(p)
    PROVE  RS!CallNext(p)
<1> DEFINE H == call[p].locked
           by == Clearings[p].by
<1>0. CallShape /\ LocksApart
  BY ShapeOfCalls DEF Inv
<1>1. Open(p) /\ H \in SUBSET Keys /\ Deletes(p, H) /\ call[p].scan = {}
  BY OpenTyped DEF Inv, CommitDelete, Deletes
<1>2. /\ rows' = [j \in Keys |-> IF j \in H THEN Absent ELSE rows[j]]
      /\ ~Open(p)'
      /\ \A q \in Callers \ {p} : Open(q)' <=> Open(q)
      /\ \A q \in Callers \ {p} : Open(q) =>
            call'[q].op = call[q].op /\ call'[q].arg = call[q].arg
  BY <1>0, <1>1, RowsGo
<1>3. RS!Drop(p, H)
  BY <1>2, Revises DEF RS!Drop, GoesOn
<1>4. /\ RS!Busy(p) /\ Clearings[p].due = due[p] /\ Clearings[p].spared = {}
      /\ by.op = call[p].op /\ by.arg = call[p].arg
  BY <1>1, ClearingParts
<1>5. \A k \in H : Present(k) /\ Takes(by, rows[k])
  <2>1. \A k \in H : Selected(p, k)
    BY <1>1 DEF Inv, LockedRight
  <2>2. \A k \in H : Present(k)
    BY <2>1 DEF Selected, Filtered, Expired
  <2>3. \A k \in H : Takes(call[p], rows[k])
    BY <1>1, <2>1, <2>2, SelectedTaken
  <2> QED BY <1>4, <2>2, <2>3, SameDemand
<1>6. due[p] \subseteq H
  BY <1>1 DEF Inv, DueRight
<1>7. Outcome' \in [caller : {p}, op : {by.op}, err : {"ok", "wrapped"}]
  <2>1. call[p].op # "none"
    BY <1>1, OpenTyped DEF Inv
  <2> QED BY <1>4, <2>1, OutcomeIs DEF CommitDelete, Answer
<1> HIDE DEF H, by
<1>8. RS!Finish(p)
  BY <1>1, <1>3, <1>4, <1>5, <1>6, <1>7 DEF RS!Finish, RS!Answer, RS!Present, Present, by
<1> QED BY <1>8 DEF RS!CallNext

(* A call that is given up has changed nothing *)
LEMMA AbortRefines ==
    ASSUME Inv, Observe, NEW p \in Callers, AbortCall(p)
    PROVE  RS!CallNext(p)
<1>1. /\ Open(p) /\ rows' = rows /\ ~Open(p)'
      /\ call' = [call EXCEPT ![p] = Idle]
      /\ \A q \in Callers \ {p} : call'[q] = call[q]
  BY DEF AbortCall, Inv, TypeOK, Open
<1>2. RS!Busy(p) /\ Clearings[p].by.op = call[p].op /\ call[p].op # "none"
  BY <1>1, ClearingParts, OpenTyped DEF Inv
<1>3. Outcome' = [caller |-> p, op |-> call[p].op, err |-> "wrapped"]
  BY <1>2, OutcomeIs DEF AbortCall, Answer
<1>4. \A q \in Callers \ {p} : Clearings'[q] = Clearings[q]
  BY <1>1, Untouched DEF GoesOn, Open
<1>5. Clearings'[p] = RS!Idle
  BY <1>1 DEF Clearings, RS!Idle
<1>6. Clearings' = [Clearings EXCEPT ![p] = RS!Idle]
  BY <1>4, <1>5 DEF Clearings
<1>7. RS!Abandon(p)
  BY <1>1, <1>2, <1>3, <1>6 DEF RS!Abandon, RS!Answer
<1> QED BY <1>7 DEF RS!CallNext

(* Every step of the two stores is one of the abstract store, or changes nothing of it *)
LEMMA RefinesStep ==
    ASSUME Inv, [Next]_vars
    PROVE  [RS!Next]_(RS!vars)
<1>1. CASE UNCHANGED vars
  BY <1>1 DEF vars, RS!vars, Clearings, Open, Outcome
<1>2. CASE Next
  <2>1. PICK p \in Callers : CallNext(p) /\ Observe
    BY <1>2 DEF Next
  <2>2. ASSUME NEW cutoff \in Cutoffs,
               BeginDelete(p, "removeExpired", cutoff, ExpiredRows(cutoff))
        PROVE  RS!CallNext(p)
    <3> DEFINE by == [op |-> "removeExpired", arg |-> cutoff]
    <3>1. by \in Demands /\ BeginDelete(p, by.op, by.arg, ExpiredRows(cutoff))
      BY <2>2 DEF Demands
    <3> HIDE DEF by
    <3> QED BY <2>1, <3>1, BeginRefines
  <2>3. ASSUME table = "persisted_grants", PersistedGrantNext(p)
        PROVE  RS!Next
    <3>1. ASSUME NEW key \in Keys, NEW grant \in Grants, Store(p, key, grant)
          PROVE  RS!CallNext(p)
      BY <2>1, <2>3, <3>1, GrantTyped, StoreRefines DEF Store
    <3>2. ASSUME NEW key \in Keys, Get(p, key) \/ RemoveGrant(p, key)
          PROVE  RS!CallNext(p)
      BY <2>1, <3>2, ReadRefines, RemoveRefines DEF Get, RemoveGrant
    <3>3. ASSUME NEW filter \in Filters, GetAll(p, filter)
          PROVE  RS!CallNext(p)
      BY <2>1, <3>3, ReadRefines DEF GetAll
    <3>4. ASSUME NEW filter \in Filters, RemoveAll(p, filter)
          PROVE  RS!CallNext(p)
      <4> DEFINE by == [op |-> "revoke", arg |-> filter]
      <4>1. by \in Demands /\ BeginDelete(p, by.op, by.arg, Filtered(filter))
        BY <3>4 DEF Demands, RemoveAll
      <4> HIDE DEF by
      <4> QED BY <2>1, <4>1, BeginRefines
    <3>5. ASSUME NEW cutoff \in Cutoffs, RemoveExpiredGrants(p, cutoff)
          PROVE  RS!CallNext(p)
      BY <2>2, <3>5 DEF RemoveExpiredGrants
    <3> QED BY <2>3, <3>1, <3>2, <3>3, <3>4, <3>5 DEF PersistedGrantNext, RS!Next
  <2>4. ASSUME table = "user_consents", UserConsentNext(p)
        PROVE  RS!Next
    <3>1. ASSUME NEW consent \in Consents, StoreUserConsent(p, consent)
          PROVE  RS!CallNext(p)
      BY <2>1, <2>4, <3>1, ConsentTyped, StoreRefines DEF StoreUserConsent
    <3>2. ASSUME NEW key \in Keys,
                 \/ GetUserConsent(p, key[1], key[2])
                 \/ RemoveUserConsent(p, key[1], key[2])
                 \/ GetAllUserConsents(p, key[1])
          PROVE  RS!CallNext(p)
      BY <2>1, <3>2, KeysAssumption, ReadRefines, RemoveRefines
         DEF GetUserConsent, RemoveUserConsent, GetAllUserConsents
    <3>3. ASSUME NEW cutoff \in Cutoffs, RemoveExpiredConsents(p, cutoff)
          PROVE  RS!CallNext(p)
      BY <2>2, <3>3 DEF RemoveExpiredConsents
    <3> QED BY <2>4, <3>1, <3>2, <3>3 DEF UserConsentNext, RS!Next
  <2>5. ASSUME NEW k \in Keys, LockNext(p, k)
        PROVE  RS!Work
    BY <2>1, <2>5, WorkRefines
  <2>6. ASSUME CommitDelete(p) \/ AbortCall(p)
        PROVE  RS!CallNext(p)
    BY <2>1, <2>6, CommitRefines, AbortRefines
  <2> QED BY <2>1, <2>3, <2>4, <2>5, <2>6 DEF CallNext, RS!Next
<1> QED BY <1>1, <1>2

(* The grant and consent stores, whose upserts, listings, revocations and cleanups run
   beside each other on locked rows, are one abstract revocable store: RemoveAll takes,
   at one instant, only what its filter selects then, and all that it selected since the
   call began; RemoveExpired only what has expired, and all that was overdue. *)
THEOREM Refinement == Spec => ImplementsRevocableStore
<1>1. GrantInit => RS!Init
  BY DEF GrantInit, Init, RS!Init, Clearings, Open, RS!Idle, Outcome, RS!Silence,
         Silence
<1>2. Inv /\ [Next]_vars => [RS!Next]_(RS!vars)
  BY RefinesStep
<1> QED BY <1>1, <1>2, Invariance, PTL DEF Spec, ImplementsRevocableStore, RS!Spec
=============================================================================
