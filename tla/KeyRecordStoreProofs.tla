------------------------ MODULE KeyRecordStoreProofs ------------------------
(***************************************************************************)
(* Theorems of the key record store, for every set of handles, callers,    *)
(* public ids and phases and every range of the version column.            *)
(***************************************************************************)
EXTENDS KeyRecordStore, TLAPS

USE DEF Versions

-----------------------------------------------------------------------------
(* An idle caller and one between the two statements of an update are told apart by
   the op of their call. *)
LEMMA CallKinds ==
    /\ Idle.op = "none"
    /\ \A h, v : /\ Updating(h, v).op = "update"
                 /\ Updating(h, v).handle = h
                 /\ Updating(h, v).expected = v
BY DEF Idle, Updating

(* What a step does to the table: it puts a row that clashes with no other,
   either where there was none or with the version after the one replaced; it
   deletes one; or it leaves rows alone. *)
Puts(p, h, row) ==
    /\ row.version = row.payload.version
    /\ row.public_id = row.payload.body.public_id
    /\ row.phase = row.payload.body.phase
    /\ ~IndexClash(h, row.payload.body)
    /\ rows[h] # Absent => row.version = rows[h].version + 1
    /\ rows' = [rows EXCEPT ![h] = row]
    /\ copy' = copy \/ WriteBack(p, h, row.payload)
    /\ call' = call

Deletes(h) ==
    /\ rows' = [rows EXCEPT ![h] = Absent]
    /\ copy' = [q \in Callers |->
                  IF copy[q] # Absent /\ copy[q].handle = h THEN Absent ELSE copy[q]]
    /\ call' = call

OnlyReads(p) ==
    /\ rows' = rows
    /\ copy' = copy \/ \E h \in Handles : rows[h] # Absent /\ WriteBack(p, h, rows[h].payload)
    /\ \/ call' = call
       \/ call' = [call EXCEPT ![p] = Idle]
       \/ \E h \in Handles, v \in Versions : call' = [call EXCEPT ![p] = Updating(h, v)]

(* Every step reads only, puts one row that clashes with no other, or deletes one. *)
LEMMA StepKinds ==
    ASSUME [Next]_vars
    PROVE  \/ UNCHANGED <<rows, call, copy>>
           \/ \E p \in Callers : OnlyReads(p)
           \/ \E p \in Callers, h \in Handles, row \in Row : Puts(p, h, row)
           \/ \E h \in Handles : Deletes(h)
<1>1. ASSUME NEW p \in Callers, NEW h \in Handles, NEW body \in Bodies, Create(p, h, body)
      PROVE  OnlyReads(p) \/ \E row \in Row : Puts(p, h, row)
  <2> DEFINE row == NewRow(body, 1, 1)
  <2>1. row \in Row /\ row.payload = [body |-> body, version |-> 1]
    BY MaxVersionAssumption DEF NewRow, Row, Payload, Bodies
  <2>2. /\ row.version = row.payload.version
        /\ row.public_id = row.payload.body.public_id
        /\ row.phase = row.payload.body.phase
        /\ row.payload.body = body
    BY DEF NewRow
  <2> HIDE DEF row
  <2>3. CASE Fail(p, "store") /\ UNCHANGED call
    BY <2>3 DEF Fail, OnlyReads
  <2>4. CASE UNCHANGED <<rows, copy, call>>
    BY <2>4 DEF OnlyReads
  <2>5. CASE /\ rows[h] = Absent /\ ~IndexClash(h, body)
             /\ rows' = [rows EXCEPT ![h] = row]
             /\ copy' = copy \/ WriteBack(p, h, [body |-> body, version |-> 1])
             /\ call' = call
    BY <2>1, <2>2, <2>5 DEF Puts
  <2> QED
    BY <1>1, <2>3, <2>4, <2>5 DEF Create, row
<1>2. ASSUME NEW p \in Callers, NEW h \in Handles, NEW body \in Bodies, NEW v \in Versions,
             Update(p, h, body, v)
      PROVE  OnlyReads(p) \/ \E row \in Row : Puts(p, h, row)
  <2> DEFINE row == NewRow(body, v + 1, v + 1)
  <2>1. ASSUME InRange(v)
        PROVE  row \in Row /\ row.payload = [body |-> body, version |-> v + 1]
    BY <2>1, MaxVersionAssumption DEF NewRow, Row, Payload, Bodies, InRange
  <2>2. /\ row.version = row.payload.version
        /\ row.public_id = row.payload.body.public_id
        /\ row.phase = row.payload.body.phase
        /\ row.payload.body = body /\ row.version = v + 1
    BY DEF NewRow
  <2>3. Matches(h, v) => rows[h].version = v /\ Replacement(h, body, v) = row
    BY DEF Matches, Replacement
  <2> HIDE DEF row
  <2>4. CASE OnlyReads(p)
    BY <2>4
  <2>5. CASE /\ InRange(v) /\ Matches(h, v) /\ ~IndexClash(h, body)
             /\ rows' = [rows EXCEPT ![h] = row]
             /\ copy' = copy \/ WriteBack(p, h, [body |-> body, version |-> v + 1])
             /\ call' = call
    BY <2>1, <2>2, <2>3, <2>5 DEF Puts
  <2> QED
    BY <1>2, <2>3, <2>4, <2>5 DEF Update, OnlyReads, Fail
<1>3. ASSUME NEW p \in Callers, NEW h \in Handles, Get(p, h)
      PROVE  OnlyReads(p)
  BY <1>3 DEF Get, OnlyReads
<1>4. ASSUME NEW p \in Callers, NEW h \in Handles, Delete(p, h)
      PROVE  Deletes(h) \/ OnlyReads(p)
  BY <1>4 DEF Delete, Deletes, OnlyReads, Fail
<1>5. ASSUME NEW p \in Callers, List(p) \/ RecheckExistence(p)
      PROVE  OnlyReads(p)
  BY <1>5 DEF List, RecheckExistence, OnlyReads
<1>6. CASE UNCHANGED vars
  BY <1>6 DEF vars
<1> QED
  BY <1>1, <1>2, <1>3, <1>4, <1>5, <1>6 DEF Next

-----------------------------------------------------------------------------
(* Writing a row of the right type, and filling in the caller's object. *)
LEMMA PutType ==
    ASSUME TypeOK, NEW p \in Callers, NEW h \in Handles, NEW row \in Row,
           NEW payload \in Payload, rows' = [rows EXCEPT ![h] = row],
           copy' = copy \/ WriteBack(p, h, payload), call' = call
    PROVE  TypeOK'
<1>1. [handle |-> h, payload |-> payload] \in Copy
  BY DEF Copy
<1>2. copy' \in [Callers -> Copy \cup {Absent}]
  BY <1>1 DEF TypeOK, WriteBack
<1> QED
  BY <1>2 DEF TypeOK

(* TypeOK is inductive; the range check of Update is what keeps the version
   column within its bigint. *)
LEMMA TypeStep ==
    ASSUME TypeOK, [Next]_vars
    PROVE  TypeOK'
<1>1. CASE UNCHANGED <<rows, call, copy>>
  BY <1>1 DEF TypeOK
<1>2. ASSUME NEW p \in Callers, OnlyReads(p)
      PROVE  TypeOK'
  <2>1. \A h \in Handles : rows[h] # Absent => rows[h].payload \in Payload
    BY DEF TypeOK, Row
  <2>2. copy' \in [Callers -> Copy \cup {Absent}]
    BY <1>2, <2>1 DEF TypeOK, OnlyReads, WriteBack, Copy
  <2>3. \A h \in Handles, v \in Versions : Updating(h, v) \in UpdateCall
    BY DEF Updating, UpdateCall
  <2> QED
    BY <1>2, <2>2, <2>3 DEF TypeOK, OnlyReads
<1>3. ASSUME NEW p \in Callers, NEW h \in Handles, NEW row \in Row, Puts(p, h, row)
      PROVE  TypeOK'
  <2>1. row.payload \in Payload
    BY DEF Row
  <2> QED
    BY <1>3, <2>1, PutType DEF Puts
<1>5. ASSUME NEW h \in Handles, Deletes(h)
      PROVE  TypeOK'
  BY <1>5 DEF TypeOK, Deletes
<1> QED
  BY <1>1, <1>2, <1>3, <1>5, StepKinds

-----------------------------------------------------------------------------
(* The columns agree with the payload after every step. *)
LEMMA MirrorStep ==
    ASSUME TypeOK, ColumnsMirrorPayload, [Next]_vars
    PROVE  ColumnsMirrorPayload'
<1>1. ASSUME rows' = rows
      PROVE  ColumnsMirrorPayload'
  BY <1>1 DEF ColumnsMirrorPayload
<1>2. ASSUME NEW p \in Callers, NEW h \in Handles, NEW row \in Row, Puts(p, h, row)
      PROVE  ColumnsMirrorPayload'
  <2>1. rows'[h] = row /\ \A g \in Handles \ {h} : rows'[g] = rows[g]
    BY <1>2 DEF TypeOK, Puts
  <2> QED
    BY <1>2, <2>1 DEF ColumnsMirrorPayload, Puts
<1>3. ASSUME NEW h \in Handles, Deletes(h)
      PROVE  ColumnsMirrorPayload'
  <2>1. \A g \in Handles : rows'[g] # Absent => rows'[g] = rows[g]
    BY <1>3 DEF Deletes, TypeOK
  <2> QED
    BY <2>1 DEF ColumnsMirrorPayload
<1> QED
  BY <1>1, <1>2, <1>3, StepKinds DEF OnlyReads

-----------------------------------------------------------------------------
(* A row that clashes with no other in the index leaves public ids unique; the
   columns the index looks at are the payload's, by ColumnsMirrorPayload. *)
LEMMA UniqueStep ==
    ASSUME TypeOK, ColumnsMirrorPayload, UniquePublicIds, [Next]_vars
    PROVE  UniquePublicIds'
<1>1. ASSUME rows' = rows
      PROVE  UniquePublicIds'
  BY <1>1 DEF UniquePublicIds
<1>2. ASSUME NEW p \in Callers, NEW h \in Handles, NEW row \in Row, Puts(p, h, row)
      PROVE  UniquePublicIds'
  <2>1. rows'[h] = row /\ \A g \in Handles \ {h} : rows'[g] = rows[g]
    BY <1>2 DEF TypeOK, Puts
  <2>2. \A g \in Handles \ {h} :
           /\ rows[g] # Absent /\ rows[g].payload.body.phase # Retired
           /\ row.payload.body.phase # Retired
           => rows[g].payload.body.public_id # row.payload.body.public_id
    BY <1>2 DEF IndexClash, ColumnsMirrorPayload, Puts
  <2> QED
    BY <2>1, <2>2 DEF UniquePublicIds
<1>3. ASSUME NEW h \in Handles, Deletes(h)
      PROVE  UniquePublicIds'
  <2>1. \A g \in Handles : rows'[g] # Absent => rows'[g] = rows[g]
    BY <1>3 DEF Deletes, TypeOK
  <2> QED
    BY <2>1 DEF UniquePublicIds
<1> QED
  BY <1>1, <1>2, <1>3, StepKinds DEF OnlyReads

-----------------------------------------------------------------------------
(* A replacement carries a version above every copy of the row. *)
LEMMA VersionStep ==
    ASSUME TypeOK, ColumnsMirrorPayload, VersionIdentifiesContent, [Next]_vars
    PROVE  VersionIdentifiesContent'
<1> DEFINE Good(c, row) ==
        /\ row # Absent
        /\ c.payload.version <= row.payload.version
        /\ c.payload.version = row.payload.version => c.payload = row.payload
<1>1. \A q \in Callers : copy[q] # Absent =>
          Good(copy[q], rows[copy[q].handle]) /\ copy[q] \in Copy
  BY DEF VersionIdentifiesContent, TypeOK
<1>2. (\A q \in Callers : copy'[q] # Absent => Good(copy'[q], rows'[copy'[q].handle]))
        => VersionIdentifiesContent'
  BY DEF VersionIdentifiesContent
<1>3. CASE UNCHANGED <<rows, call, copy>>
  BY <1>1, <1>2, <1>3
<1>4. ASSUME NEW p \in Callers, OnlyReads(p)
      PROVE  VersionIdentifiesContent'
  <2>1. CASE copy' = copy
    BY <1>1, <1>2, <1>4, <2>1 DEF OnlyReads
  <2>2. ASSUME NEW h \in Handles, rows[h] # Absent, WriteBack(p, h, rows[h].payload)
        PROVE  VersionIdentifiesContent'
    <3>1. /\ copy'[p] = [handle |-> h, payload |-> rows[h].payload]
          /\ \A q \in Callers \ {p} : copy'[q] = copy[q]
      BY <2>2 DEF WriteBack, TypeOK
    <3>2. rows[h].payload.version \in Nat
      BY <2>2 DEF TypeOK, Row, Payload
    <3> QED
      BY <1>1, <1>2, <1>4, <2>2, <3>1, <3>2 DEF OnlyReads
  <2> QED
    BY <1>4, <2>1, <2>2 DEF OnlyReads
<1>5. ASSUME NEW p \in Callers, NEW h \in Handles, NEW row \in Row, Puts(p, h, row)
      PROVE  VersionIdentifiesContent'
  <2>1. rows'[h] = row /\ \A g \in Handles \ {h} : rows'[g] = rows[g]
    BY <1>5 DEF TypeOK, Puts
  <2>2. row # Absent /\ row.payload.version \in Nat
    BY AbsentAssumption DEF Row, Payload
  <2>7. rows[h] # Absent => row.payload.version = rows[h].payload.version + 1
    BY <1>5 DEF Puts, ColumnsMirrorPayload
  <2>3. ASSUME NEW q \in Callers, copy[q] # Absent
        PROVE  Good(copy[q], rows'[copy[q].handle])
    <3>1. copy[q].payload.version \in Nat /\ copy[q].handle \in Handles
      BY <1>1, <2>3 DEF Copy, Payload
    <3>2. rows[h] # Absent => rows[h].payload.version \in Nat
      BY DEF TypeOK, Row, Payload
    <3>3. CASE copy[q].handle = h
      BY <1>1, <2>1, <2>2, <2>3, <2>7, <3>1, <3>2, <3>3
    <3>4. CASE copy[q].handle # h
      BY <1>1, <2>1, <2>3, <3>1, <3>4
    <3> QED
      BY <3>3, <3>4
  <2>4. \A q \in Callers : copy'[q] = copy[q] \/ copy'[q] = [handle |-> h, payload |-> row.payload]
    BY <1>5 DEF Puts, WriteBack, TypeOK
  <2>5. Good([handle |-> h, payload |-> row.payload], rows'[h])
    BY <2>1, <2>2
  <2> HIDE DEF Good
  <2>6. ASSUME NEW q \in Callers, copy'[q] # Absent
        PROVE  Good(copy'[q], rows'[copy'[q].handle])
    BY <2>3, <2>4, <2>5, <2>6
  <2> USE DEF Good
  <2> QED
    BY <1>2, <2>6
<1>6. ASSUME NEW h \in Handles, Deletes(h)
      PROVE  VersionIdentifiesContent'
  <2>1. \A q \in Callers : copy'[q] # Absent => copy'[q] = copy[q] /\ copy[q].handle # h
    BY <1>6 DEF Deletes
  <2>2. \A g \in Handles \ {h} : rows'[g] = rows[g]
    BY <1>6 DEF Deletes, TypeOK
  <2> QED
    BY <1>1, <1>2, <2>1, <2>2 DEF Copy
<1> QED
  BY <1>3, <1>4, <1>5, <1>6, StepKinds

-----------------------------------------------------------------------------
(* The inductive invariant of the store. *)
Inv == TypeOK /\ ColumnsMirrorPayload /\ UniquePublicIds /\ VersionIdentifiesContent

(* The empty store satisfies the invariant. *)
LEMMA InitInv == Init => Inv
BY DEF Init, Inv, TypeOK, ColumnsMirrorPayload, UniquePublicIds, VersionIdentifiesContent

(* No call breaks the invariant. *)
LEMMA InvStep == Inv /\ [Next]_vars => Inv'
BY TypeStep, MirrorStep, UniqueStep, VersionStep DEF Inv

(* The inductive invariant holds in every behaviour; the named theorems after it
   are its conjuncts. *)
THEOREM Invariance == Spec => []Inv
BY InitInv, InvStep, PTL DEF Spec

(* Every variable keeps its type, the version column its range. *)
THEOREM TypeCorrect == Spec => []TypeOK
BY Invariance, PTL DEF Inv

(* No two records in use share a public id. *)
THEOREM PublicIdsUnique == Spec => []UniquePublicIds
BY Invariance, PTL DEF Inv

(* The columns beside a payload say what the payload says. *)
THEOREM ColumnsCorrect == Spec => []ColumnsMirrorPayload
BY Invariance, PTL DEF Inv

(* A version number stands for one content while a record lives. *)
THEOREM VersionsCorrect == Spec => []VersionIdentifiesContent
BY Invariance, PTL DEF Inv

-----------------------------------------------------------------------------
(* The refinement: every step of the table is a step of the atomic versioned
   store, or changes nothing of it. *)

LEMMA StoredPayloadsOf ==
    ASSUME TypeOK
    PROVE  \A h \in Handles :
             /\ StoredPayloads[h] = IF rows[h] = Absent THEN Absent ELSE rows[h].payload
             /\ (StoredPayloads[h] = Absent) <=> (rows[h] = Absent)
BY AbsentAssumption DEF StoredPayloads, TypeOK, Row

(* A row written under a handle is the record put under it. *)
LEMMA StoredPayloadsPut ==
    ASSUME TypeOK, NEW h \in Handles, NEW row \in Row, rows' = [rows EXCEPT ![h] = row]
    PROVE  StoredPayloads' = [StoredPayloads EXCEPT ![h] = row.payload]
<1>1. \A g \in Handles : rows'[g] = IF g = h THEN row ELSE rows[g]
  BY DEF TypeOK
<1>2. row # Absent
  BY AbsentAssumption
<1>3. StoredPayloads' = [g \in Handles |-> IF g = h THEN row.payload ELSE StoredPayloads[g]]
  BY <1>1, <1>2 DEF StoredPayloads
<1>4. StoredPayloads \in [Handles -> {StoredPayloads[g] : g \in Handles}]
  BY DEF StoredPayloads
<1> QED
  BY <1>3, <1>4

(* The partial unique index refuses what the abstract store calls a collision. *)
LEMMA ClashIsCollision ==
    ASSUME TypeOK, ColumnsMirrorPayload, NEW h \in Handles, NEW body
    PROVE  IndexClash(h, body) <=> VS!Collision(h, body)
BY StoredPayloadsOf DEF IndexClash, VS!Collision, Collide, ColumnsMirrorPayload

(* Every step of the store is a call of the abstract store that takes effect at
   once, or is invisible in what reads return and callers are answered. *)
LEMMA RefinesStep ==
    ASSUME Inv, [Next]_vars
    PROVE  [VS!Next]_(VS!vars)
<1> USE DEF VS!Answer, Answer
<1>a. TypeOK /\ ColumnsMirrorPayload
  BY DEF Inv
<1>b. ASSUME NEW p \in Callers, rows' = rows,
             \E op \in {"store", "get", "list", "update", "remove"} : Answer(p, op, "wrapped")
      PROVE  VS!Next
  BY <1>b DEF VS!Next, VS!Fail, StoredPayloads
<1>1. ASSUME NEW p \in Callers, NEW h \in Handles, NEW body \in Bodies, Create(p, h, body)
      PROVE  VS!Next
  <2> DEFINE row == NewRow(body, 1, 1)
             payload == [body |-> body, version |-> 1]
  <2>1. row \in Row /\ row.payload = payload
    BY MaxVersionAssumption DEF NewRow, Row, Payload, Bodies
  <2>2. CASE Fail(p, "store")
    BY <2>2, <1>b DEF Fail
  <2>3. CASE /\ rows[h] # Absent \/ IndexClash(h, body)
             /\ Answer(p, "store", "duplicate") /\ rows' = rows
    <3>1. VS!Create(p, h, body)
      BY <2>3, <1>a, StoredPayloadsOf, ClashIsCollision DEF VS!Create, StoredPayloads
    <3> QED
      BY <3>1 DEF VS!Next
  <2>4. CASE /\ rows[h] = Absent /\ ~IndexClash(h, body)
             /\ rows' = [rows EXCEPT ![h] = row]
             /\ Answer(p, "store", "ok") \/ Answer(p, "store", "wrapped")
    <3>1. StoredPayloads' = [StoredPayloads EXCEPT ![h] = payload]
      BY <1>a, <2>1, <2>4, StoredPayloadsPut
    <3>2. StoredPayloads[h] = Absent /\ ~VS!Collision(h, body)
      BY <1>a, <2>4, StoredPayloadsOf, ClashIsCollision
    <3>3. VS!Create(p, h, body)
      BY <2>4, <3>1, <3>2 DEF VS!Create, VS!Put
    <3> QED
      BY <3>3 DEF VS!Next
  <2> QED
    BY <1>1, <2>2, <2>3, <2>4 DEF Create
<1>2. ASSUME NEW p \in Callers, NEW h \in Handles, NEW body \in Bodies, NEW v \in Versions,
             Update(p, h, body, v)
      PROVE  VS!Next \/ UNCHANGED VS!vars
  <2> DEFINE row == NewRow(body, v + 1, v + 1)
             payload == [body |-> body, version |-> v + 1]
  <2>1. InRange(v) => row \in Row /\ row.payload = payload
    BY MaxVersionAssumption DEF NewRow, Row, Payload, Bodies, InRange
  <2>2. Matches(h, v) => /\ Replacement(h, body, v) = row
                         /\ StoredPayloads[h] # Absent
                         /\ StoredPayloads[h].version = v
    BY <1>a, StoredPayloadsOf DEF Matches, Replacement, ColumnsMirrorPayload
  <2> HIDE DEF row
  <2>3. CASE Fail(p, "update")
    BY <2>3, <1>b DEF Fail
  <2>4. CASE UNCHANGED <<rows, reply>>
    BY <2>4 DEF VS!vars, StoredPayloads
  <2>5. CASE IndexClash(h, body) /\ Answer(p, "update", "duplicate") /\ rows' = rows
    <3>1. VS!Replace(p, h, body, v)
      BY <2>5, <1>a, ClashIsCollision DEF VS!Replace, StoredPayloads
    <3> QED
      BY <3>1 DEF VS!Next
  <2>6. CASE /\ InRange(v) /\ Matches(h, v) /\ ~IndexClash(h, body)
             /\ rows' = [rows EXCEPT ![h] = row]
             /\ Answer(p, "update", "ok") \/ Answer(p, "update", "wrapped")
    <3>1. StoredPayloads' = [StoredPayloads EXCEPT ![h] = payload]
      BY <1>a, <2>1, <2>6, StoredPayloadsPut
    <3>2. ~VS!Collision(h, body)
      BY <1>a, <2>6, ClashIsCollision
    <3>3. VS!Replace(p, h, body, v)
      BY <2>2, <2>6, <3>1, <3>2 DEF VS!Replace, VS!Put
    <3> QED
      BY <3>3 DEF VS!Next
  <2> QED
    BY <1>2, <2>2, <2>3, <2>4, <2>5, <2>6 DEF Update
<1>3. ASSUME NEW p \in Callers, NEW h \in Handles, Get(p, h)
      PROVE  VS!Next
  <2>1. CASE Answer(p, "get", "wrapped")
    BY <1>3, <2>1, <1>b DEF Get
  <2>2. CASE ~Answer(p, "get", "wrapped")
    <3>1. VS!Read(p, h)
      BY <1>3, <2>2, <1>a, StoredPayloadsOf DEF Get, VS!Read, StoredPayloads
    <3> QED
      BY <3>1 DEF VS!Next
  <2> QED
    BY <2>1, <2>2
<1>4. ASSUME NEW p \in Callers, List(p)
      PROVE  VS!Next
  <2>1. CASE Answer(p, "list", "wrapped")
    BY <1>4, <2>1, <1>b DEF List
  <2>2. CASE ~Answer(p, "list", "wrapped")
    <3>1. [h \in {g \in Handles : rows[g] # Absent} |-> rows[h].payload]
            = [h \in {g \in Handles : StoredPayloads[g] # Absent} |-> StoredPayloads[h]]
      <4>1. {g \in Handles : rows[g] # Absent} = {g \in Handles : StoredPayloads[g] # Absent}
        BY <1>a, StoredPayloadsOf
      <4>2. \A h \in {g \in Handles : rows[g] # Absent} : rows[h].payload = StoredPayloads[h]
        BY <1>a, StoredPayloadsOf
      <4> QED
        BY <4>1, <4>2
    <3>2. VS!List(p)
      BY <1>4, <2>2, <3>1 DEF List, VS!List, StoredPayloads
    <3> QED
      BY <3>2 DEF VS!Next
  <2> QED
    BY <2>1, <2>2
<1>5. ASSUME NEW p \in Callers, NEW h \in Handles, Delete(p, h)
      PROVE  VS!Next
  <2>1. CASE Fail(p, "remove")
    BY <2>1, <1>b DEF Fail
  <2>2. CASE ~Fail(p, "remove") /\ rows[h] = Absent
    <3>1. VS!Remove(p, h)
      BY <1>5, <2>2, <1>a, StoredPayloadsOf DEF Delete, VS!Remove, StoredPayloads
    <3> QED
      BY <3>1 DEF VS!Next
  <2>3. CASE ~Fail(p, "remove") /\ rows[h] # Absent
    <3>1. \A g \in Handles : rows'[g] = IF g = h THEN Absent ELSE rows[g]
      BY <1>5, <2>3 DEF Delete, TypeOK, Inv
    <3>2. VS!Drop({h})
      BY <3>1, <1>a, StoredPayloadsOf DEF VS!Drop, StoredPayloads
    <3>3. VS!Remove(p, h)
      BY <1>5, <2>3, <3>2, <1>a, StoredPayloadsOf DEF Delete, VS!Remove
    <3> QED
      BY <3>3 DEF VS!Next
  <2> QED
    BY <2>1, <2>2, <2>3
<1>6. ASSUME NEW p \in Callers, RecheckExistence(p)
      PROVE  VS!Next
  <2>1. PICK h \in Handles, v \in Versions : call[p].handle = h /\ call[p].expected = v
    BY <1>6, <1>a, CallKinds DEF RecheckExistence, TypeOK, UpdateCall
  <2>2. PICK body \in Bodies : TRUE
    <3>1. PICK id \in PublicIds : TRUE
      BY PublicIdAssumption
    <3>2. [public_id |-> id, phase |-> Retired] \in Bodies
      BY PhaseAssumption DEF Bodies
    <3> QED
      BY <3>2
  <2>3. CASE Answer(p, "update", "wrapped")
    BY <1>6, <2>3, <1>b DEF RecheckExistence
  <2>4. CASE ~Answer(p, "update", "wrapped")
    <3>1. VS!Replace(p, h, body, v)
      BY <1>6, <2>1, <2>4, <1>a, StoredPayloadsOf
         DEF RecheckExistence, VS!Replace, StoredPayloads
    <3> QED
      BY <3>1 DEF VS!Next
  <2> QED
    BY <2>3, <2>4
<1>7. CASE UNCHANGED vars
  BY <1>7 DEF vars, VS!vars, StoredPayloads
<1> QED
  BY <1>1, <1>2, <1>3, <1>4, <1>5, <1>6, <1>7 DEF Next

(* Every behaviour of the key record store is one of the atomic versioned store. *)
THEOREM Refinement == Spec => ImplementsVersionedStore
<1>1. Init => VS!Init
  BY DEF Init, VS!Init, StoredPayloads
<1>2. Inv /\ [Next]_vars => [VS!Next]_(VS!vars)
  BY RefinesStep
<1> QED
  BY <1>1, <1>2, Invariance, PTL DEF Spec, ImplementsVersionedStore, VS!Spec
=============================================================================
