------------------------- MODULE SessionStoreProofs -------------------------
(***************************************************************************)
(* Theorems of the session store, for every set of session ids, callers,   *)
(* clients, subjects and cutoffs and every scale of time.                  *)
(***************************************************************************)
EXTENDS SessionStore, ExpiryProofs

(* The parts of an open DELETE *)
LEMMA CallKinds ==
    /\ Idle.op = "none"
    /\ \A op, arg, s, l : /\ Deleting(op, arg, s, l).op = op
                          /\ Deleting(op, arg, s, l).arg = arg
                          /\ Deleting(op, arg, s, l).scan = s
                          /\ Deleting(op, arg, s, l).locked = l
BY DEF Idle, Deleting

(* What the type of an open call says of its parts *)
LEMMA OpenParts ==
    ASSUME TypeOK, NEW p \in Callers, Open(p)
    PROVE  /\ call[p].scan \in SUBSET SessionIds
           /\ call[p].locked \in SUBSET SessionIds
           /\ \/ call[p].op = "deleteBySubject" /\ call[p].arg \in Subjects \cup {NoSubject}
              \/ call[p].op = "deleteExpired" /\ call[p].arg \in Cutoffs
           /\ call[p] = Deleting(call[p].op, call[p].arg, call[p].scan, call[p].locked)
BY DEF TypeOK, Open, DeleteCall, Deleting

(* An open DELETE, with any rows left to scan or locked, is not idle *)
LEMMA DeletingTyped ==
    ASSUME NEW op, NEW arg, NEW s \in SUBSET SessionIds, NEW l \in SUBSET SessionIds,
           \/ op = "deleteBySubject" /\ arg \in Subjects \cup {NoSubject}
           \/ op = "deleteExpired" /\ arg \in Cutoffs
    PROVE  Deleting(op, arg, s, l) \in DeleteCall /\ Deleting(op, arg, s, l) # Idle
<1>1. Deleting(op, arg, s, l) \in DeleteCall
  BY DEF Deleting, DeleteCall
<1>2. Deleting(op, arg, s, l).op # Idle.op
  BY CallKinds
<1> QED BY <1>1, <1>2

(* A whole-row write stores a row, and its columns are those of the record *)
LEMMA RowTyped ==
    ASSUME NEW rec \in Records
    PROVE  /\ RowOf(rec) \in Row
           /\ RowOf(rec) # Absent
           /\ RowOf(rec).payload = rec
           /\ RowOf(rec).subject_id = SubjectColumn(rec)
           /\ RowOf(rec).expires = OptionalExpiry(rec.expires)
           /\ RowOf(rec).client_ids = rec.client_ids
           /\ IsInjective(rec.client_ids)
<1>1. rec \in Record /\ IsInjective(rec.client_ids)
  BY RecordsAssumption
<1>2. SubjectColumn(rec) \in Subjects \cup {Absent}
  BY <1>1 DEF SubjectColumn, Record
<1>3. OptionalExpiry(rec.expires) \in Int \cup {Never}
  BY <1>1, ExpiryAssumption DEF OptionalExpiry, Micros, Record
<1>4. rec.client_ids \in Seq(Clients)
  BY <1>1 DEF Record
<1>5. RowOf(rec) \in Row
  BY <1>1, <1>2, <1>3, <1>4 DEF RowOf, Row
<1> QED BY <1>1, <1>5, AbsentAssumption DEF RowOf

(* An appended client is in the list; what was in it stays; no client is twice *)
LEMMA AppendedKeeps ==
    ASSUME NEW list \in Seq(Clients), NEW client \in Clients, IsInjective(list)
    PROVE  /\ Appended(list, client) \in Seq(Clients)
           /\ IsInjective(Appended(list, client))
           /\ \E i \in DOMAIN Appended(list, client) : Appended(list, client)[i] = client
           /\ \A c : (\E i \in DOMAIN list : list[i] = c)
                     => \E i \in DOMAIN Appended(list, client) : Appended(list, client)[i] = c
<1>1. CASE \E i \in DOMAIN list : list[i] = client
  BY <1>1 DEF Appended
<1>2. CASE ~ \E i \in DOMAIN list : list[i] = client
  <2> DEFINE longer == Append(list, client)
  <2>1. Appended(list, client) = longer
    BY <1>2 DEF Appended
  <2>2. /\ longer \in Seq(Clients)
        /\ Len(longer) = Len(list) + 1
        /\ \A i \in 1..Len(list) : longer[i] = list[i]
        /\ longer[Len(list) + 1] = client
        /\ DOMAIN longer = 1..(Len(list) + 1)
        /\ DOMAIN list = 1..Len(list)
        /\ Len(list) \in Nat
    OBVIOUS
  <2>3. IsInjective(longer)
    <3> SUFFICES ASSUME NEW a \in DOMAIN longer, NEW b \in DOMAIN longer, longer[a] = longer[b]
                 PROVE  a = b
      BY DEF IsInjective
    <3> QED BY <2>2, <1>2 DEF IsInjective
  <2> QED BY <2>1, <2>2, <2>3
<1> QED BY <1>1, <1>2

-----------------------------------------------------------------------------
(* What a step does to the table and to open calls *)
Inserts(p, id, rec) ==
    /\ rows[id] = Absent
    /\ rows' = [rows EXCEPT ![id] = RowOf(rec)]
    /\ reply'.op = "create"
    /\ UNCHANGED <<call, added, due>>

Rewrites(p, id, rec) ==
    /\ rows[id] # Absent
    /\ Unlocked(id)
    /\ rows' = [rows EXCEPT ![id] = RowOf(rec)]
    /\ added' = [added EXCEPT ![id] = {}]
    /\ Spare(id, rec)
    /\ UNCHANGED call

Appends(p, id, client) ==
    /\ rows[id] # Absent
    /\ Unlocked(id)
    /\ rows' = [rows EXCEPT ![id].client_ids = Appended(@, client)]
    /\ added' = added \/ added' = [added EXCEPT ![id] = @ \cup {client}]
    /\ UNCHANGED <<call, due>>

Deletes(p, H) ==
    /\ Delete(p, H)
    /\ \/ ~Open(p) /\ \E id \in SessionIds : H = {id} /\ Unlocked(id)
       \/ Open(p) /\ call[p].scan = {} /\ H = call[p].locked

Begins(p) ==
    \/ \E subject \in Subjects \cup {NoSubject} : DeleteSessionsBySubjectID(p, subject)
    \/ \E cutoff \in Cutoffs : DeleteExpired(p, cutoff)

(* Every step reads or fails, writes one row, deletes some, or moves a DELETE on *)
LEMMA StepKinds ==
    ASSUME TypeOK, [Next]_vars
    PROVE  \/ UNCHANGED <<rows, call, added, due>>
           \/ \E p \in Callers, id \in SessionIds, rec \in Records :
                 Inserts(p, id, rec) \/ Rewrites(p, id, rec)
           \/ \E p \in Callers, id \in SessionIds, client \in Clients : Appends(p, id, client)
           \/ \E p \in Callers, H \in SUBSET SessionIds : Deletes(p, H)
           \/ \E p \in Callers : Begins(p) \/ Abort(p)
           \/ \E p \in Callers, id \in SessionIds : LockRow(p, id)
<1>1. CASE UNCHANGED vars
  BY <1>1 DEF vars
<1>2. ASSUME NEW p \in Callers, NEW id \in SessionIds, GetSession(p, id)
      PROVE  UNCHANGED <<rows, call, added, due>>
  BY <1>2 DEF GetSession
<1>3. ASSUME NEW p \in Callers, NEW id \in SessionIds, DeleteSession(p, id)
      PROVE  UNCHANGED <<rows, call, added, due>> \/ Deletes(p, {id})
  BY <1>3 DEF DeleteSession, Deletes, Fail
<1>4. ASSUME NEW p \in Callers, NEW id \in SessionIds, NEW rec \in Records,
             CreateSession(p, id, rec)
      PROVE  UNCHANGED <<rows, call, added, due>> \/ Inserts(p, id, rec)
  BY <1>4 DEF CreateSession, Inserts, Fail, Answer
<1>5. ASSUME NEW p \in Callers, NEW id \in SessionIds, NEW rec \in Records,
             UpdateSession(p, id, rec)
      PROVE  UNCHANGED <<rows, call, added, due>> \/ Rewrites(p, id, rec)
  BY <1>5 DEF UpdateSession, Rewrites, Fail
<1>6. ASSUME NEW p \in Callers, NEW id \in SessionIds, NEW client \in Clients,
             AddClientID(p, id, client)
      PROVE  UNCHANGED <<rows, call, added, due>> \/ Appends(p, id, client)
  BY <1>6 DEF AddClientID, Appends, Fail
<1>7. ASSUME NEW p \in Callers, NEW subject, GetSessionsBySubjectID(p, subject)
      PROVE  UNCHANGED <<rows, call, added, due>>
  BY <1>7 DEF GetSessionsBySubjectID
<1>8. ASSUME NEW p \in Callers, Commit(p)
      PROVE  Deletes(p, call[p].locked) /\ call[p].locked \in SUBSET SessionIds
  BY <1>8, OpenParts DEF Commit, Deletes
<1>9. CASE Next
  <2>1. PICK p \in Callers :
          \/ \E id \in SessionIds : GetSession(p, id)
          \/ \E id \in SessionIds : DeleteSession(p, id)
          \/ \E id \in SessionIds : LockRow(p, id)
          \/ \E id \in SessionIds, rec \in Records :
                 CreateSession(p, id, rec) \/ UpdateSession(p, id, rec)
          \/ \E id \in SessionIds, client \in Clients : AddClientID(p, id, client)
          \/ \E subject \in Subjects \cup {NoSubject} : GetSessionsBySubjectID(p, subject)
          \/ Begins(p) \/ Commit(p) \/ Abort(p)
    BY <1>9 DEF Next, Begins
  <2>2. \A id \in SessionIds : {id} \in SUBSET SessionIds
    OBVIOUS
  <2> QED BY <2>1, <2>2, <1>2, <1>3, <1>4, <1>5, <1>6, <1>7, <1>8
<1> QED BY <1>1, <1>9

-----------------------------------------------------------------------------
(* The columns the WHERE clauses read agree with the record beside them *)
ColumnsRight ==
    \A id \in SessionIds : rows[id] # Absent =>
        /\ rows[id].subject_id = SubjectColumn(rows[id].payload)
        /\ rows[id].expires = OptionalExpiry(rows[id].payload.expires)

(* A locked row is still one the DELETE selects, and is locked once *)
LocksRight ==
    \A p \in Callers : Open(p) =>
        /\ \A id \in call[p].locked : Selects(call[p].op, call[p].arg, id)
        /\ \A q \in Callers \ {p} : Open(q) => call[p].locked \cap call[q].locked = {}

(* What a DELETE owes is a session that it has still to visit or has locked already *)
DueRight ==
    \A p \in Callers : \A id \in due[p] :
        /\ Open(p)
        /\ rows[id] # Absent
        /\ Owed(call[p].op, call[p].arg, rows[id].payload)
        /\ id \in call[p].scan \cup call[p].locked

(* Confirmed appends belong to the life of a row *)
AddedRight ==
    /\ AppendsSurvive
    /\ \A id \in SessionIds : rows[id] = Absent => added[id] = {}

Inv == TypeOK /\ ColumnsRight /\ LocksRight /\ DueRight /\ AddedRight

(* An empty table satisfies it *)
LEMMA InitInv == Init => Inv
<1> SUFFICES ASSUME Init PROVE Inv
  OBVIOUS
<1>1. TypeOK
  BY DEF Init, TypeOK
<1>2. \A p \in Callers : ~Open(p)
  BY DEF Init, Open
<1> QED BY <1>1, <1>2 DEF Init, Inv, ColumnsRight, LocksRight, DueRight, AddedRight, AppendsSurvive

(* A row that does not change is selected as before *)
LEMMA SelectsUnchanged ==
    ASSUME NEW op, NEW arg, NEW id \in SessionIds, rows'[id] = rows[id]
    PROVE  Selects(op, arg, id)' <=> Selects(op, arg, id)
BY DEF Selects

(* What a DELETE has to take, its WHERE clause selects: the column of the subject says
   what the record says, and that of the expiry, though rounded, is below the cutoff
   for a session that is overdue *)
LEMMA OwedSelected ==
    ASSUME TypeOK, ColumnsRight, NEW id \in SessionIds, rows[id] # Absent, NEW op, NEW arg,
           \/ op = "deleteBySubject" /\ arg \in Subjects \cup {NoSubject}
           \/ op = "deleteExpired" /\ arg \in Cutoffs,
           Owed(op, arg, rows[id].payload)
    PROVE  Selects(op, arg, id)
<1>1. CASE op = "deleteBySubject"
  BY <1>1 DEF ColumnsRight, Owed, Owned, SubjectColumn, Selects
<1>2. CASE op = "deleteExpired"
  <2> DEFINE expires == rows[id].payload.expires
  <2>1. expires \in Int \cup {Never} /\ arg \in Int
    BY <1>2, CutoffsAssumption DEF TypeOK, Row, Record
  <2>2. expires # Never /\ Overdue(expires, arg)
    BY <1>2 DEF Owed, Late
  <2>3. rows[id].expires = OptionalExpiry(expires)
    BY DEF ColumnsRight
  <2> HIDE DEF expires
  <2>4. Micros(expires) < Micros(arg) /\ Micros(expires) \in Int
    BY <2>1, <2>2, MicrosApart, ExpiryAssumption DEF Micros
  <2>5. Reclaimable(rows[id].expires, arg)
    BY <2>2, <2>3, <2>4, ExpiryAssumption DEF Reclaimable, OptionalExpiry
  <2> QED BY <1>2, <2>5 DEF Selects
<1> QED BY <1>1, <1>2

-----------------------------------------------------------------------------
(* Storing a new session: nobody has locked, scanned or promised its row *)
LEMMA InsertStep ==
    ASSUME Inv, NEW p \in Callers, NEW id \in SessionIds, NEW rec \in Records,
           Inserts(p, id, rec)
    PROVE  Inv'
<1>1. /\ rows' \in [SessionIds -> Row \cup {Absent}]
      /\ rows'[id] = RowOf(rec)
      /\ \A i \in SessionIds \ {id} : rows'[i] = rows[i]
      /\ rows[id] = Absent /\ rows'[id] # Absent
      /\ call' = call /\ added' = added /\ due' = due
  BY RowTyped DEF Inv, TypeOK, Inserts
<1>2. TypeOK'
  BY <1>1 DEF Inv, TypeOK
<1>3. ColumnsRight'
  BY <1>1, RowTyped DEF Inv, ColumnsRight
<1>4. LocksRight'
  <2>1. \A q \in Callers : Open(q)' <=> Open(q)
    BY <1>1 DEF Open
  <2>2. \A q \in Callers : Open(q) => \A i \in call[q].locked :
            i \in SessionIds /\ i # id
    BY <1>1, OpenParts DEF Inv, LocksRight, Selects
  <2> QED BY <1>1, <2>1, <2>2, SelectsUnchanged DEF Inv, LocksRight
<1>5. DueRight'
  BY <1>1 DEF Inv, DueRight, TypeOK, Open
<1>6. AddedRight'
  BY <1>1, RowTyped DEF Inv, AddedRight, AppendsSurvive
<1> QED BY <1>2, <1>3, <1>4, <1>5, <1>6 DEF Inv

(* Rewriting a row: it is not locked, and a DELETE that owes it goes on owing it only
   if the new record is one to be taken *)
LEMMA RewriteStep ==
    ASSUME Inv, NEW p \in Callers, NEW id \in SessionIds, NEW rec \in Records,
           Rewrites(p, id, rec)
    PROVE  Inv'
<1>1. /\ rows' \in [SessionIds -> Row \cup {Absent}]
      /\ rows'[id] = RowOf(rec)
      /\ \A i \in SessionIds \ {id} : rows'[i] = rows[i]
      /\ rows[id] # Absent /\ rows'[id] # Absent
      /\ call' = call
      /\ \A q \in Callers : due'[q] = IF Open(q) /\ ~Owed(call[q].op, call[q].arg, rec)
                                      THEN due[q] \ {id} ELSE due[q]
  BY RowTyped DEF Inv, TypeOK, Rewrites, Spare
<1>2. TypeOK'
  <2>1. due' \in [Callers -> SUBSET SessionIds]
    BY DEF Inv, TypeOK, Rewrites, Spare
  <2>2. added' \in [SessionIds -> SUBSET Clients]
    BY DEF Inv, TypeOK, Rewrites
  <2> QED BY <1>1, <2>1, <2>2 DEF Inv, TypeOK
<1>3. ColumnsRight'
  BY <1>1, RowTyped DEF Inv, ColumnsRight
<1>4. LocksRight'
  <2>1. \A q \in Callers : Open(q)' <=> Open(q)
    BY <1>1 DEF Open
  <2>2. \A q \in Callers : Open(q) => \A i \in call[q].locked : i \in SessionIds /\ i # id
    BY OpenParts DEF Inv, Rewrites, Unlocked
  <2> QED BY <1>1, <2>1, <2>2, SelectsUnchanged DEF Inv, LocksRight
<1>5. DueRight'
  <2> SUFFICES ASSUME NEW q \in Callers, NEW i \in due'[q]
               PROVE  /\ Open(q)' /\ rows'[i] # Absent
                      /\ Owed(call[q].op, call[q].arg, rows'[i].payload)
                      /\ i \in call[q].scan \cup call[q].locked
    BY <1>1 DEF DueRight
  <2>1. i \in due[q] /\ i \in SessionIds
    BY <1>1 DEF Inv, TypeOK
  <2>2. Open(q) /\ Open(q)'
    BY <1>1, <2>1 DEF Inv, DueRight, Open
  <2>3. i = id => Owed(call[q].op, call[q].arg, rec)
    BY <1>1, <2>2
  <2> QED BY <1>1, <2>1, <2>2, <2>3, RowTyped DEF Inv, DueRight
<1>6. AddedRight'
  <2>1. added'[id] = {} /\ \A i \in SessionIds \ {id} : added'[i] = added[i]
    BY DEF Inv, TypeOK, Rewrites
  <2> QED BY <1>1, <2>1, RowTyped DEF Inv, AddedRight, AppendsSurvive
<1> QED BY <1>2, <1>3, <1>4, <1>5, <1>6 DEF Inv

(* Appending a client: only the list of clients changes *)
LEMMA AppendStep ==
    ASSUME Inv, NEW p \in Callers, NEW id \in SessionIds, NEW client \in Clients,
           Appends(p, id, client)
    PROVE  Inv'
<1> DEFINE longer == Appended(rows[id].client_ids, client)
<1>1. rows[id] \in Row /\ rows[id] # Absent /\ rows[id].client_ids \in Seq(Clients)
      /\ IsInjective(rows[id].client_ids)
  BY DEF Inv, TypeOK, Appends, AddedRight, AppendsSurvive, Row
<1>2. /\ longer \in Seq(Clients)
      /\ IsInjective(longer)
      /\ \E i \in DOMAIN longer : longer[i] = client
      /\ \A c : (\E i \in DOMAIN rows[id].client_ids : rows[id].client_ids[i] = c)
                => \E i \in DOMAIN longer : longer[i] = c
  BY <1>1, AppendedKeeps
<1> HIDE DEF longer
<1>3. /\ rows' = [rows EXCEPT ![id] = [rows[id] EXCEPT !.client_ids = longer]]
      /\ call' = call /\ due' = due
  BY DEF Appends, longer
<1>4. /\ [rows[id] EXCEPT !.client_ids = longer] \in Row
      /\ [rows[id] EXCEPT !.client_ids = longer].client_ids = longer
      /\ [rows[id] EXCEPT !.client_ids = longer].subject_id = rows[id].subject_id
      /\ [rows[id] EXCEPT !.client_ids = longer].expires = rows[id].expires
      /\ [rows[id] EXCEPT !.client_ids = longer].payload = rows[id].payload
  BY <1>1, <1>2 DEF Row
<1>5. /\ rows' \in [SessionIds -> Row \cup {Absent}]
      /\ rows'[id] # Absent
      /\ rows'[id].client_ids = longer
      /\ rows'[id].subject_id = rows[id].subject_id
      /\ rows'[id].expires = rows[id].expires
      /\ rows'[id].payload = rows[id].payload
      /\ \A i \in SessionIds \ {id} : rows'[i] = rows[i]
  BY <1>3, <1>4, AbsentAssumption DEF Inv, TypeOK
<1>6. TypeOK'
  BY <1>3, <1>5 DEF Inv, TypeOK, Appends
<1>7. ColumnsRight'
  BY <1>1, <1>5 DEF Inv, ColumnsRight
<1>8. LocksRight'
  <2>1. \A q \in Callers : Open(q)' <=> Open(q)
    BY <1>3 DEF Open
  <2>2. \A q \in Callers : Open(q) => \A i \in call[q].locked : i \in SessionIds /\ i # id
    BY OpenParts DEF Inv, Appends, Unlocked
  <2> QED BY <1>3, <1>5, <2>1, <2>2, SelectsUnchanged DEF Inv, LocksRight
<1>9. DueRight'
  BY <1>1, <1>3, <1>5 DEF Inv, DueRight, TypeOK, Open
<1>10. AddedRight'
  <2>1. /\ added'[id] \subseteq added[id] \cup {client}
        /\ \A i \in SessionIds \ {id} : added'[i] = added[i]
    BY DEF Inv, TypeOK, Appends
  <2>2. rows[id] # Absent /\ rows'[id] # Absent /\ rows'[id].client_ids = longer
        /\ \A i \in SessionIds \ {id} : rows'[i] = rows[i]
    BY <1>1, <1>5
  <2>3. \A c \in added'[id] : \E i \in DOMAIN longer : longer[i] = c
    BY <1>1, <1>2, <2>1 DEF Inv, AddedRight, AppendsSurvive
  <2> QED BY <1>2, <2>1, <2>2, <2>3 DEF Inv, AddedRight, AppendsSurvive
<1> QED BY <1>6, <1>7, <1>8, <1>9, <1>10 DEF Inv

(* Deleting rows: those of one open DELETE, or one that none has locked *)
LEMMA DeleteStep ==
    ASSUME Inv, NEW p \in Callers, NEW H \in SUBSET SessionIds, Deletes(p, H)
    PROVE  Inv'
<1>1. /\ rows' \in [SessionIds -> Row \cup {Absent}]
      /\ \A i \in SessionIds : rows'[i] = IF i \in H THEN Absent ELSE rows[i]
      /\ \A i \in SessionIds : added'[i] = IF i \in H THEN {} ELSE added[i]
      /\ \A q \in Callers : call'[q] = IF q = p THEN Idle ELSE Remaining(q, H)
      /\ \A q \in Callers : due'[q] = IF q = p THEN {} ELSE due[q] \ H
  BY DEF Inv, TypeOK, Deletes, Delete
<1>2. ASSUME NEW q \in Callers, q # p, Open(q)
      PROVE  /\ call'[q] = Deleting(call[q].op, call[q].arg, call[q].scan \ H, call[q].locked)
             /\ call'[q] \in DeleteCall /\ Open(q)'
             /\ call'[q].op = call[q].op /\ call'[q].arg = call[q].arg
             /\ call'[q].scan = call[q].scan \ H /\ call'[q].locked = call[q].locked
             /\ call[q].locked \cap H = {}
  <2>1. call'[q] = Deleting(call[q].op, call[q].arg, call[q].scan \ H, call[q].locked)
    BY <1>1, <1>2 DEF Remaining
  <2>2. call'[q] \in DeleteCall /\ call'[q] # Idle
    BY <1>2, <2>1, OpenParts, DeletingTyped DEF Inv
  <2>3. call[q].locked \cap H = {}
    <3>1. CASE Open(p)
      BY <1>2, <3>1 DEF Inv, LocksRight, Deletes
    <3>2. CASE ~Open(p)
      BY <1>2, <3>2 DEF Deletes, Unlocked
    <3> QED BY <3>1, <3>2
  <2> QED BY <2>1, <2>2, <2>3, CallKinds DEF Open
<1>3. ASSUME NEW q \in Callers, q = p \/ ~Open(q)
      PROVE  call'[q] = Idle /\ ~Open(q)'
  <2>1. q # p => call'[q] = call[q] /\ call[q] = Idle
    BY <1>1, <1>3 DEF Remaining, Open
  <2> QED BY <1>1, <2>1 DEF Open
<1>4. TypeOK'
  <2>1. call' \in [Callers -> {Idle} \cup DeleteCall]
    <3>1. DOMAIN call' = Callers /\ call' = [q \in DOMAIN call' |-> call'[q]]
      BY DEF Deletes, Delete
    <3> QED BY <1>2, <1>3, <3>1
  <2>2. added' \in [SessionIds -> SUBSET Clients] /\ due' \in [Callers -> SUBSET SessionIds]
    BY DEF Inv, TypeOK, Deletes, Delete
  <2> QED BY <1>1, <2>1, <2>2 DEF TypeOK
<1>5. ColumnsRight'
  BY <1>1 DEF Inv, ColumnsRight
<1>6. LocksRight'
  <2> SUFFICES ASSUME NEW q \in Callers, Open(q)'
               PROVE  /\ \A id \in call'[q].locked : Selects(call[q].op, call[q].arg, id)'
                      /\ \A r \in Callers \ {q} : Open(r)' =>
                            call'[q].locked \cap call'[r].locked = {}
    BY DEF LocksRight
  <2>1. q # p /\ Open(q)
    BY <1>3
  <2>2. ASSUME NEW id \in call'[q].locked
        PROVE  Selects(call[q].op, call[q].arg, id)'
    <3>1. id \in SessionIds /\ rows'[id] = rows[id]
      BY <1>1, <1>2, <2>1, <2>2, OpenParts DEF Inv
    <3>2. Selects(call[q].op, call[q].arg, id)
      BY <1>2, <2>1, <2>2 DEF Inv, LocksRight
    <3> QED BY <1>2, <2>1, <3>1, <3>2 DEF Selects
  <2>3. ASSUME NEW r \in Callers \ {q}, Open(r)'
        PROVE  call'[q].locked \cap call'[r].locked = {}
    <3>1. r # p /\ Open(r)
      BY <1>3, <2>3
    <3> QED BY <1>2, <2>1, <3>1 DEF Inv, LocksRight
  <2> QED BY <2>2, <2>3
<1>7. DueRight'
  <2> SUFFICES ASSUME NEW q \in Callers, NEW i \in due'[q]
               PROVE  /\ Open(q)' /\ rows'[i] # Absent
                      /\ Owed(call'[q].op, call'[q].arg, rows'[i].payload)
                      /\ i \in call'[q].scan \cup call'[q].locked
    BY DEF DueRight
  <2>1. q # p /\ i \in due[q] /\ i \notin H /\ i \in SessionIds
    BY <1>1 DEF Inv, TypeOK
  <2>2. /\ Open(q) /\ rows[i] # Absent
        /\ Owed(call[q].op, call[q].arg, rows[i].payload)
        /\ i \in call[q].scan \cup call[q].locked
    BY <2>1 DEF Inv, DueRight
  <2>3. rows'[i] = rows[i]
    BY <1>1, <2>1
  <2> QED BY <1>2, <2>1, <2>2, <2>3
<1>8. AddedRight'
  BY <1>1 DEF Inv, AddedRight, AppendsSurvive
<1> QED BY <1>4, <1>5, <1>6, <1>7, <1>8 DEF Inv

(* Beginning a multi-row DELETE: it owes sessions that it scans *)
LEMMA BeginStep ==
    ASSUME Inv, NEW p \in Callers, Begins(p)
    PROVE  Inv'
<1>1. PICK op, arg :
        /\ \/ op = "deleteBySubject" /\ arg \in Subjects \cup {NoSubject}
           \/ op = "deleteExpired" /\ arg \in Cutoffs
        /\ Begin(p, op, arg)
  BY DEF Begins, DeleteSessionsBySubjectID, DeleteExpired
<1> DEFINE found == {id \in SessionIds : Selects(op, arg, id)}
<1>2. /\ ~Open(p)
      /\ call' = [call EXCEPT ![p] = Deleting(op, arg, found, {})]
      /\ rows' = rows /\ added' = added
      /\ due' = [due EXCEPT ![p] = {id \in SessionIds :
                   rows[id] # Absent /\ Owed(op, arg, rows[id].payload)}]
  BY <1>1 DEF Begin
<1>3. Deleting(op, arg, found, {}) \in DeleteCall /\ Deleting(op, arg, found, {}) # Idle
  BY <1>1, DeletingTyped
<1>4. /\ call' \in [Callers -> {Idle} \cup DeleteCall]
      /\ call'[p] = Deleting(op, arg, found, {})
      /\ call'[p].op = op /\ call'[p].arg = arg
      /\ call'[p].scan = found /\ call'[p].locked = {}
      /\ \A q \in Callers \ {p} : call'[q] = call[q]
  BY <1>2, <1>3, CallKinds DEF Inv, TypeOK
<1>5. TypeOK'
  <2>1. due' \in [Callers -> SUBSET SessionIds]
    BY <1>2 DEF Inv, TypeOK
  <2> QED BY <1>2, <1>4, <2>1 DEF Inv, TypeOK
<1>6. ColumnsRight' /\ AddedRight'
  BY <1>2 DEF Inv, ColumnsRight, AddedRight, AppendsSurvive
<1>7. Open(p)' /\ \A q \in Callers \ {p} : Open(q)' <=> Open(q)
  BY <1>3, <1>4 DEF Open
<1>8. LocksRight'
  BY <1>2, <1>4, <1>7 DEF Inv, LocksRight, Selects
<1>9. DueRight'
  <2>1. ASSUME NEW q \in Callers \ {p}
        PROVE  due'[q] = due[q]
    BY <1>2 DEF Inv, TypeOK
  <2>2. ASSUME NEW id \in due'[p]
        PROVE  /\ id \in SessionIds /\ rows[id] # Absent
               /\ Owed(op, arg, rows[id].payload)
    BY <1>2, <2>2 DEF Inv, TypeOK
  <2>3. ASSUME NEW id \in due'[p]
        PROVE  id \in found
    BY <1>1, <2>2, <2>3, OwedSelected DEF Inv
  <2> HIDE DEF found
  <2>4. ASSUME NEW q \in Callers \ {p}, NEW id \in due'[q]
        PROVE  /\ Open(q)' /\ rows'[id] # Absent
               /\ Owed(call'[q].op, call'[q].arg, rows'[id].payload)
               /\ id \in call'[q].scan \cup call'[q].locked
    BY <1>2, <1>4, <1>7, <2>1, <2>4 DEF Inv, DueRight
  <2>5. ASSUME NEW id \in due'[p]
        PROVE  /\ Open(p)' /\ rows'[id] # Absent
               /\ Owed(call'[p].op, call'[p].arg, rows'[id].payload)
               /\ id \in call'[p].scan \cup call'[p].locked
    BY <1>2, <1>4, <1>7, <2>2, <2>3, <2>5
  <2> QED BY <2>4, <2>5 DEF DueRight
<1> QED BY <1>5, <1>6, <1>8, <1>9 DEF Inv

(* Visiting a row: it is locked if it is still selected, and then by nobody else *)
LEMMA LockStep ==
    ASSUME Inv, NEW p \in Callers, NEW id \in SessionIds, LockRow(p, id)
    PROVE  Inv'
<1> DEFINE hit  == Selects(call[p].op, call[p].arg, id)
           more == IF hit THEN call[p].locked \cup {id} ELSE call[p].locked
           less == call[p].scan \ {id}
<1>1. /\ Open(p) /\ id \in call[p].scan /\ Unlocked(id)
      /\ call' = [call EXCEPT ![p] = Deleting(call[p].op, call[p].arg, less, more)]
      /\ rows' = rows /\ added' = added /\ due' = due
  BY DEF LockRow
<1>2. Deleting(call[p].op, call[p].arg, less, more) \in DeleteCall
      /\ Deleting(call[p].op, call[p].arg, less, more) # Idle
  <2>1. less \in SUBSET SessionIds /\ more \in SUBSET SessionIds
    BY <1>1, OpenParts DEF Inv
  <2> QED BY <1>1, <2>1, OpenParts, DeletingTyped DEF Inv
<1>3. /\ call' \in [Callers -> {Idle} \cup DeleteCall]
      /\ call'[p] = Deleting(call[p].op, call[p].arg, less, more)
      /\ call'[p].op = call[p].op /\ call'[p].arg = call[p].arg
      /\ call'[p].scan = less /\ call'[p].locked = more
      /\ \A q \in Callers \ {p} : call'[q] = call[q]
  BY <1>1, <1>2, CallKinds DEF Inv, TypeOK
<1>4. TypeOK' /\ ColumnsRight' /\ AddedRight'
  BY <1>1, <1>3 DEF Inv, TypeOK, ColumnsRight, AddedRight, AppendsSurvive
<1>5. \A q \in Callers : Open(q)' <=> Open(q)
  BY <1>1, <1>2, <1>3 DEF Open
<1>6. \A q \in Callers : Open(q) => id \notin call[q].locked
  BY <1>1 DEF Unlocked
<1>7. \A i \in more : Selects(call[p].op, call[p].arg, i)
  BY <1>1 DEF Inv, LocksRight
<1>8. LocksRight'
  <2>1. ASSUME NEW q \in Callers, Open(q)', NEW i \in call'[q].locked
        PROVE  Selects(call[q].op, call[q].arg, i)'
    <3>1. Selects(call[q].op, call[q].arg, i)
      BY <1>3, <1>5, <1>7, <2>1 DEF Inv, LocksRight
    <3>2. call'[q].op = call[q].op /\ call'[q].arg = call[q].arg
      BY <1>3
    <3> QED BY <1>1, <3>1, <3>2 DEF Selects
  <2>2. ASSUME NEW q \in Callers, Open(q)', NEW r \in Callers \ {q}, Open(r)'
        PROVE  call'[q].locked \cap call'[r].locked = {}
    <3>1. call[q].locked \cap call[r].locked = {} /\ Open(q) /\ Open(r)
      BY <1>5, <2>2 DEF Inv, LocksRight
    <3> QED BY <1>3, <1>6, <3>1
  <2> QED BY <2>1, <2>2 DEF LocksRight
<1>9. DueRight'
  <2> SUFFICES ASSUME NEW q \in Callers, NEW i \in due'[q]
               PROVE  /\ Open(q)' /\ rows'[i] # Absent
                      /\ Owed(call'[q].op, call'[q].arg, rows'[i].payload)
                      /\ i \in call'[q].scan \cup call'[q].locked
    BY DEF DueRight
  <2>1. /\ Open(q) /\ rows[i] # Absent
        /\ Owed(call[q].op, call[q].arg, rows[i].payload)
        /\ i \in call[q].scan \cup call[q].locked /\ i \in SessionIds
    BY <1>1 DEF Inv, DueRight, TypeOK
  <2>2. q = p /\ i = id => hit
    BY <2>1, OpenParts, OwedSelected DEF Inv
  <2>3. q = p => i \in less \cup more
    BY <2>1, <2>2
  <2> QED BY <1>1, <1>3, <1>5, <2>1, <2>3
<1> QED BY <1>4, <1>8, <1>9 DEF Inv

(* Giving up: locks and promises of this DELETE are gone, those of others stay *)
LEMMA AbortStep ==
    ASSUME Inv, NEW p \in Callers, Abort(p)
    PROVE  Inv'
<1>1. /\ call'[p] = Idle /\ due'[p] = {}
      /\ \A q \in Callers \ {p} : call'[q] = call[q] /\ due'[q] = due[q]
      /\ rows' = rows /\ added' = added
  BY DEF Abort, Inv, TypeOK
<1>2. TypeOK'
  BY DEF Abort, Inv, TypeOK
<1>3. ~Open(p)' /\ \A q \in Callers \ {p} : Open(q)' <=> Open(q)
  BY <1>1 DEF Open
<1>4. ColumnsRight' /\ AddedRight'
  BY <1>1 DEF Inv, ColumnsRight, AddedRight, AppendsSurvive
<1>5. LocksRight'
  BY <1>1, <1>3 DEF Inv, LocksRight, Selects
<1>6. DueRight'
  BY <1>1, <1>3 DEF Inv, DueRight
<1> QED BY <1>2, <1>4, <1>5, <1>6 DEF Inv

(* No call breaks the invariant *)
LEMMA InvStep == Inv /\ [Next]_vars => Inv'
<1> SUFFICES ASSUME Inv, [Next]_vars PROVE Inv'
  OBVIOUS
<1>1. CASE UNCHANGED <<rows, call, added, due>>
  BY <1>1 DEF Inv, TypeOK, ColumnsRight, LocksRight, DueRight, AddedRight, AppendsSurvive,
              Open, Selects
<1> QED
  BY <1>1, StepKinds, InsertStep, RewriteStep, AppendStep, DeleteStep, BeginStep, LockStep,
     AbortStep DEF Inv

(* The inductive invariant holds in every behaviour *)
LEMMA Invariance == Spec => []Inv
BY InitInv, InvStep, PTL DEF Spec

-----------------------------------------------------------------------------
(* Writes, reads, cleanups and revocations keep every variable in its type. *)
THEOREM TypeCorrect == Spec => []TypeOK
<1>1. Inv => TypeOK
  BY DEF Inv
<1> QED BY Invariance, <1>1, PTL

(* A client whose append was confirmed (AddClientID) stays listed, once, until the
   row is rewritten as a whole or deleted, whatever other callers do. *)
THEOREM AppendsCorrect == Spec => []AppendsSurvive
<1>1. Inv => AppendsSurvive
  BY DEF Inv, AddedRight
<1> QED BY Invariance, <1>1, PTL

(* An open DELETE of a caller ends by its own commit or by giving up: a statement of
   another caller takes rows from what it has to visit, and nothing else *)
LEMMA Closes ==
    ASSUME TypeOK, [Next]_vars, NEW p \in Callers, Open(p), ~Open(p)'
    PROVE  Commit(p) \/ Abort(p)
<1>1. ASSUME NEW q \in Callers, NEW H, Delete(q, H), q # p
      PROVE  FALSE
  <2>1. call'[p] = Deleting(call[p].op, call[p].arg, call[p].scan \ H, call[p].locked)
    BY <1>1 DEF Delete, Remaining
  <2>2. call[p].scan \ H \in SUBSET SessionIds
    BY OpenParts
  <2> QED BY <2>1, <2>2, OpenParts, DeletingTyped DEF Open
<1>2. ASSUME NEW q \in Callers, NEW id \in SessionIds, DeleteSession(q, id)
      PROVE  FALSE
  BY <1>1, <1>2 DEF DeleteSession, Fail, Open
<1>3. ASSUME NEW q \in Callers, NEW id \in SessionIds, LockRow(q, id)
      PROVE  FALSE
  <2>1. \A s \in SUBSET SessionIds : \A l \in SUBSET SessionIds :
            Deleting(call[p].op, call[p].arg, s, l) # Idle
    BY OpenParts, DeletingTyped
  <2>2. q # p => call'[p] = call[p]
    BY <1>3 DEF LockRow, TypeOK
  <2>3. q = p => \E s, l \in SUBSET SessionIds :
                    call'[p] = Deleting(call[p].op, call[p].arg, s, l)
    BY <1>3, OpenParts DEF LockRow, TypeOK
  <2> QED BY <2>1, <2>2, <2>3 DEF Open
<1>4. ASSUME NEW q \in Callers, NEW op, NEW arg, Begin(q, op, arg)
      PROVE  FALSE
  BY <1>4 DEF Begin, Open, TypeOK
<1>5. ASSUME NEW q \in Callers, Commit(q) \/ Abort(q)
      PROVE  q = p
  BY <1>1, <1>5 DEF Commit, Abort, Open, TypeOK
<1>6. ASSUME call' = call
      PROVE  FALSE
  BY <1>6 DEF Open
<1>7. CASE UNCHANGED vars
  BY <1>6, <1>7 DEF vars
<1>8. CASE Next
  <2>1. PICK q \in Callers :
          \/ \E id \in SessionIds : GetSession(q, id)
          \/ \E id \in SessionIds : DeleteSession(q, id)
          \/ \E id \in SessionIds : LockRow(q, id)
          \/ \E id \in SessionIds, rec \in Records :
                 CreateSession(q, id, rec) \/ UpdateSession(q, id, rec)
          \/ \E id \in SessionIds, client \in Clients : AddClientID(q, id, client)
          \/ \E subject \in Subjects \cup {NoSubject} : GetSessionsBySubjectID(q, subject)
          \/ \E op, arg : Begin(q, op, arg)
          \/ Commit(q) \/ Abort(q)
    BY <1>8 DEF Next, DeleteSessionsBySubjectID, DeleteExpired
  <2>2. ASSUME NEW id \in SessionIds, NEW rec \in Records,
               CreateSession(q, id, rec) \/ UpdateSession(q, id, rec)
        PROVE  call' = call
    BY <2>2 DEF CreateSession, UpdateSession, Fail
  <2>3. ASSUME NEW id \in SessionIds, NEW client \in Clients, AddClientID(q, id, client)
        PROVE  call' = call
    BY <2>3 DEF AddClientID, Fail
  <2>4. ASSUME NEW id \in SessionIds, GetSession(q, id)
        PROVE  call' = call
    BY <2>4 DEF GetSession
  <2>5. ASSUME NEW subject, GetSessionsBySubjectID(q, subject)
        PROVE  call' = call
    BY <2>5 DEF GetSessionsBySubjectID
  <2> QED BY <2>1, <2>2, <2>3, <2>4, <2>5, <1>2, <1>3, <1>4, <1>5, <1>6
<1> QED BY <1>7, <1>8

(* A revocation (DeleteSessionsBySubjectID) that returns without an error has removed
   every session that belonged to the subject since it began, and a cleanup
   (DeleteExpired) every one that was overdue since it began. *)
THEOREM DeletesComplete == Spec => DeletesAreComplete
<1>1. Inv /\ [Next]_vars =>
        [\A p \in Callers : (Open(p) /\ ~Open(p)' /\ reply'.err = "ok")
            => \A id \in due[p] : rows'[id] = Absent]_vars
  <2> SUFFICES ASSUME Inv, [Next]_vars, NEW p \in Callers, Open(p), ~Open(p)',
                      reply'.err = "ok", NEW id \in due[p]
               PROVE  rows'[id] = Absent
    OBVIOUS
  <2>1. Commit(p)
    <3>1. ~Abort(p)
      BY DEF Abort, Answer
    <3> QED BY <3>1, Closes DEF Inv
  <2>2. id \in call[p].locked /\ id \in SessionIds
    BY <2>1 DEF Commit, Inv, DueRight, TypeOK
  <2> QED BY <2>1, <2>2 DEF Commit, Delete
<1> QED BY <1>1, Invariance, PTL DEF Spec, DeletesAreComplete

(* A DELETE that ends removes only rows that it still selects at that instant *)
LEMMA RemovesSelected ==
    ASSUME Inv, [Next]_vars, NEW p \in Callers, Open(p), ~Open(p)',
           NEW id \in SessionIds, rows[id] # Absent, rows'[id] = Absent
    PROVE  Selects(call[p].op, call[p].arg, id)
<1>1. Commit(p)
  <2>1. ~Abort(p)
    BY DEF Abort
  <2> QED BY <2>1, Closes DEF Inv
<1>2. id \in call[p].locked
  BY <1>1 DEF Commit, Delete
<1> QED BY <1>2 DEF Inv, LocksRight

(* It removes nothing else: every session it takes is the subject's at the instant
   it disappears, and the empty subject takes none. *)
THEOREM RevocationExact == Spec => RevocationIsExact
<1>1. Inv /\ [Next]_vars =>
        [\A p \in Callers, id \in SessionIds :
          /\ Open(p) /\ call[p].op = "deleteBySubject" /\ ~Open(p)'
          /\ rows[id] # Absent /\ rows'[id] = Absent
          => rows[id].payload.subject = call[p].arg /\ call[p].arg # NoSubject]_vars
  <2> SUFFICES ASSUME Inv, [Next]_vars, NEW p \in Callers, NEW id \in SessionIds,
                      Open(p), call[p].op = "deleteBySubject", ~Open(p)',
                      rows[id] # Absent, rows'[id] = Absent
               PROVE  rows[id].payload.subject = call[p].arg /\ call[p].arg # NoSubject
    OBVIOUS
  <2>1. rows[id].subject_id = call[p].arg
    BY RemovesSelected DEF Selects
  <2>2. rows[id].subject_id = SubjectColumn(rows[id].payload)
    BY DEF Inv, ColumnsRight
  <2>3. call[p].arg \in Subjects \cup {NoSubject}
    BY OpenParts DEF Inv
  <2> QED BY <2>1, <2>2, <2>3, AbsentAssumption, NoSubjectAssumption DEF SubjectColumn
<1> QED BY <1>1, Invariance, PTL DEF Spec, RevocationIsExact

(* Cleanup (DeleteExpired) removes sessions only that expire before its cutoff, by
   the record's own Expires and not by the rounded column: none without an expiry
   and none that was renewed while the DELETE ran. *)
THEOREM CleanupSafe == Spec => CleanupIsSafe
<1>1. Inv /\ [Next]_vars =>
        [\A p \in Callers, id \in SessionIds :
          /\ Open(p) /\ call[p].op = "deleteExpired" /\ ~Open(p)'
          /\ rows[id] # Absent /\ rows'[id] = Absent
          => LET expires == rows[id].payload.expires
             IN  expires # Never /\ expires < call[p].arg]_vars
  <2> SUFFICES ASSUME Inv, [Next]_vars, NEW p \in Callers, NEW id \in SessionIds,
                      Open(p), call[p].op = "deleteExpired", ~Open(p)',
                      rows[id] # Absent, rows'[id] = Absent
               PROVE  /\ rows[id].payload.expires # Never
                      /\ rows[id].payload.expires < call[p].arg
    OBVIOUS
  <2> DEFINE expires == rows[id].payload.expires
  <2>1. Reclaimable(OptionalExpiry(expires), call[p].arg)
    BY RemovesSelected DEF Selects, Inv, ColumnsRight
  <2>2. expires \in Int \cup {Never} /\ call[p].arg \in Int
    BY OpenParts, CutoffsAssumption DEF Inv, TypeOK, Row, Record
  <2> HIDE DEF expires
  <2>3. expires # Never
    BY <2>1 DEF Reclaimable, OptionalExpiry
  <2>4. Micros(expires) < Micros(call[p].arg)
    BY <2>1, <2>3 DEF Reclaimable, OptionalExpiry
  <2>5. expires < call[p].arg
    BY <2>2, <2>3, <2>4, MicrosStrict
  <2> QED BY <2>3, <2>5 DEF expires
<1> QED BY <1>1, Invariance, PTL DEF Spec, CleanupIsSafe

(* A deleted session comes back only by CreateSession: the UpdateSession or
   AddClientID of a caller that read it earlier does not undo a revocation. *)
THEOREM DeletedStaysDeleted == Spec => NoResurrection
<1>1. Inv /\ [Next]_vars =>
        [\A id \in SessionIds :
          rows[id] = Absent /\ rows'[id] # Absent => reply'.op = "create"]_vars
  <2> SUFFICES ASSUME Inv, [Next]_vars, NEW id \in SessionIds,
                      rows[id] = Absent, rows'[id] # Absent
               PROVE  reply'.op = "create"
    OBVIOUS
  <2>1. ASSUME NEW p \in Callers, NEW i \in SessionIds, NEW rec \in Records, Inserts(p, i, rec)
        PROVE  reply'.op = "create"
    BY <2>1 DEF Inserts
  <2>2. ASSUME NEW p \in Callers, NEW i \in SessionIds, NEW rec \in Records, Rewrites(p, i, rec)
        PROVE  FALSE
    BY <2>2 DEF Rewrites, Inv, TypeOK
  <2>3. ASSUME NEW p \in Callers, NEW i \in SessionIds, NEW client \in Clients,
               Appends(p, i, client)
        PROVE  FALSE
    BY <2>3 DEF Appends, Inv, TypeOK
  <2>4. ASSUME NEW p \in Callers, NEW H \in SUBSET SessionIds, Deletes(p, H)
        PROVE  FALSE
    BY <2>4 DEF Deletes, Delete
  <2>5. ASSUME NEW p \in Callers, Begins(p) \/ Abort(p) \/ \E i \in SessionIds : LockRow(p, i)
        PROVE  FALSE
    BY <2>5 DEF Begins, DeleteSessionsBySubjectID, DeleteExpired, Begin, Abort, LockRow
  <2> QED BY <2>1, <2>2, <2>3, <2>4, <2>5, StepKinds DEF Inv
<1> QED BY <1>1, Invariance, PTL DEF Spec, NoResurrection

(* No other call answers as GetSession does *)
LEMMA OnlyReadsGet ==
    ASSUME Inv, Next, reply' # reply, reply'.op = "get"
    PROVE  \E p \in Callers : \E id \in SessionIds : GetSession(p, id)
<1>1. PICK p \in Callers :
        \/ \E id \in SessionIds : GetSession(p, id)
        \/ \E id \in SessionIds : DeleteSession(p, id)
        \/ \E id \in SessionIds : LockRow(p, id)
        \/ \E id \in SessionIds, rec \in Records :
               CreateSession(p, id, rec) \/ UpdateSession(p, id, rec)
        \/ \E id \in SessionIds, client \in Clients : AddClientID(p, id, client)
        \/ \E subject \in Subjects \cup {NoSubject} : GetSessionsBySubjectID(p, subject)
        \/ \E op, arg : Begin(p, op, arg)
        \/ Commit(p) \/ Abort(p)
  BY DEF Next, DeleteSessionsBySubjectID, DeleteExpired
<1>2. \A id \in SessionIds : ~DeleteSession(p, id) /\ ~LockRow(p, id)
  BY DEF DeleteSession, LockRow, Fail, Answer
<1>3. \A id \in SessionIds, rec \in Records :
        ~CreateSession(p, id, rec) /\ ~UpdateSession(p, id, rec)
  BY DEF CreateSession, UpdateSession, Fail, Answer
<1>4. \A id \in SessionIds, client \in Clients : ~AddClientID(p, id, client)
  BY DEF AddClientID, Fail, Answer
<1>5. ASSUME NEW subject, GetSessionsBySubjectID(p, subject)
      PROVE  FALSE
  <2> DEFINE found == {id \in SessionIds : rows[id] # Absent /\ rows[id].subject_id = subject}
             listing == [id \in found |-> Loaded(id)]
  <2>1. \/ reply' = [caller |-> p, op |-> "list", err |-> "ok", all |-> listing]
        \/ Answer(p, "list", "wrapped")
    BY <1>5 DEF GetSessionsBySubjectID
  <2> HIDE DEF listing
  <2> QED BY <2>1 DEF Answer
<1>6. \A op, arg : ~Begin(p, op, arg)
  BY DEF Begin
<1>7. ~Commit(p) /\ ~Abort(p)
  BY OpenParts DEF Commit, Abort, Answer, Inv
<1> QED BY <1>1, <1>2, <1>3, <1>4, <1>5, <1>6, <1>7

(* GetSession shows every client whose append was confirmed since the row was last
   written, for it reads the column and not the list in the payload. *)
THEOREM ReadsCorrect == Spec => ReadsShowClients
<1>1. Inv /\ [Next]_vars =>
        [\A id \in SessionIds :
          (reply' # reply /\ reply'.op = "get" /\ reply'.err = "ok" /\ reply'.id = id)
          => \A client \in added[id] : \E i \in DOMAIN reply'.got.client_ids :
                 reply'.got.client_ids[i] = client]_vars
  <2> SUFFICES ASSUME Inv, Next, NEW id \in SessionIds, reply' # reply,
                      reply'.op = "get", reply'.err = "ok", reply'.id = id,
                      NEW client \in added[id]
               PROVE  \E i \in DOMAIN reply'.got.client_ids :
                          reply'.got.client_ids[i] = client
    BY DEF vars
  <2>1. PICK p \in Callers : \E k \in SessionIds : GetSession(p, k)
    BY OnlyReadsGet
  <2>2. PICK k \in SessionIds : /\ rows[k] # Absent
                                /\ reply' = [caller |-> p, op |-> "get", err |-> "ok",
                                             id |-> k, got |-> Loaded(k)]
    BY <2>1 DEF GetSession, Answer
  <2>3. k = id /\ reply'.got = Loaded(id) /\ rows[id] # Absent
    BY <2>2
  <2>4. reply'.got.client_ids = rows[id].client_ids
    <3>1. rows[id].payload \in Record
      BY <2>3 DEF Inv, TypeOK, Row
    <3> QED BY <2>3, <3>1 DEF Loaded, Record
  <2> QED BY <2>3, <2>4 DEF Inv, AddedRight, AppendsSurvive
<1> QED BY <1>1, Invariance, PTL DEF Spec, ReadsShowClients

-----------------------------------------------------------------------------
(* What is seen of the answers and of the open calls *)
LEMMA OutcomeIs ==
    /\ reply' = reply => Outcome' = Outcome
    /\ reply'.op # "none" =>
          Outcome' = [caller |-> reply'.caller, op |-> OpName(reply'.op), err |-> reply'.err]
BY DEF Outcome, Silence, OpName

LEMMA OpNames ==
    /\ OpName("create") = "store" /\ OpName("update") = "update"
    /\ OpName("addClient") = "update" /\ OpName("delete") = "remove"
    /\ OpName("deleteBySubject") = "revoke" /\ OpName("deleteExpired") = "removeExpired"
    /\ OpName("get") = "get" /\ OpName("list") = "list"
BY DEF OpName

LEMMA ClearingParts ==
    \A p \in Callers :
        /\ RS!Busy(p) <=> Open(p)
        /\ ~Open(p) => Clearings[p] = RS!Idle
        /\ Open(p) => /\ Clearings[p].by = [op |-> OpName(call[p].op), arg |-> call[p].arg]
                      /\ Clearings[p].due = due[p]
                      /\ Clearings[p].spared = {}
BY DEF Clearings, RS!Busy, RS!Idle

(* What a call owes under the names of the abstract store *)
LEMMA SameDemand ==
    ASSUME NEW op \in {"deleteBySubject", "deleteExpired"}, NEW arg, NEW row
    PROVE  Owes([op |-> OpName(op), arg |-> arg], row) <=> Owed(op, arg, row.payload)
BY OpNames DEF Owes, Owed

(* A call goes on with the demand it was opened for *)
GoesOn(q) ==
    /\ Open(q)' <=> Open(q)
    /\ Open(q) => call'[q].op = call[q].op /\ call'[q].arg = call[q].arg

(* A DELETE under way follows the records: it loses the sessions that are gone or need
   not be taken any more, and no other *)
Follows(q) ==
    /\ GoesOn(q)
    /\ Open(q) =>
          /\ due'[q] \subseteq due[q]
          /\ \A id \in due[q] \ due'[q] :
                \/ rows'[id] = Absent
                \/ ~Owed(call[q].op, call[q].arg, rows'[id].payload)

LEMMA Followed ==
    ASSUME Inv, Inv', NEW q \in Callers, Follows(q)
    PROVE  Clearings'[q] = RS!Revised(Clearings[q])
<1>1. CASE ~Open(q)
  BY <1>1 DEF Follows, GoesOn, Clearings, RS!Revised
<1>2. CASE Open(q)
  <2> DEFINE by == [op |-> OpName(call[q].op), arg |-> call[q].arg]
  <2>1. Open(q)' /\ call'[q].op = call[q].op /\ call'[q].arg = call[q].arg
    BY <1>2 DEF Follows, GoesOn
  <2>2. \A id : Owes(by, rows'[id]) <=> Owed(call[q].op, call[q].arg, rows'[id].payload)
    BY <1>2, SameDemand, OpenParts DEF Inv
  <2>3. Clearings'[q] = RS!Clearing(by, due'[q], {})
    BY <2>1 DEF Clearings, RS!Clearing
  <2>4. Clearings[q] = RS!Clearing(by, due[q], {})
    BY <1>2 DEF Clearings, RS!Clearing
  <2> HIDE DEF by
  <2>5. \A id \in due'[q] : rows'[id] # Absent /\ Owes(by, rows'[id])
    BY <2>1, <2>2 DEF Inv, DueRight
  <2>6. due'[q] = {id \in due[q] : rows'[id] # Absent /\ Owes(by, rows'[id])}
    BY <1>2, <2>2, <2>5 DEF Follows
  <2>7. RS!Revised(Clearings[q])
          = RS!Clearing(by, {id \in due[q] : rows'[id] # Absent /\ Owes(by, rows'[id])}, {})
    BY <2>4 DEF RS!Revised, RS!Clearing
  <2> QED BY <2>3, <2>6, <2>7
<1> QED BY <1>1, <1>2

LEMMA Revises ==
    ASSUME Inv, Inv', NEW p \in Callers, ~Open(p)', \A q \in Callers \ {p} : Follows(q)
    PROVE  RS!Revise(p)
<1>1. \A q \in Callers \ {p} : Clearings'[q] = RS!Revised(Clearings[q])
  BY Followed
<1>2. Clearings'[p] = RS!Idle
  BY DEF Clearings, RS!Idle
<1>3. Clearings' = [q \in Callers |-> Clearings'[q]]
  BY DEF Clearings
<1> QED BY <1>1, <1>2, <1>3 DEF RS!Revise

(* The demands are as before when nothing that they are made of has changed *)
LEMMA Steady ==
    ASSUME due' = due, \A q \in Callers : GoesOn(q)
    PROVE  Clearings' = Clearings
BY DEF Clearings, GoesOn

LEMMA Quiet ==
    ASSUME UNCHANGED <<rows, call, due>>
    PROVE  UNCHANGED <<rows, Clearings>>
BY DEF Clearings, Open

LEMMA FailRefines ==
    ASSUME NEW p \in Callers, ~Open(p),
           NEW op \in {"create", "update", "addClient", "delete", "get", "list"},
           UNCHANGED <<rows, call, due>>, Answer(p, op, "wrapped")
    PROVE  RS!CallNext(p)
<1>1. Outcome' = [caller |-> p, op |-> OpName(op), err |-> "wrapped"]
  BY OutcomeIs DEF Answer
<1>2. OpName(op) \in {"get", "list", "store", "update", "remove"}
  BY OpNames
<1>3. ~RS!Busy(p)
  BY ClearingParts
<1> QED BY <1>1, <1>2, <1>3, Quiet DEF RS!CallNext, RS!Fail, RS!Answer

LEMMA LookRefines ==
    ASSUME NEW p \in Callers,
           \/ \E id \in SessionIds : GetSession(p, id)
           \/ \E subject \in Subjects \cup {NoSubject} : GetSessionsBySubjectID(p, subject)
    PROVE  RS!CallNext(p)
<1>1. ~Open(p) /\ UNCHANGED <<rows, call, due>>
  BY DEF GetSession, GetSessionsBySubjectID
<1>2. CASE Answer(p, "get", "wrapped") \/ Answer(p, "list", "wrapped")
  BY <1>1, <1>2, FailRefines
<1>3. CASE ~(Answer(p, "get", "wrapped") \/ Answer(p, "list", "wrapped"))
  <2>1. /\ reply'.caller = p /\ reply'.op \in {"get", "list"}
        /\ reply'.err \in {"ok", "missing"}
    <3>1. ASSUME NEW id \in SessionIds, GetSession(p, id)
          PROVE  \/ \E got : reply' = [caller |-> p, op |-> "get", err |-> "ok",
                                      id |-> id, got |-> got]
                 \/ reply' = [caller |-> p, op |-> "get", err |-> "missing"]
      BY <1>3, <3>1 DEF GetSession, Answer
    <3>2. ASSUME NEW subject, GetSessionsBySubjectID(p, subject)
          PROVE  \E all : reply' = [caller |-> p, op |-> "list", err |-> "ok", all |-> all]
      <4> DEFINE found == {id \in SessionIds : rows[id] # Absent /\ rows[id].subject_id = subject}
                 listing == [id \in found |-> Loaded(id)]
      <4>1. reply' = [caller |-> p, op |-> "list", err |-> "ok", all |-> listing]
        BY <1>3, <3>2 DEF GetSessionsBySubjectID
      <4> HIDE DEF listing
      <4> QED BY <4>1
    <3> QED BY <3>1, <3>2
  <2>2. Outcome' \in [caller : {p}, op : {"get", "list"}, err : {"ok", "missing"}]
    BY <2>1, OutcomeIs, OpNames
  <2>3. RS!Look(p)
    BY <1>1, <2>2, Quiet, ClearingParts DEF RS!Look, RS!Answer
  <2> QED BY <2>3 DEF RS!CallNext
<1> QED BY <1>2, <1>3

LEMMA CreateRefines ==
    ASSUME Inv, Inv', NEW p \in Callers, NEW id \in SessionIds, NEW rec \in Records,
           CreateSession(p, id, rec)
    PROVE  RS!CallNext(p)
<1>1. ~Open(p)
  BY DEF CreateSession
<1>2. CASE Fail(p, "create")
  BY <1>1, <1>2, FailRefines DEF Fail
<1>3. CASE /\ rows[id] = Absent
           /\ rows' = [rows EXCEPT ![id] = RowOf(rec)]
           /\ \E err \in {"ok", "wrapped"} : Answer(p, "create", err)
           /\ UNCHANGED <<call, added, due>>
  <2>1. ASSUME NEW q \in Callers
        PROVE  Follows(q)
    BY <1>3 DEF Follows, GoesOn, Open
  <2>2. RS!Revise(p)
    BY <1>1, <1>3, <2>1, Revises DEF Open
  <2>3. /\ rows' = [i \in SessionIds |-> IF i \in {id} THEN rows'[i] ELSE rows[i]]
        /\ rows'[id] # Absent
    BY <1>3, RowTyped DEF Inv, TypeOK
  <2>4. RS!Write(p, {id})
    BY <2>2, <2>3 DEF RS!Write
  <2>5. Outcome' \in [caller : {p}, op : {"store"}, err : {"ok", "wrapped"}]
    BY <1>3, OutcomeIs, OpNames DEF Answer
  <2>6. RS!Store(p)
    BY <1>1, <1>3, <2>4, <2>5, ClearingParts
       DEF RS!Store, RS!Answer, RS!Present, IsItself
  <2> QED BY <2>6 DEF RS!CallNext
<1> QED BY <1>2, <1>3 DEF CreateSession

(* A write of the one session that has the id, or of none *)
LEMMA UpdateRefines ==
    ASSUME Inv, Inv', NEW p \in Callers, ~Open(p), NEW id \in SessionIds, call' = call,
           \A q \in Callers \ {p} : Follows(q),
           NEW op \in {"update", "addClient"}, NEW err \in {"ok", "wrapped"}, Answer(p, op, err),
           IF rows[id] = Absent THEN rows' = rows
           ELSE /\ \A i \in SessionIds \ {id} : rows'[i] = rows[i]
                /\ rows'[id] # Absent
    PROVE  RS!CallNext(p)
<1> DEFINE K == RS!Met(id)
<1>1. K = IF rows[id] = Absent THEN {} ELSE {id}
  BY DEF RS!Met, RS!Present, IsItself
<1>2. RS!Revise(p)
  BY Revises DEF Open
<1>3. rows' = [i \in SessionIds |-> IF i \in K THEN rows'[i] ELSE rows[i]]
  BY <1>1 DEF Inv, TypeOK
<1>4. \A i \in K : rows'[i] # Absent /\ IsItself(id, i, rows'[i])
  BY <1>1 DEF IsItself
<1>5. Outcome' \in [caller : {p}, op : {"update"}, err : {"ok", "wrapped"}]
  BY OutcomeIs, OpNames DEF Answer
<1> HIDE DEF K
<1>6. RS!Write(p, K)
  BY <1>2, <1>3, <1>4 DEF RS!Write
<1>7. RS!Update(p)
  BY <1>4, <1>5, <1>6, ClearingParts DEF RS!Update, RS!Answer, K
<1> QED BY <1>7 DEF RS!CallNext

LEMMA RewriteRefines ==
    ASSUME Inv, Inv', NEW p \in Callers, NEW id \in SessionIds, NEW rec \in Records,
           UpdateSession(p, id, rec)
    PROVE  RS!CallNext(p)
<1>1. ~Open(p)
  BY DEF UpdateSession
<1>2. CASE Fail(p, "update")
  BY <1>1, <1>2, FailRefines DEF Fail
<1>3. CASE rows[id] = Absent /\ Answer(p, "update", "ok") /\ UNCHANGED <<rows, call, added, due>>
  <2>1. \A q \in Callers : Follows(q)
    BY <1>3 DEF Follows, GoesOn, Open
  <2> QED BY <1>1, <1>3, <2>1, UpdateRefines
<1>4. CASE /\ rows[id] # Absent
           /\ rows' = [rows EXCEPT ![id] = RowOf(rec)]
           /\ Spare(id, rec)
           /\ \E err \in {"ok", "wrapped"} : Answer(p, "update", err)
           /\ UNCHANGED call
  <2>1. /\ rows'[id] = RowOf(rec) /\ rows'[id] # Absent /\ rows'[id].payload = rec
        /\ \A i \in SessionIds \ {id} : rows'[i] = rows[i]
    BY <1>4, RowTyped DEF Inv, TypeOK
  <2>2. ASSUME NEW q \in Callers
        PROVE  Follows(q)
    <3>1. due'[q] = IF Open(q) /\ ~Owed(call[q].op, call[q].arg, rec)
                    THEN due[q] \ {id} ELSE due[q]
      BY <1>4 DEF Spare
    <3> QED BY <1>4, <2>1, <3>1 DEF Follows, GoesOn, Open
  <2> QED BY <1>1, <1>4, <2>1, <2>2, UpdateRefines
<1> QED BY <1>2, <1>3, <1>4 DEF UpdateSession

LEMMA AppendRefines ==
    ASSUME Inv, Inv', NEW p \in Callers, NEW id \in SessionIds, NEW client \in Clients,
           AddClientID(p, id, client)
    PROVE  RS!CallNext(p)
<1>1. ~Open(p)
  BY DEF AddClientID
<1>2. CASE Fail(p, "addClient")
  BY <1>1, <1>2, FailRefines DEF Fail
<1>3. CASE ~Fail(p, "addClient")
  <2>1. \E err \in {"ok", "wrapped"} : Answer(p, "addClient", err)
    BY <1>3 DEF AddClientID
  <2>2. UNCHANGED <<call, due>>
    BY <1>3 DEF AddClientID
  <2>3. \A q \in Callers : Follows(q)
    BY <2>2 DEF Follows, GoesOn, Open
  <2>4. IF rows[id] = Absent THEN rows' = rows
        ELSE /\ \A i \in SessionIds \ {id} : rows'[i] = rows[i]
             /\ rows'[id] # Absent
    <3>1. CASE rows[id] = Absent
      BY <1>3, <3>1 DEF AddClientID
    <3>2. CASE rows[id] # Absent
      <4>1. rows' = [rows EXCEPT ![id] =
                       [rows[id] EXCEPT !.client_ids = Appended(rows[id].client_ids, client)]]
        BY <1>3, <3>2 DEF AddClientID
      <4>2. rows'[id] = [rows[id] EXCEPT !.client_ids = Appended(rows[id].client_ids, client)]
        BY <4>1 DEF Inv, TypeOK
      <4>3. rows'[id] \in Row
        <5>1. rows[id] \in Row /\ IsInjective(rows[id].client_ids)
          BY <3>2 DEF Inv, TypeOK, AddedRight, AppendsSurvive
        <5>2. rows[id].client_ids \in Seq(Clients)
          BY <5>1 DEF Row
        <5>3. Appended(rows[id].client_ids, client) \in Seq(Clients)
          BY <5>1, <5>2, AppendedKeeps
        <5> QED BY <4>2, <5>1, <5>3 DEF Row
      <4> QED BY <3>2, <4>1, <4>3, AbsentAssumption DEF Inv, TypeOK
    <3> QED BY <3>1, <3>2
  <2> QED BY <1>1, <2>1, <2>2, <2>3, <2>4, UpdateRefines
<1> QED BY <1>2, <1>3

(* A deletion ends the DELETE of its caller, and takes from the others what is gone *)
LEMMA DropRefines ==
    ASSUME Inv, Inv', NEW p \in Callers, NEW H \in SUBSET SessionIds, Delete(p, H)
    PROVE  RS!Drop(p, H)
<1>1. /\ rows' = [id \in SessionIds |-> IF id \in H THEN Absent ELSE rows[id]]
      /\ \A q \in Callers : call'[q] = IF q = p THEN Idle ELSE Remaining(q, H)
      /\ \A q \in Callers : due'[q] = IF q = p THEN {} ELSE due[q] \ H
  BY DEF Delete
<1>2. ~Open(p)'
  BY <1>1 DEF Open
<1>3. ASSUME NEW q \in Callers \ {p}
      PROVE  Follows(q)
  <2>1. due'[q] = due[q] \ H
    BY <1>1
  <2>2. CASE ~Open(q)
    BY <1>1, <2>1, <2>2 DEF Follows, GoesOn, Open, Remaining
  <2>3. CASE Open(q)
    <3>1. call'[q] = Deleting(call[q].op, call[q].arg, call[q].scan \ H, call[q].locked)
      BY <1>1, <2>3 DEF Remaining
    <3>2. call[q].scan \ H \in SUBSET SessionIds
      BY <2>3, OpenParts DEF Inv
    <3>3. call'[q] # Idle
      BY <2>3, <3>1, <3>2, OpenParts, DeletingTyped DEF Inv
    <3>4. /\ Open(q)' /\ call'[q].op = call[q].op /\ call'[q].arg = call[q].arg
      BY <3>1, <3>3, CallKinds DEF Open
    <3>5. \A id \in due[q] \ due'[q] : rows'[id] = Absent
      BY <1>1, <2>1
    <3> QED BY <2>1, <2>3, <3>4, <3>5 DEF Follows, GoesOn
  <2> QED BY <2>2, <2>3
<1>4. RS!Revise(p)
  BY <1>2, <1>3, Revises
<1> QED BY <1>1, <1>4 DEF RS!Drop

(* What the revocation selects by the column is the subject's by its record *)
LEMMA SelectedOwned ==
    ASSUME ColumnsRight, NEW id \in SessionIds, NEW subject \in Subjects \cup {NoSubject},
           Selects("deleteBySubject", subject, id)
    PROVE  rows[id] # Absent /\ Owned(subject, rows[id].payload)
<1>1. rows[id] # Absent /\ SubjectColumn(rows[id].payload) = subject
  BY DEF ColumnsRight, Selects
<1> QED BY <1>1, AbsentAssumption, NoSubjectAssumption DEF SubjectColumn, Owned

(* What the cleanup selects by the column has ended by its record *)
LEMMA SelectedEnded ==
    ASSUME TypeOK, ColumnsRight, NEW id \in SessionIds, NEW cutoff \in Cutoffs,
           Selects("deleteExpired", cutoff, id)
    PROVE  rows[id] # Absent /\ Ended(rows[id], cutoff)
<1> DEFINE expires == rows[id].payload.expires
<1>1. rows[id] # Absent /\ Reclaimable(OptionalExpiry(expires), cutoff)
  BY DEF Selects, ColumnsRight
<1>2. expires \in Int \cup {Never} /\ cutoff \in Int
  BY <1>1, CutoffsAssumption DEF TypeOK, Row, Record
<1> HIDE DEF expires
<1>3. expires # Never
  BY <1>1 DEF Reclaimable, OptionalExpiry
<1>4. Micros(expires) < Micros(cutoff)
  BY <1>1, <1>3 DEF Reclaimable, OptionalExpiry
<1>5. expires < cutoff
  BY <1>2, <1>3, <1>4, MicrosStrict
<1> QED BY <1>1, <1>3, <1>5 DEF Ended, expires

(* What a DELETE selects may be taken *)
LEMMA SelectedTaken ==
    ASSUME Inv, NEW p \in Callers, Open(p), NEW id \in SessionIds,
           Selects(call[p].op, call[p].arg, id)
    PROVE  rows[id] # Absent /\ Takes(Clearings[p].by, rows[id])
<1>1. Clearings[p].by = [op |-> OpName(call[p].op), arg |-> call[p].arg]
  BY ClearingParts
<1>2. CASE call[p].op = "deleteBySubject"
  BY <1>1, <1>2, OpenParts, OpNames, SelectedOwned DEF Inv, Takes
<1>3. CASE call[p].op = "deleteExpired"
  BY <1>1, <1>3, OpenParts, OpNames, SelectedEnded DEF Inv, Takes
<1> QED BY <1>2, <1>3, OpenParts DEF Inv

LEMMA RemoveRefines ==
    ASSUME Inv, Inv', NEW p \in Callers, NEW id \in SessionIds, DeleteSession(p, id)
    PROVE  RS!CallNext(p)
<1>1. ~Open(p)
  BY DEF DeleteSession
<1>2. CASE Fail(p, "delete")
  BY <1>1, <1>2, FailRefines DEF Fail
<1>3. CASE Delete(p, {id}) /\ \E err \in {"ok", "wrapped"} : Answer(p, "delete", err)
  <2>1. RS!Drop(p, {id})
    BY <1>3, DropRefines
  <2>2. Outcome' \in [caller : {p}, op : {"remove"}, err : {"ok", "wrapped"}]
    BY <1>3, OutcomeIs, OpNames DEF Answer
  <2>3. RS!Remove(p)
    BY <1>1, <2>1, <2>2, ClearingParts DEF RS!Remove, RS!Answer
  <2> QED BY <2>3 DEF RS!CallNext
<1> QED BY <1>2, <1>3 DEF DeleteSession

(* The snapshot of a DELETE is taken as it begins; what is due is judged by the records
   and not by the columns *)
LEMMA BeginRefines ==
    ASSUME Inv, Inv', NEW p \in Callers, NEW op, NEW arg,
           \/ op = "deleteBySubject" /\ arg \in Subjects \cup {NoSubject}
           \/ op = "deleteExpired" /\ arg \in Cutoffs,
           Begin(p, op, arg)
    PROVE  RS!CallNext(p)
<1> DEFINE found == {id \in SessionIds : Selects(op, arg, id)}
           by    == [op |-> OpName(op), arg |-> arg]
           owed  == {id \in SessionIds : rows[id] # Absent /\ Owes(by, rows[id])}
           none  == {id \in SessionIds : ByKey(by) /\ rows[id] # Absent /\ ~Takes(by, rows[id])}
<1>1. /\ ~Open(p) /\ rows' = rows /\ reply' = reply
      /\ call' = [call EXCEPT ![p] = Deleting(op, arg, found, {})]
      /\ due' = [due EXCEPT ![p] = {id \in SessionIds :
                   rows[id] # Absent /\ Owed(op, arg, rows[id].payload)}]
  BY DEF Begin
<1>2. /\ call'[p] = Deleting(op, arg, found, {}) /\ call'[p] # Idle
      /\ due'[p] = {id \in SessionIds : rows[id] # Absent /\ Owed(op, arg, rows[id].payload)}
      /\ \A q \in Callers \ {p} : call'[q] = call[q] /\ due'[q] = due[q]
  BY <1>1, DeletingTyped DEF Inv, TypeOK
<1>3. Open(p)' /\ call'[p].op = op /\ call'[p].arg = arg
  BY <1>2, CallKinds DEF Open
<1>4. due'[p] = owed
  <2>1. \A id : Owes(by, rows[id]) <=> Owed(op, arg, rows[id].payload)
    BY SameDemand
  <2> QED BY <1>2, <2>1
<1>5. by \in Demands
  BY OpNames DEF Demands
<1>6. Clearings'[p] = RS!Clearing(by, owed, none)
  <2>1. none = {}
    BY DEF ByKey
  <2> QED BY <1>3, <1>4, <2>1 DEF Clearings, RS!Clearing
<1> HIDE DEF found, by, owed, none
<1>7. \A q \in Callers \ {p} : Clearings'[q] = Clearings[q]
  BY <1>2 DEF Clearings, Open
<1>8. Clearings' = [Clearings EXCEPT ![p] = RS!Clearing(by, owed, none)]
  BY <1>6, <1>7 DEF Clearings
<1>9. Outcome' = Outcome /\ ~RS!Busy(p)
  BY <1>1, OutcomeIs, ClearingParts
<1>10. RS!Begin(p)
  BY <1>1, <1>5, <1>8, <1>9 DEF RS!Begin, RS!Present, owed, none
<1> QED BY <1>10 DEF RS!CallNext

(* A DELETE that locks a row changes nothing that shows *)
LEMMA LockRefines ==
    ASSUME Inv, NEW p \in Callers, NEW id \in SessionIds, LockRow(p, id)
    PROVE  UNCHANGED RS!vars
<1> DEFINE less == call[p].scan \ {id}
           more == IF Selects(call[p].op, call[p].arg, id)
                   THEN call[p].locked \cup {id} ELSE call[p].locked
<1>1. /\ call' = [call EXCEPT ![p] = Deleting(call[p].op, call[p].arg, less, more)]
      /\ Open(p) /\ rows' = rows /\ reply' = reply /\ due' = due
  BY DEF LockRow
<1>2. less \in SUBSET SessionIds /\ more \in SUBSET SessionIds
  BY <1>1, OpenParts DEF Inv
<1> HIDE DEF less, more
<1>3. Deleting(call[p].op, call[p].arg, less, more) # Idle
  BY <1>1, <1>2, OpenParts, DeletingTyped DEF Inv
<1>4. /\ call'[p] = Deleting(call[p].op, call[p].arg, less, more)
      /\ \A q \in Callers \ {p} : call'[q] = call[q]
  BY <1>1 DEF Inv, TypeOK
<1>5. \A q \in Callers : GoesOn(q)
  BY <1>1, <1>3, <1>4, CallKinds DEF GoesOn, Open
<1>6. Clearings' = Clearings
  BY <1>1, <1>5, Steady
<1> QED BY <1>1, <1>6, OutcomeIs DEF RS!vars

(* A commit removes what was locked: all that is due, and all of it to be taken at that
   moment *)
LEMMA CommitRefines ==
    ASSUME Inv, Inv', NEW p \in Callers, Commit(p)
    PROVE  RS!CallNext(p)
<1> DEFINE H == call[p].locked
           by == Clearings[p].by
<1>1. /\ Open(p) /\ H \in SUBSET SessionIds /\ call[p].scan = {} /\ Delete(p, H)
      /\ reply'.op = call[p].op /\ reply'.caller = p /\ reply'.err \in {"ok", "wrapped"}
      /\ reply'.op # "none"
  BY OpenParts DEF Inv, Commit, Answer
<1>2. RS!Drop(p, H)
  BY <1>1, DropRefines
<1>3. \A id \in H : rows[id] # Absent /\ Takes(by, rows[id])
  BY <1>1, SelectedTaken DEF Inv, LocksRight
<1>4. due[p] \subseteq H
  BY <1>1 DEF Inv, DueRight
<1>5. /\ RS!Busy(p) /\ Clearings[p].due = due[p] /\ Clearings[p].spared = {}
      /\ by = [op |-> OpName(call[p].op), arg |-> call[p].arg]
  BY <1>1, ClearingParts
<1>6. Outcome' \in [caller : {p}, op : {by.op}, err : {"ok", "wrapped"}]
  BY <1>1, <1>5, OutcomeIs
<1> HIDE DEF H, by
<1>7. RS!Finish(p)
  BY <1>1, <1>2, <1>3, <1>4, <1>5, <1>6 DEF RS!Finish, RS!Answer, RS!Present, by
<1> QED BY <1>7 DEF RS!CallNext

(* A call that is given up has changed nothing *)
LEMMA AbortRefines ==
    ASSUME Inv, NEW p \in Callers, Abort(p)
    PROVE  RS!CallNext(p)
<1>1. /\ Open(p) /\ rows' = rows /\ ~Open(p)' /\ due'[p] = {}
      /\ \A q \in Callers \ {p} : call'[q] = call[q] /\ due'[q] = due[q]
  BY DEF Abort, Inv, TypeOK, Open
<1>2. Clearings'[p] = RS!Idle
  BY <1>1 DEF Clearings, RS!Idle
<1>3. \A q \in Callers \ {p} : Clearings'[q] = Clearings[q]
  BY <1>1 DEF Clearings, Open
<1>4. Clearings' = [Clearings EXCEPT ![p] = RS!Idle]
  BY <1>2, <1>3 DEF Clearings
<1>5. RS!Busy(p) /\ Clearings[p].by.op = OpName(call[p].op) /\ call[p].op # "none"
  <2>1. Clearings[p].by = [op |-> OpName(call[p].op), arg |-> call[p].arg] /\ RS!Busy(p)
    BY <1>1, ClearingParts
  <2>2. call[p].op # "none"
    BY <1>1, OpenParts DEF Inv
  <2> QED BY <2>1, <2>2
<1>6. Outcome' = [caller |-> p, op |-> OpName(call[p].op), err |-> "wrapped"]
  BY <1>5, OutcomeIs DEF Abort, Answer
<1>7. RS!Abandon(p)
  BY <1>1, <1>4, <1>5, <1>6 DEF RS!Abandon, RS!Answer
<1> QED BY <1>7 DEF RS!CallNext

(* Every step of the session store is one of the abstract store, or changes nothing of it *)
LEMMA RefinesStep ==
    ASSUME Inv, [Next]_vars
    PROVE  [RS!Next]_(RS!vars)
<1>1. CASE UNCHANGED vars
  BY <1>1 DEF vars, RS!vars, Clearings, Open, Outcome
<1>2. CASE Next
  <2>1. PICK p \in Callers :
          \/ \E id \in SessionIds : GetSession(p, id)
          \/ \E id \in SessionIds : DeleteSession(p, id)
          \/ \E id \in SessionIds : LockRow(p, id)
          \/ \E id \in SessionIds, rec \in Records : CreateSession(p, id, rec)
          \/ \E id \in SessionIds, rec \in Records : UpdateSession(p, id, rec)
          \/ \E id \in SessionIds, client \in Clients : AddClientID(p, id, client)
          \/ \E subject \in Subjects \cup {NoSubject} : GetSessionsBySubjectID(p, subject)
          \/ \E subject \in Subjects \cup {NoSubject} : Begin(p, "deleteBySubject", subject)
          \/ \E cutoff \in Cutoffs : Begin(p, "deleteExpired", cutoff)
          \/ Commit(p) \/ Abort(p)
    BY <1>2 DEF Next, DeleteSessionsBySubjectID, DeleteExpired
  <2>2. Inv'
    BY InvStep
  <2>3. CASE \E id \in SessionIds : LockRow(p, id)
    BY <2>3, LockRefines
  <2>4. CASE RS!CallNext(p)
    BY <2>4 DEF RS!Next
  <2> QED
    BY <2>1, <2>2, <2>3, <2>4, LookRefines, RemoveRefines, CreateRefines, RewriteRefines,
       AppendRefines, BeginRefines, CommitRefines, AbortRefines
<1> QED BY <1>1, <1>2

(* The session store, with its row locks, its columns and its rows rewritten in place, is
   an abstract revocable store: nothing but CreateSession brings a session into being, and
   DeleteSessionsBySubjectID takes, at one instant, only sessions that are the subject's
   then, and all that have been since the call began; DeleteExpired only sessions that
   have expired, and all that have been overdue. *)
THEOREM Refinement == Spec => ImplementsRevocableStore
<1>1. Init => RS!Init
  BY DEF Init, RS!Init, Clearings, Open, RS!Idle, Outcome, RS!Silence, Silence
<1>2. Inv /\ [Next]_vars => [RS!Next]_(RS!vars)
  BY RefinesStep
<1> QED BY <1>1, <1>2, Invariance, PTL DEF Spec, ImplementsRevocableStore, RS!Spec
=============================================================================
