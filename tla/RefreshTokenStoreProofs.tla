----------------------- MODULE RefreshTokenStoreProofs -----------------------
(***************************************************************************)
(* Theorems of the refresh token store, for every set of handles, callers, *)
(* tokens and cutoffs, every bound on versions and every scale of time.    *)
(***************************************************************************)
EXTENDS RefreshTokenStore, ExpiryProofs, SequenceTheorems

USE DEF Versions, FirstVersion

-----------------------------------------------------------------------------
(* The arithmetic of the expires_at column stays within the integers. *)
LEMMA ExpiresAtIsInt ==
    ASSUME NEW token \in Tokens
    PROVE  ExpiresAt(token) \in Int
<1>1. token.creation \in Int /\ token.lifetime \in Int
  BY TokensAssumption
<1>2. Duration(token.lifetime) \in Int
  BY <1>1, ExpiryAssumption DEF Duration
<1> QED
  BY <1>1, <1>2, ExpiryAssumption DEF ExpiresAt, DerivedExpiry, Micros

(* Two records with different sets of fields differ, and so do calls of
   different kinds: what tells the states of a caller apart. *)
LEMMA CallKinds ==
    /\ Idle.op = "none"
    /\ \A h, v : Updating(h, v).op = "update" /\ Updating(h, v).handle = h
                 /\ Updating(h, v).expected = v
    /\ \A c, s, l : /\ Sweeping(c, s, l).op = "removeExpired"
                    /\ Sweeping(c, s, l).cutoff = c
                    /\ Sweeping(c, s, l).scan = s
                    /\ Sweeping(c, s, l).locked = l
BY DEF Idle, Updating, Sweeping

(* The sequence of one element, in the terms AppendProperties uses. *)
LEMMA OneElementSeq ==
    ASSUME NEW S, NEW e \in S
    PROVE  <<e>> \in Seq(S) /\ Len(<<e>>) = 1 /\ <<e>>[1] = e
OBVIOUS

(* Deleting rows keeps every variable within its type. *)
LEMMA DeleteType ==
    ASSUME TypeOK, NEW p \in Callers, NEW H \in SUBSET Handles, Delete(p, H)
    PROVE  TypeOK'
<1>1. rows' \in [Handles -> Row \cup {Absent}]
  BY DEF TypeOK, Delete
<1>2. log' \in [Handles -> Seq(Payload)]
  BY DEF TypeOK, Delete
<1>3. copy' \in [Callers -> Copy \cup {Absent}]
  BY DEF TypeOK, Delete
<1>4. call' \in [Callers -> {Idle} \cup UpdateCall \cup SweepCall]
  <2>1. ASSUME NEW q \in Callers, call[q].op = "removeExpired"
        PROVE  call[q] \in SweepCall
    BY <2>1, CallKinds DEF TypeOK, UpdateCall
  <2>2. ASSUME NEW q \in Callers, call[q].op = "removeExpired"
        PROVE  Sweeping(call[q].cutoff, call[q].scan \ H, call[q].locked) \in SweepCall
    BY <2>1, <2>2 DEF SweepCall, Sweeping
  <2> QED
    BY <2>2 DEF TypeOK, Delete
<1> QED
  BY <1>1, <1>2, <1>3, <1>4 DEF TypeOK

(* TypeOK is inductive: one step per action, and under it the variables the
   action disturbs. *)
LEMMA TypeStep ==
    ASSUME TypeOK, [Next]_vars
    PROVE  TypeOK'
<1>1. ASSUME NEW p \in Callers, NEW h \in Handles, NEW token \in Tokens,
             StoreRefreshToken(p, h, token)
      PROVE  TypeOK'
  <2> DEFINE payload == [body |-> token, version |-> 1]
  <2>1. payload \in Payload
    BY DEF Payload
  <2> DEFINE row == [expires_at |-> ExpiresAt(token), version |-> 1, payload |-> payload]
  <2>2. row \in Row
    BY <2>1, ExpiresAtIsInt DEF Row
  <2>3. /\ rows' = rows \/ rows' = [rows EXCEPT ![h] = row]
        /\ log' = log \/ log' = [log EXCEPT ![h] = <<payload>>]
    BY <1>1 DEF StoreRefreshToken, Fail
  <2> HIDE DEF row
  <2>6. rows' \in [Handles -> Row \cup {Absent}]
    BY <2>2, <2>3 DEF TypeOK
  <2> HIDE DEF payload
  <2>7. log' \in [Handles -> Seq(Payload)]
    <3>1. <<payload>> \in Seq(Payload)
      BY <2>1, OneElementSeq
    <3> QED
      BY <2>3, <3>1 DEF TypeOK
  <2> USE DEF payload
  <2>4. copy' \in [Callers -> Copy \cup {Absent}]
    BY <1>1, <2>1 DEF TypeOK, StoreRefreshToken, Fail, WriteBack, Copy
  <2> QED
    BY <1>1, <2>6, <2>7, <2>4 DEF TypeOK, StoreRefreshToken
<1>2. ASSUME NEW p \in Callers, NEW h \in Handles, NEW token \in Tokens,
             NEW expected \in Versions, UpdateRefreshToken(p, h, token, expected)
      PROVE  TypeOK'
  <2> DEFINE payload == [body |-> token, version |-> expected + 1]
  <2>1. payload \in Payload
    BY MaxVersionAssumption DEF Payload
  <2>2. ASSUME Matches(h, expected)
        PROVE  [expires_at |-> ExpiresAt(token), version |-> rows[h].version + 1,
                payload |-> payload] \in Row
    BY <2>1, <2>2, ExpiresAtIsInt, MaxVersionAssumption DEF Row, Matches
  <2> DEFINE row == [expires_at |-> ExpiresAt(token), version |-> rows[h].version + 1,
                     payload |-> payload]
  <2>3. /\ rows' = rows \/ (Matches(h, expected) /\ rows' = [rows EXCEPT ![h] = row])
        /\ log' = log \/ log' = [log EXCEPT ![h] = Append(@, payload)]
    BY <1>2 DEF UpdateRefreshToken, ReplaceRow, Fail
  <2>6. Matches(h, expected) => row \in Row
    BY <2>2
  <2> HIDE DEF row
  <2>7. rows' \in [Handles -> Row \cup {Absent}]
    BY <2>3, <2>6 DEF TypeOK
  <2> HIDE DEF payload
  <2>8. log' \in [Handles -> Seq(Payload)]
    <3>1. Append(log[h], payload) \in Seq(Payload)
      BY <2>1, AppendProperties DEF TypeOK
    <3> QED
      BY <2>3, <3>1 DEF TypeOK
  <2> USE DEF payload
  <2>4. copy' \in [Callers -> Copy \cup {Absent}]
    BY <1>2, <2>1 DEF TypeOK, UpdateRefreshToken, Fail, WriteBack, Copy
  <2>5. Updating(h, expected) \in UpdateCall
    BY DEF Updating, UpdateCall
  <2> QED
    BY <1>2, <2>7, <2>8, <2>4, <2>5 DEF TypeOK, UpdateRefreshToken
<1>3. ASSUME NEW p \in Callers, NEW h \in Handles, GetRefreshToken(p, h)
      PROVE  TypeOK'
  <2>1. rows[h] # Absent => rows[h].payload \in Payload
    BY DEF TypeOK, Row
  <2> QED
    BY <1>3, <2>1 DEF TypeOK, GetRefreshToken, Fail, WriteBack, Copy
<1>4. ASSUME NEW p \in Callers, NEW h \in Handles, RemoveRefreshToken(p, h)
      PROVE  TypeOK'
  <2>1. CASE Delete(p, {h})
    BY <2>1, DeleteType
  <2>2. CASE Fail(p, "remove") /\ UNCHANGED call
    BY <2>2 DEF TypeOK, Fail
  <2> QED
    BY <1>4, <2>1, <2>2 DEF RemoveRefreshToken
<1>5. ASSUME NEW p \in Callers, NEW h \in Handles, LockExpired(p, h)
      PROVE  TypeOK'
  <2>1. call[p] \in SweepCall
    BY <1>5, CallKinds DEF TypeOK, LockExpired, UpdateCall
  <2>2. \A L \in SUBSET Handles :
            Sweeping(call[p].cutoff, call[p].scan \ {h}, L) \in SweepCall
    BY <2>1 DEF SweepCall, Sweeping
  <2>3. call[p].locked \in SUBSET Handles
    BY <2>1 DEF SweepCall
  <2>4. PICK L \in SUBSET Handles :
            call' = [call EXCEPT ![p] = Sweeping(call[p].cutoff, call[p].scan \ {h}, L)]
    BY <1>5, <2>3 DEF LockExpired, TypeOK
  <2> QED
    BY <1>5, <2>2, <2>4 DEF TypeOK, LockExpired
<1>6. ASSUME NEW p \in Callers, NEW cutoff \in Cutoffs, RemoveExpired(p, cutoff)
      PROVE  TypeOK'
  <2>1. \A scan \in SUBSET Handles : Sweeping(cutoff, scan, {}) \in SweepCall
    BY DEF SweepCall, Sweeping
  <2> QED
    BY <1>6, <2>1 DEF TypeOK, RemoveExpired
<1>7. ASSUME NEW p \in Callers, RecheckExistence(p)
      PROVE  TypeOK'
  BY <1>7 DEF TypeOK, RecheckExistence
<1>8. ASSUME NEW p \in Callers, FinishRemoveExpired(p)
      PROVE  TypeOK'
  <2>1. call[p].locked \in SUBSET Handles
    BY <1>8, CallKinds DEF TypeOK, FinishRemoveExpired, UpdateCall, SweepCall
  <2> QED
    BY <1>8, <2>1, DeleteType DEF FinishRemoveExpired
<1>9. ASSUME NEW p \in Callers, AbortRemoveExpired(p)
      PROVE  TypeOK'
  BY <1>9 DEF TypeOK, AbortRemoveExpired, Fail
<1>10. CASE UNCHANGED vars
  BY <1>10 DEF TypeOK, vars
<1> QED
  BY <1>1, <1>2, <1>3, <1>4, <1>5, <1>6, <1>7, <1>8, <1>9, <1>10 DEF Next

-----------------------------------------------------------------------------
(* What a step does to the table: it inserts, it replaces under the version
   guard, it deletes rows no other cleanup holds, or it leaves rows alone. *)
Inserts(p, h, token) ==
    LET payload == [body |-> token, version |-> 1] IN
    /\ rows[h] = Absent
    /\ rows' = [rows EXCEPT ![h] = [expires_at |-> ExpiresAt(token),
                                    version |-> 1, payload |-> payload]]
    /\ log' = [log EXCEPT ![h] = <<payload>>]
    /\ copy' = copy \/ WriteBack(p, h, payload)
    /\ call' = call

Replaces(p, h, token, expected) ==
    /\ Matches(h, expected)
    /\ Unlocked(h)
    /\ ReplaceRow(h, token, expected)
    /\ copy' = copy \/ WriteBack(p, h, [body |-> token, version |-> expected + 1])
    /\ call' = call

Deletes(p, H) ==
    /\ Delete(p, H)
    /\ \/ call[p] = Idle /\ \E h \in Handles : H = {h} /\ Unlocked(h)
       \/ call[p].op = "removeExpired" /\ H = call[p].locked

(* Of the steps that write nothing, those that change the caller's call *)
OnlyReads(p) ==
    /\ UNCHANGED <<rows, log>>
    /\ copy' = copy \/ \E h \in Handles : rows[h] # Absent /\ WriteBack(p, h, rows[h].payload)
    /\ \/ call' = call
       \/ call' = [call EXCEPT ![p] = Idle]
       \/ \E h \in Handles, v \in Versions : call' = [call EXCEPT ![p] = Updating(h, v)]
       \/ \E c \in Cutoffs : RemoveExpired(p, c)
       \/ \E h \in Handles : LockExpired(p, h)

(* Every step reads only, inserts one row, replaces one or deletes some. *)
LEMMA StepKinds ==
    ASSUME TypeOK, [Next]_vars
    PROVE  \/ UNCHANGED <<rows, call, copy, log>>
           \/ \E p \in Callers : OnlyReads(p)
           \/ \E p \in Callers, h \in Handles, token \in Tokens : Inserts(p, h, token)
           \/ \E p \in Callers, h \in Handles, token \in Tokens, v \in Versions :
                 Replaces(p, h, token, v)
           \/ \E p \in Callers, H \in SUBSET Handles : Deletes(p, H)
<1>1. ASSUME NEW p \in Callers, NEW h \in Handles, NEW token \in Tokens,
             StoreRefreshToken(p, h, token)
      PROVE  Inserts(p, h, token) \/ OnlyReads(p)
  BY <1>1 DEF StoreRefreshToken, Inserts, OnlyReads, Fail
<1>2. ASSUME NEW p \in Callers, NEW h \in Handles, NEW token \in Tokens,
             NEW v \in Versions, UpdateRefreshToken(p, h, token, v)
      PROVE  Replaces(p, h, token, v) \/ OnlyReads(p)
  BY <1>2 DEF UpdateRefreshToken, Replaces, OnlyReads, Fail
<1>3. ASSUME NEW p \in Callers, NEW h \in Handles, GetRefreshToken(p, h)
      PROVE  OnlyReads(p)
  BY <1>3 DEF GetRefreshToken, OnlyReads, Fail
<1>4. ASSUME NEW p \in Callers, NEW h \in Handles, RemoveRefreshToken(p, h)
      PROVE  Deletes(p, {h}) \/ OnlyReads(p)
  BY <1>4 DEF RemoveRefreshToken, Deletes, OnlyReads, Fail
<1>5. ASSUME NEW p \in Callers, NEW h \in Handles, LockExpired(p, h)
      PROVE  OnlyReads(p)
  BY <1>5 DEF OnlyReads, LockExpired
<1>6. ASSUME NEW p \in Callers, NEW c \in Cutoffs, RemoveExpired(p, c)
      PROVE  OnlyReads(p)
  BY <1>6 DEF OnlyReads, RemoveExpired
<1>7. ASSUME NEW p \in Callers, RecheckExistence(p)
      PROVE  OnlyReads(p)
  BY <1>7 DEF OnlyReads, RecheckExistence
<1>8. ASSUME NEW p \in Callers, FinishRemoveExpired(p)
      PROVE  Deletes(p, call[p].locked) /\ call[p].locked \in SUBSET Handles
  BY <1>8, CallKinds DEF FinishRemoveExpired, Deletes, TypeOK, UpdateCall, SweepCall
<1>9. ASSUME NEW p \in Callers, AbortRemoveExpired(p)
      PROVE  OnlyReads(p)
  BY <1>9 DEF OnlyReads, AbortRemoveExpired, Fail
<1>10. CASE UNCHANGED vars
  BY <1>10 DEF vars
<1>11. CASE Next
  <2>1. PICK p \in Callers :
          \/ \E h \in Handles, token \in Tokens : StoreRefreshToken(p, h, token)
          \/ \E h \in Handles, token \in Tokens, v \in Versions :
                 UpdateRefreshToken(p, h, token, v)
          \/ \E h \in Handles : GetRefreshToken(p, h) \/ LockExpired(p, h)
          \/ \E h \in Handles : RemoveRefreshToken(p, h)
          \/ \E c \in Cutoffs : RemoveExpired(p, c)
          \/ RecheckExistence(p) \/ AbortRemoveExpired(p)
          \/ FinishRemoveExpired(p)
    BY <1>11 DEF Next
  <2>2. \A h \in Handles : {h} \in SUBSET Handles
    OBVIOUS
  <2> QED
    BY <2>1, <2>2, <1>1, <1>2, <1>3, <1>4, <1>5, <1>6, <1>7, <1>8, <1>9
<1> QED
  BY <1>10, <1>11

-----------------------------------------------------------------------------
(* The locks of open cleanups survive every step. *)
LEMMA LocksStep ==
    ASSUME TypeOK, LocksHold, [Next]_vars
    PROVE  LocksHold'
<1>1. CASE UNCHANGED <<rows, call, copy, log>>
  BY <1>1 DEF LocksHold
<1>2. ASSUME NEW p \in Callers, OnlyReads(p)
      PROVE  LocksHold'
  <2>1. CASE call' = call
    BY <1>2, <2>1 DEF LocksHold, OnlyReads
  <2>2. ASSUME NEW state, state.op # "removeExpired", call' = [call EXCEPT ![p] = state]
        PROVE  LocksHold'
    BY <1>2, <2>2 DEF LocksHold, OnlyReads, TypeOK
  <2>3. ASSUME NEW c \in Cutoffs, RemoveExpired(p, c)
        PROVE  LocksHold'
    BY <2>3, CallKinds DEF LocksHold, RemoveExpired, TypeOK
  <2>4. ASSUME NEW h \in Handles, LockExpired(p, h)
        PROVE  LocksHold'
    <3>1. PICK L : /\ call' = [call EXCEPT ![p] = Sweeping(call[p].cutoff, call[p].scan \ {h}, L)]
                   /\ \/ L = call[p].locked
                      \/ /\ L = call[p].locked \cup {h}
                         /\ Reclaimable(rows[h].expires_at, call[p].cutoff)
      BY <2>4 DEF LockExpired
    <3>2. rows' = rows /\ rows[h] # Absent /\ Unlocked(h) /\ call[p].op = "removeExpired"
      BY <2>4 DEF LockExpired, LocksHold
    <3>3. /\ call'[p].op = "removeExpired" /\ call'[p].locked = L
          /\ call'[p].scan = call[p].scan \ {h} /\ call'[p].cutoff = call[p].cutoff
          /\ \A q \in Callers \ {p} : call'[q] = call[q]
      BY <3>1, CallKinds DEF TypeOK
    <3>4. \A g \in L : \/ g \in call[p].locked
                       \/ g = h /\ Reclaimable(rows[h].expires_at, call[p].cutoff)
      BY <3>1
    <3> QED
      BY <3>2, <3>3, <3>4 DEF LocksHold, Unlocked
  <2> QED
    BY <1>2, <2>1, <2>2, <2>3, <2>4, CallKinds DEF OnlyReads
<1>3. ASSUME NEW p \in Callers, NEW h \in Handles, NEW token \in Tokens,
             Inserts(p, h, token)
      PROVE  LocksHold'
  <2> DEFINE row == [expires_at |-> ExpiresAt(token), version |-> 1,
                     payload |-> [body |-> token, version |-> 1]]
  <2>1. row \in Row
    BY ExpiresAtIsInt DEF Row, Payload
  <2> HIDE DEF row
  <2>2. /\ \A g \in Handles : rows[g] # Absent => rows'[g] = rows[g]
        /\ call' = call
    BY <1>3 DEF Inserts, TypeOK
  <2> QED
    BY <2>2 DEF LocksHold, TypeOK, SweepCall, UpdateCall, Idle
<1>4. ASSUME NEW p \in Callers, NEW h \in Handles, NEW token \in Tokens,
             NEW v \in Versions, Replaces(p, h, token, v)
      PROVE  LocksHold'
  <2>1. /\ \A g \in Handles \ {h} : rows'[g] = rows[g]
        /\ rows'[h] \in Row
        /\ call' = call /\ Unlocked(h)
    <3>1. [body |-> token, version |-> v + 1] \in Payload /\ ExpiresAt(token) \in Int
      BY ExpiresAtIsInt, MaxVersionAssumption DEF Payload
    <3>2. rows[h].version \in Nat \ {0}
      BY <1>4 DEF Replaces, Matches, TypeOK, Row
    <3> QED
      BY <1>4, <3>1, <3>2 DEF Replaces, ReplaceRow, Row, TypeOK
  <2>2. \A q \in Callers : call[q].op = "removeExpired" => call[q] \in SweepCall
    BY CallKinds DEF TypeOK, UpdateCall
  <2> QED
    BY <2>1, <2>2, AbsentAssumption DEF LocksHold, Unlocked, SweepCall
<1>5. ASSUME NEW p \in Callers, NEW H \in SUBSET Handles, Deletes(p, H)
      PROVE  LocksHold'
  <2>1. ASSUME NEW q \in Callers, call'[q].op = "removeExpired"
        PROVE  /\ call[q].op = "removeExpired" /\ q # p
               /\ call'[q].cutoff = call[q].cutoff /\ call'[q].locked = call[q].locked
               /\ call'[q].scan = call[q].scan \ H
    BY <1>5, <2>1, CallKinds DEF Deletes, Delete
  <2>2. \A q \in Callers \ {p} : call[q].op = "removeExpired" => call[q].locked \cap H = {}
    BY <1>5 DEF Deletes, LocksHold, Unlocked
  <2>3. \A g \in Handles \ H : rows'[g] = rows[g]
    BY <1>5 DEF Deletes, Delete
  <2>4. \A q \in Callers : call[q].op = "removeExpired" => call[q] \in SweepCall
    BY CallKinds DEF TypeOK, UpdateCall
  <2> QED
    BY <2>1, <2>2, <2>3, <2>4 DEF LocksHold, SweepCall
<1> QED
  BY <1>1, <1>2, <1>3, <1>4, <1>5, StepKinds

-----------------------------------------------------------------------------
(* The columns agree with the payload after every step: in particular the
   version column, computed from its old value, meets the version encoded from
   the caller's expectation because the guard made the two equal. *)
LEMMA MirrorStep ==
    ASSUME TypeOK, ColumnsMirrorPayload, [Next]_vars
    PROVE  ColumnsMirrorPayload'
<1>1. CASE UNCHANGED rows
  BY <1>1 DEF ColumnsMirrorPayload
<1>2. ASSUME NEW p \in Callers, NEW h \in Handles, NEW token \in Tokens,
             Inserts(p, h, token)
      PROVE  ColumnsMirrorPayload'
  <2>1. /\ rows'[h].version = rows'[h].payload.version
        /\ rows'[h].expires_at = ExpiresAt(rows'[h].payload.body)
        /\ \A g \in Handles \ {h} : rows'[g] = rows[g]
    BY <1>2 DEF Inserts, TypeOK
  <2> QED
    BY <2>1 DEF ColumnsMirrorPayload
<1>3. ASSUME NEW p \in Callers, NEW h \in Handles, NEW token \in Tokens,
             NEW v \in Versions, Replaces(p, h, token, v)
      PROVE  ColumnsMirrorPayload'
  <2>1. /\ rows'[h].version = rows[h].version + 1
        /\ rows'[h].payload = [body |-> token, version |-> v + 1]
        /\ rows'[h].expires_at = ExpiresAt(token)
        /\ \A g \in Handles \ {h} : rows'[g] = rows[g]
    BY <1>3 DEF Replaces, ReplaceRow, TypeOK
  <2>2. rows[h].version = v
    BY <1>3 DEF Replaces, Matches
  <2> QED
    BY <2>1, <2>2 DEF ColumnsMirrorPayload
<1>4. ASSUME NEW p \in Callers, NEW H \in SUBSET Handles, Deletes(p, H)
      PROVE  ColumnsMirrorPayload'
  <2>1. \A g \in Handles : rows'[g] # Absent => rows'[g] = rows[g]
    BY <1>4 DEF Deletes, Delete
  <2> QED
    BY <2>1 DEF ColumnsMirrorPayload
<1> QED
  BY <1>1, <1>2, <1>3, <1>4, StepKinds DEF OnlyReads

-----------------------------------------------------------------------------
(* A log of writes grows at its end only, by the version after the last; callers'
   copies stay entries of it. *)
History == VersionsAreHistory /\ CopiesAreHistory

(* No call loses a write, applies one twice or makes a copy stand for content the
   row never held. *)
LEMMA HistoryStep ==
    ASSUME TypeOK, History, [Next]_vars
    PROVE  History'
<1> USE DEF History
<1>1. CASE UNCHANGED <<rows, call, copy, log>>
  BY <1>1 DEF VersionsAreHistory, CopiesAreHistory
<1>2. ASSUME NEW p \in Callers, OnlyReads(p)
      PROVE  History'
  <2>1. VersionsAreHistory'
    BY <1>2 DEF VersionsAreHistory, OnlyReads
  <2>2. CASE copy' = copy
    BY <1>2, <2>1, <2>2 DEF CopiesAreHistory, OnlyReads
  <2>3. ASSUME NEW h \in Handles, rows[h] # Absent, WriteBack(p, h, rows[h].payload)
        PROVE  CopiesAreHistory'
    <3>1. /\ copy'[p] = [handle |-> h, payload |-> rows[h].payload]
          /\ \A q \in Callers \ {p} : copy'[q] = copy[q]
          /\ log' = log
      BY <1>2, <2>3 DEF WriteBack, TypeOK, OnlyReads
    <3>2. Len(log[h]) \in Nat /\ rows[h].version \in Nat \ {0}
      BY <2>3 DEF TypeOK, Row
    <3>3. /\ rows[h].payload = log[h][Len(log[h])]
          /\ rows[h].payload.version = Len(log[h])
      BY <2>3, <3>2 DEF VersionsAreHistory
    <3> QED
      BY <3>1, <3>2, <3>3 DEF CopiesAreHistory
  <2> QED
    BY <1>2, <2>1, <2>2, <2>3 DEF OnlyReads
<1>3. ASSUME NEW p \in Callers, NEW h \in Handles, NEW token \in Tokens,
             Inserts(p, h, token)
      PROVE  History'
  <2> DEFINE payload == [body |-> token, version |-> 1]
             row == [expires_at |-> ExpiresAt(token), version |-> 1, payload |-> payload]
  <2>1. /\ payload \in Payload /\ row \in Row
        /\ row.version = 1 /\ row.payload = payload /\ payload.version = 1
    BY ExpiresAtIsInt DEF Payload, Row
  <2>2. /\ rows'[h] = row /\ log'[h] = <<payload>>
        /\ \A g \in Handles \ {h} : rows'[g] = rows[g] /\ log'[g] = log[g]
    BY <1>3 DEF Inserts, TypeOK
  <2>3. copy' = copy \/ copy' = [copy EXCEPT ![p] = [handle |-> h, payload |-> payload]]
    BY <1>3 DEF Inserts, WriteBack
  <2> HIDE DEF payload, row
  <2>4. Len(log'[h]) = 1 /\ log'[h][1] = payload /\ log'[h] # <<>>
    BY <2>1, <2>2, OneElementSeq
  <2>5. VersionsAreHistory'
    <3>1. rows'[h] # Absent
      BY <2>1, <2>2, AbsentAssumption
    <3>2. \A n \in 1..Len(log'[h]) : n = 1
      BY <2>4
    <3>3. /\ rows'[h].version = Len(log'[h])
          /\ rows'[h].payload = log'[h][Len(log'[h])]
          /\ \A n \in 1..Len(log'[h]) : log'[h][n].version = n
      BY <2>1, <2>2, <2>4, <3>2
    <3> QED
      BY <2>2, <2>4, <3>1, <3>3 DEF VersionsAreHistory
  <2>6. \A q \in Callers : copy[q] # Absent => copy[q].handle # h
    <3>1. log[h] = <<>> /\ Len(log[h]) = 0
      BY <1>3 DEF Inserts, VersionsAreHistory
    <3>2. \A q \in Callers : copy[q] # Absent => copy[q].payload.version \in Nat \ {0}
      BY DEF TypeOK, Copy, Payload
    <3> QED
      BY <3>1, <3>2 DEF CopiesAreHistory
  <2>7. CopiesAreHistory'
    <3> SUFFICES ASSUME NEW q \in Callers, copy'[q] # Absent
                 PROVE  LET g == copy'[q].handle
                            n == copy'[q].payload.version
                        IN  n <= Len(log'[g]) /\ copy'[q].payload = log'[g][n]
      BY DEF CopiesAreHistory
    <3>1. CASE copy'[q] = copy[q]
      <4>1. copy[q].handle \in Handles \ {h}
        BY <2>6, <3>1 DEF TypeOK, Copy
      <4> QED
        BY <3>1, <4>1, <2>2 DEF CopiesAreHistory
    <3>2. CASE copy'[q] = [handle |-> h, payload |-> payload]
      BY <3>2, <2>1, <2>4
    <3> QED
      BY <2>3, <3>1, <3>2 DEF TypeOK
  <2> QED
    BY <2>5, <2>7
<1>4. ASSUME NEW p \in Callers, NEW h \in Handles, NEW token \in Tokens,
             NEW v \in Versions, Replaces(p, h, token, v)
      PROVE  History'
  <2> DEFINE payload == [body |-> token, version |-> v + 1]
  <2>1. payload \in Payload /\ payload.version = v + 1
    BY MaxVersionAssumption DEF Payload
  <2>2. rows[h] # Absent /\ rows[h] \in Row /\ v = Len(log[h]) /\ v \in Nat \ {0}
    BY <1>4, MaxVersionAssumption DEF Replaces, Matches, VersionsAreHistory, TypeOK
  <2>3. /\ rows'[h] = [expires_at |-> ExpiresAt(token), version |-> rows[h].version + 1,
                       payload |-> payload]
        /\ log'[h] = Append(log[h], payload)
        /\ \A g \in Handles \ {h} : rows'[g] = rows[g] /\ log'[g] = log[g]
    BY <1>4 DEF Replaces, ReplaceRow, TypeOK
  <2>4. copy' = copy \/ copy' = [copy EXCEPT ![p] = [handle |-> h, payload |-> payload]]
    BY <1>4 DEF Replaces, WriteBack
  <2>5. rows'[h].version = v + 1 /\ rows'[h].payload = payload /\ rows'[h] # Absent
    <3>1. rows[h].version = v
      BY <1>4 DEF Replaces, Matches
    <3>2. rows'[h] \in Row
      BY <2>1, <2>2, <2>3, ExpiresAtIsInt DEF Row
    <3> QED
      BY <2>3, <3>1, <3>2, AbsentAssumption
  <2> HIDE DEF payload
  <2>6. /\ Len(log'[h]) = v + 1
        /\ \A n \in 1..v : log'[h][n] = log[h][n]
        /\ log'[h][v + 1] = payload
        /\ log'[h] # <<>>
    BY <2>1, <2>2, <2>3, AppendProperties DEF TypeOK
  <2>7. VersionsAreHistory'
    <3>1. \A n \in 1..v + 1 : log'[h][n].version = n
      BY <2>1, <2>2, <2>6 DEF VersionsAreHistory
    <3> QED
      BY <2>2, <2>3, <2>5, <2>6, <3>1 DEF VersionsAreHistory
  <2>8. CopiesAreHistory'
    <3> SUFFICES ASSUME NEW q \in Callers, copy'[q] # Absent
                 PROVE  LET g == copy'[q].handle
                            n == copy'[q].payload.version
                        IN  n <= Len(log'[g]) /\ copy'[q].payload = log'[g][n]
      BY DEF CopiesAreHistory
    <3>1. CASE copy'[q] = copy[q]
      <4>1. copy[q].handle \in Handles /\ copy[q].payload.version \in Nat \ {0}
        BY <3>1 DEF TypeOK, Copy, Payload
      <4>2. CASE copy[q].handle = h
        BY <2>2, <2>6, <3>1, <4>1, <4>2 DEF CopiesAreHistory
      <4>3. CASE copy[q].handle # h
        BY <2>3, <3>1, <4>1, <4>3 DEF CopiesAreHistory
      <4> QED
        BY <4>2, <4>3
    <3>2. CASE copy'[q] = [handle |-> h, payload |-> payload]
      BY <3>2, <2>1, <2>2, <2>6
    <3> QED
      BY <2>4, <3>1, <3>2 DEF TypeOK
  <2> QED
    BY <2>7, <2>8
<1>5. ASSUME NEW p \in Callers, NEW H \in SUBSET Handles, Deletes(p, H)
      PROVE  History'
  <2>1. \A g \in Handles : IF g \in H THEN rows'[g] = Absent /\ log'[g] = <<>>
                          ELSE rows'[g] = rows[g] /\ log'[g] = log[g]
    BY <1>5 DEF Deletes, Delete
  <2>2. \A q \in Callers : copy'[q] # Absent => copy'[q] = copy[q] /\ copy[q].handle \notin H
    BY <1>5 DEF Deletes, Delete
  <2>3. \A q \in Callers : copy[q] # Absent => copy[q].handle \in Handles
    BY DEF TypeOK, Copy
  <2>4. VersionsAreHistory'
    <3> SUFFICES ASSUME NEW g \in Handles
                 PROVE  /\ rows'[g] = Absent <=> log'[g] = <<>>
                        /\ rows'[g] # Absent => /\ rows'[g].version = Len(log'[g])
                                                /\ rows'[g].payload = log'[g][Len(log'[g])]
                        /\ \A n \in 1..Len(log'[g]) : log'[g][n].version = n
      BY DEF VersionsAreHistory
    <3>1. CASE g \in H
      BY <2>1, <3>1
    <3>2. CASE g \notin H
      BY <2>1, <3>2 DEF VersionsAreHistory
    <3> QED
      BY <3>1, <3>2
  <2>5. CopiesAreHistory'
    BY <2>1, <2>2, <2>3 DEF CopiesAreHistory
  <2> QED
    BY <2>4, <2>5
<1> QED
  BY <1>1, <1>2, <1>3, <1>4, <1>5, StepKinds

-----------------------------------------------------------------------------
(* The inductive invariant of the store. *)
Inv == TypeOK /\ LocksHold /\ ColumnsMirrorPayload /\ History

(* The empty store satisfies the invariant. *)
LEMMA InitInv == Init => Inv
BY CallKinds, AbsentAssumption
   DEF Init, Inv, TypeOK, LocksHold, ColumnsMirrorPayload, History, VersionsAreHistory,
       CopiesAreHistory

(* No call breaks the invariant. *)
LEMMA InvStep == Inv /\ [Next]_vars => Inv'
BY TypeStep, LocksStep, MirrorStep, HistoryStep DEF Inv

(* The inductive invariant holds in every behaviour; the named theorems after it
   are its conjuncts. *)
THEOREM Invariance == Spec => []Inv
BY InitInv, InvStep, PTL DEF Spec

(* Every variable keeps its type. *)
THEOREM TypeCorrect == Spec => []TypeOK
BY Invariance, PTL DEF Inv

(* The version and expires_at columns always say what the payload says. *)
THEOREM ColumnsCorrect == Spec => []ColumnsMirrorPayload
BY Invariance, PTL DEF Inv

(* No write of a refresh token is lost or applied twice. *)
THEOREM HistoryCorrect == Spec => []VersionsAreHistory
BY Invariance, PTL DEF Inv, History

(* No write of a refresh token replaces content its caller has not seen. *)
THEOREM CopiesCorrect == Spec => []CopiesAreHistory
BY Invariance, PTL DEF Inv, History

(* A cleanup holds expired rows only, until it commits. *)
THEOREM LocksCorrect == Spec => []LocksHold
BY Invariance, PTL DEF Inv

-----------------------------------------------------------------------------
(* Cleanup takes expired tokens only, even while updates extend lifetimes, as
   long as the lifetimes that callers store fit a duration. *)
LEMMA ReclaimStep ==
    ASSUME \A token \in Tokens : Representable(token.lifetime),
           Inv, [Next]_vars,
           NEW h \in Handles, NEW p \in Callers,
           call[p].op = "removeExpired", call'[p] = Idle,
           rows[h] # Absent, rows'[h] = Absent
    PROVE  Expiry(rows[h].payload.body.creation, rows[h].payload.body.lifetime)
             < call[p].cutoff
<1> DEFINE token == rows[h].payload.body
<1>1. PICK q \in Callers, H \in SUBSET Handles : Deletes(q, H)
  <2>1. ASSUME NEW q \in Callers, NEW g \in Handles, NEW t \in Tokens, Inserts(q, g, t)
        PROVE  FALSE
    BY <2>1 DEF Inserts, Inv, TypeOK
  <2>2. ASSUME NEW q \in Callers, NEW g \in Handles, NEW t \in Tokens, NEW v \in Versions,
               Replaces(q, g, t, v)
        PROVE  FALSE
    BY <2>2, CallKinds DEF Replaces
  <2> QED
    BY <2>1, <2>2, StepKinds DEF OnlyReads, Inv
<1>2. h \in H
  BY <1>1 DEF Deletes, Delete
<1>3. q = p
  BY <1>1, CallKinds DEF Deletes, Delete
<1>4. H = call[p].locked
  BY <1>1, <1>3, CallKinds DEF Deletes
<1>5. call[p] \in SweepCall
  BY CallKinds DEF Inv, TypeOK, UpdateCall
<1>6. call[p].cutoff \in Int
  BY <1>5, CutoffsAssumption DEF SweepCall
<1>7. token \in Tokens
  BY DEF Inv, TypeOK, Row, Payload
<1>8. Reclaimable(DerivedExpiry(token.creation, token.lifetime), call[p].cutoff)
  BY <1>2, <1>4, <1>5 DEF Inv, LocksHold, ColumnsMirrorPayload, SweepCall, ExpiresAt
<1>9. token.creation \in Int /\ token.lifetime \in Int
  BY <1>7, TokensAssumption
<1> QED
  BY <1>6, <1>7, <1>8, <1>9, ReclaimIsSafe

(* RemoveExpired deletes only tokens that expire before the cutoff, by their own
   creation time and lifetime, provided that no lifetime overflows a duration. *)
THEOREM ReclaimCorrect ==
    ASSUME \A token \in Tokens : Representable(token.lifetime)
    PROVE  Spec => ReclaimOnlyExpired
<1>1. Inv /\ [Next]_vars =>
        [\A h \in Handles, p \in Callers :
          /\ call[p].op = "removeExpired"
          /\ rows[h] # Absent
          /\ rows'[h] = Absent
          /\ call'[p] = Idle
          => LET token == rows[h].payload.body
             IN  Expiry(token.creation, token.lifetime) < call[p].cutoff]_vars
  BY ReclaimStep
<1> QED
  BY <1>1, Invariance, PTL DEF Spec, ReclaimOnlyExpired

-----------------------------------------------------------------------------
(* The refinement: every step of the table is a step of the atomic versioned
   store, or changes nothing of it. *)

LEMMA StoredPayloadsOf ==
    ASSUME TypeOK
    PROVE  \A h \in Handles :
             /\ StoredPayloads[h] = IF rows[h] = Absent THEN Absent ELSE rows[h].payload
             /\ (StoredPayloads[h] = Absent) <=> (rows[h] = Absent)
BY AbsentAssumption DEF StoredPayloads, TypeOK, Row

(* A row written under a handle is the record put under it. *)
LEMMA StoredPayloadsPut ==
    ASSUME TypeOK, NEW h \in Handles, NEW row \in Row, rows' = [rows EXCEPT ![h] = row]
    PROVE  StoredPayloads' = [StoredPayloads EXCEPT ![h] = row.payload]
<1>1. \A g \in Handles : rows'[g] = IF g = h THEN row ELSE rows[g]
  BY DEF TypeOK
<1>2. row # Absent
  BY AbsentAssumption
<1>3. StoredPayloads' = [g \in Handles |-> IF g = h THEN row.payload ELSE StoredPayloads[g]]
  BY <1>1, <1>2 DEF StoredPayloads
<1>4. StoredPayloads \in [Handles -> {StoredPayloads[g] : g \in Handles}]
  BY DEF StoredPayloads
<1> QED
  BY <1>3, <1>4

(* Every step of the store is a call of the abstract store that takes effect at
   once, or is invisible in what reads return and callers are answered. *)
LEMMA RefinesStep ==
    ASSUME Inv, [Next]_vars
    PROVE  [VS!Next]_(VS!vars)
<1> USE DEF VS!Answer, Answer
<1>a. TypeOK
  BY DEF Inv
<1>b. \A p \in Callers : Fail(p, "store") \/ Fail(p, "get") \/ Fail(p, "update")
                         \/ Fail(p, "remove") \/ Fail(p, "removeExpired") => VS!Next
  BY DEF Fail, VS!Next, VS!Fail, StoredPayloads
<1>c. ASSUME NEW h \in Handles, NEW body
      PROVE  ~VS!Collision(h, body)
  BY DEF VS!Collision, NeverCollide
<1>1. ASSUME NEW p \in Callers, NEW h \in Handles, NEW token \in Tokens,
             StoreRefreshToken(p, h, token)
      PROVE  VS!Next
  <2> DEFINE payload == [body |-> token, version |-> 1]
             row == [expires_at |-> ExpiresAt(token), version |-> 1, payload |-> payload]
  <2>1. row \in Row /\ row.payload = payload
    BY ExpiresAtIsInt DEF Row, Payload
  <2>2. CASE Fail(p, "store")
    BY <2>2, <1>b
  <2>3. CASE rows[h] # Absent /\ Answer(p, "store", "duplicate") /\ rows' = rows
    <3>1. VS!Create(p, h, token)
      BY <2>3, <1>a, StoredPayloadsOf DEF VS!Create, StoredPayloads
    <3> QED
      BY <3>1 DEF VS!Next
  <2>4. CASE /\ rows[h] = Absent
             /\ rows' = [rows EXCEPT ![h] = row]
             /\ Answer(p, "store", "ok") \/ Answer(p, "store", "wrapped")
    <3>1. StoredPayloads' = [StoredPayloads EXCEPT ![h] = payload]
      BY <1>a, <2>1, <2>4, StoredPayloadsPut
    <3>2. StoredPayloads[h] = Absent
      BY <1>a, <2>4, StoredPayloadsOf
    <3>3. VS!Create(p, h, token)
      BY <2>4, <3>1, <3>2, <1>c DEF VS!Create, VS!Put
    <3> QED
      BY <3>3 DEF VS!Next
  <2> QED
    BY <1>1, <2>2, <2>3, <2>4 DEF StoreRefreshToken
<1>2. ASSUME NEW p \in Callers, NEW h \in Handles, NEW token \in Tokens,
             NEW v \in Versions, UpdateRefreshToken(p, h, token, v)
      PROVE  VS!Next \/ UNCHANGED VS!vars
  <2> DEFINE payload == [body |-> token, version |-> v + 1]
             row == [expires_at |-> ExpiresAt(token), version |-> rows[h].version + 1,
                     payload |-> payload]
  <2>1. CASE Fail(p, "update")
    BY <2>1, <1>b
  <2>2. CASE UNCHANGED <<rows, reply>>
    BY <2>2 DEF VS!vars, StoredPayloads
  <2>3. CASE /\ Matches(h, v)
             /\ rows' = [rows EXCEPT ![h] = row]
             /\ Answer(p, "update", "ok") \/ Answer(p, "update", "wrapped")
    <3>1. rows[h] \in Row /\ rows[h].version = v /\ rows[h] # Absent
      BY <2>3, <1>a DEF Matches, TypeOK
    <3>2. row \in Row /\ row.payload = payload
      BY <3>1, ExpiresAtIsInt, MaxVersionAssumption DEF Row, Payload
    <3>3. StoredPayloads' = [StoredPayloads EXCEPT ![h] = payload]
      BY <1>a, <2>3, <3>2, StoredPayloadsPut
    <3>4. StoredPayloads[h] # Absent /\ StoredPayloads[h].version = v
      BY <1>a, <3>1, StoredPayloadsOf DEF Inv, ColumnsMirrorPayload
    <3>5. VS!Replace(p, h, token, v)
      BY <2>3, <3>3, <3>4, <1>c DEF VS!Replace, VS!Put
    <3> QED
      BY <3>5 DEF VS!Next
  <2> QED
    BY <1>2, <2>1, <2>2, <2>3 DEF UpdateRefreshToken, ReplaceRow
<1>3. ASSUME NEW p \in Callers, NEW h \in Handles, GetRefreshToken(p, h)
      PROVE  VS!Next
  <2>1. CASE Fail(p, "get")
    BY <2>1, <1>b
  <2>2. CASE ~Fail(p, "get")
    <3>1. VS!Read(p, h)
      BY <1>3, <2>2, <1>a, StoredPayloadsOf DEF GetRefreshToken, VS!Read, StoredPayloads
    <3> QED
      BY <3>1 DEF VS!Next
  <2> QED
    BY <2>1, <2>2
<1>d. ASSUME NEW p \in Callers, NEW H \in SUBSET Handles, Delete(p, H)
      PROVE  VS!Drop(H)
  BY <1>d, StoredPayloadsOf, <1>a DEF Delete, VS!Drop, StoredPayloads
<1>4. ASSUME NEW p \in Callers, NEW h \in Handles, RemoveRefreshToken(p, h)
      PROVE  VS!Next
  <2>1. CASE Fail(p, "remove")
    BY <2>1, <1>b
  <2>2. CASE Delete(p, {h}) /\ \E err \in {"ok", "wrapped"} : Answer(p, "remove", err)
    <3>1. VS!Remove(p, h)
      BY <2>2, <1>d DEF VS!Remove
    <3> QED
      BY <3>1 DEF VS!Next
  <2> QED
    BY <1>4, <2>1, <2>2 DEF RemoveRefreshToken
<1>5. ASSUME NEW p \in Callers, RecheckExistence(p)
      PROVE  VS!Next
  <2>1. PICK h \in Handles, v \in Versions : call[p] = Updating(h, v)
    BY <1>5, <1>a, CallKinds DEF RecheckExistence, TypeOK, UpdateCall, SweepCall, Updating
  <2>2. call[p].handle = h
    BY <2>1, CallKinds
  <2>3. PICK token \in Tokens : TRUE
    BY TokensAssumption
  <2>4. CASE Answer(p, "update", "wrapped")
    BY <1>5, <2>4 DEF VS!Next, VS!Fail, RecheckExistence, StoredPayloads
  <2>5. CASE ~Answer(p, "update", "wrapped")
    <3>1. VS!Replace(p, h, token, v)
      BY <1>5, <2>2, <2>5, <1>a, StoredPayloadsOf
         DEF RecheckExistence, VS!Replace, StoredPayloads
    <3> QED
      BY <3>1 DEF VS!Next
  <2> QED
    BY <2>4, <2>5
<1>6. ASSUME NEW p \in Callers, FinishRemoveExpired(p)
      PROVE  VS!Next
  <2>1. call[p] \in SweepCall
    BY <1>6, <1>a, CallKinds DEF FinishRemoveExpired, TypeOK, UpdateCall
  <2> DEFINE H == call[p].locked
             c == call[p].cutoff
  <2>2. H \in SUBSET Handles /\ c \in Cutoffs
    BY <2>1 DEF SweepCall
  <2>3. ASSUME NEW h \in H
        PROVE  StoredPayloads[h] # Absent /\ TokenExpired(StoredPayloads[h].body, c)
    BY <1>6, <2>2, <2>3, <1>a, StoredPayloadsOf
       DEF FinishRemoveExpired, Inv, LocksHold, ColumnsMirrorPayload, TokenExpired
  <2>4. VS!Drop(H)
    BY <1>6, <2>2, <1>d DEF FinishRemoveExpired
  <2>5. \/ reply' = [caller |-> p, op |-> "removeExpired", err |-> "ok",
                     count |-> Cardinality(H)]
        \/ Answer(p, "removeExpired", "wrapped")
    BY <1>6 DEF FinishRemoveExpired
  <2>6. VS!Cardinality(H) = Cardinality(H)
    BY DEF VS!Cardinality, Cardinality
  <2>7. VS!Reclaim(p, H, c)
    BY <2>3, <2>4, <2>5, <2>6 DEF VS!Reclaim
  <2> QED
    BY <2>2, <2>7 DEF VS!Next
<1>7. ASSUME NEW p \in Callers, AbortRemoveExpired(p)
      PROVE  VS!Next
  BY <1>7, <1>b DEF AbortRemoveExpired
<1>8. ASSUME UNCHANGED <<rows, reply>>
      PROVE  UNCHANGED VS!vars
  BY <1>8 DEF VS!vars, StoredPayloads
<1>9. ASSUME NEW p \in Callers, NEW h \in Handles, LockExpired(p, h)
      PROVE  UNCHANGED VS!vars
  BY <1>8, <1>9 DEF LockExpired
<1>10. ASSUME NEW p \in Callers, NEW c \in Cutoffs, RemoveExpired(p, c)
      PROVE  UNCHANGED VS!vars
  BY <1>8, <1>10 DEF RemoveExpired
<1>11. CASE UNCHANGED vars
  BY <1>8, <1>11 DEF vars
<1> QED
  BY <1>1, <1>2, <1>3, <1>4, <1>5, <1>6, <1>7, <1>9, <1>10, <1>11 DEF Next

(* Every behaviour of the refresh token store is one of the atomic versioned
   store: the two-statement update and the row-by-row cleanup included, every
   call takes effect at one instant. *)
THEOREM Refinement == Spec => ImplementsVersionedStore
<1>1. Init => VS!Init
  BY DEF Init, VS!Init, StoredPayloads
<1>2. Inv /\ [Next]_vars => [VS!Next]_(VS!vars)
  BY RefinesStep
<1> QED
  BY <1>1, <1>2, Invariance, PTL DEF Spec, ImplementsVersionedStore, VS!Spec
=============================================================================
