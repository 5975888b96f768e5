--------------------------- MODULE RowTableProofs ---------------------------
(***************************************************************************)
(* What the statements of RowTable do to the rows and to the open calls,   *)
(* for every table that is built from them.                                *)
(***************************************************************************)
EXTENDS RowTable, ExpiryProofs

DeleteOps == {"collect", "revoke", "removeExpired"}

(* An open call is one of the DELETEs, or the list of a revocation *)
CallShape ==
    /\ call = [p \in Callers |-> call[p]]
    /\ \A p \in Callers : Open(p) =>
          /\ call[p].op \in DeleteOps
          /\ call[p].scan \in SUBSET Keys
          /\ call[p].locked \in SUBSET Keys

(* No row is locked twice *)
LocksApart ==
    \A p, q \in Callers :
        p # q /\ Open(p) /\ Open(q) => call[p].locked \cap call[q].locked = {}

(* The removal of the rows in H, by a caller that holds them or finds them free *)
Deletes(p, H) ==
    /\ Remove(p, H)
    /\ \/ ~Open(p) /\ \E k \in Keys : H = {k} /\ Unlocked(k)
       \/ Open(p) /\ call[p].op # "collect" /\ call[p].scan = {} /\ H = call[p].locked

(* The parts of a call that is not idle *)
LEMMA CallParts ==
    /\ Idle.op = "none"
    /\ \A op, arg, s, l : /\ Deleting(op, arg, s, l).op = op
                          /\ Deleting(op, arg, s, l).arg = arg
                          /\ Deleting(op, arg, s, l).scan = s
                          /\ Deleting(op, arg, s, l).locked = l
                          /\ op \in DeleteOps => Deleting(op, arg, s, l) # Idle
<1>1. /\ Idle.op = "none"
      /\ \A op, arg, s, l : /\ Deleting(op, arg, s, l).op = op
                            /\ Deleting(op, arg, s, l).arg = arg
                            /\ Deleting(op, arg, s, l).scan = s
                            /\ Deleting(op, arg, s, l).locked = l
  BY DEF Idle, Deleting
<1>2. "none" \notin DeleteOps
  BY DEF DeleteOps
<1> QED BY <1>1, <1>2

-----------------------------------------------------------------------------
(* A call that begins, goes on or changes its statement, and locks no row that
   another holds *)
LEMMA CallGoesOn ==
    ASSUME CallShape, LocksApart, NEW p \in Callers, NEW op \in DeleteOps, NEW arg,
           NEW s \in SUBSET Keys, NEW l \in SUBSET Keys,
           call' = [call EXCEPT ![p] = Deleting(op, arg, s, l)],
           \A q \in Callers \ {p} : Open(q) => l \cap call[q].locked = {}
    PROVE  /\ Open(p)'
           /\ call'[p] = Deleting(op, arg, s, l)
           /\ call'[p].op = op /\ call'[p].arg = arg
           /\ call'[p].scan = s /\ call'[p].locked = l
           /\ \A q \in Callers \ {p} : call'[q] = call[q] /\ (Open(q)' <=> Open(q))
           /\ CallShape' /\ LocksApart'
<1>1. /\ call'[p] = Deleting(op, arg, s, l)
      /\ \A q \in Callers \ {p} : call'[q] = call[q]
      /\ call' = [q \in Callers |-> call'[q]]
  BY DEF CallShape
<1>2. /\ call'[p].op = op /\ call'[p].arg = arg
      /\ call'[p].scan = s /\ call'[p].locked = l
      /\ call'[p] # Idle
  BY <1>1, CallParts
<1>3. Open(p)' /\ \A q \in Callers \ {p} : Open(q)' <=> Open(q)
  BY <1>1, <1>2 DEF Open
<1>4. CallShape'
  BY <1>1, <1>2, <1>3 DEF CallShape
<1>5. LocksApart'
  BY <1>1, <1>2, <1>3 DEF LocksApart
<1> QED BY <1>1, <1>2, <1>3, <1>4, <1>5

(* A call that ends without touching a row *)
LEMMA CallEnds ==
    ASSUME CallShape, LocksApart, NEW p \in Callers, call' = [call EXCEPT ![p] = Idle]
    PROVE  /\ ~Open(p)'
           /\ \A q \in Callers \ {p} : call'[q] = call[q] /\ (Open(q)' <=> Open(q))
           /\ CallShape' /\ LocksApart'
<1>1. /\ call'[p] = Idle
      /\ \A q \in Callers \ {p} : call'[q] = call[q]
      /\ call' = [q \in Callers |-> call'[q]]
  BY DEF CallShape
<1>2. ~Open(p)' /\ \A q \in Callers \ {p} : Open(q)' <=> Open(q)
  BY <1>1 DEF Open
<1>3. CallShape'
  BY <1>1, <1>2 DEF CallShape
<1>4. LocksApart'
  BY <1>1, <1>2 DEF LocksApart
<1> QED BY <1>1, <1>2, <1>3, <1>4

(* A statement that leaves the open calls alone *)
LEMMA CallsStay ==
    ASSUME CallShape, LocksApart, call' = call
    PROVE  /\ \A q \in Callers : Open(q)' <=> Open(q)
           /\ CallShape' /\ LocksApart'
BY DEF CallShape, LocksApart, Open

(* A removal takes the rows in H and nothing else; the other open calls go on, hold
   what they held, and look no further for those rows *)
LEMMA RowsGo ==
    ASSUME CallShape, LocksApart, NEW p \in Callers, NEW H \in SUBSET Keys, Deletes(p, H)
    PROVE  /\ rows' = [k \in Keys |-> IF k \in H THEN Absent ELSE rows[k]]
           /\ call'[p] = Idle /\ ~Open(p)'
           /\ \A q \in Callers \ {p} : Open(q)' <=> Open(q)
           /\ \A q \in Callers \ {p} : ~Open(q) => call'[q] = Idle
           /\ \A q \in Callers \ {p} : Open(q) =>
                 /\ call'[q].op = call[q].op /\ call'[q].arg = call[q].arg
                 /\ call'[q].scan = IF call[q].op = "collect" THEN call[q].scan
                                                              ELSE call[q].scan \ H
                 /\ call'[q].locked = call[q].locked
                 /\ call[q].locked \cap H = {}
                 /\ \/ call'[q] = call[q]
                    \/ call'[q] = Deleting(call[q].op, call[q].arg, call[q].scan \ H,
                                           call[q].locked)
           /\ CallShape' /\ LocksApart'
<1>1. /\ rows' = [k \in Keys |-> IF k \in H THEN Absent ELSE rows[k]]
      /\ call' = [q \in Callers |-> IF q = p THEN Idle ELSE Remaining(q, H)]
  BY DEF Deletes, Remove
<1>2. call'[p] = Idle /\ ~Open(p)'
  BY <1>1 DEF Open
<1>3. ASSUME NEW q \in Callers \ {p}, ~Open(q)
      PROVE  call'[q] = Idle /\ ~Open(q)'
  BY <1>1, <1>3 DEF Remaining, Open
<1>4. ASSUME NEW q \in Callers \ {p}, Open(q)
      PROVE  /\ call'[q].op = call[q].op /\ call'[q].arg = call[q].arg
             /\ call'[q].scan = IF call[q].op = "collect" THEN call[q].scan
                                                          ELSE call[q].scan \ H
             /\ call'[q].locked = call[q].locked
             /\ Open(q)'
             /\ \/ call'[q] = call[q]
                \/ call'[q] = Deleting(call[q].op, call[q].arg, call[q].scan \ H, call[q].locked)
  <2>1. call[q].op \in DeleteOps
    BY <1>4 DEF CallShape
  <2>2. CASE call[q].op = "collect"
    BY <1>1, <1>4, <2>2 DEF Remaining, Open
  <2>3. CASE call[q].op # "collect"
    <3>1. call'[q] = Deleting(call[q].op, call[q].arg, call[q].scan \ H, call[q].locked)
      BY <1>1, <1>4, <2>3 DEF Remaining
    <3> QED BY <2>1, <2>3, <3>1, CallParts DEF Open
  <2> QED BY <2>2, <2>3
<1>5. ASSUME NEW q \in Callers \ {p}, Open(q)
      PROVE  call[q].locked \cap H = {}
  BY <1>5 DEF Deletes, Unlocked, LocksApart
<1>6. CallShape'
  BY <1>1, <1>2, <1>3, <1>4 DEF CallShape
<1>7. LocksApart'
  BY <1>2, <1>3, <1>4 DEF LocksApart
<1> QED BY <1>1, <1>2, <1>3, <1>4, <1>5, <1>6, <1>7

(* A row that a statement does not change is expired as before *)
LEMMA ExpiredUnchanged ==
    ASSUME NEW k \in Keys, NEW cutoff, rows'[k] = rows[k]
    PROVE  Expired(k, cutoff)' <=> Expired(k, cutoff)
BY DEF Expired, Present
=============================================================================
