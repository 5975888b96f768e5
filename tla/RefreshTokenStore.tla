-------------------------- MODULE RefreshTokenStore --------------------------
(***************************************************************************)
(* The refresh token store: concurrent callers that store, read, update,   *)
(* remove and reclaim tokens through one PostgreSQL table.                 *)
(*                                                                         *)
(* A call that is one autocommitted statement is one action.  Two calls    *)
(* take several: an update whose statement matched no row looks the handle *)
(* up again, and the multi-row DELETE of a cleanup locks its rows one by   *)
(* one and removes them together when it commits.  A failed statement may  *)
(* have been committed (the answer was lost) or not: "wrapped" answers     *)
(* come in both kinds.                                                     *)
(***************************************************************************)
EXTENDS Expiry, FiniteSets, Sequences

CONSTANTS
    Handles,      \* primary keys of refresh_tokens
    Callers,      \* goroutines of the host processes that share the database
    Tokens,       \* what a caller stores, up to what the store reads of it
    Cutoffs,      \* instants handed to RemoveExpired
    MaxVersion,   \* bound: the largest expectedVersion a caller names
    Absent        \* no row, no answer, nothing read

Versions == 1..MaxVersion

(* A payload is the encoded model; its version is the one enc.Version holds *)
Payload == [body : Tokens, version : Nat \ {0}]
Row     == [expires_at : Int, version : Nat \ {0}, payload : Payload]
Copy    == [handle : Handles, payload : Payload]

ASSUME TokensAssumption == Tokens # {} /\ Tokens \subseteq [creation : Int, lifetime : Int]
ASSUME CutoffsAssumption == Cutoffs \subseteq Int
ASSUME MaxVersionAssumption == MaxVersion \in Nat \ {0}
ASSUME AbsentAssumption == Absent \notin Row /\ Absent \notin Payload /\ Absent \notin Copy

VARIABLES
    rows,    \* handle -> its row in refresh_tokens, or Absent
    call,    \* caller -> the call it has between two statements
    copy,    \* caller -> the token object the store last filled in for it, while
             \* the row it stands for lives
    reply,   \* the latest answer of the store
    log      \* auxiliary: handle -> the payloads written since it was stored

vars == <<rows, call, copy, reply, log>>

-----------------------------------------------------------------------------
Idle == [op |-> "none"]
Updating(h, expected) == [op |-> "update", handle |-> h, expected |-> expected]
Sweeping(c, scan, locked) ==
    [op |-> "removeExpired", cutoff |-> c, scan |-> scan, locked |-> locked]

(* enc.Version of a token stored for the first time *)
Fault_VersionFromZero == 0
FirstVersion == 1

ExpiresAt(token) == DerivedExpiry(token.creation, token.lifetime)

(* The DELETE of no other caller holds the lock on this row *)
Unlocked(h) ==
    \A q \in Callers : call[q].op = "removeExpired" => h \notin call[q].locked

Answer(p, op, err) == reply' = [caller |-> p, op |-> op, err |-> err]

(* The statement fails and changes nothing *)
Fail(p, op) == Answer(p, op, "wrapped") /\ UNCHANGED <<rows, copy, log>>

(* The object the caller passed in, or was returned, now holds this payload *)
Fault_NoVersionWriteBack(p, h, payload) ==
    LET version == IF copy[p] = Absent THEN payload.version ELSE copy[p].payload.version
    IN  copy' = [copy EXCEPT ![p] = [handle |-> h, payload |-> [payload EXCEPT !.version = version]]]

WriteBack(p, h, payload) ==
    copy' = [copy EXCEPT ![p] = [handle |-> h, payload |-> payload]]

(* Deletion ends the life of a row: no later statement of an open DELETE sees
   a row stored afterwards under its handle, and objects read from it go stale *)
Delete(p, H) ==
    /\ rows' = [h \in Handles |-> IF h \in H THEN Absent ELSE rows[h]]
    /\ log' = [h \in Handles |-> IF h \in H THEN <<>> ELSE log[h]]
    /\ copy' = [q \in Callers |->
                  IF copy[q] # Absent /\ copy[q].handle \in H THEN Absent ELSE copy[q]]
    /\ call' = [q \in Callers |->
                  IF q = p THEN Idle
                  ELSE IF call[q].op = "removeExpired"
                       THEN Sweeping(call[q].cutoff, call[q].scan \ H, call[q].locked)
                       ELSE call[q]]

-----------------------------------------------------------------------------
StoreRefreshToken(p, h, token) ==
    LET payload == [body |-> token, version |-> FirstVersion] IN
    /\ call[p] = Idle
    /\ \/ /\ rows[h] = Absent
          /\ rows' = [rows EXCEPT ![h] = [expires_at |-> ExpiresAt(token),
                                          version |-> FirstVersion, payload |-> payload]]
          /\ log' = [log EXCEPT ![h] = <<payload>>]
          /\ \/ Answer(p, "store", "ok") /\ WriteBack(p, h, payload)
             \/ Answer(p, "store", "wrapped") /\ UNCHANGED copy
       \/ /\ rows[h] # Absent
          /\ Unlocked(h)
          /\ Answer(p, "store", "duplicate")
          /\ UNCHANGED <<rows, copy, log>>
       \/ Fail(p, "store")
    /\ UNCHANGED call

GetRefreshToken(p, h) ==
    /\ call[p] = Idle
    /\ \/ /\ rows[h] # Absent
          /\ reply' = [caller |-> p, op |-> "get", err |-> "ok", got |-> rows[h].payload]
          /\ WriteBack(p, h, rows[h].payload)
          /\ UNCHANGED <<rows, log>>
       \/ /\ rows[h] = Absent
          /\ Answer(p, "get", "missing")
          /\ UNCHANGED <<rows, copy, log>>
       \/ Fail(p, "get")
    /\ UNCHANGED call

(* WHERE handle = $1 AND version = $4 *)
Fault_UnguardedUpdate(h, expected) == rows[h] # Absent

Matches(h, expected) == rows[h] # Absent /\ rows[h].version = expected

(* SET version = version + 1, expires_at = $2, payload = $3 *)
Fault_ExpiryNotRefreshed(h, token, expected) ==
    LET payload == [body |-> token, version |-> expected + 1] IN
    /\ rows' = [rows EXCEPT ![h].version = @ + 1, ![h].payload = payload]
    /\ log' = [log EXCEPT ![h] = Append(@, payload)]

ReplaceRow(h, token, expected) ==
    LET payload == [body |-> token, version |-> expected + 1] IN
    /\ rows' = [rows EXCEPT ![h] = [expires_at |-> ExpiresAt(token),
                                    version |-> rows[h].version + 1, payload |-> payload]]
    /\ log' = [log EXCEPT ![h] = Append(@, payload)]

(* The guarded UPDATE; when it matches no row the existence check is still due *)
UpdateRefreshToken(p, h, token, expected) ==
    /\ call[p] = Idle
    /\ \/ /\ Matches(h, expected)
          /\ Unlocked(h)
          /\ ReplaceRow(h, token, expected)
          /\ \/ /\ Answer(p, "update", "ok")
                /\ WriteBack(p, h, [body |-> token, version |-> expected + 1])
             \/ Answer(p, "update", "wrapped") /\ UNCHANGED copy
          /\ UNCHANGED call
       \/ /\ ~Matches(h, expected)
          /\ call' = [call EXCEPT ![p] = Updating(h, expected)]
          /\ UNCHANGED <<rows, copy, reply, log>>
       \/ Fail(p, "update") /\ UNCHANGED call

(* SELECT 1: is the handle missing, or was it only the version *)
Fault_NoRecheck(p) ==
    /\ call[p].op = "update"
    /\ Answer(p, "update", "conflict")
    /\ call' = [call EXCEPT ![p] = Idle]
    /\ UNCHANGED <<rows, copy, log>>

Fault_RecheckUntilGone(p) ==
    /\ call[p].op = "update"
    /\ rows[call[p].handle] = Absent
    /\ Answer(p, "update", "missing")
    /\ call' = [call EXCEPT ![p] = Idle]
    /\ UNCHANGED <<rows, copy, log>>

RecheckExistence(p) ==
    /\ call[p].op = "update"
    /\ \/ rows[call[p].handle] # Absent /\ Answer(p, "update", "conflict")
       \/ rows[call[p].handle] = Absent /\ Answer(p, "update", "missing")
       \/ Answer(p, "update", "wrapped")
    /\ call' = [call EXCEPT ![p] = Idle]
    /\ UNCHANGED <<rows, copy, log>>

RemoveRefreshToken(p, h) ==
    /\ call[p] = Idle
    /\ \/ /\ Unlocked(h)
          /\ Delete(p, {h})
          /\ \E err \in {"ok", "wrapped"} : Answer(p, "remove", err)
       \/ Fail(p, "remove") /\ UNCHANGED call

-----------------------------------------------------------------------------
(* RemoveExpired is one DELETE.  Its scan sees the rows of one snapshot... *)
RemoveExpired(p, cutoff) ==
    /\ call[p] = Idle
    /\ LET scan == {h \in Handles : rows[h] # Absent
                                    /\ Reclaimable(rows[h].expires_at, cutoff)}
       IN  call' = [call EXCEPT ![p] = Sweeping(cutoff, scan, {})]
    /\ UNCHANGED <<rows, copy, reply, log>>

(* ...locks each of them in turn, once no other DELETE holds it, if its latest
   version still satisfies the WHERE clause... *)
Fault_DeleteWhatWasScanned(p, h) ==
    /\ call[p].op = "removeExpired"
    /\ h \in call[p].scan
    /\ Unlocked(h)
    /\ call' = [call EXCEPT ![p] = Sweeping(@.cutoff, @.scan \ {h}, @.locked \cup {h})]
    /\ UNCHANGED <<rows, copy, reply, log>>

LockExpired(p, h) ==
    /\ call[p].op = "removeExpired"
    /\ h \in call[p].scan
    /\ Unlocked(h)
    /\ LET hit == Reclaimable(rows[h].expires_at, call[p].cutoff)
       IN  call' = [call EXCEPT ![p] =
                      Sweeping(@.cutoff, @.scan \ {h},
                               IF hit THEN @.locked \cup {h} ELSE @.locked)]
    /\ UNCHANGED <<rows, copy, reply, log>>

(* ...and removes the locked rows when it commits *)
FinishRemoveExpired(p) ==
    /\ call[p].op = "removeExpired"
    /\ call[p].scan = {}
    /\ Delete(p, call[p].locked)
    /\ \/ reply' = [caller |-> p, op |-> "removeExpired", err |-> "ok",
                    count |-> Cardinality(call[p].locked)]
       \/ Answer(p, "removeExpired", "wrapped")

(* The DELETE is canceled, or chosen to break a deadlock with another DELETE *)
AbortRemoveExpired(p) ==
    /\ call[p].op = "removeExpired"
    /\ Fail(p, "removeExpired")
    /\ call' = [call EXCEPT ![p] = Idle]

-----------------------------------------------------------------------------
Init ==
    /\ rows = [h \in Handles |-> Absent]
    /\ call = [p \in Callers |-> Idle]
    /\ copy = [p \in Callers |-> Absent]
    /\ reply = Absent
    /\ log = [h \in Handles |-> <<>>]

Next ==
    \E p \in Callers :
        \/ \E h \in Handles :
              \/ \E token \in Tokens :
                    \/ StoreRefreshToken(p, h, token)
                    \/ \E expected \in Versions : UpdateRefreshToken(p, h, token, expected)
              \/ GetRefreshToken(p, h)
              \/ RemoveRefreshToken(p, h)
              \/ LockExpired(p, h)
        \/ \E cutoff \in Cutoffs : RemoveExpired(p, cutoff)
        \/ RecheckExistence(p)
        \/ FinishRemoveExpired(p)
        \/ AbortRemoveExpired(p)

Spec == Init /\ [][Next]_vars

(* Open cleanups each of which waits for rows that the others hold *)
Deadlocked(p) ==
    \E ring \in SUBSET Callers :
        /\ p \in ring
        /\ \A r \in ring :
              /\ call[r].op = "removeExpired"
              /\ call[r].scan # {}
              /\ \A h \in call[r].scan : \E q \in ring :
                    call[q].op = "removeExpired" /\ h \in call[q].locked

(* A call that has begun runs on: the statement after a zero-row update is sent,
   a lock queue is served in order, a DELETE that has its rows commits, and the
   database's deadlock detector cancels one of those that wait for each other.
   Nothing is assumed of callers: none has to begin a call or repeat one. *)
Fairness ==
    /\ \A p \in Callers :
          /\ WF_vars(RecheckExistence(p))
          /\ SF_vars(\E h \in Handles : LockExpired(p, h))
          /\ WF_vars(FinishRemoveExpired(p))
    /\ WF_vars(\E p \in Callers : Deadlocked(p) /\ AbortRemoveExpired(p))

FairSpec == Spec /\ Fairness

-----------------------------------------------------------------------------
UpdateCall == [op : {"update"}, handle : Handles, expected : Versions]
SweepCall == [op : {"removeExpired"}, cutoff : Cutoffs,
              scan : SUBSET Handles, locked : SUBSET Handles]

(* Every variable holds a value of its type; a version is never below 1. *)
TypeOK ==
    /\ rows \in [Handles -> Row \cup {Absent}]
    /\ call \in [Callers -> {Idle} \cup UpdateCall \cup SweepCall]
    /\ copy \in [Callers -> Copy \cup {Absent}]
    /\ log \in [Handles -> Seq(Payload)]

(* The two columns the SQL guards on always say what the payload next to them
   says: the version column, bumped as version + 1 by the statement, agrees with
   the version encoded into the payload beforehand, and expires_at is derived
   from the very token that is stored (UpdateRefreshToken writes all three). *)
ColumnsMirrorPayload ==
    \A h \in Handles : rows[h] # Absent =>
        /\ rows[h].version = rows[h].payload.version
        /\ rows[h].expires_at = ExpiresAt(rows[h].payload.body)

(* No write is lost or applied twice.  The row of a handle carries its n-th
   payload when its version is n; the n-th payload is the one whose writer was
   answered version n, so an update retried after an error of unknown outcome
   is never applied a second time. *)
VersionsAreHistory ==
    \A h \in Handles :
        /\ rows[h] = Absent <=> log[h] = <<>>
        /\ rows[h] # Absent => /\ rows[h].version = Len(log[h])
                               /\ rows[h].payload = log[h][Len(log[h])]
        /\ \A n \in 1..Len(log[h]) : log[h][n].version = n

(* What a caller holds (returned by a read, or written back by a store or an
   update that succeeded) is exactly what the row held at that version, however
   many other callers wrote since.  So an update guarded with the version of the
   caller's object replaces the content the caller has seen. *)
CopiesAreHistory ==
    \A p \in Callers : copy[p] # Absent =>
        LET h == copy[p].handle
            n == copy[p].payload.version
        IN  n <= Len(log[h]) /\ copy[p].payload = log[h][n]

(* The rows an open cleanup holds stay what it decided they are: present, expired
   for its cutoff, and held by no other cleanup.  An update that extends a token
   waits for the DELETE instead of slipping in before its commit, and what the
   DELETE has still to visit was not stored after its snapshot. *)
LocksHold ==
    \A p \in Callers : call[p].op = "removeExpired" =>
        /\ \A h \in call[p].scan : rows[h] # Absent
        /\ \A h \in call[p].locked :
              /\ rows[h] # Absent
              /\ Reclaimable(rows[h].expires_at, call[p].cutoff)
              /\ h \notin call[p].scan
              /\ \A q \in Callers \ {p} :
                    call[q].op = "removeExpired" => h \notin call[q].locked

(* Cleanup never takes a live token: a row that a RemoveExpired call deletes
   expires, by its own creation time and lifetime in exact arithmetic, before
   the cutoff at the instant it disappears, even when an update extended its
   lifetime while the DELETE was running. *)
ReclaimOnlyExpired ==
    [][\A h \in Handles, p \in Callers :
          /\ call[p].op = "removeExpired"
          /\ rows[h] # Absent
          /\ rows'[h] = Absent
          /\ call'[p] = Idle
          => LET token == rows[h].payload.body
             IN  Expiry(token.creation, token.lifetime) < call[p].cutoff]_vars

(* Every call comes back: the existence check of an update ends whatever the
   other callers do to the handle, and cleanups that lock the same rows in
   opposite orders do not wait for ever. *)
CallsReturn == \A p \in Callers : (call[p] # Idle) ~> (call[p] = Idle)

(* The expires_at column is CreationTime plus Lifetime seconds, as the end-to-end
   test of the refresh token columns says of every stored token.  It holds while
   lifetimes are representable as a duration and fails for those that are not. *)
ExpiresAtTracksLifetime ==
    \A h \in Handles : rows[h] # Absent =>
        LET token == rows[h].payload.body
        IN  rows[h].expires_at = Micros(Expiry(token.creation, token.lifetime))

-----------------------------------------------------------------------------
TokenExpired(token, cutoff) == Reclaimable(ExpiresAt(token), cutoff)
NeverCollide(a, b) == FALSE

(* What reads return: the payloads, without the columns beside them *)
StoredPayloads == [h \in Handles |-> IF rows[h] = Absent THEN Absent ELSE rows[h].payload]

VS == INSTANCE VersionedStore
        WITH store <- StoredPayloads, Bodies <- Tokens, Expired <- TokenExpired, Collide <- NeverCollide,
             RemoveReportsMissing <- FALSE, CanceledReadIsMissing <- FALSE

(* The store, with its two-statement updates and its row-by-row cleanup, gives
   every caller the answers of the atomic versioned store: each call takes
   effect at one instant, with one version per write. *)
ImplementsVersionedStore == VS!Spec
=============================================================================
