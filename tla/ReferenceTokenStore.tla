------------------------- MODULE ReferenceTokenStore -------------------------
(***************************************************************************)
(* The reference token store.  Its table has no column for the subject or  *)
(* the client, so a revocation reads every row, picks the matching handles *)
(* in the caller's memory and deletes them by a second statement.          *)
(***************************************************************************)
EXTENDS RowTable

CONSTANTS
    Tokens,     \* what callers store, up to what the store reads of it
    Subjects,   \* the values of SubjectId(), the empty one included
    Clients

Token == [creation : Int, lifetime : Int, subject : Subjects, client : Clients]

ASSUME TokensAssumption == Tokens \subseteq Token

-----------------------------------------------------------------------------
StoreReferenceToken(p, h, token) == InsertRow(p, h, TimedRow(token), RowsAt(h))

GetReferenceToken(p, h) == ReadRow(p, RowsAt(h))

RemoveReferenceToken(p, h) == DeleteRow(p, h)

(* token.SubjectId() == subjectId && token.ClientId == clientId *)
Fault_MatchesEither(token, pair) == token.subject = pair[1] \/ token.client = pair[2]

MatchesPair(token, pair) == token.subject = pair[1] /\ token.client = pair[2]

(* The SELECT: the handles of one snapshot whose decoded payload matches *)
Fault_StopsHalfway(p, pair) ==
    /\ ~Open(p)
    /\ \E H \in SUBSET {h \in Keys : Present(h) /\ MatchesPair(rows[h].payload, pair)} :
          call' = [call EXCEPT ![p] = Deleting("collect", pair, H, {})]
    /\ reply' = Silence
    /\ UNCHANGED rows

RemoveReferenceTokens(p, pair) ==
    BeginDelete(p, "collect", pair,
                {h \in Keys : Present(h) /\ MatchesPair(rows[h].payload, pair)})

(* The rows of the SELECT keep their connection until the DELETE has one *)
Fault_RowsKeptOpen(p) ==
    /\ Open(p) /\ call[p].op = "collect"
    /\ \A q \in Callers \ {p} : call[q].op # "collect"
    /\ call' = [call EXCEPT ![p] =
                  Deleting("revoke", @.arg, {h \in @.scan : Present(h)}, {})]
    /\ reply' = Silence
    /\ UNCHANGED rows

(* The collected handles: none, and the call is done; or the DELETE begins, on a
   snapshot of its own.  A scan, decode or iteration error is an AbortCall. *)
RevokeCollected(p) ==
    /\ Open(p) /\ call[p].op = "collect"
    /\ \/ /\ call[p].scan = {}
          /\ call' = [call EXCEPT ![p] = Idle]
          /\ Answer(p, "revoke", "ok")
       \/ /\ call[p].scan # {}
          /\ call' = [call EXCEPT ![p] =
                        Deleting("revoke", @.arg, {h \in @.scan : Present(h)}, {})]
          /\ reply' = Silence
    /\ UNCHANGED rows

RemoveExpiredTokens(p, cutoff) ==
    BeginDelete(p, "removeExpired", cutoff, ExpiredRows(cutoff))

ReferenceTokenNext(p) ==
    \/ \E h \in Keys :
          \/ \E token \in Tokens : StoreReferenceToken(p, h, token)
          \/ GetReferenceToken(p, h)
          \/ RemoveReferenceToken(p, h)
    \/ \E pair \in Subjects \X Clients : RemoveReferenceTokens(p, pair)
    \/ RevokeCollected(p)
    \/ \E cutoff \in Cutoffs : RemoveExpiredTokens(p, cutoff)
=============================================================================
