----------------------- MODULE AuthorizationCodeStore -----------------------
(***************************************************************************)
(* The authorization code store: codes are inserted, read and removed, and *)
(* never changed.                                                          *)
(***************************************************************************)
EXTENDS RowTable

CONSTANT Codes   \* what callers store, up to what the store reads of it

ASSUME CodesAssumption == Codes \subseteq [creation : Int, lifetime : Int]

-----------------------------------------------------------------------------
Fault_StoreUpserts(p, h, code) == WriteRows(p, "store", {h}, [k \in {h} |-> TimedRow(code)])

StoreAuthorizationCode(p, h, code) == InsertRow(p, h, TimedRow(code), RowsAt(h))

GetAuthorizationCode(p, h) == ReadRow(p, RowsAt(h))

RemoveAuthorizationCode(p, h) == DeleteRow(p, h)

RemoveExpiredCodes(p, cutoff) ==
    BeginDelete(p, "removeExpired", cutoff, ExpiredRows(cutoff))

AuthorizationCodeNext(p) ==
    \/ \E h \in Keys :
          \/ \E code \in Codes : StoreAuthorizationCode(p, h, code)
          \/ GetAuthorizationCode(p, h)
          \/ RemoveAuthorizationCode(p, h)
    \/ \E cutoff \in Cutoffs : RemoveExpiredCodes(p, cutoff)
=============================================================================
