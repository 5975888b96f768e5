------------------------ MODULE RefreshTokenConflict ------------------------
(***************************************************************************)
(* The refresh token store observed: for each caller with an update that   *)
(* matched no row, whether the handle has held a token of another version  *)
(* at some instant of that call.                                           *)
(***************************************************************************)
EXTENDS MCRefreshTokenStore

VARIABLE mismatched   \* callers whose open update has met another version

Mismatch(p) ==
    /\ call[p].op = "update"
    /\ rows[call[p].handle] # Absent
    /\ rows[call[p].handle].version # call[p].expected

ObservedInit == Init /\ mismatched = {}

ObservedNext ==
    /\ Next
    /\ mismatched' = {p \in Callers : Mismatch(p)'
                                      \/ (p \in mismatched /\ call'[p].op = "update")}

ObservedSpec == ObservedInit /\ [][ObservedNext]_<<vars, mismatched>>

(* What the comment of UpdateRefreshToken says of its zero-row outcome: a missing
   handle fails with ErrNotFound and a version mismatch with ErrVersionConflict.
   An update that answers ErrVersionConflict then met, between its first and its
   last statement, a token of another version. *)
ConflictMeansMismatch ==
    [][\A p \in Callers :
          (call[p].op = "update" /\ call'[p] = Idle /\ reply'.err = "conflict")
          => p \in mismatched]_<<vars, mismatched>>
=============================================================================
