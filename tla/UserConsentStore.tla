-------------------------- MODULE UserConsentStore --------------------------
(***************************************************************************)
(* The user consent store: one consent per subject and client, replaced by *)
(* the user's next decision.                                               *)
(***************************************************************************)
EXTENDS RowTable

CONSTANT Consents   \* what callers store: subject, client and expires

ASSUME KeysAssumption == \A key \in Keys : key = <<key[1], key[2]>>
ASSUME ConsentsAssumption ==
    \A consent \in Consents :
        <<consent.subject, consent.client>> \in Keys /\ consent.expires \in Int \cup {Never}

-----------------------------------------------------------------------------
NaturalKey(consent) == <<consent.subject, consent.client>>

ConsentRow(consent) ==
    [subject_id |-> consent.subject, client_id |-> consent.client,
     expires_at |-> OptionalExpiry(consent.expires), payload |-> consent]

(* INSERT ... ON CONFLICT (subject_id, client_id) DO UPDATE *)
StoreUserConsent(p, consent) ==
    WriteRows(p, "store", {NaturalKey(consent)},
              [k \in {NaturalKey(consent)} |-> ConsentRow(consent)])

GetUserConsent(p, subject, client) == ReadRow(p, RowsAt(<<subject, client>>))

GetAllUserConsents(p, subject) ==
    ReadRows(p, subject, {k \in Keys : Present(k) /\ rows[k].subject_id = subject})

RemoveUserConsent(p, subject, client) == DeleteRow(p, <<subject, client>>)

RemoveExpiredConsents(p, cutoff) ==
    BeginDelete(p, "removeExpired", cutoff, ExpiredRows(cutoff))

UserConsentNext(p) ==
    \/ \E consent \in Consents : StoreUserConsent(p, consent)
    \/ \E key \in Keys :
          \/ GetUserConsent(p, key[1], key[2])
          \/ RemoveUserConsent(p, key[1], key[2])
          \/ GetAllUserConsents(p, key[1])
    \/ \E cutoff \in Cutoffs : RemoveExpiredConsents(p, cutoff)
=============================================================================
