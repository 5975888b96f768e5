------------------------- MODULE PersistedGrantStore -------------------------
(***************************************************************************)
(* The persisted grant store: upserts under a key, and listings and        *)
(* revocations that share one filter over four columns.                    *)
(***************************************************************************)
EXTENDS RowTable

CONSTANTS
    Grants,    \* what callers store, up to what the store reads of it
    Names,     \* subjects, sessions, clients and types, Unset among them
    Filters,   \* the nil filter is the one with nothing set
    Unset      \* the empty string: in a grant a value, in a filter no condition

Grant == [subject : Names, session : Names, client : Names, type : Names,
          expires : Int \cup {Never}]
Filter == [subject : Names, session : Names, client : Names, type : Names,
           clients : SUBSET Names, types : SUBSET Names]

ASSUME GrantsAssumption == Grants \subseteq Grant
ASSUME FiltersAssumption == Filters \subseteq Filter

-----------------------------------------------------------------------------
(* The conditions that are set, joined by AND *)
Fault_EmptyListMatchesNothing(filter, row) ==
    /\ filter.subject # Unset => row.subject_id = filter.subject
    /\ filter.session # Unset => row.session_id = filter.session
    /\ row.client_id \in filter.clients \cup ({filter.client} \ {Unset})
    /\ row.type \in filter.types \cup ({filter.type} \ {Unset})

Fault_ListReplacesValue(filter, row) ==
    /\ filter.subject # Unset => row.subject_id = filter.subject
    /\ filter.session # Unset => row.session_id = filter.session
    /\ IF filter.clients # {} THEN row.client_id \in filter.clients
                              ELSE filter.client # Unset => row.client_id = filter.client
    /\ IF filter.types # {} THEN row.type \in filter.types
                            ELSE filter.type # Unset => row.type = filter.type

buildFilter(filter, row) ==
    /\ filter.subject # Unset => row.subject_id = filter.subject
    /\ filter.session # Unset => row.session_id = filter.session
    /\ filter.client # Unset => row.client_id = filter.client
    /\ filter.clients # {} => row.client_id \in filter.clients
    /\ filter.type # Unset => row.type = filter.type
    /\ filter.types # {} => row.type \in filter.types

Filtered(filter) == {k \in Keys : Present(k) /\ buildFilter(filter, rows[k])}

Fault_EmptyStoredAsNull(grant) ==
    [subject_id |-> grant.subject,
     session_id |-> IF grant.session = Unset THEN Absent ELSE grant.session,
     client_id |-> grant.client, type |-> grant.type,
     expires_at |-> OptionalExpiry(grant.expires), payload |-> grant]

GrantRow(grant) ==
    [subject_id |-> grant.subject, session_id |-> grant.session,
     client_id |-> grant.client, type |-> grant.type,
     expires_at |-> OptionalExpiry(grant.expires), payload |-> grant]

(* INSERT ... ON CONFLICT (key) DO UPDATE SET every other column *)
Fault_ClientNotRefreshed(p, key, grant) ==
    WriteRows(p, "store", {key},
              [k \in {key} |-> [GrantRow(grant) EXCEPT
                                  !.client_id = IF Present(k) THEN rows[k].client_id ELSE @]])

Store(p, key, grant) == WriteRows(p, "store", {key}, [k \in {key} |-> GrantRow(grant)])

Get(p, key) == ReadRow(p, RowsAt(key))

GetAll(p, filter) == ReadRows(p, filter, Filtered(filter))

RemoveGrant(p, key) == DeleteRow(p, key)

RemoveAll(p, filter) == BeginDelete(p, "revoke", filter, Filtered(filter))

RemoveExpiredGrants(p, cutoff) ==
    BeginDelete(p, "removeExpired", cutoff, ExpiredRows(cutoff))

PersistedGrantNext(p) ==
    \/ \E key \in Keys :
          \/ \E grant \in Grants : Store(p, key, grant)
          \/ Get(p, key)
          \/ RemoveGrant(p, key)
    \/ \E filter \in Filters : GetAll(p, filter) \/ RemoveAll(p, filter)
    \/ \E cutoff \in Cutoffs : RemoveExpiredGrants(p, cutoff)
=============================================================================
