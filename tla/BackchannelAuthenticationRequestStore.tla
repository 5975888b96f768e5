--------------- MODULE BackchannelAuthenticationRequestStore ---------------
(***************************************************************************)
(* The store of backchannel authentication requests: inserted once, then   *)
(* replaced without a version guard as the request moves on.               *)
(***************************************************************************)
EXTENDS RowTable

CONSTANT Requests   \* the models, up to their ExpirationTime; Never is the zero time

ASSUME RequestsAssumption == \A data \in Requests : data.expires \in Int \cup {Never}

-----------------------------------------------------------------------------
StoreBackchannelAuthenticationRequest(p, id, data) ==
    InsertRow(p, id, OptionalRow(data), RowsAt(id))

FindBackchannelAuthenticationRequest(p, id) == ReadRow(p, RowsAt(id))

(* A request that is not there stays so *)
Fault_UpdateUpserts(p, id, data) ==
    WriteRows(p, "update", {id}, [k \in {id} |-> OptionalRow(data)])

UpdateBackchannelAuthenticationRequest(p, id, data) ==
    WriteRows(p, "update", RowsAt(id), [k \in RowsAt(id) |-> OptionalRow(data)])

RemoveBackchannelAuthenticationRequest(p, id) == DeleteRow(p, id)

RemoveExpiredRequests(p, cutoff) ==
    BeginDelete(p, "removeExpired", cutoff, ExpiredRows(cutoff))

BackchannelNext(p) ==
    \/ \E id \in Keys :
          \/ \E data \in Requests :
                \/ StoreBackchannelAuthenticationRequest(p, id, data)
                \/ UpdateBackchannelAuthenticationRequest(p, id, data)
          \/ FindBackchannelAuthenticationRequest(p, id)
          \/ RemoveBackchannelAuthenticationRequest(p, id)
    \/ \E cutoff \in Cutoffs : RemoveExpiredRequests(p, cutoff)
=============================================================================
