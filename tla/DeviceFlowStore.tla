--------------------------- MODULE DeviceFlowStore ---------------------------
(***************************************************************************)
(* The device flow store: one row under two unique codes.  The device      *)
(* polls by the device code, the user's decision arrives by the user code. *)
(***************************************************************************)
EXTENDS RowTable

CONSTANTS
    UserCodes,
    DeviceCodes   \* the models: creation, lifetime and the decision so far

ASSUME DeviceCodesAssumption ==
    \A data \in DeviceCodes : data.creation \in Int /\ data.lifetime \in Int

-----------------------------------------------------------------------------
(* WHERE user_code = $1 *)
RowsOf(u) == {k \in Keys : Present(k) /\ rows[k].user_code = u}

DeviceRow(u, data) ==
    [user_code |-> u, expires_at |-> TimedRow(data).expires_at, payload |-> data]

(* Both codes are unique: the primary key and idx_device_codes_user_code *)
Fault_UserCodeReused(p, h, u, data) == InsertRow(p, h, DeviceRow(u, data), RowsAt(h))

StoreDeviceAuthorization(p, h, u, data) ==
    InsertRow(p, h, DeviceRow(u, data), RowsAt(h) \cup RowsOf(u))

FindByDeviceCode(p, h) == ReadRow(p, RowsAt(h))

FindByUserCode(p, u) == ReadRow(p, RowsOf(u))

(* Payload and expiry are replaced, whatever they were; both codes stay *)
Fault_StaleExpiry(p, u, data) ==
    WriteRows(p, "update", RowsOf(u), [k \in RowsOf(u) |-> [rows[k] EXCEPT !.payload = data]])

UpdateByUserCode(p, u, data) ==
    WriteRows(p, "update", RowsOf(u), [k \in RowsOf(u) |-> DeviceRow(u, data)])

RemoveByDeviceCode(p, h) == DeleteRow(p, h)

RemoveExpiredAuthorizations(p, cutoff) ==
    BeginDelete(p, "removeExpired", cutoff, ExpiredRows(cutoff))

DeviceFlowNext(p) ==
    \/ \E h \in Keys :
          \/ \E u \in UserCodes, data \in DeviceCodes : StoreDeviceAuthorization(p, h, u, data)
          \/ FindByDeviceCode(p, h)
          \/ RemoveByDeviceCode(p, h)
    \/ \E u \in UserCodes :
          \/ FindByUserCode(p, u)
          \/ \E data \in DeviceCodes : UpdateByUserCode(p, u, data)
    \/ \E cutoff \in Cutoffs : RemoveExpiredAuthorizations(p, cutoff)
=============================================================================
