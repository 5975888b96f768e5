\* Two callers, two records that compete for one public id, versions up to the top
\* of the range.
CONSTANTS
    Handles = {h1, h2}
    Callers = {p1, p2}
    PublicIds = {k1}
    Phases = {Active, Retired}
    Retired = Retired
    MaxVersion = 2
    Absent = Absent
SYMMETRY Symmetry
SPECIFICATION Spec
INVARIANTS TypeOK VersionIdentifiesContent ColumnsMirrorPayload UniquePublicIds
PROPERTIES ImplementsVersionedStore
