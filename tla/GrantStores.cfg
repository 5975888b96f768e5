\* Two callers on two rows of each table, without symmetry: temporal properties.
CONSTANTS
    Keys <- MCKeys
    Callers = {p1, p2}
    Cutoffs <- MCCutoffs
    Grants <- MCGrants
    Names <- MCNames
    Filters <- MCFilters
    Unset = Unset
    Consents <- MCConsents
    alice = alice
    bob = bob
    web = web
    app = app
    refresh = refresh
    login = login
    Absent = Absent
    Never = Never
    TicksPerSecond = 4
    TicksPerMicro = 2
    DurationLimit = 16
SPECIFICATION FairSpec
INVARIANTS TypeOK ColumnsMirrorRecord
PROPERTIES ListingsAreExact DeletesAreComplete ImplementsRevocableStore CleanupIsSafe CallsReturn
