\* Two callers on two rows of each table, without symmetry: temporal properties.
CONSTANTS
    Keys = {h1, h2}
    Callers = {p1, p2}
    Cutoffs <- MCCutoffs
    Codes <- MCCodes
    Tokens <- MCTokens
    Subjects = {alice, bob}
    Clients = {web}
    UserCodes = {u1, u2}
    DeviceCodes <- MCDeviceCodes
    Requests <- MCRequests
    alice = alice
    bob = bob
    web = web
    Absent = Absent
    Never = Never
    TicksPerSecond = 4
    TicksPerMicro = 2
    DurationLimit = 16
SPECIFICATION FairSpec
INVARIANTS TypeOK RemovalsHold
PROPERTIES CleanupIsSafe ImplementsRevocableStore UpdatesReachWhatWasFound DeletesAreComplete RevocationIsExact CallsReturn
