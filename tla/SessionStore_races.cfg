\* Two callers append clients to, read, rewrite, move to another subject, renew,
\* revoke and reclaim two sessions.
CONSTANTS
    SessionIds = {i1, i2}
    Callers = {p1, p2}
    Clients = {web}
    Subjects = {alice, bob}
    NoSubject = NoSubject
    Records <- MCRecords
    Cutoffs <- MCCutoffs
    Absent = Absent
    Never = Never
    TicksPerSecond = 4
    TicksPerMicro = 2
    DurationLimit = 16
    alice = alice
    bob = bob
    web = web
SYMMETRY Symmetry
SPECIFICATION Spec
INVARIANTS TypeOK AppendsSurvive
PROPERTIES ReadsShowClients ImplementsRevocableStore DeletesAreComplete RevocationIsExact CleanupIsSafe
