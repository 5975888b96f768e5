\* Two callers on two handles: updates, retries and removals race, and cleanups that
\* lock several rows run against updates that extend them.
CONSTANTS
    Handles = {h1, h2}
    Callers = {p1, p2}
    Tokens <- MCTokens
    Cutoffs <- MCCutoffs
    MaxVersion = 1
    Absent = Absent
    TicksPerSecond = 4
    TicksPerMicro = 2
    DurationLimit = 16
    Never = Never
SYMMETRY Symmetry
SPECIFICATION Spec
INVARIANTS TypeOK VersionsAreHistory CopiesAreHistory ColumnsMirrorPayload
PROPERTIES ReclaimOnlyExpired ImplementsVersionedStore
