\* A handle that is absent when the guarded UPDATE runs and stored again before
\* the existence check.
CONSTANTS
    Handles = {h1}
    Callers = {p1, p2}
    Tokens <- MCTokens
    Cutoffs <- MCCutoffs
    MaxVersion = 1
    Absent = Absent
    TicksPerSecond = 4
    TicksPerMicro = 2
    DurationLimit = 16
    Never = Never
SPECIFICATION ObservedSpec
PROPERTIES ConflictMeansMismatch
