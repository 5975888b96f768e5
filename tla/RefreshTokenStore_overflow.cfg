\* A lifetime whose duration does not fit a time.Duration.
CONSTANTS
    Handles = {h1}
    Callers = {p1, p2}
    Tokens <- MCWrappingTokens
    Cutoffs <- MCCutoffs
    MaxVersion = 1
    Absent = Absent
    TicksPerSecond = 4
    TicksPerMicro = 2
    DurationLimit = 16
    Never = Never
SPECIFICATION Spec
INVARIANTS ExpiresAtTracksLifetime
