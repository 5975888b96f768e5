\* No symmetry: temporal properties.
CONSTANTS
    Handles = {h1, h2}
    Callers = {p1, p2}
    Tokens <- MCExpiredTokens
    Cutoffs <- MCCutoffs
    MaxVersion = 1
    Absent = Absent
    TicksPerSecond = 4
    TicksPerMicro = 2
    DurationLimit = 16
    Never = Never
SPECIFICATION FairSpec
PROPERTIES CallsReturn
