\* One runner, whose Down may be interrupted.
CONSTANTS
    Runners = {r1}
    Overlaps = FALSE
    NoTable = NoTable
    Absent = Absent
SPECIFICATION Spec
INVARIANTS SessionsAreIndexed
