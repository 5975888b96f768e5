\* A Down that read the records before another runner reverted and reapplied.
CONSTANTS
    Runners = {r1, r2}
    Overlaps = TRUE
    NoTable = NoTable
    Absent = Absent
SPECIFICATION Spec
PROPERTIES RevertUnrecords
