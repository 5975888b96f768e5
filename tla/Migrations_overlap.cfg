\* Ups and Downs of two runners in every order.  No symmetry: temporal properties.
CONSTANTS
    Runners = {r1, r2}
    Overlaps = TRUE
    NoTable = NoTable
    Absent = Absent
SPECIFICATION FairSpec
INVARIANTS TypeOK AppliedIsRecorded
PROPERTIES RunsReturn
