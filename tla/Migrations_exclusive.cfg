\* Ups start together; a Down has the database to itself.
CONSTANTS
    Runners = {r1, r2, r3}
    Overlaps = FALSE
    NoTable = NoTable
    Absent = Absent
SYMMETRY Symmetry
SPECIFICATION Spec
INVARIANTS RecordedIsApplied PrefixApplied
PROPERTIES ReturnsWhatItPromises
