\* Failed writes may land late, in any order.
CONSTANTS
    Callers = {c1}
    Readers = {r1}
    Snapshots = {s1, s2}
    None = None
    MaxSequence = 2
    MaxClock = 7
    MaxInflight = 2
SPECIFICATION Spec
SYMMETRY Symmetry
INVARIANTS
    TypeOK
    PointerMatchesHistory
    ReturnedIsDurable
    AnchoredBeforeFinalized
    IndInv
    ReaderNeverConflicts
PROPERTIES
    ReaderMonotone
    LedgerSpec
