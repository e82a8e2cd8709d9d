\* Three files, two leaf names, every set of definitions; the fallback to the
\* full pass needs all three files in the resolve set.
CONSTANTS
    Files <- MCFiles
    Contents <- MCContents
    Generated = {3}
    FallbackMinFiles = 3
    FallbackDivisor = 1
SPECIFICATION Spec
INVARIANTS
    IncrementalEqualsFull
CHECK_DEADLOCK FALSE
