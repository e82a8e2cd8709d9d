SPECIFICATION MCSpec
CONSTANTS
    Edits = {"e1", "e2"}
    ChannelCap = 1
    MaxUpsets = 2
    MaxMisfortunes = 3
INVARIANTS
    EditTracked
    ReservationOwned
    RecomputeCaughtUp
    FilterAgreesWithWalk
