SPECIFICATION LifecycleFairSpec
CONSTANTS
    Session = {s1, s2}
    Stream = {b1, b2, b3}
    None = None
    Registry = TRUE
INVARIANTS LeaseImpliesOwnership LiveBindings PlacementFollowsOwnership
PROPERTIES ServedSessionKept RegisterEnds CleanupEnds
CHECK_DEADLOCK FALSE
