\* Two tokens of one account; the epoch moves once.
SPECIFICATION Spec
CONSTANTS
    None = None
    t1 = t1
    t2 = t2
    Tokens = {t1, t2}
    AtOnce = 2
    MaxEpoch = 1
    MaxFaults = 1
INVARIANTS SessionsFollowAccount NoRoomIsForgotten ErasedListsNothing BucketGoesWithRoom
SYMMETRY AnyToken
\* The epochs are bounded, so that the account may end disabled.
CHECK_DEADLOCK FALSE
