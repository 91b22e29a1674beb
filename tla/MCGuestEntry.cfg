\* Four failures lock the room; the window is two ticks, the lock three.
SPECIFICATION EntrySpec
CONSTANTS
    Nothing = Nothing
    s1 = s1
    s2 = s2
    g1 = g1
    g2 = g2
    g3 = g3
    Slots = {s1, s2}
    Visitors = {g1, g2, g3}
    Threshold = 4
    Window = 2
    Lockout = 3
    MaxLost = 1
INVARIANTS GuessesAreRationed GuestsGoWithTheRoom
PROPERTY LockEnds
