\* An owner and a guest, two sockets, a session that ends, a moderation.
SPECIFICATION FairSpec
CONSTANTS
    o = o
    g = g
    s1 = s1
    s2 = s2
    None = None
    Accounts = {o, g}
    Owner = o
    Guests = {g}
    Sockets = {s1, s2}
    QueueCap = 1
    PlanCap = 2
    PerAccount = 1
    MaxSessions = 1
    MaxVersion = 1
    MaxEnding = 1
INVARIANTS SocketsAreWatched GuestsLeaveWithTheDoor
PROPERTIES BansLast EndedSessionsClose
CHECK_DEADLOCK FALSE
