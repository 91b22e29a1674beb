\* One company that comes to pay and one that never does; three accounts, so that
\* an owner who leaves has an admin and a member to choose from.
SPECIFICATION CompanySpec
CONSTANTS
    None = None
    a1 = a1
    a2 = a2
    a3 = a3
    c1 = c1
    c2 = c2
    i1 = i1
    o1 = o1
    Accounts = {a1, a2, a3}
    Companies = {c1, c2}
    Corporate = {c1}
    Invites = {i1}
    Ops = {o1}
    Seats = {1, 2, 3}
    InvoiceSeats = {2}
INVARIANTS OneOwner SeatsNeverOversold EntitlementFollowsMembership
SYMMETRY Names
\* The bounds on companies, invites and operations let everything come to rest.
CHECK_DEADLOCK FALSE
