\* One company, two changes of seats, two faults and one edit in the dashboard.
SPECIFICATION Spec
CONSTANTS
    None = None
    a1 = a1
    c1 = c1
    o1 = o1
    o2 = o2
    Cron = Cron
    Accounts = {a1}
    Companies = {c1}
    Corporate = {c1}
    Invites = {}
    Ops = {o1, o2}
    Seats = {1, 2, 3}
    InvoiceSeats = {2}
    Overlap = FALSE
    MaxFaults = 2
    MaxDrifts = 1
PROPERTIES KeepsPromise ChangesEnd
\* A company that is disabled, with no change pending, may stay so.
CHECK_DEADLOCK FALSE
