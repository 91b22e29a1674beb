\* A trial's invoice and a paid one, one checkout, two events.
SPECIFICATION FairSpec
CONSTANTS
    trial = trial
    first = first
    c1 = c1
    Invoices = {trial, first}
    FreeInvoices = {trial}
    Checkouts = {c1}
    Grace = 1
    MaxNow = 2
    MaxEvents = 2
    MaxHandlers = 2
    MaxFaults = 1
INVARIANT MembersFollowTheRow
PROPERTIES RowConverges PaidIsRecorded
CHECK_DEADLOCK FALSE
