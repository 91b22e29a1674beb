\* One subscription of one company, two disputes of its payments.
SPECIFICATION FairSpec
CONSTANTS
    Subs = {1}
    Subjects = {"payer"}
    Companies = {"payer"}
    d1 = d1
    d2 = d2
    Disputes = {d1, d2}
    First = d1
    MaxFaults = 1
    MaxVersion = 1
    SubjectOf <- OneSubscription
    PayerOf <- OnePayer
CONSTRAINT InBounds
INVARIANTS KeyDeterminesState DesiredFollowsHolds
PROPERTIES AppliedOnEvidence StripeConverges MarkersEnd
