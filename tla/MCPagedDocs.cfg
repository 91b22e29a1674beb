SPECIFICATION FairPagedSpec
CONSTANTS
    f1 = f1
    f2 = f2
    e1 = e1
    Owner = 2
    Editors = {1}
    Files = {f1, f2}
    Length <- MCLength
    Long = {f2}
    Shapes = {e1}
    MaxEdits = 2
    MaxFrames = 3
INVARIANTS PagesAreTheOwners OwnerPrevails
PROPERTY DropsSettle
CHECK_DEADLOCK FALSE
