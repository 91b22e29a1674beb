\* Two strokes, one of them too big for the row; two overlapping flushes.
SPECIFICATION FairSpec
CONSTANTS
    None = None
    f1 = f1
    f2 = f2
    e1 = e1
    e2 = e2
    Elements = {e1, e2}
    Big = {e2}
    Slots = {f1, f2}
    MaxCrashes = 1
    MaxFailures = 1
    MaxDrops = 1
    MaxTrouble = 0
CONSTRAINT InBounds
INVARIANT DeletedLeavesNothing
PROPERTIES StoredStrokesStay DirtyIsFlushed RowCatchesUp
\* A deleted room with no alarm left has nothing more to do.
CHECK_DEADLOCK FALSE
