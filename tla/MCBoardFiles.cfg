SPECIFICATION FairSpec
CONSTANTS
    Tab = {t1, t2}
    File = {x}
    Quota = 2
    UploadTries = 2
    FetchTries = 2
    MaxActs = 2
    MaxFaults = 1
INVARIANTS LossIsVisible BytesAreCounted
PROPERTIES UploadsResolve PicturesArrive
CHECK_DEADLOCK FALSE
