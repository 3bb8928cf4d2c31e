SPECIFICATION Spec
CONSTANTS
    Absent = Absent
    Products = {1, 2, 3}
    Images = {m1}
    Sizes = {320, 640, 1280}
    Viewers = {v1}
    Limit = 2
    MaxPage = 2
INVARIANTS ImagesWhole UploadTrue Private NothingBroken MissedForCause PagesPartition
CHECK_DEADLOCK FALSE
