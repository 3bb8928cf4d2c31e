SPECIFICATION WatchedSpec
CONSTANTS
    f1 = f1  f2 = f2  f3 = f3  bad = bad
    Absent = Absent
    Runners = {r1, r2, r3}
    Names = {f1, f2, f3, bad}
    ValidNames = {f1, f2, f3}
    CodeBefore <- Ordered
    LocaleBefore <- Dictionary
    Checksums = {"a", "b"}
    Releases <- McReleases
    Wanted = f3
INVARIANTS RefusedOnlyAfterChange
CHECK_DEADLOCK FALSE
