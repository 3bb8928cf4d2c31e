SPECIFICATION Spec
CONSTANTS
    p1 = p1  p2 = p2  p3 = p3  p4 = p4
    v1 = v1  v2 = v2  v3 = v3  v4 = v4 
    s1 = s1  s2 = s2  s3 = s3
    k1 = k1  k2 = k2  k3 = k3  k4 = k4
    c1 = c1  c2 = c2  
    Absent = Absent
    Products = {p1, p2, p3}
    Variants = {v1, v2, v3, v4}
    Slugs = {s1, s2, s3}
    Skus = {k1, k2, k3}
    Calls = {c1, c2}
    Ids = {"t1", "T1", "t2"}
    Uuid <- McUuid
    Contents <- McContents
    UnknownCategories = {"category?"}
    UnknownMedia = {"image?"}
    Drafts <- TwiceDrafts
    Databases <- TwiceDatabases
    MaxItems = 2
    MaxRevision = 2

INVARIANTS Published
CHECK_DEADLOCK FALSE
