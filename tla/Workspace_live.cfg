SPECIFICATION FairSpec
CONSTANTS
    b1 = b1  b2 = b2  c1 = c1  c2 = c2
    p1 = p1  p2 = p2
    v1 = v1  v2 = v2
    s1 = s1  s2 = s2  k1 = k1  k2 = k2
    Absent = Absent
    New = New
    Products = {p1}
    Variants = {v1}
    Slugs = {s1, s2}
    Skus = {k1, k2}
    Calls = {c1}
    Ids = {"t1"}
    Uuid <- McUuid
    Text <- Texts
    Contents = {"red", "blue"}
    UnknownCategories = {}
    UnknownMedia = {}
    Drafts <- Edits
    Databases <- OneProduct
    MaxItems = 2
    MaxRevision = 3
    Browsers = {b1}
    Slots = {"a"}
    Tabs = {"products", "references"}
INVARIANTS TypeOK EditorOffersSignIn
PROPERTIES PageUnlocks
CHECK_DEADLOCK FALSE
