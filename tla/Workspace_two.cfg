SPECIFICATION Spec
CONSTANTS
    b1 = b1  b2 = b2  c1 = c1  c2 = c2
    p1 = p1  p2 = p2
    v1 = v1  v2 = v2
    s1 = s1  s2 = s2  k1 = k1  k2 = k2
    Absent = Absent
    New = New
    Products = {p1, p2}
    Variants = {v1, v2}
    Slugs = {s1, s2}
    Skus = {k1, k2}
    Calls = {c1, c2}
    Ids = {"t1", "t2"}
    Uuid <- McUuid
    Text <- Texts
    Contents = {"red", "blue"}
    UnknownCategories = {}
    UnknownMedia = {}
    Drafts <- TwoDrafts
    Databases <- OneProduct
    MaxItems = 2
    MaxRevision = 3
    Browsers = {b1, b2}
    Slots = {}
    Tabs = {"products"}
PROPERTIES NoLostEdit
CHECK_DEADLOCK FALSE
SYMMETRY Symmetry
