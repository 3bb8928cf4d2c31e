SPECIFICATION Spec
CONSTANTS
    e1 = e1  a1 = a1  a2 = a2
    Absent = Absent
    Calls = {c1, c2, c3}
    Typed = {"e1", "E1"}
    Emails = {e1}
    Lower <- McLower
    Addresses = {a1, a2}
    Staff = {e1}
    Roster <- McRoster
    SignIns <- McSignIns
    EmailLimit = 1
    AddressLimit = 1
    Window = 3
    Lifetime = 2
    Timeout = 1
    MaxTime = 3
SYMMETRY Alike
INVARIANTS Limited RefusedForCause EndedStaysEnded AnswersTrue
CHECK_DEADLOCK FALSE
