SPECIFICATION Spec
CONSTANTS
    a1 = a1
    a2 = a2
    p1 = p1
    p2 = p2
    p3 = p3
    None = None
    Actors = {a1, a2}
    Phones = {p1, p2, p3}
    Keys = {k1, k2}
    OrganizerIds = {}
    Requests = {r1, r2}
    Desks = {}
    Editors = {}
    MaxPlayers = 2
    Guests = {p3}
    JournalLimit = 4
    OrganizerLimit = 0
    PositionLimit = 4
    Expectations = {}
    MaxTries = 2
    MaxStamp = 0
    MaxPublished = 0
    StaffStatus = {}
    PhonesOf <- MCPhonesOf
INVARIANTS TypeOK SeatsMatchJournal AnswersTrue ExitReserved
PROPERTIES ImplementsEnrolment
CHECK_DEADLOCK FALSE
SYMMETRY MCSymmetry
