SPECIFICATION Spec
CONSTANTS
    a1 = a1
    a2 = a2
    p1 = p1
    p2 = p2
    p3 = p3
    None = None
    Actors = {a1}
    Phones = {p1, p2}
    Keys = {k1}
    OrganizerIds = {o1, o2}
    Requests = {r1}
    Desks = {d1}
    Editors = {e1}
    MaxPlayers = 2
    Guests = {}
    JournalLimit = 2
    OrganizerLimit = 2
    PositionLimit = 4
    Expectations = {0, 1}
    MaxTries = 1
    MaxStamp = 1
    MaxPublished = 1
    StaffStatus = {"CANCELED"}
    PhonesOf <- MCPhonesOf
INVARIANTS CommandsDecided ExitReserved PositionsCoverWitnesses
PROPERTIES JournalOwnsTheRow
CHECK_DEADLOCK FALSE
SYMMETRY MCSymmetry
