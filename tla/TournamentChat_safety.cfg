SPECIFICATION Spec
CONSTANTS
    a1 = a1
    p1 = p1
    None = None
    Actors = {a1}
    Phones = {p1}
    Keys = {k1, k2, k3}
    OrganizerIds = {o1}
    MaxPlayers = 2
    Guests = {}
    JournalLimit = 4
    OrganizerLimit = 2
    StaffStatus = {"REGISTRATION", "CANCELED"}
    PositionLimit = 6
    Messages = {m1, m2}
    Texts = {t1}
    AuthorOf <- MCAuthorOf
    PhoneOf <- MCPhoneOf
    Senders = {s1, s2}
    Workers = {}
    PendingLimit = 2
    MaxSequence = 4
INVARIANTS StreamConsistent ConfirmedIsVisible
PROPERTIES AcceptedByAuthority ImplementsLog
CHECK_DEADLOCK FALSE
SYMMETRY MCSymmetry
