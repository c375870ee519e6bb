SPECIFICATION ReadSpec
CONSTANTS
    a1 = a1
    p1 = p1
    None = None
    Actors = {a1}
    Phones = {p1}
    Keys = {k1, k2}
    OrganizerIds = {}
    MaxPlayers = 2
    Guests = {}
    JournalLimit = 2
    OrganizerLimit = 0
    StaffStatus = {"REGISTRATION", "CANCELED"}
    PositionLimit = 2
    Messages = {m1}
    Texts = {t1}
    AuthorOf <- MCAuthorOf
    PhoneOf <- MCPhoneOf
    Senders = {}
    Workers = {w1}
    PendingLimit = 1
    MaxSequence = 2
    ReadIds = {q1}
    ReaderOf <- MCReaderOf
    Readers = {d1, d2}
    ReadLimit = 1
PROPERTIES AcceptedOnce
CHECK_DEADLOCK FALSE
