SPECIFICATION LiveReadSpec
CONSTANTS
    a1 = a1
    p1 = p1
    None = None
    Actors = {a1}
    Phones = {p1}
    Keys = {k1, k2}
    OrganizerIds = {}
    MaxPlayers = 2
    Guests = {}
    JournalLimit = 2
    OrganizerLimit = 0
    StaffStatus = {"REGISTRATION", "CANCELED"}
    PositionLimit = 2
    Messages = {m1}
    Texts = {t1}
    AuthorOf <- MCAuthorOf
    PhoneOf <- MCPhoneOf
    Senders = {}
    Workers = {w1}
    PendingLimit = 1
    MaxSequence = 2
    ReadIds = {q1, q2}
    ReaderOf <- MCReaderOf
    Readers = {d1}
    ReadLimit = 1
INVARIANTS ReadsTrue
PROPERTIES ReadsAdvance AcceptedIsPublished ReadIsReceipted
CHECK_DEADLOCK FALSE
