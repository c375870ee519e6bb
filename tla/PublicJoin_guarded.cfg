SPECIFICATION GuardedSpec
CONSTANTS
    p1 = p1
    p2 = p2
    p3 = p3
    None = None
    Phones <- MCPhones
    Roster <- MCRoster
    Sex <- MCSex
    Attempts = {a1, a2}
    ProviderIds = {i1, i2}
    Requests = {r1, r2}
    Editors = {e1}
    Genders = {"MIXED", "MALE"}
    MaxPlayers = {2, 3}
    MaxStamp = 0
    MaxPosts = 2
SYMMETRY Symmetry
INVARIANTS AtMostOneCreate PlacesHeld PaymentsTracked
PROPERTIES AttemptAdvances AdmissionFollowsRule ImplementsLedger
