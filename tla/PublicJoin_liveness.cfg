SPECIFICATION FairSpec
CONSTANTS
    p1 = p1
    p2 = p2
    p3 = p3
    None = None
    Phones <- Pair
    Roster <- NoRoster
    Sex <- PairSex
    Attempts = {a1, a2}
    ProviderIds = {i1, i2}
    Requests = {r1}
    Editors = {}
    Genders = {"MIXED", "MALE"}
    MaxPlayers = {2}
    MaxStamp = 0
    MaxPosts = 2
PROPERTIES
    PaidIsSeated
