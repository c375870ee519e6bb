SPECIFICATION Spec
CONSTANTS
    p1 = p1
    p2 = p2
    p3 = p3
    None = None
    Phones <- OnePhone
    Roster <- NoRoster
    Sex <- OnePhoneSex
    Attempts = {a1}
    ProviderIds = {i1}
    Requests = {r1}
    Editors = {e1}
    Genders = {"MIXED"}
    MaxPlayers = {2}
    MaxStamp = 1
    MaxPosts = 2
INVARIANTS
    AtMostOneCreate
