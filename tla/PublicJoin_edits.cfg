SPECIFICATION Spec
CONSTANTS
    p1 = p1
    p2 = p2
    p3 = p3
    None = None
    Phones <- OnePhone
    Roster <- NoRoster
    Sex <- OnePhoneSex
    Attempts = {a1, a2}
    ProviderIds = {i1, i2}
    Requests = {r1, r2}
    Editors = {e1}
    Genders = {"MIXED"}
    MaxPlayers = {2, 3}
    MaxStamp = 0
    MaxPosts = 1
SYMMETRY Symmetry
INVARIANTS
    SeatsArePaidFor
