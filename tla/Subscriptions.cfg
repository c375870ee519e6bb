SPECIFICATION Spec
CONSTANTS
    game = game
    visit = visit
    monday = monday
    None = None
    Handlers = {h1, h2}
    Keys = {k1, k2}
    Targets = {game, visit}
    DayOf <- MCDayOf
    UnitsOf <- MCUnitsOf
    Policies <- MCPolicies
    CreateTargets = {game}
    Requests <- MCRequests
    Bookings = {b1, b2}
    Deadline = 1
    Validity = 1
    MaxTime = 1
INVARIANTS ActivatedOnce ReservationsMatch CountersExact
PROPERTIES AnswersTrue ImplementsQuota
SYMMETRY MCSymmetry
CHECK_DEADLOCK FALSE
