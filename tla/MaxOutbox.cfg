SPECIFICATION Spec
CONSTANTS
    Commands = {1}
    Polls = {q1, q2}
    Reports = {r1, r2}
    MaxAttempts = 2
    Limit = 2
    MaxLeases = 4
INVARIANTS TypeOK NeverResent SendBudget OutcomeTrue AnswerDurable
PROPERTIES TerminalStays
SYMMETRY MCSymmetry
