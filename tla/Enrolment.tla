----------------------------- MODULE Enrolment -----------------------------
(***************************************************************************)
(* What the private owner of local participation promises to the people    *)
(* who send it commands: a command is decided once and for ever, the       *)
(* people enrolled are those whose last accepted command was a JOIN, and   *)
(* they are never more than the tournament has places.                     *)
(***************************************************************************)
EXTENDS Integers, FiniteSets

CONSTANTS People, CommandKeys, Places

VARIABLES
    decided,  \* the commands decided: who sent them, under which key, the outcome
    enrolled  \* the people who are in

Refusals == {"MEMBERSHIP_EXISTS", "FULL", "GENERATION_NOT_CURRENT"}

Init == decided = {} /\ enrolled = {}

Decide(p, k, outcome) ==
    /\ \A d \in decided : ~(d.who = p /\ d.key = k)
    /\ decided' = decided \cup {[who |-> p, key |-> k, outcome |-> outcome]}

Enrol(p) ==
    /\ p \notin enrolled
    /\ Cardinality(enrolled) < Places
    /\ \E k \in CommandKeys : Decide(p, k, "REGISTERED")
    /\ enrolled' = enrolled \cup {p}

Withdraw(p) ==
    /\ p \in enrolled
    /\ \E k \in CommandKeys : Decide(p, k, "LEFT")
    /\ enrolled' = enrolled \ {p}

Refuse(p) ==
    /\ \E k \in CommandKeys, reason \in Refusals : Decide(p, k, reason)
    /\ UNCHANGED enrolled

\* Every command leaves a decision.
Next ==
    /\ decided' # decided
    /\ \E p \in People : Enrol(p) \/ Withdraw(p) \/ Refuse(p)

Spec == Init /\ [][Next]_<<decided, enrolled>>
=============================================================================
