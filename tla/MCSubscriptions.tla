-------------------------- MODULE MCSubscriptions --------------------------
(* Small instances of Subscriptions: a game created free for one unit and a  *)
(* visit for two, on the same day.                                           *)
EXTENDS Subscriptions, TLC

CONSTANTS game, visit, monday

MCDayOf == [t \in Targets |-> monday]
MCUnitsOf == [t \in Targets |-> IF t = game THEN 1 ELSE 2]
MCRequests ==
    {[target |-> game, versioned |-> TRUE], [target |-> visit, versioned |-> FALSE]}

\* Two services, the second discounted when it is too much for the day; and one
\* service of a unit a day.
MCPolicies ==
    {[active |-> 2, daily |-> 2, discount |-> TRUE, period |-> 4, units |-> 3],
     [active |-> 1, daily |-> 1, discount |-> FALSE, period |-> 2, units |-> 2]}

MCSymmetry ==
    Permutations(Handlers) \cup Permutations(Keys) \cup Permutations(Bookings)
=============================================================================
