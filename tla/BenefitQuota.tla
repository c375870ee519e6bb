---------------------------- MODULE BenefitQuota ----------------------------
(***************************************************************************)
(* What an annual subscription promises its holder: services taken under   *)
(* it, each once, within the limits of its policy, and given back whole.   *)
(* The counters, revisions and requests that keep the promise are absent.  *)
(***************************************************************************)
EXTENDS Integers, FiniteSets, FiniteSetsExt

CONSTANTS
    Keys,      \* services, by the idempotency key of the reservation
    Targets,   \* what a service may be
    DayOf,     \* the local day of a target
    UnitsOf,   \* usage units a target takes
    Bookings,  \* bookings at the provider
    Policies,  \* limits a subscription may be sold with
    None

VARIABLES
    policy,    \* the limits of this subscription
    service

vars == <<policy, service>>

Nothing == [stage |-> "NONE", target |-> None, counted |-> FALSE, booking |-> None]

Taken == {k \in Keys : service[k].stage \in {"HELD", "USED"}}
Units(set) == MapThenSumSet(LAMBDA k : UnitsOf[service[k].target], set)
OnDay(d) == {k \in Taken : service[k].counted /\ DayOf[service[k].target] = d}

Init == policy \in Policies /\ service = [k \in Keys |-> Nothing]

\* Past the daily limit a service is taken at a discount and not counted.
Take(k, t) ==
    LET within == Units(OnDay(DayOf[t])) + UnitsOf[t] =< policy.daily IN
    /\ service[k] = Nothing
    /\ Cardinality(Taken) < policy.active
    /\ within \/ policy.discount
    /\ Units(Taken) + UnitsOf[t] =< policy.period
    /\ Units(Taken) + UnitsOf[t] =< policy.units
    /\ service' = [service EXCEPT ![k] =
          [stage |-> "HELD", target |-> t, counted |-> within, booking |-> None]]

Use(k, b) ==
    /\ service[k].stage = "HELD"
    /\ service' = [service EXCEPT ![k].stage = "USED", ![k].booking = b]

\* A service in use is given back only with the booking it was used with.
GiveBack(k, b) ==
    /\ \/ service[k].stage = "HELD"
       \/ service[k].stage = "USED" /\ service[k].booking = b
    /\ service' = [service EXCEPT ![k].stage = "RETURNED", ![k].booking = b]

Next ==
    /\ service' # service
    /\ \E k \in Keys :
          \/ \E t \in Targets : Take(k, t)
          \/ \E b \in Bookings : Use(k, b)
          \/ \E b \in Bookings \cup {None} : GiveBack(k, b)
    /\ policy' = policy

Spec == Init /\ [][Next]_vars
=============================================================================
