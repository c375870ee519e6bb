----------------------------- MODULE SeatLedger -----------------------------
(***************************************************************************)
(* What the public join flow of a tournament promises to the people who    *)
(* use it, without documents, attempts, requests or a payment provider:    *)
(* every phone owns at most one place, a place that somebody is paying for *)
(* is held until it is taken, and held and taken places together never     *)
(* exceed the limit.                                                       *)
(***************************************************************************)
EXTENDS Integers, FiniteSets

CONSTANTS
    Phones      \* the people, named by their normalised phone

VARIABLES
    seats,      \* the number of places, Math.max(2, maxPlayers)
    place,      \* what a phone owns
    settled     \* the phones whose held place is paid for

vars == <<seats, place, settled>>

Places == {"NONE", "QUEUED", "HELD", "SEATED"}

Occupied == {p \in Phones : place[p] \in {"HELD", "SEATED"}}

TypeOK ==
    /\ seats \in Nat
    /\ place \in [Phones -> Places]
    /\ settled \subseteq Phones

Init ==
    /\ seats \in Nat
    /\ place \in [Phones -> {"NONE", "SEATED"}]
    /\ Cardinality(Occupied) =< seats
    /\ settled = {}

Move(p, from, to) ==
    /\ place[p] = from
    /\ place' = [place EXCEPT ![p] = to]

\* A place is held for a payment that is about to start.
Hold(p) ==
    /\ Cardinality(Occupied) < seats
    /\ Move(p, "NONE", "HELD")
    /\ UNCHANGED <<seats, settled>>

\* A free tournament seats at once.
Take(p) ==
    /\ Cardinality(Occupied) < seats
    /\ Move(p, "NONE", "SEATED")
    /\ UNCHANGED <<seats, settled>>

Queue(p) ==
    /\ Move(p, "NONE", "QUEUED")
    /\ UNCHANGED <<seats, settled>>

\* The payment of a held place is verified.
Settle(p) ==
    /\ place[p] = "HELD"
    /\ p \notin settled
    /\ settled' = settled \cup {p}
    /\ UNCHANGED <<seats, place>>

\* Only a paid place is confirmed, and it is confirmed without asking again
\* whether there is room: the place was held.
Confirm(p) ==
    /\ p \in settled
    /\ Move(p, "HELD", "SEATED")
    /\ settled' = settled \ {p}
    /\ UNCHANGED seats

\* More places may be offered at any time.
Grow ==
    /\ seats' \in Nat
    /\ seats' > seats
    /\ UNCHANGED <<place, settled>>

Next ==
    /\ vars' # vars
    /\ \/ \E p \in Phones : Hold(p) \/ Take(p) \/ Queue(p) \/ Settle(p) \/ Confirm(p)
       \/ Grow

\* A paid place does not stay unconfirmed for ever.
Fairness == \A p \in Phones : WF_vars(Confirm(p))

Spec == Init /\ [][Next]_vars
FairSpec == Spec /\ Fairness

-----------------------------------------------------------------------------
\* Held and taken places never exceed the limit.
NeverOversold == Cardinality(Occupied) =< seats
=============================================================================
