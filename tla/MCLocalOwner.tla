---------------------------- MODULE MCLocalOwner ----------------------------
(* Small instances of LocalOwner: two people, one of them with two phones,   *)
(* the second of which both may be verified with, and the phone of a guest.  *)
EXTENDS LocalOwner, TLC

CONSTANTS a1, a2, p1, p2, p3

\* Keys, operation ids and handlers are interchangeable; actors and phones are
\* not, because of MCPhonesOf.
MCSymmetry ==
    Permutations(Keys) \cup Permutations(OrganizerIds)
    \cup Permutations(Requests) \cup Permutations(Desks)

MCPhonesOf == [a \in Actors |-> IF a = a1 THEN Phones \ {p3} ELSE {p2}]
=============================================================================
