-------------------------- MODULE MCTournamentChat --------------------------
(* A small instance of TournamentChat: one author, who may be a participant, *)
(* again after leaving, and the organizer, and writes every message.         *)
EXTENDS TournamentChat, TLC

CONSTANTS a1, p1

MCAuthorOf == [m \in Messages |-> a1]
MCPhoneOf == [a \in Actors |-> p1]

\* Handlers, keys, operation ids and the author's messages are interchangeable.
MCSymmetry ==
    Permutations(Senders) \cup Permutations(Keys) \cup Permutations(OrganizerIds)
    \cup Permutations(Messages)
=============================================================================
