---------------------------- MODULE MCChatReads ----------------------------
(* A small instance of ChatReads: one person writes and reads.               *)
EXTENDS ChatReads, TLC

CONSTANTS a1, p1

MCAuthorOf == [m \in Messages |-> a1]
MCReaderOf == [q \in ReadIds |-> a1]
MCPhoneOf == [a \in Actors |-> p1]
=============================================================================
