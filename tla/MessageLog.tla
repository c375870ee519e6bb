----------------------------- MODULE MessageLog -----------------------------
(***************************************************************************)
(* What the chat of a tournament promises: one log that only grows, in     *)
(* which a message has at most one place, and a frontier that moves        *)
(* through it one message at a time and never back.                        *)
(***************************************************************************)
EXTENDS Integers, Sequences

CONSTANT Message

VARIABLES
    log,      \* the accepted messages, in the order of their sequences
    frontier  \* how many of them readers may see

Init == log = <<>> /\ frontier = 0

Accept(m) ==
    /\ \A i \in DOMAIN log : log[i] # m
    /\ log' = Append(log, m)
    /\ UNCHANGED frontier

Publish ==
    /\ frontier < Len(log)
    /\ frontier' = frontier + 1
    /\ UNCHANGED log

vars == <<log, frontier>>

\* Only changes are steps; what changes nothing is told apart at once.
Next ==
    /\ vars' # vars
    /\ Publish \/ \E m \in Message : Accept(m)

Spec == Init /\ [][Next]_vars
=============================================================================
