---------------------------- MODULE MCMaxOutbox ----------------------------
(* Small instances of MaxOutbox: polls and reports are interchangeable.      *)
EXTENDS MaxOutbox, TLC

MCSymmetry == Permutations(Polls) \cup Permutations(Reports)
=============================================================================
