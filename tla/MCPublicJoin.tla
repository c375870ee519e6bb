---------------------------- MODULE MCPublicJoin ----------------------------
(* Small instances of PublicJoin for TLC.                                   *)
EXTENDS PublicJoin, TLC

CONSTANTS p1, p2, p3

MCPhones == {p1, p2, p3}
MCRoster == {p3}
MCSex == (p1 :> "MALE") @@ (p2 :> "FEMALE") @@ (p3 :> "MALE")

OnePhone == {p1}
OnePhoneSex == (p1 :> "MALE")
NoRoster == {}
PairSex == (p1 :> "MALE") @@ (p2 :> "FEMALE")
Pair == {p1, p2}

Symmetry == Permutations(Attempts) \cup Permutations(ProviderIds)
                \cup Permutations(Requests)
=============================================================================
