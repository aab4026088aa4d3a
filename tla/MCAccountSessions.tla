------------------------- MODULE MCAccountSessions -------------------------
(* Instances of AccountSessions for TLC. *)
EXTENDS AccountSessions, TLC

CONSTANTS u1, u2, s1, s2

OneOwner == [s \in Sockets |-> u1]
\* Two accounts, so that a round of the sweeper has several to look at.
TwoOwners == (s1 :> u1) @@ (s2 :> u2)

RequestSymmetry == Permutations(Requests)
=============================================================================
