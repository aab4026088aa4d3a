---------------------------- MODULE MCKnownHosts ----------------------------
(* Instances of KnownHosts for TLC: two names of one machine, and another. *)
EXTENDS KnownHosts, TLC

CONSTANTS name, ip

MCAddresses == {name, ip}
MCRemote == name :> ip @@ ip :> ip

DialerSymmetry == Permutations(Dialers) \cup Permutations(Keys)
=============================================================================
