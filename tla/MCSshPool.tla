----------------------------- MODULE MCSshPool -----------------------------
(* Instances of SshPool for TLC. *)
EXTENDS SshPool, TLC

\* Connections and callers are interchangeable, and so are the hosts.
PoolSymmetry == Permutations(Callers) \cup Permutations(Conns) \cup Permutations(Hosts)
=============================================================================
