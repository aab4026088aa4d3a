------------------------------ MODULE MCWsHub ------------------------------
(* Instances of WsHub for TLC. *)
EXTENDS WsHub, TLC

\* With as many broadcasts as the larger queue holds, one client's queue can be
\* full and the other's hold two messages at once.  The smaller queue stands for
\* a client whose 256 places are all but one taken.
SlowClient == CHOOSE c \in Clients : TRUE
Capacities == [c \in Clients |-> IF c = SlowClient THEN 1 ELSE 2]

\* The rooms are interchangeable, and so are the broadcasts.
HubSymmetry == Permutations(Rooms) \cup Permutations(Broadcasts)
=============================================================================
