----------------------------- MODULE KnownHosts -----------------------------
(***************************************************************************)
(* Trust on first use of ssh/knownhosts.go: a connection loads the         *)
(* known_hosts file before it dials, checks the host's key against what it *)
(* loaded, and records the key of a host it had no line for.               *)
(*                                                                         *)
(* knownHostsMu makes the check and the append of one connection atomic,   *)
(* but the check looks at the file as it was before the handshake.         *)
(***************************************************************************)
CONSTANTS
  Dialers,   \* bound: the connections that are attempted
  Addresses, \* the host:port a connection names, and the hosts' IP addresses
  Keys,      \* the keys a host may present
  Remote     \* the remote address behind each address

ASSUME RemoteAssumption == Remote \in [Addresses -> Addresses]

Line == [addresses: SUBSET Addresses, key: Keys]

VARIABLES
  file,     \* the lines of known_hosts
  pc,       \* where each connection stands
  address,  \* the address it dials
  loaded,   \* the lines it has loaded
  key,      \* the keys it was presented: none before the handshake, then one
  recorded, \* history: every line that was ever written
  earlier   \* history: the connections to its address that had been accepted
            \* when it loaded the file and whose line was not taken out since

hostVars == <<file, pc, address, loaded, key, recorded, earlier>>
-----------------------------------------------------------------------------
HostsInit ==
  /\ file = {}
  /\ pc = [d \in Dialers |-> "new"]
  /\ address \in [Dialers -> Addresses]
  /\ loaded = [d \in Dialers |-> {}]
  /\ key = [d \in Dialers |-> {}]
  /\ recorded = {}
  /\ earlier = [d \in Dialers |-> {}]

For(lines, a) == {l \in lines : a \in l.addresses}

\* knownhosts.New(path): the lines as they are now. The key is read in the
\* handshake that follows.
LoadLines(d) ==
  /\ pc[d] = "new"
  /\ pc' = [pc EXCEPT ![d] = "handshake"]
  /\ loaded' = [loaded EXCEPT ![d] = file]
  /\ earlier' = [earlier EXCEPT ![d] = {e \in Dialers :
       /\ pc[e] = "accepted"
       /\ address[e] = address[d]
       /\ \E l \in For(file, address[d]) : l.key \in key[e]}]
  /\ UNCHANGED <<file, address, key, recorded>>

\* The host presents a key and the callback runs under knownHostsMu.
Present(d, k) ==
  /\ pc[d] = "handshake"
  /\ key' = [key EXCEPT ![d] = {k}]

Matches(d, k) == \E l \in For(loaded[d], address[d]) : l.key = k
Unknown(d)    == For(loaded[d], address[d]) = {}

\* Variant: InsecureIgnoreHostKey accepts whatever is presented, unread.
IgnoreHostKey(d, k) ==
  /\ pc[d] = "handshake"
  /\ pc' = [pc EXCEPT ![d] = "accepted"]
  /\ UNCHANGED <<file, address, loaded, key, recorded, earlier>>

AcceptKnown(d, k) ==
  /\ Present(d, k)
  /\ Matches(d, k)
  /\ pc' = [pc EXCEPT ![d] = "accepted"]
  /\ UNCHANGED <<file, address, loaded, recorded, earlier>>

\* appendKnownHost: one line for the address and the remote address.
LineFor(d, k) == [addresses |-> {address[d], Remote[address[d]]}, key |-> k]

\* Variant: a changed key is recorded like a first one.
RecordChanged(d, k) ==
  /\ Present(d, k)
  /\ ~Unknown(d) /\ ~Matches(d, k)
  /\ pc' = [pc EXCEPT ![d] = "accepted"]
  /\ file' = file \cup {LineFor(d, k)}
  /\ recorded' = recorded \cup {LineFor(d, k)}
  /\ UNCHANGED <<address, loaded, earlier>>

\* Known host, different key.
RejectChanged(d, k) ==
  /\ Present(d, k)
  /\ ~Unknown(d) /\ ~Matches(d, k)
  /\ pc' = [pc EXCEPT ![d] = "rejected"]
  /\ UNCHANGED <<file, address, loaded, recorded, earlier>>

\* Variant: a line that cannot be written does not stop the connection.
AcceptUnwritten(d, k) ==
  /\ Present(d, k)
  /\ Unknown(d)
  /\ pc' = [pc EXCEPT ![d] = "accepted"]
  /\ UNCHANGED <<file, address, loaded, recorded, earlier>>

RecordFirst(d, k) ==
  /\ Present(d, k)
  /\ Unknown(d)
  /\ pc' = [pc EXCEPT ![d] = "accepted"]
  /\ file' = file \cup {LineFor(d, k)}
  /\ recorded' = recorded \cup {LineFor(d, k)}
  /\ UNCHANGED <<address, loaded, earlier>>

\* The file cannot be opened or written: the handshake fails.
RecordFails(d, k) ==
  /\ Present(d, k)
  /\ Unknown(d)
  /\ pc' = [pc EXCEPT ![d] = "rejected"]
  /\ UNCHANGED <<file, address, loaded, recorded, earlier>>

\* "remove its entry from that file to re-trust it": the operator edits the
\* file. What had been accepted by that line is no longer on record.
TakeOut(l) ==
  /\ l \in file
  /\ file' = file \ {l}
  /\ earlier' = [d \in Dialers |-> {e \in earlier[d] : l.key \notin key[e]}]
  /\ UNCHANGED <<pc, address, loaded, key, recorded>>

Callback(d, k) ==
  AcceptKnown(d, k) \/ RejectChanged(d, k) \/ RecordFirst(d, k) \/ RecordFails(d, k)

HostsNext ==
  \/ \E d \in Dialers : LoadLines(d) \/ \E k \in Keys : Callback(d, k)
  \/ \E l \in file : TakeOut(l)

HostsSpec == HostsInit /\ [][HostsNext]_hostVars
-----------------------------------------------------------------------------
HostsOK ==
  /\ file \subseteq Line
  /\ pc \in [Dialers -> {"new", "handshake", "accepted", "rejected"}]
  /\ address \in [Dialers -> Addresses]
  /\ loaded \in [Dialers -> SUBSET Line]
  /\ key \in [Dialers -> SUBSET Keys]
  /\ recorded \subseteq Line
  /\ earlier \in [Dialers -> SUBSET Dialers]
  /\ \A d \in Dialers : pc[d] \in {"accepted", "rejected"} <=> key[d] # {}
  /\ \A d \in Dialers : \A k, l \in key[d] : k = l

\* Whatever connections overlap and whatever the operator takes out, nothing is
\* accepted without a line on record: the accepted key was written for that
\* address by this connection or by one before it (knownhosts.go 103-127).
AcceptedIsRecorded ==
  \A d \in Dialers : pc[d] = "accepted" =>
    \E l \in For(recorded, address[d]) : l.key \in key[d]

\* A connection that loads the file after others to its address were accepted
\* is accepted only with a key that is on record for the address: a key that
\* changes between two connections that do not overlap is rejected
\* (knownhosts.go 98-119).
LaterIsChecked ==
  \A d \in Dialers : (pc[d] = "accepted" /\ earlier[d] # {}) =>
    \E l \in For(loaded[d], address[d]) : l.key \in key[d]

\* knownhosts.go 15-19: "the first time we connect to a host we record its key
\* in knownHostsPath, and every connection after that is checked against the
\* recorded key. A host that suddenly presents a different key [...] is
\* rejected instead of silently accepted". While a key is on record for an
\* address, no other key is accepted for it.
OneKeyPerAddress ==
  [][\A d \in Dialers : (pc[d] = "handshake" /\ pc'[d] = "accepted")
       => \A l \in For(file, address[d]) : l.key \in key'[d]]_hostVars
=============================================================================
