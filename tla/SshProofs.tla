----------------------------- MODULE SshProofs -----------------------------
(***************************************************************************)
(* What holds of the SSH pool for any callers, connections, probes,        *)
(* servers and operations, and of the trust in the hosts it dials for any  *)
(* connections, addresses and keys.                                        *)
(***************************************************************************)
EXTENDS SshPool, KnownHosts, TLAPS

Tasks == [op: Operations \cup {"none", "reconnect"}, pc: Steps, server: Slots,
          host: Hosts \cup {None}, conn: Conns \cup {None}]

\* The part of TypeOK that only types the variables.
Typed ==
  /\ row \in [Servers -> Hosts \cup {None}]
  /\ pool \in [Slots -> Conns \cup {None}]
  /\ link \in [Conns -> {"unused", "open", "dead", "closed"}]
  /\ peer \in [Conns -> Hosts \cup {None}]
  /\ owner \in [Conns -> Slots]
  /\ mu \in [Conns -> Callers \cup {None}]
  /\ task \in [Callers -> Tasks]
  /\ probe \in [Probes -> [pc: {"idle", "probing", "removing"}, server: Slots,
                           conn: Conns \cup {None}]]
  /\ displaced \subseteq Conns

\* The part that keeps undialed connections out of the pool and of use.
Dialed ==
  /\ \A s \in Slots : pool[s] # None => link[pool[s]] # "unused"
  /\ \A t \in Callers : task[t].pc \in HasClient =>
       task[t].conn \in Conns /\ link[task[t].conn] # "unused"

\* A client about to be stored is fresh: not closed, dialed for the caller's
\* server, in no slot of the pool and in no other caller's hands.
StoreIsFresh ==
  \A t \in Callers : At(t, "store") =>
    /\ link[task[t].conn] # "closed"
    /\ owner[task[t].conn] = task[t].server
    /\ \A s \in Slots : pool[s] # task[t].conn
    /\ \A u \in Callers : At(u, "store") /\ task[u].conn = task[t].conn => u = t

PoolInv == PoolIsNotClosed /\ PoolIsByServer /\ LostOnlyByDisplacement /\ StoreIsFresh

IInv == Typed /\ Dialed /\ PoolInv /\ MutexIsHeldByWorker

\* TypeOK is its two parts.
LEMMA TypeOKParts == TypeOK <=> Typed /\ Dialed
  BY DEF TypeOK, Typed, Dialed, Tasks
-----------------------------------------------------------------------------
\* A failed call leaves a caller without a client in use, whatever it does
\* next.
LEMMA FailedTask ==
  ASSUME NEW r \in Tasks
  PROVE  /\ Failed(r) \in Tasks
         /\ Failed(r).pc \in {"remove", "done"}
         /\ Failed(r).conn = r.conn
         /\ Failed(r).server = r.server
  <1>1. CASE r.op = "collect"   BY <1>1 DEF Failed, Tasks, Steps
  <1>2. CASE r.op = "terminal"  BY <1>2 DEF Failed, Tasks, Steps
  <1>3. CASE r.op \notin {"collect", "terminal"}  BY <1>3 DEF Failed, Tasks, Steps
  <1>4. QED  BY <1>1, <1>2, <1>3

\* The initial states satisfy the invariant.
LEMMA InitInv == Init => IInv
  <1> SUFFICES ASSUME Init PROVE IInv  OBVIOUS
  <1> USE PoolAssumption DEF Init
  <1>1. Typed  BY DEF Typed, Tasks, Steps, Idle, NoProbe, Slots
  <1>2. Dialed  BY DEF Dialed, Idle, HasClient
  <1>3. PoolInv
    BY DEF PoolInv, PoolIsNotClosed, PoolIsByServer, LostOnlyByDisplacement,
           StoreIsFresh, At, Idle
  <1>4. MutexIsHeldByWorker  BY DEF MutexIsHeldByWorker, Working, Idle
  <1>5. QED  BY <1>1, <1>2, <1>3, <1>4 DEF IInv
-----------------------------------------------------------------------------
(***************************************************************************)
(* What a step does to the callers' records.                               *)
(***************************************************************************)
\* The fields of a caller's record.
LEMMA TaskFields ==
  ASSUME Typed, NEW t \in Callers
  PROVE  /\ task[t].pc \in Steps
         /\ task[t].server \in Slots
         /\ task[t].conn \in Conns \cup {None}
  BY DEF Typed, Tasks

\* A step of one caller leaves the records of the others alone.
Others(t) == \A u \in Callers : u # t => task'[u] = task[u]

\* Goto moves one caller to another step and keeps its client.
LEMMA GotoMoves ==
  ASSUME Typed, NEW t \in Callers, NEW to \in Steps, Goto(t, to)
  PROVE  /\ task' \in [Callers -> Tasks]
         /\ Others(t)
         /\ task'[t].pc = to
         /\ task'[t].op = task[t].op
         /\ task'[t].conn = task[t].conn
         /\ task'[t].server = task[t].server
  <1>1. task' = [task EXCEPT ![t] = [task[t] EXCEPT !.pc = to]]
    BY DEF Goto, Typed, Tasks
  <1>2. [task[t] EXCEPT !.pc = to] \in Tasks
    <2>1. task[t] \in Tasks  BY DEF Typed
    <2>2. QED  BY <2>1 DEF Tasks
  <1>3. QED  BY <1>1, <1>2 DEF Typed, Tasks, Others

\* A failure takes a caller to a removal or to its end.
LEMMA FailedMoves ==
  ASSUME Typed, NEW t \in Callers, task' = [task EXCEPT ![t] = Failed(@)]
  PROVE  /\ task' \in [Callers -> Tasks]
         /\ Others(t)
         /\ task'[t].pc \in {"remove", "done"}
         /\ task'[t].conn = task[t].conn
  <1>1. task[t] \in Tasks  BY DEF Typed
  <1>2. Failed(task[t]) \in Tasks /\ Failed(task[t]).pc \in {"remove", "done"}
        /\ Failed(task[t]).conn = task[t].conn
    BY <1>1, FailedTask
  <1>3. task' = [task EXCEPT ![t] = Failed(task[t])]  OBVIOUS
  <1>4. QED  BY <1>2, <1>3 DEF Typed, Others

\* A request begins without a client.
LEMMA BeginMoves ==
  ASSUME Typed, NEW t \in Callers, NEW op \in Operations, NEW to \in {"remove", "lookup"},
         NEW s \in Slots, NEW h \in Hosts \cup {None},
         task' = [task EXCEPT ![t] =
           [op |-> op, pc |-> to, server |-> s, host |-> h, conn |-> None]]
  PROVE  /\ task' \in [Callers -> Tasks]
         /\ Others(t)
         /\ task'[t].pc = to
  <1>1. [op |-> op, pc |-> to, server |-> s, host |-> h, conn |-> None] \in Tasks
    BY DEF Tasks, Steps
  <1>2. QED  BY <1>1 DEF Typed, Others

\* A lookup takes what is in the pool, or goes on to dial.
LEMMA LookupMoves ==
  ASSUME Typed, NEW t \in Callers, Lookup(t)
  PROVE  /\ task' \in [Callers -> Tasks]
         /\ Others(t)
         /\ \/ task'[t].pc = "dial"
            \/ /\ task'[t].pc = "lock"
               /\ task'[t].conn = pool[task[t].server]
               /\ task'[t].conn # None
  <1> DEFINE k == pool[task[t].server]
             to == IF k = None THEN "dial" ELSE "lock"
             r == [task[t] EXCEPT !.pc = to, !.conn = k]
  <1>1. task' = [task EXCEPT ![t] = r]  BY DEF Lookup, Typed, Tasks
  <1>2. k \in Conns \cup {None}  BY TaskFields DEF Typed
  <1>3. r \in Tasks /\ r.pc = to /\ r.conn = k
    <2>1. task[t] \in Tasks  BY DEF Typed
    <2>2. to \in Steps  BY DEF Steps
    <2> HIDE DEF k, to
    <2>3. QED  BY <1>2, <2>1, <2>2 DEF Tasks
  <1> HIDE DEF r
  <1>4. task' \in [Callers -> Tasks] /\ Others(t) /\ task'[t] = r
    BY <1>1, <1>3 DEF Typed, Others
  <1>5. QED  BY <1>3, <1>4

\* A dial gives its caller an unused connection, to be stored.
LEMMA DialMoves ==
  ASSUME Typed, NEW t \in Callers, NEW k \in Conns,
         task' = [task EXCEPT ![t].pc = "store", ![t].conn = k]
  PROVE  /\ task' \in [Callers -> Tasks]
         /\ Others(t)
         /\ task'[t].pc = "store"
         /\ task'[t].conn = k
         /\ task'[t].server = task[t].server
  <1> DEFINE r == [task[t] EXCEPT !.pc = "store", !.conn = k]
  <1>1. task' = [task EXCEPT ![t] = r]  BY DEF Typed, Tasks
  <1>2. r \in Tasks /\ r.pc = "store" /\ r.conn = k /\ r.server = task[t].server
    BY DEF Typed, Tasks, Steps
  <1> HIDE DEF r
  <1>3. task' \in [Callers -> Tasks] /\ Others(t) /\ task'[t] = r
    BY <1>1, <1>2 DEF Typed, Others
  <1>4. QED  BY <1>2, <1>3
-----------------------------------------------------------------------------
(***************************************************************************)
(* What keeps each part of the invariant.                                  *)
(***************************************************************************)
\* No caller begins or ends a store.
StoresStill ==
  \A u \in Callers :
    /\ task'[u].pc = "store" <=> task[u].pc = "store"
    /\ task[u].pc = "store" => /\ task'[u].conn = task[u].conn
                               /\ task'[u].server = task[u].server

\* A step of one caller that is no store leaves the stores alone.
LEMMA NoStore ==
  ASSUME NEW t \in Callers, Others(t), task[t].pc # "store", task'[t].pc # "store"
  PROVE  StoresStill
  BY DEF StoresStill, Others

\* Pool and connections untouched: only the caller that moved needs a look.
LEMMA DialedFrame ==
  ASSUME Dialed, NEW t \in Callers, Others(t), UNCHANGED <<pool, link>>,
         task'[t].pc \in HasClient =>
           task'[t].conn \in Conns /\ link[task'[t].conn] # "unused"
  PROVE  Dialed'
  BY DEF Dialed, Others

\* Pool, connections and stores untouched.
LEMMA PoolFrame ==
  ASSUME PoolInv, StoresStill, UNCHANGED <<pool, link, owner, displaced>>
  PROVE  PoolInv'
  <1>1. PoolIsNotClosed' /\ PoolIsByServer'
    BY DEF PoolInv, PoolIsNotClosed, PoolIsByServer
  <1>2. LostOnlyByDisplacement'
    BY DEF PoolInv, LostOnlyByDisplacement, StoresStill, At
  <1>3. StoreIsFresh'  BY DEF PoolInv, StoreIsFresh, StoresStill, At
  <1>4. QED  BY <1>1, <1>2, <1>3 DEF PoolInv

\* A caller that holds no mutex takes none.
LEMMA MutexFrame ==
  ASSUME MutexIsHeldByWorker, NEW t \in Callers, Others(t), UNCHANGED mu,
         task[t].pc \notin {"session", "command"},
         task'[t].pc \notin {"session", "command"}
  PROVE  MutexIsHeldByWorker'
  BY DEF MutexIsHeldByWorker, Others, Working

\* A caller that leaves RunCommand or NewSession gives its mutex back.
LEMMA UnlockFrame ==
  ASSUME PoolAssumption, Typed, MutexIsHeldByWorker, NEW t \in Callers, Others(t), Unlock(t),
         Working(t), task'[t].pc \notin {"session", "command"}
  PROVE  mu' \in [Conns -> Callers \cup {None}] /\ MutexIsHeldByWorker'
  <1>1. mu' = [mu EXCEPT ![task[t].conn] = None]  BY DEF Unlock
  <1>2. mu \in [Conns -> Callers \cup {None}] /\ None \notin Callers
    BY DEF Typed, PoolAssumption
  <1>3. mu' \in [Conns -> Callers \cup {None}]  BY <1>1, <1>2
  <1>4. ASSUME NEW u \in Callers, NEW k \in Conns
        PROVE  mu'[k] = u <=> task'[u].pc \in {"session", "command"} /\ task'[u].conn = k
    <2>1. mu[k] = u <=> task[u].pc \in {"session", "command"} /\ task[u].conn = k
      BY DEF MutexIsHeldByWorker, Working
    <2>2. mu[k] = t <=> task[t].conn = k
      BY DEF MutexIsHeldByWorker, Working
    <2>3. CASE u = t  BY <1>1, <1>2, <2>2, <2>3
    <2>4. CASE u # t  BY <1>1, <1>2, <2>1, <2>2, <2>4 DEF Others
    <2>5. QED  BY <2>3, <2>4
  <1>5. QED  BY <1>3, <1>4 DEF MutexIsHeldByWorker, Working

\* Remove takes a connection out of the pool and closes it, and no other.
LEMMA RemoveStep ==
  ASSUME PoolAssumption, Typed, Dialed, PoolInv, NEW s \in Slots, Remove(s), StoresStill,
         UNCHANGED <<owner, displaced>>
  PROVE  /\ pool' \in [Slots -> Conns \cup {None}]
         /\ link' \in [Conns -> {"unused", "open", "dead", "closed"}]
         /\ \A r \in Slots : pool'[r] # None => link'[pool'[r]] # "unused"
         /\ \A k \in Conns : link'[k] = "unused" => link[k] = "unused"
         /\ PoolInv'
  <1>1. pool' = [pool EXCEPT ![s] = None]  BY DEF Remove
  <1>2. link' = [k \in Conns |-> IF k = pool[s] THEN "closed" ELSE link[k]]
    BY DEF Remove
  <1>3. pool \in [Slots -> Conns \cup {None}] /\ None \notin Conns
        /\ link \in [Conns -> {"unused", "open", "dead", "closed"}]
    BY DEF Typed, PoolAssumption
  <1>4. pool' \in [Slots -> Conns \cup {None}]
        /\ link' \in [Conns -> {"unused", "open", "dead", "closed"}]
    BY <1>1, <1>2, <1>3
  <1>5. \A k \in Conns : link'[k] = "unused" => link[k] = "unused"
    BY <1>2
  <1>6. ASSUME NEW r \in Slots, pool'[r] # None
        PROVE  /\ r # s /\ pool'[r] = pool[r] /\ pool[r] \in Conns
               /\ pool[r] # pool[s] /\ link'[pool[r]] = link[pool[r]]
    <2>1. r # s /\ pool'[r] = pool[r] /\ pool[r] \in Conns  BY <1>1, <1>3, <1>6
    <2>2. owner[pool[r]] = r  BY <1>6, <2>1 DEF PoolInv, PoolIsByServer
    <2>3. pool[s] # None => owner[pool[s]] = s  BY DEF PoolInv, PoolIsByServer
    <2>4. pool[r] # pool[s]  BY <1>6, <2>1, <2>2, <2>3
    <2>5. QED  BY <1>2, <2>1, <2>4
  <1>7. \A r \in Slots : pool'[r] # None => link'[pool'[r]] # "unused"
    BY <1>6 DEF Dialed
  <1>8. PoolIsNotClosed' /\ PoolIsByServer'
    BY <1>6 DEF PoolInv, PoolIsNotClosed, PoolIsByServer
  <1>9. LostOnlyByDisplacement'
    <2>1. SUFFICES ASSUME NEW k \in Conns, link'[k] = "open"
                   PROVE  \/ \E r \in Slots : pool'[r] = k
                          \/ \E t \in Callers : task'[t].pc = "store" /\ task'[t].conn = k
                          \/ k \in displaced'
      BY DEF LostOnlyByDisplacement, At
    <2>2. k # pool[s] /\ link[k] = "open"  BY <1>2, <2>1
    <2>3. \/ \E r \in Slots : pool[r] = k
          \/ \E t \in Callers : task[t].pc = "store" /\ task[t].conn = k
          \/ k \in displaced
      BY <2>2 DEF PoolInv, LostOnlyByDisplacement, At
    <2>4. ASSUME NEW r \in Slots, pool[r] = k PROVE pool'[r] = k
      BY <1>1, <1>3, <2>2, <2>4
    <2>5. QED  BY <2>3, <2>4 DEF StoresStill
  <1>10. StoreIsFresh'
    <2>1. SUFFICES ASSUME NEW t \in Callers, task'[t].pc = "store"
                   PROVE  /\ link'[task'[t].conn] # "closed"
                          /\ owner'[task'[t].conn] = task'[t].server
                          /\ \A r \in Slots : pool'[r] # task'[t].conn
                          /\ \A u \in Callers : task'[u].pc = "store"
                               /\ task'[u].conn = task'[t].conn => u = t
      BY DEF StoreIsFresh, At
    <2>2. task[t].pc = "store" /\ task'[t].conn = task[t].conn
          /\ task'[t].server = task[t].server
      BY <2>1 DEF StoresStill
    <2>3. /\ link[task[t].conn] # "closed"
          /\ owner[task[t].conn] = task[t].server
          /\ \A r \in Slots : pool[r] # task[t].conn
          /\ \A u \in Callers : task[u].pc = "store"
               /\ task[u].conn = task[t].conn => u = t
      BY <2>2 DEF PoolInv, StoreIsFresh, At
    <2>4. task[t].conn \in Conns  BY <2>2 DEF Dialed, HasClient
    <2>5. link'[task[t].conn] # "closed"  BY <1>2, <2>3, <2>4
    <2>6. \A r \in Slots : pool'[r] # task[t].conn
      BY <1>1, <1>3, <2>3, <2>4
    <2>7. QED  BY <2>2, <2>3, <2>5, <2>6 DEF StoresStill
  <1>11. QED  BY <1>4, <1>5, <1>7, <1>8, <1>9, <1>10 DEF PoolInv
-----------------------------------------------------------------------------
(***************************************************************************)
(* The steps.                                                              *)
(***************************************************************************)
\* A caller that goes on without pool, connections or mutexes changing: it
\* neither stores nor works, before or after.
LEMMA QuietStep ==
  ASSUME PoolAssumption, IInv, NEW t \in Callers,
         task' \in [Callers -> Tasks], Others(t),
         task[t].pc \notin {"store", "session", "command"},
         task'[t].pc \notin {"store", "session", "command"},
         task'[t].pc = "lock" => task'[t].conn \in Conns /\ link[task'[t].conn] # "unused",
         row' \in [Servers -> Hosts \cup {None}],
         UNCHANGED <<pool, connVars, mu, probe, displaced>>
  PROVE  IInv'
  <1> USE DEF IInv
  <1>1. Typed'  BY DEF Typed, connVars
  <1>2. Dialed'  BY DialedFrame DEF HasClient, connVars
  <1>3. PoolInv'  BY NoStore, PoolFrame DEF connVars
  <1>4. MutexIsHeldByWorker'  BY MutexFrame
  <1>5. QED  BY <1>1, <1>2, <1>3, <1>4

\* A caller that leaves its session or command and unlocks.
LEMMA UnlockStep ==
  ASSUME PoolAssumption, IInv, NEW t \in Callers,
         task' \in [Callers -> Tasks], Others(t), Unlock(t), Working(t),
         task'[t].pc \in {"remove", "done"},
         UNCHANGED <<row, pool, connVars, probe, displaced>>
  PROVE  IInv'
  <1> USE DEF IInv
  <1>1. mu' \in [Conns -> Callers \cup {None}] /\ MutexIsHeldByWorker'
    BY UnlockFrame
  <1>2. Typed'  BY <1>1 DEF Typed, connVars
  <1>3. Dialed'  BY DialedFrame DEF HasClient, connVars
  <1>4. task[t].pc # "store"  BY DEF Working
  <1>5. PoolInv'  BY <1>4, NoStore, PoolFrame DEF connVars
  <1>6. QED  BY <1>1, <1>2, <1>3, <1>5

\* A dial: the connection was unused, so nobody has it.
LEMMA DialStep ==
  ASSUME PoolAssumption, IInv, NEW t \in Callers, Dial(t)
  PROVE  IInv'
  <1> USE DEF IInv
  <1>1. PICK k \in Conns :
          /\ link[k] = "unused"
          /\ link' = [link EXCEPT ![k] = "open"]
          /\ peer' = [peer EXCEPT ![k] = task[t].host]
          /\ owner' = [owner EXCEPT ![k] = task[t].server]
          /\ task' = [task EXCEPT ![t].pc = "store", ![t].conn = k]
    BY DEF Dial
  <1>2. /\ task' \in [Callers -> Tasks] /\ Others(t)
        /\ task'[t].pc = "store" /\ task'[t].conn = k /\ task'[t].server = task[t].server
    BY <1>1, DialMoves
  <1>3. UNCHANGED <<row, pool, mu, probe, displaced>> /\ task[t].pc = "dial"
    BY DEF Dial, At
  <1>4. task[t].server \in Slots /\ task[t].host \in Hosts \cup {None}
    BY DEF Typed, Tasks
  <1>5. /\ link \in [Conns -> {"unused", "open", "dead", "closed"}]
        /\ owner \in [Conns -> Slots]
        /\ pool \in [Slots -> Conns \cup {None}]
        /\ None \notin Conns
    BY DEF Typed, PoolAssumption
  <1>6. /\ link'[k] = "open" /\ owner'[k] = task[t].server
        /\ \A j \in Conns : j # k => link'[j] = link[j] /\ owner'[j] = owner[j]
    BY <1>1, <1>5
  <1>7. \A s \in Slots : pool[s] # None => pool[s] \in Conns /\ pool[s] # k
    BY <1>1, <1>5 DEF Dialed
  <1>8. \A u \in Callers : task[u].pc \in HasClient => task[u].conn \in Conns /\ task[u].conn # k
    BY <1>1 DEF Dialed
  <1>9. Typed'  BY <1>1, <1>2, <1>3, <1>4 DEF Typed
  <1>10. Dialed'
    BY <1>2, <1>3, <1>6, <1>7, <1>8 DEF Dialed, Others
  <1>11. PoolIsNotClosed' /\ PoolIsByServer'
    BY <1>3, <1>6, <1>7 DEF PoolInv, PoolIsNotClosed, PoolIsByServer
  <1>12. LostOnlyByDisplacement'
    BY <1>2, <1>3, <1>6 DEF PoolInv, LostOnlyByDisplacement, At, Others
  <1>13. StoreIsFresh'
    <2>1. ASSUME NEW u \in Callers, task'[u].pc = "store"
          PROVE  /\ link'[task'[u].conn] # "closed"
                 /\ owner'[task'[u].conn] = task'[u].server
                 /\ \A s \in Slots : pool'[s] # task'[u].conn
                 /\ \A v \in Callers : task'[v].pc = "store" /\ task'[v].conn = task'[u].conn
                      => v = u
      <3>1. CASE u = t
        BY <1>2, <1>3, <1>5, <1>6, <1>7, <1>8, <3>1 DEF Others, HasClient
      <3>2. CASE u # t
        <4>1. task'[u] = task[u] /\ task[u].pc = "store"  BY <2>1, <3>2, <1>2 DEF Others
        <4>2. /\ link[task[u].conn] # "closed"
              /\ owner[task[u].conn] = task[u].server
              /\ \A s \in Slots : pool[s] # task[u].conn
              /\ \A v \in Callers : task[v].pc = "store" /\ task[v].conn = task[u].conn => v = u
          BY <4>1 DEF PoolInv, StoreIsFresh, At
        <4>3. task[u].conn \in Conns /\ task[u].conn # k  BY <4>1, <1>8 DEF HasClient
        <4>4. QED  BY <1>2, <1>3, <1>6, <4>1, <4>2, <4>3 DEF Others
      <3>3. QED  BY <3>1, <3>2
    <2>2. QED  BY <2>1 DEF StoreIsFresh, At
  <1>14. MutexIsHeldByWorker'
    BY <1>2, <1>3, MutexFrame
  <1>15. QED  BY <1>9, <1>10, <1>11, <1>12, <1>13, <1>14 DEF PoolInv

\* A store: the client is fresh, and what it overwrites is displaced.
LEMMA StoreStep ==
  ASSUME PoolAssumption, IInv, NEW t \in Callers, Store(t)
  PROVE  IInv'
  <1> USE DEF IInv
  <1> DEFINE s == task[t].server
             k == task[t].conn
  <1>1. /\ task[t].pc = "store"
        /\ displaced' = displaced \cup ({pool[s]} \ {None})
        /\ pool' = [pool EXCEPT ![s] = k]
        /\ Goto(t, "lock")
        /\ UNCHANGED <<row, connVars, mu, probe>>
    BY DEF Store, At
  <1>2. /\ task' \in [Callers -> Tasks] /\ Others(t)
        /\ task'[t].pc = "lock" /\ task'[t].conn = k
    BY <1>1, GotoMoves DEF Steps
  <1>3. s \in Slots  BY DEF Typed, Tasks
  <1>4. k \in Conns /\ link[k] # "unused"  BY <1>1 DEF Dialed, HasClient
  <1>5. /\ link[k] # "closed" /\ owner[k] = s
        /\ \A r \in Slots : pool[r] # k
        /\ \A u \in Callers : task[u].pc = "store" /\ task[u].conn = k => u = t
    BY <1>1 DEF PoolInv, StoreIsFresh, At
  <1> HIDE DEF s, k
  <1>6. pool \in [Slots -> Conns \cup {None}] /\ None \notin Conns
        /\ displaced \subseteq Conns
    BY DEF Typed, PoolAssumption
  <1>7. pool'[s] = k /\ \A r \in Slots : r # s => pool'[r] = pool[r]
    BY <1>1, <1>3, <1>6
  <1>8. pool' \in [Slots -> Conns \cup {None}] /\ displaced' \subseteq Conns
    BY <1>1, <1>3, <1>4, <1>6
  <1>9. Typed'  BY <1>1, <1>2, <1>8 DEF Typed, connVars
  <1>10. Dialed'
    <2>1. \A r \in Slots : pool'[r] # None => link'[pool'[r]] # "unused"
      BY <1>1, <1>4, <1>7 DEF Dialed, connVars
    <2>2. \A u \in Callers : task'[u].pc \in HasClient =>
            task'[u].conn \in Conns /\ link'[task'[u].conn] # "unused"
      BY <1>1, <1>2, <1>4 DEF Dialed, connVars, Others
    <2>3. QED  BY <2>1, <2>2 DEF Dialed
  <1>11. PoolIsNotClosed' /\ PoolIsByServer'
    BY <1>1, <1>5, <1>7 DEF PoolInv, PoolIsNotClosed, PoolIsByServer, connVars
  <1>12. LostOnlyByDisplacement'
    <2>1. SUFFICES ASSUME NEW j \in Conns, link'[j] = "open"
                   PROVE  \/ \E r \in Slots : pool'[r] = j
                          \/ \E u \in Callers : task'[u].pc = "store" /\ task'[u].conn = j
                          \/ j \in displaced'
      BY DEF LostOnlyByDisplacement, At
    <2>2. \/ \E r \in Slots : pool[r] = j
          \/ \E u \in Callers : task[u].pc = "store" /\ task[u].conn = j
          \/ j \in displaced
      BY <1>1, <2>1 DEF PoolInv, LostOnlyByDisplacement, At, connVars
    <2>3. ASSUME NEW r \in Slots, pool[r] = j
          PROVE  pool'[r] = j \/ j \in displaced'
      BY <1>1, <1>6, <1>7, <2>3
    <2>4. ASSUME NEW u \in Callers, task[u].pc = "store", task[u].conn = j
          PROVE  (task'[u].pc = "store" /\ task'[u].conn = j) \/ pool'[s] = j
      <3>1. CASE u = t  BY <1>7, <2>4, <3>1 DEF k
      <3>2. CASE u # t  BY <1>2, <2>4, <3>2 DEF Others
      <3>3. QED  BY <3>1, <3>2
    <2>5. QED  BY <1>1, <1>3, <2>2, <2>3, <2>4
  <1>13. StoreIsFresh'
    <2>1. SUFFICES ASSUME NEW u \in Callers, task'[u].pc = "store"
                   PROVE  /\ link'[task'[u].conn] # "closed"
                          /\ owner'[task'[u].conn] = task'[u].server
                          /\ \A r \in Slots : pool'[r] # task'[u].conn
                          /\ \A v \in Callers : task'[v].pc = "store"
                               /\ task'[v].conn = task'[u].conn => v = u
      BY DEF StoreIsFresh, At
    <2>2. u # t /\ task'[u] = task[u]  BY <1>2, <2>1 DEF Others
    <2>3. /\ link[task[u].conn] # "closed"
          /\ owner[task[u].conn] = task[u].server
          /\ \A r \in Slots : pool[r] # task[u].conn
          /\ \A v \in Callers : task[v].pc = "store" /\ task[v].conn = task[u].conn => v = u
      BY <2>1, <2>2 DEF PoolInv, StoreIsFresh, At
    <2>4. task[u].conn # k  BY <1>5, <2>1, <2>2
    <2>5. QED  BY <1>1, <1>2, <1>7, <2>2, <2>3, <2>4 DEF Others, connVars
  <1>14. MutexIsHeldByWorker'
    BY <1>1, <1>2, MutexFrame
  <1>15. QED  BY <1>9, <1>10, <1>11, <1>12, <1>13, <1>14 DEF PoolInv

\* A caller takes a free mutex, and works from then on.
LEMMA LockStep ==
  ASSUME PoolAssumption, IInv, NEW t \in Callers, Lock(t)
  PROVE  IInv'
  <1> USE DEF IInv
  <1>1. /\ task[t].pc = "lock" /\ mu[task[t].conn] = None
        /\ mu' = [mu EXCEPT ![task[t].conn] = t]
        /\ Goto(t, "session")
        /\ UNCHANGED <<row, pool, connVars, probe, displaced>>
    BY DEF Lock, At
  <1>2. /\ task' \in [Callers -> Tasks] /\ Others(t)
        /\ task'[t].pc = "session" /\ task'[t].conn = task[t].conn
    BY <1>1, GotoMoves DEF Steps
  <1>3. task[t].conn \in Conns /\ link[task[t].conn] # "unused"
    BY <1>1 DEF Dialed, HasClient
  <1>4. mu \in [Conns -> Callers \cup {None}] /\ None \notin Callers
    BY DEF Typed, PoolAssumption
  <1>5. Typed'  BY <1>1, <1>2, <1>3, <1>4 DEF Typed, connVars
  <1>6. Dialed'  BY <1>1, <1>2, <1>3, DialedFrame DEF connVars
  <1>7. PoolInv'  BY <1>1, <1>2, NoStore, PoolFrame DEF connVars
  <1>8. ASSUME NEW u \in Callers, NEW k \in Conns
        PROVE  mu'[k] = u <=> task'[u].pc \in {"session", "command"} /\ task'[u].conn = k
    <2>1. mu[k] = u <=> task[u].pc \in {"session", "command"} /\ task[u].conn = k
      BY DEF MutexIsHeldByWorker, Working
    <2>2. mu[k] # t  BY <1>1 DEF MutexIsHeldByWorker, Working
    <2>3. CASE u = t  BY <1>1, <1>2, <1>3, <1>4, <2>2, <2>3
    <2>4. CASE u # t  BY <1>1, <1>2, <1>3, <1>4, <2>1, <2>4 DEF Others
    <2>5. QED  BY <2>3, <2>4
  <1>9. QED  BY <1>5, <1>6, <1>7, <1>8 DEF MutexIsHeldByWorker, Working

\* A session is granted: a command follows under the mutex, or the session was
\* all the caller wanted.
LEMMA OpenStep ==
  ASSUME PoolAssumption, IInv, NEW t \in Callers, OpenSession(t)
  PROVE  IInv'
  <1> USE DEF IInv
  <1>1. task[t].pc = "session" /\ UNCHANGED <<row, pool, connVars, probe, displaced>>
    BY DEF OpenSession, At
  <1>2. CASE Goto(t, "command") /\ UNCHANGED mu
    <2>1. /\ task' \in [Callers -> Tasks] /\ Others(t)
          /\ task'[t].pc = "command" /\ task'[t].conn = task[t].conn
      BY <1>2, GotoMoves DEF Steps
    <2>2. task[t].conn \in Conns /\ link[task[t].conn] # "unused"
      BY <1>1 DEF Dialed, HasClient
    <2>3. Typed'  BY <1>1, <1>2, <2>1 DEF Typed, connVars
    <2>4. Dialed'  BY <1>1, <2>1, <2>2, DialedFrame DEF connVars
    <2>5. PoolInv'  BY <1>1, <2>1, NoStore, PoolFrame DEF connVars
    <2>6. MutexIsHeldByWorker'
      BY <1>1, <1>2, <2>1 DEF MutexIsHeldByWorker, Working, Others
    <2>7. QED  BY <2>3, <2>4, <2>5, <2>6
  <1>3. CASE Goto(t, "done") /\ Unlock(t)
    <2>1. task' \in [Callers -> Tasks] /\ Others(t) /\ task'[t].pc = "done"
      BY <1>3, GotoMoves DEF Steps
    <2>2. QED  BY <1>1, <1>3, <2>1, UnlockStep DEF Working
  <1>4. CASE Goto(t, "remove") /\ Unlock(t)
    <2>1. task' \in [Callers -> Tasks] /\ Others(t) /\ task'[t].pc = "remove"
      BY <1>4, GotoMoves DEF Steps
    <2>2. QED  BY <1>1, <1>4, <2>1, UnlockStep DEF Working
  <1>5. QED  BY <1>2, <1>3, <1>4 DEF OpenSession

\* A session or a command that fails, ends or times out.
LEMMA EndStep ==
  ASSUME PoolAssumption, IInv, NEW t \in Callers,
         SessionFails(t) \/ CommandEnds(t) \/ CommandFails(t) \/ CommandTimesOut(t)
  PROVE  IInv'
  <1> USE DEF IInv
  <1>1. Working(t) /\ Unlock(t) /\ UNCHANGED <<row, pool, connVars, probe, displaced>>
    BY DEF SessionFails, CommandEnds, CommandFails, CommandTimesOut, At, Working
  <1>2. CASE Goto(t, "done")
    <2>1. task' \in [Callers -> Tasks] /\ Others(t) /\ task'[t].pc = "done"
      BY <1>2, GotoMoves DEF Steps
    <2>2. QED  BY <1>1, <2>1, UnlockStep
  <1>3. CASE task' = [task EXCEPT ![t] = Failed(@)]
    <2>1. /\ task' \in [Callers -> Tasks] /\ Others(t)
          /\ task'[t].pc \in {"remove", "done"}
      BY <1>3, FailedMoves
    <2>2. QED  BY <1>1, <2>1, UnlockStep
  <1>4. QED  BY <1>2, <1>3 DEF SessionFails, CommandEnds, CommandFails, CommandTimesOut

\* A removal by a caller.
LEMMA CallRemoveStep ==
  ASSUME PoolAssumption, IInv, NEW t \in Callers, CallRemove(t)
  PROVE  IInv'
  <1> USE DEF IInv
  <1> DEFINE s == task[t].server
             to == AfterRemove(task[t].op)
  <1>1. /\ task[t].pc = "remove" /\ Remove(s) /\ Goto(t, to)
        /\ UNCHANGED <<row, peer, owner, mu, probe, displaced>>
    BY DEF CallRemove, At
  <1>2. s \in Slots  BY DEF Typed, Tasks
  <1>3. to \in {"lookup", "save", "delete", "done"}  BY DEF AfterRemove
  <1> HIDE DEF s, to
  <1>4. task' \in [Callers -> Tasks] /\ Others(t) /\ task'[t].pc = to
    BY <1>1, <1>3, GotoMoves DEF Steps
  <1>5. StoresStill  BY <1>1, <1>3, <1>4, NoStore
  <1>6. /\ pool' \in [Slots -> Conns \cup {None}]
        /\ link' \in [Conns -> {"unused", "open", "dead", "closed"}]
        /\ \A r \in Slots : pool'[r] # None => link'[pool'[r]] # "unused"
        /\ \A k \in Conns : link'[k] = "unused" => link[k] = "unused"
        /\ PoolInv'
    BY <1>1, <1>2, <1>5, RemoveStep
  <1>7. Typed'  BY <1>1, <1>4, <1>6 DEF Typed
  <1>8. Dialed'  BY <1>3, <1>4, <1>6 DEF Dialed, Others, HasClient
  <1>9. MutexIsHeldByWorker'  BY <1>1, <1>3, <1>4, MutexFrame
  <1>10. QED  BY <1>6, <1>7, <1>8, <1>9

\* A removal by a probe, and the death of a connection.
LEMMA OutsideStep ==
  ASSUME PoolAssumption, IInv, UNCHANGED <<task, row, mu, owner, peer, displaced>>,
         probe' \in [Probes -> [pc: {"idle", "probing", "removing"}, server: Slots,
                                conn: Conns \cup {None}]],
         \/ \E s \in Slots : Remove(s)
         \/ UNCHANGED <<pool, link>>
         \/ \E k \in Conns : ConnectionDies(k)
  PROVE  IInv'
  <1> USE DEF IInv
  <1>1. MutexIsHeldByWorker'  BY DEF MutexIsHeldByWorker, Working
  <1>2. StoresStill  BY DEF StoresStill
  <1>3. ASSUME NEW s \in Slots, Remove(s) PROVE IInv'
    <2>1. /\ pool' \in [Slots -> Conns \cup {None}]
          /\ link' \in [Conns -> {"unused", "open", "dead", "closed"}]
          /\ \A r \in Slots : pool'[r] # None => link'[pool'[r]] # "unused"
          /\ \A k \in Conns : link'[k] = "unused" => link[k] = "unused"
          /\ PoolInv'
      BY <1>2, <1>3, RemoveStep
    <2>2. Typed'  BY <2>1 DEF Typed
    <2>3. Dialed'  BY <2>1 DEF Dialed
    <2>4. QED  BY <1>1, <2>1, <2>2, <2>3
  <1>4. CASE UNCHANGED <<pool, link>>
    <2>1. Typed'  BY <1>4 DEF Typed
    <2>2. Dialed'  BY <1>4 DEF Dialed
    <2>3. PoolInv'  BY <1>2, <1>4, PoolFrame
    <2>4. QED  BY <1>1, <2>1, <2>2, <2>3
  <1>5. ASSUME NEW k \in Conns, ConnectionDies(k) PROVE IInv'
    <2>1. link[k] = "open" /\ link' = [link EXCEPT ![k] = "dead"] /\ UNCHANGED pool
      BY <1>5 DEF ConnectionDies
    <2>2. link \in [Conns -> {"unused", "open", "dead", "closed"}]  BY DEF Typed
    <2>3. /\ link' \in [Conns -> {"unused", "open", "dead", "closed"}]
          /\ link'[k] = "dead" /\ \A j \in Conns : j # k => link'[j] = link[j]
      BY <2>1, <2>2
    <2>4. pool \in [Slots -> Conns \cup {None}]  BY DEF Typed
    <2>5. Typed'  BY <2>1, <2>3 DEF Typed
    <2>6. Dialed'  BY <2>1, <2>3, <2>4 DEF Dialed
    <2>7. PoolIsNotClosed' /\ PoolIsByServer'
      BY <2>1, <2>3, <2>4 DEF PoolInv, PoolIsNotClosed, PoolIsByServer
    <2>8. LostOnlyByDisplacement'
      BY <2>1, <2>3 DEF PoolInv, LostOnlyByDisplacement, At
    <2>9. StoreIsFresh'
      <3>1. \A u \in Callers : task[u].pc = "store" => task[u].conn \in Conns
        BY DEF Dialed, HasClient
      <3>2. \A u \in Callers : task[u].pc = "store" => link'[task[u].conn] # "closed"
        BY <2>3, <3>1 DEF PoolInv, StoreIsFresh, At
      <3>3. QED  BY <2>1, <3>2 DEF PoolInv, StoreIsFresh, At
    <2>10. QED  BY <1>1, <2>5, <2>6, <2>7, <2>8, <2>9 DEF PoolInv
  <1>6. QED  BY <1>3, <1>4, <1>5
-----------------------------------------------------------------------------
\* The invariant is inductive.
LEMMA StepInv == IInv /\ [Next]_vars => IInv'
  <1> SUFFICES ASSUME IInv, [Next]_vars PROVE IInv'  OBVIOUS
  <1> USE PoolAssumption
  <1>1. Typed  BY DEF IInv
  <1>2. ASSUME NEW t \in Callers, NEW s \in Servers, NEW op \in Operations,
               Load(t, op, s) \/ Drop(t, op, s)
        PROVE  IInv'
    <2>1. task[t].pc = "idle" /\ UNCHANGED <<row, pool, connVars, mu, probe, displaced>>
      BY <1>2 DEF Load, Drop, At
    <2>2. \E to \in {"remove", "lookup"}, h \in Hosts \cup {None} :
            task' = [task EXCEPT ![t] =
              [op |-> op, pc |-> to, server |-> s, host |-> h, conn |-> None]]
      <3>1. row[s] \in Hosts \cup {None}  BY <1>1 DEF Typed
      <3>2. QED  BY <1>2, <3>1 DEF Load, Drop
    <2>3. /\ task' \in [Callers -> Tasks] /\ Others(t)
          /\ task'[t].pc \in {"remove", "lookup"}
      BY <1>1, <2>2, BeginMoves DEF Slots
    <2>4. row' \in [Servers -> Hosts \cup {None}]  BY <1>1, <2>1 DEF Typed
    <2>5. QED  BY <2>1, <2>3, <2>4, QuietStep
  <1>3. ASSUME NEW t \in Callers, NEW h \in Hosts, TestConnection(t, h) PROVE IInv'
    <2>1. /\ task[t].pc = "idle" /\ UNCHANGED <<row, pool, connVars, mu, probe, displaced>>
          /\ "test" \in Operations
          /\ task' = [task EXCEPT ![t] =
               [op |-> "test", pc |-> "remove", server |-> Temp, host |-> h, conn |-> None]]
      BY <1>3 DEF TestConnection, At
    <2>2. task' \in [Callers -> Tasks] /\ Others(t) /\ task'[t].pc = "remove"
      BY <1>1, <2>1, BeginMoves DEF Slots
    <2>3. row' \in [Servers -> Hosts \cup {None}]  BY <1>1, <2>1 DEF Typed
    <2>4. QED  BY <2>1, <2>2, <2>3, QuietStep
  <1>4. ASSUME NEW t \in Callers, Lookup(t) PROVE IInv'
    <2>1. task[t].pc = "lookup" /\ UNCHANGED <<row, pool, connVars, mu, probe, displaced>>
      BY <1>4 DEF Lookup, At
    <2>2. /\ task' \in [Callers -> Tasks] /\ Others(t)
          /\ \/ task'[t].pc = "dial"
             \/ /\ task'[t].pc = "lock"
                /\ task'[t].conn = pool[task[t].server]
                /\ task'[t].conn # None
      BY <1>1, <1>4, LookupMoves
    <2>3. task[t].server \in Slots  BY <1>1, TaskFields
    <2>4. task'[t].pc = "lock" => task'[t].conn \in Conns /\ link[task'[t].conn] # "unused"
      BY <1>1, <2>2, <2>3 DEF IInv, Dialed, Typed
    <2>5. row' \in [Servers -> Hosts \cup {None}]  BY <1>1, <2>1 DEF Typed
    <2>6. QED  BY <2>1, <2>2, <2>4, <2>5, QuietStep
  <1>5. ASSUME NEW t \in Callers, DialFails(t) PROVE IInv'
    <2>1. /\ task[t].pc = "dial" /\ UNCHANGED <<row, pool, connVars, mu, probe, displaced>>
          /\ task' = [task EXCEPT ![t] = Failed(@)]
      BY <1>5 DEF DialFails, At
    <2>2. /\ task' \in [Callers -> Tasks] /\ Others(t)
          /\ task'[t].pc \in {"remove", "done"}
      BY <1>1, <2>1, FailedMoves
    <2>3. row' \in [Servers -> Hosts \cup {None}]  BY <1>1, <2>1 DEF Typed
    <2>4. QED  BY <2>1, <2>2, <2>3, QuietStep
  <1>6. ASSUME NEW t \in Callers, SaveRow(t) \/ DeleteRow(t) PROVE IInv'
    <2>1. /\ task[t].pc \in {"save", "delete"} /\ Goto(t, "done")
          /\ UNCHANGED <<pool, connVars, mu, probe, displaced>>
      BY <1>6 DEF SaveRow, DeleteRow, At
    <2>2. task' \in [Callers -> Tasks] /\ Others(t) /\ task'[t].pc = "done"
      BY <1>1, <2>1, GotoMoves DEF Steps
    <2>3. row' \in [Servers -> Hosts \cup {None}]
      BY <1>1, <1>6 DEF Typed, SaveRow, DeleteRow
    <2>4. QED  BY <2>1, <2>2, <2>3, QuietStep
  <1>7. ASSUME NEW p \in Probes, Probe(p) PROVE IInv'
    <2> DEFINE ProbeType == [pc: {"idle", "probing", "removing"}, server: Slots,
                             conn: Conns \cup {None}]
    <2>1. probe \in [Probes -> ProbeType] /\ pool \in [Slots -> Conns \cup {None}]
      BY <1>1 DEF Typed
    <2>2. ASSUME NEW s \in Slots, StartProbe(p, s) PROVE IInv'
      <3>1. [pc |-> "probing", server |-> s, conn |-> pool[s]] \in ProbeType  BY <2>1
      <3>2. probe' \in [Probes -> ProbeType]  BY <2>1, <2>2, <3>1 DEF StartProbe
      <3>3. QED  BY <2>2, <3>2, OutsideStep DEF StartProbe, connVars
    <2>3. CASE ProbeOpens(p)
      <3>1. NoProbe \in ProbeType  BY DEF NoProbe, Slots
      <3>2. probe' \in [Probes -> ProbeType]  BY <2>1, <2>3, <3>1 DEF ProbeOpens
      <3>3. QED  BY <2>3, <3>2, OutsideStep DEF ProbeOpens, connVars
    <2>4. CASE ProbeFails(p)
      <3>1. probe' \in [Probes -> ProbeType]
        <4>1. probe[p] \in ProbeType  BY <2>1
        <4>2. [probe[p] EXCEPT !.pc = "removing"] \in ProbeType  BY <4>1
        <4>3. probe' = [probe EXCEPT ![p] = [probe[p] EXCEPT !.pc = "removing"]]
          BY <2>1, <2>4 DEF ProbeFails
        <4>4. QED  BY <2>1, <4>2, <4>3
      <3>2. QED  BY <2>4, <3>1, OutsideStep DEF ProbeFails, connVars
    <2>5. CASE ProbeRemoves(p)
      <3>1. NoProbe \in ProbeType  BY DEF NoProbe, Slots
      <3>2. probe' \in [Probes -> ProbeType]  BY <2>1, <2>5, <3>1 DEF ProbeRemoves
      <3>3. probe[p].server \in Slots  BY <2>1
      <3>4. QED  BY <2>5, <3>2, <3>3, OutsideStep DEF ProbeRemoves
    <2>6. QED  BY <1>7, <2>2, <2>3, <2>4, <2>5 DEF Probe
  <1>8. ASSUME NEW k \in Conns, ConnectionDies(k) PROVE IInv'
    <2>1. probe' = probe  BY <1>8 DEF ConnectionDies
    <2>2. QED  BY <1>1, <1>8, <2>1, OutsideStep DEF ConnectionDies, Typed
  <1>9. CASE UNCHANGED vars
    BY <1>1, <1>9, OutsideStep DEF vars, connVars, Typed
  <1>10. QED
    BY <1>2, <1>3, <1>4, <1>5, <1>6, <1>7, <1>8, <1>9, DialStep, StoreStep, LockStep,
       OpenStep, EndStep, CallRemoveStep
       DEF Next, Call

\* The invariant holds in every reachable state.
LEMMA Invariant == Spec => []IInv
  BY InitInv, StepInv, PTL DEF Spec

\* The variables keep their types, and nothing is pooled or used before it is
\* dialed.
THEOREM PoolTyped == Spec => []TypeOK
  <1>1. IInv => TypeOK  BY TypeOKParts DEF IInv
  <1>2. QED  BY <1>1, Invariant, PTL

\* The pool never hands out a client that Remove has closed.
THEOREM NoClosedClient == Spec => []PoolIsNotClosed
  <1>1. IInv => PoolIsNotClosed  BY DEF IInv, PoolInv
  <1>2. QED  BY <1>1, Invariant, PTL

\* A pooled client was dialed for the server it is pooled under.
THEOREM NoForeignClient == Spec => []PoolIsByServer
  <1>1. IInv => PoolIsByServer  BY DEF IInv, PoolInv
  <1>2. QED  BY <1>1, Invariant, PTL

\* A client's mutex is held by the caller that works with it, and no other.
THEOREM MutexReleased == Spec => []MutexIsHeldByWorker
  <1>1. IInv => MutexIsHeldByWorker  BY DEF IInv
  <1>2. QED  BY <1>1, Invariant, PTL

\* An open connection is lost only when a later store overwrites it.
THEOREM NothingElseLost == Spec => []LostOnlyByDisplacement
  <1>1. IInv => LostOnlyByDisplacement  BY DEF IInv, PoolInv
  <1>2. QED  BY <1>1, Invariant, PTL

-----------------------------------------------------------------------------
(***************************************************************************)
(* Whom the pool's dials trust: a connection loads known_hosts before it   *)
(* dials and checks the host's key against what it loaded.                 *)
(***************************************************************************)
\* What is in the file, or was loaded from it, was recorded; a connection that
\* others preceded has loaded a line for its address.
FileIsRecorded ==
  /\ file \subseteq recorded
  /\ \A d \in Dialers : loaded[d] \subseteq recorded
  /\ \A d \in Dialers : pc[d] = "new" => earlier[d] = {}
  /\ \A d \in Dialers : earlier[d] # {} => For(loaded[d], address[d]) # {}

HostsInv == HostsOK /\ FileIsRecorded /\ AcceptedIsRecorded /\ LaterIsChecked

\* The initial states satisfy the invariant.
LEMMA HostsInitInv == HostsInit => HostsInv
  BY DEF HostsInit, HostsInv, HostsOK, FileIsRecorded, AcceptedIsRecorded,
         LaterIsChecked

\* The line of a connection names its address.
LEMMA LineIsForAddress ==
  ASSUME HostsOK, NEW d \in Dialers, NEW k \in Keys
  PROVE  /\ LineFor(d, k) \in Line
         /\ LineFor(d, k).key = k
         /\ address[d] \in LineFor(d, k).addresses
  BY RemoteAssumption DEF HostsOK, LineFor, Line

\* A load looks at the file, and at who was accepted by what is in it.
LEMMA LoadLinesStep ==
  ASSUME HostsInv, NEW d \in Dialers, LoadLines(d)
  PROVE  HostsInv'
  <1>1. /\ pc[d] = "new" /\ pc' = [pc EXCEPT ![d] = "handshake"]
        /\ loaded' = [loaded EXCEPT ![d] = file]
        /\ UNCHANGED <<file, address, key, recorded>>
    BY DEF LoadLines
  <1>2. /\ earlier'[d] # {} => For(file, address[d]) # {}
        /\ earlier' \in [Dialers -> SUBSET Dialers]
        /\ \A e \in Dialers : e # d => earlier'[e] = earlier[e]
    BY DEF LoadLines, HostsInv, HostsOK
  <1>3. HostsOK'  BY <1>1, <1>2 DEF HostsInv, HostsOK
  <1>4. FileIsRecorded'
    BY <1>1, <1>2 DEF HostsInv, HostsOK, FileIsRecorded, For
  <1>5. AcceptedIsRecorded'
    BY <1>1 DEF HostsInv, HostsOK, AcceptedIsRecorded, For
  <1>6. LaterIsChecked'
    BY <1>1, <1>2 DEF HostsInv, HostsOK, LaterIsChecked, For
  <1>7. QED  BY <1>3, <1>4, <1>5, <1>6 DEF HostsInv

\* The callback accepts what is on record, or records it.
LEMMA CallbackStep ==
  ASSUME HostsInv, NEW d \in Dialers, NEW k \in Keys, Callback(d, k)
  PROVE  HostsInv'
  <1>1. /\ pc[d] = "handshake" /\ key' = [key EXCEPT ![d] = {k}]
        /\ UNCHANGED <<address, loaded, earlier>>
    BY DEF Callback, AcceptKnown, RejectChanged, RecordFirst,
           RecordFails, Present
  <1>2. PICK to \in {"accepted", "rejected"} : pc' = [pc EXCEPT ![d] = to]
    BY DEF Callback, AcceptKnown, RejectChanged, RecordFirst,
           RecordFails
  <1>3. /\ file' \subseteq Line /\ recorded' \subseteq Line
        /\ recorded \subseteq recorded' /\ file' \subseteq recorded'
    BY LineIsForAddress
       DEF Callback, AcceptKnown, RejectChanged, RecordFirst,
           RecordFails, HostsInv, HostsOK,
           FileIsRecorded
  <1>4. /\ pc'[d] = to /\ key'[d] = {k}
        /\ \A e \in Dialers : e # d => pc'[e] = pc[e] /\ key'[e] = key[e]
    BY <1>1, <1>2 DEF HostsInv, HostsOK
  <1>5. to = "accepted" =>
          \/ Matches(d, k)
          \/ Unknown(d) /\ LineFor(d, k) \in recorded'
    BY <1>2, <1>4 DEF Callback, AcceptKnown, RejectChanged, RecordFirst,
                      RecordFails, HostsInv, HostsOK
  <1>6. HostsOK'  BY <1>1, <1>2, <1>3, <1>4 DEF HostsInv, HostsOK
  <1>7. FileIsRecorded'
    BY <1>1, <1>3, <1>4 DEF HostsInv, HostsOK, FileIsRecorded, For
  <1>8. AcceptedIsRecorded'
    <2>1. to = "accepted" => \E l \in For(recorded', address[d]) : l.key = k
      <3>1. CASE Matches(d, k)
        BY <1>3, <3>1 DEF Matches, For, HostsInv, FileIsRecorded
      <3>2. CASE LineFor(d, k) \in recorded'
        BY <3>2, LineIsForAddress DEF For, HostsInv
      <3>3. QED  BY <1>5, <3>1, <3>2
    <2>2. \A e \in Dialers : e # d /\ pc[e] = "accepted" =>
            \E l \in For(recorded', address[e]) : l.key \in key[e]
      BY <1>3 DEF HostsInv, AcceptedIsRecorded, For
    <2>3. QED  BY <1>1, <1>4, <2>1, <2>2 DEF AcceptedIsRecorded
  <1>9. LaterIsChecked'
    <2>1. to = "accepted" /\ earlier[d] # {} =>
            \E l \in For(loaded[d], address[d]) : l.key = k
      BY <1>5 DEF Matches, Unknown, HostsInv, FileIsRecorded
    <2>2. QED  BY <1>1, <1>4, <2>1 DEF HostsInv, LaterIsChecked
  <1>10. QED  BY <1>6, <1>7, <1>8, <1>9 DEF HostsInv

\* The operator takes lines out of the file, never out of the history.
LEMMA TakeOutStep ==
  ASSUME HostsInv, NEW l \in file, TakeOut(l)
  PROVE  HostsInv'
  <1>1. /\ file' \subseteq file
        /\ UNCHANGED <<pc, address, loaded, key, recorded>>
        /\ earlier' \in [Dialers -> SUBSET Dialers]
        /\ \A d \in Dialers : earlier'[d] \subseteq earlier[d]
    BY DEF TakeOut, HostsInv, HostsOK
  <1>2. QED
    BY <1>1 DEF HostsInv, HostsOK, FileIsRecorded, AcceptedIsRecorded,
                LaterIsChecked, For

\* The invariant holds in every reachable state.
LEMMA HostsInvariant == HostsSpec => []HostsInv
  <1>1. HostsInv /\ [HostsNext]_hostVars => HostsInv'
    <2>1. HostsInv /\ UNCHANGED hostVars => HostsInv'
      BY DEF hostVars, HostsInv, HostsOK, FileIsRecorded, AcceptedIsRecorded,
             LaterIsChecked, For
    <2>2. QED  BY <2>1, LoadLinesStep, CallbackStep, TakeOutStep DEF HostsNext
  <1>2. QED  BY <1>1, HostsInitInv, PTL DEF HostsSpec

\* The variables keep their types: a decision has looked at exactly one key.
THEOREM HostsTyped == HostsSpec => []HostsOK
  <1>1. HostsInv => HostsOK  BY DEF HostsInv
  <1>2. QED  BY <1>1, HostsInvariant, PTL

\* Nothing is accepted off the record.
THEOREM NothingUnrecorded == HostsSpec => []AcceptedIsRecorded
  <1>1. HostsInv => AcceptedIsRecorded  BY DEF HostsInv
  <1>2. QED  BY <1>1, HostsInvariant, PTL

\* Connections that do not overlap accept what is on record, and nothing else.
THEOREM LaterChecked == HostsSpec => []LaterIsChecked
  <1>1. HostsInv => LaterIsChecked  BY DEF HostsInv
  <1>2. QED  BY <1>1, HostsInvariant, PTL
=============================================================================
