----------------------- MODULE MetricsCollectorProofs -----------------------
(***************************************************************************)
(* What holds of the collectors for any servers, goroutines and requests.  *)
(***************************************************************************)
EXTENDS MetricsCollector, TLAPS

\* The variables that the map invariant speaks of.
Typed ==
  /\ collectors \in [Servers -> Goroutines \cup {None}]
  /\ cancelled \subseteq Goroutines
  /\ pc \in [Goroutines -> {"none", "spawned", "collecting", "sampling", "storing",
                            "online", "failed", "waiting", "ended"}]
  /\ server \in [Goroutines -> SUBSET Servers]
  /\ \A g \in Goroutines : pc[g] = "none" <=> server[g] = {}
  /\ \A g \in Goroutines : \A r, s \in server[g] : r = s
  /\ \A g \in Goroutines : pc[g] = "ended" => g \in cancelled

\* The rest of the variables.
RestTyped ==
  /\ rows \subseteq Servers
  /\ status \in [Servers -> {"unknown", "online", "offline"}]
  /\ samples \subseteq Servers
  /\ existing \subseteq Servers
  /\ step \in [Callers -> [op: Operations \cup {"none"}, server: SUBSET Servers,
                           at: {"idle", "begun", "starting", "stopped", "done"}]]
  /\ db \in {"open", "closed"}
  /\ shutdown \in {"no", "stopped", "closing", "closed"}
  /\ late \subseteq Goroutines
  /\ owed \subseteq Goroutines
  /\ strays \subseteq Goroutines

\* A goroutine is cancelled through the map, so it has registered before.
CancelledHasRegistered == \A g \in cancelled : pc[g] \notin {"none", "spawned"}

IInv == Typed /\ MapHoldsTheRunning /\ CancelledHasRegistered
-----------------------------------------------------------------------------
\* The initial states satisfy the invariant.
LEMMA InitInv == Init => IInv
  <1> SUFFICES ASSUME Init PROVE IInv  OBVIOUS
  <1> USE CollectorAssumption DEF Init
  <1>1. Typed  BY DEF Typed
  <1>2. MapHoldsTheRunning  BY DEF MapHoldsTheRunning, Running
  <1>3. QED  BY <1>1, <1>2 DEF IInv, CancelledHasRegistered

\* A goroutine that is not about to register, and goes on to a step at which
\* it has registered, disturbs nothing; it ends only when it is cancelled.
LEMMA RunStep ==
  ASSUME IInv, NEW g \in Goroutines, UNCHANGED <<mapVars, server>>,
         pc[g] \notin {"none", "spawned"},
         NEW to \in {"collecting", "sampling", "storing", "online", "failed", "waiting", "ended"},
         pc' = [pc EXCEPT ![g] = to],
         to = "ended" => g \in cancelled
  PROVE  IInv'
  <1>1. pc' \in [Goroutines -> {"none", "spawned", "collecting", "sampling", "storing",
                                "online", "failed", "waiting", "ended"}]
        /\ pc'[g] = to /\ \A h \in Goroutines : h # g => pc'[h] = pc[h]
    BY DEF IInv, Typed
  <1>2. Typed'  BY <1>1 DEF IInv, Typed, mapVars
  <1>3. \A h \in Goroutines : pc'[h] \in {"none", "spawned"} <=> pc[h] \in {"none", "spawned"}
    BY <1>1
  <1>4. MapHoldsTheRunning'
    BY <1>3 DEF IInv, MapHoldsTheRunning, Running, On, mapVars
  <1>5. CancelledHasRegistered'
    BY <1>3 DEF IInv, Typed, CancelledHasRegistered, mapVars
  <1>6. QED  BY <1>2, <1>4, <1>5 DEF IInv

\* A new goroutine has registered nowhere yet.
LEMMA SpawnStep ==
  ASSUME IInv, NEW g \in Goroutines, NEW s \in Servers, Spawn(g, s), UNCHANGED mapVars
  PROVE  IInv'
  <1>1. /\ pc[g] = "none" /\ pc'[g] = "spawned" /\ server[g] = {} /\ server'[g] = {s}
        /\ \A h \in Goroutines : h # g => pc'[h] = pc[h] /\ server'[h] = server[h]
    BY DEF IInv, Typed, Spawn
  <1>2. Typed'  BY <1>1 DEF IInv, Typed, Spawn, mapVars
  <1>3. ASSUME NEW r \in Servers, NEW h \in Goroutines
        PROVE  collectors'[r] = h <=> Running(h)' /\ On(h, r)'
    <2>1. collectors[r] = h <=> Running(h) /\ On(h, r)
      BY DEF IInv, MapHoldsTheRunning
    <2>2. CASE h = g  BY <1>1, <2>1, <2>2 DEF Running, mapVars
    <2>3. CASE h # g  BY <1>1, <2>1, <2>3 DEF Running, On, mapVars
    <2>4. QED  BY <2>2, <2>3
  <1>4. CancelledHasRegistered'
    BY <1>1 DEF IInv, Typed, CancelledHasRegistered, mapVars
  <1>5. QED  BY <1>2, <1>3, <1>4 DEF IInv, MapHoldsTheRunning

\* A goroutine that registers takes over from the one it cancels.
LEMMA RegisterStep ==
  ASSUME IInv, NEW g \in Goroutines, NEW s \in Servers, Register(g, s)
  PROVE  IInv'
  <1> USE CollectorAssumption
  <1>1. /\ pc[g] = "spawned" /\ pc'[g] = "collecting" /\ On(g, s) /\ server' = server
        /\ \A h \in Goroutines : h # g => pc'[h] = pc[h]
    BY DEF IInv, Typed, Register
  <1>2. /\ collectors'[s] = g
        /\ \A r \in Servers : r # s => collectors'[r] = collectors[r]
        /\ cancelled' = cancelled \cup ({collectors[s]} \ {None})
    BY DEF IInv, Typed, Register
  <1>3. g \notin cancelled  BY <1>1 DEF IInv, CancelledHasRegistered
  <1>4. collectors[s] # g /\ None \notin Goroutines
    BY <1>1 DEF IInv, MapHoldsTheRunning, Running, CollectorAssumption
  <1>5. Typed'  BY <1>1, <1>2 DEF IInv, Typed, Register
  <1>6. ASSUME NEW r \in Servers, NEW h \in Goroutines
        PROVE  collectors'[r] = h <=> Running(h)' /\ On(h, r)'
    <2>1. collectors[r] = h <=> Running(h) /\ On(h, r)
      BY DEF IInv, MapHoldsTheRunning
    <2>2. collectors[s] = h <=> Running(h) /\ On(h, s)
      BY DEF IInv, MapHoldsTheRunning
    <2>3. On(h, r) /\ On(h, s) => r = s  BY DEF IInv, Typed, On
    <2>4. On(h, r)' <=> On(h, r)  BY <1>1 DEF On
    <2>5. CASE h = g
      <3>1. Running(g)'  BY <1>1, <1>2, <1>3, <1>4 DEF Running
      <3>2. collectors'[r] = g <=> r = s
        BY <1>1, <1>2, <2>1, <2>5 DEF Running
      <3>3. QED  BY <1>1, <2>3, <2>4, <2>5, <3>1, <3>2
    <2>6. CASE h # g
      <3>1. Running(h)' <=> Running(h) /\ collectors[s] # h
        BY <1>1, <1>2, <1>4, <2>6 DEF Running
      <3>2. CASE r = s  BY <1>2, <2>2, <2>4, <2>6, <3>1, <3>2
      <3>3. CASE r # s  BY <1>2, <2>1, <2>2, <2>3, <2>4, <3>1, <3>3
      <3>4. QED  BY <3>2, <3>3
    <2>7. QED  BY <2>5, <2>6
  <1>7. CancelledHasRegistered'
    <2>1. collectors[s] # None => pc[collectors[s]] \notin {"none", "spawned"}
      BY DEF IInv, Typed, MapHoldsTheRunning, Running
    <2>2. QED
      BY <1>1, <1>2, <1>4, <2>1 DEF IInv, Typed, CancelledHasRegistered
  <1>8. QED  BY <1>5, <1>6, <1>7 DEF IInv, MapHoldsTheRunning

\* Stopping some servers' collectors cancels those, and only those.
LEMMA StopStep ==
  ASSUME IInv, NEW S \in SUBSET Servers, UNCHANGED runVars,
         cancelled' = cancelled \cup ({collectors[s] : s \in S} \ {None}),
         collectors' = [s \in Servers |-> IF s \in S THEN None ELSE collectors[s]]
  PROVE  IInv'
  <1> USE CollectorAssumption
  <1>1. Typed'  BY DEF IInv, Typed, runVars
  <1>2. ASSUME NEW r \in Servers, NEW h \in Goroutines
        PROVE  collectors'[r] = h <=> Running(h)' /\ On(h, r)'
    <2>1. \A s \in Servers : collectors[s] = h <=> Running(h) /\ On(h, s)
      BY DEF IInv, MapHoldsTheRunning
    <2>2. \A s \in Servers : On(h, r) /\ On(h, s) => r = s
      BY DEF IInv, Typed, On
    <2>3. h # None  BY DEF CollectorAssumption
    <2>4. Running(h)' <=> Running(h) /\ \A s \in S : collectors[s] # h
      BY <2>3 DEF Running, runVars
    <2>5. On(h, r)' <=> On(h, r)  BY DEF On, runVars
    <2>6. CASE r \in S  BY <2>1, <2>3, <2>4, <2>5, <2>6
    <2>7. CASE r \notin S
      <3>1. Running(h) /\ On(h, r) => \A s \in S : collectors[s] # h
        BY <2>1, <2>2, <2>7
      <3>2. QED  BY <2>1, <2>4, <2>5, <2>7, <3>1
    <2>8. QED  BY <2>6, <2>7
  <1>3. CancelledHasRegistered'
    <2>1. \A s \in Servers : collectors[s] # None =>
            pc[collectors[s]] \notin {"none", "spawned"}
      BY DEF IInv, Typed, MapHoldsTheRunning, Running
    <2>2. QED  BY <2>1 DEF IInv, CancelledHasRegistered, runVars
  <1>4. QED  BY <1>1, <1>2, <1>3 DEF IInv, MapHoldsTheRunning
-----------------------------------------------------------------------------
\* The invariant is inductive.
LEMMA StepInv == IInv /\ [Next]_vars => IInv'
  <1> SUFFICES ASSUME IInv, [Next]_vars PROVE IInv'  OBVIOUS
  <1>1. ASSUME UNCHANGED <<mapVars, runVars>> PROVE IInv'
    BY <1>1 DEF IInv, Typed, MapHoldsTheRunning, Running, On, CancelledHasRegistered,
                mapVars, runVars
  <1>2. ASSUME NEW g \in Goroutines, Collector(g) PROVE IInv'
    <2>1. ASSUME NEW s \in Servers, Register(g, s) PROVE IInv'
      BY <2>1, RegisterStep
    <2>2. ASSUME NEW s \in Servers, Collect(g, s) PROVE IInv'
      <3>1. pc[g] = "collecting" /\ UNCHANGED <<mapVars, server>>
            /\ (pc' = [pc EXCEPT ![g] = "sampling"] \/ pc' = [pc EXCEPT ![g] = "waiting"])
        BY <2>2 DEF Collect
      <3>2. QED  BY <3>1, RunStep
    <2>3. ASSUME NEW s \in Servers, StoreSample(g, s) PROVE IInv'
      <3>1. pc[g] = "storing" /\ UNCHANGED <<mapVars, server>>
            /\ pc' = [pc EXCEPT ![g] = "online"]
        BY <2>3 DEF StoreSample
      <3>2. QED  BY <3>1, RunStep
    <2>4. ASSUME NEW s \in Servers, UpdateStatus(g, s) PROVE IInv'
      <3>1. pc[g] \in {"online", "failed"} /\ UNCHANGED <<mapVars, server>>
            /\ pc' = [pc EXCEPT ![g] = "waiting"]
        BY <2>4 DEF UpdateStatus
      <3>2. QED  BY <3>1, RunStep
    <2>5. CASE Sampled(g)
      <3>1. PICK to \in {"storing", "failed", "waiting"} : pc' = [pc EXCEPT ![g] = to]
        BY <2>5 DEF Sampled
      <3>2. pc[g] = "sampling" /\ UNCHANGED <<mapVars, server>>  BY <2>5 DEF Sampled
      <3>3. QED  BY <3>1, <3>2, RunStep
    <2>6. CASE Tick(g)
      <3>1. pc[g] = "waiting" /\ UNCHANGED <<mapVars, server>>
            /\ pc' = [pc EXCEPT ![g] = "collecting"]
        BY <2>6 DEF Tick
      <3>2. QED  BY <3>1, RunStep
    <2>7. CASE Done(g)
      <3>1. pc[g] = "waiting" /\ UNCHANGED <<mapVars, server>> /\ g \in cancelled
            /\ pc' = [pc EXCEPT ![g] = "ended"]
        BY <2>7 DEF Done
      <3>2. QED  BY <3>1, RunStep
    <2>8. QED  BY <1>2, <2>1, <2>2, <2>3, <2>4, <2>5, <2>6, <2>7 DEF Collector
  <1>3. ASSUME NEW g \in Goroutines, NEW s \in Servers, StartAllExisting(g, s) PROVE IInv'
    BY <1>3, SpawnStep DEF StartAllExisting
  <1>4. ASSUME NEW t \in Callers, Handler(t) PROVE IInv'
    <2>1. PICK s \in Servers :
            \/ \E op \in Operations : Request(t, op, s)
            \/ MarkOnline(t, s) \/ TestFails(t, s)
            \/ \E g \in Goroutines : StartCollector(t, s, g)
            \/ StopCollector(t, s) \/ MarkOffline(t, s) \/ DeleteServer(t, s)
      BY <1>4 DEF Handler
    <2>2. ASSUME NEW op \in Operations, Request(t, op, s) PROVE IInv'
      BY <1>1, <2>2 DEF Request
    <2>3. ASSUME MarkOnline(t, s) \/ TestFails(t, s) \/ MarkOffline(t, s) \/ DeleteServer(t, s)
          PROVE  IInv'
      BY <1>1, <2>3 DEF MarkOnline, TestFails, MarkOffline, DeleteServer
    <2>4. ASSUME NEW g \in Goroutines, StartCollector(t, s, g) PROVE IInv'
      BY <2>4, SpawnStep DEF StartCollector
    <2>5. CASE StopCollector(t, s)
      <3>1. collectors' = [r \in Servers |-> IF r \in {s} THEN None ELSE collectors[r]]
        BY <2>5 DEF StopCollector, IInv, Typed
      <3>2. cancelled' = cancelled \cup ({collectors[r] : r \in {s}} \ {None})
        BY <2>5 DEF StopCollector
      <3>3. QED  BY <2>5, <3>1, <3>2, StopStep DEF StopCollector
    <2>6. QED  BY <2>1, <2>2, <2>3, <2>4, <2>5
  <1>5. CASE StopAll
    <2>1. collectors' = [r \in Servers |-> IF r \in Servers THEN None ELSE collectors[r]]
      BY <1>5 DEF StopAll
    <2>2. QED  BY <1>5, <2>1, StopStep DEF StopAll
  <1>6. CASE StopHTTP \/ CloseDB  BY <1>1, <1>6 DEF StopHTTP, CloseDB
  <1>7. CASE UNCHANGED vars  BY <1>1, <1>7 DEF vars, mapVars, runVars
  <1>8. QED  BY <1>2, <1>3, <1>4, <1>5, <1>6, <1>7 DEF Next

\* The invariant holds in every reachable state.
LEMMA Invariant == Spec => []IInv
  BY InitInv, StepInv, PTL DEF Spec

\* A server has at most one collector that is not on its way out, and the map
\* holds its cancel function.
THEOREM OneCollector == Spec => []MapHoldsTheRunning
  <1>1. IInv => MapHoldsTheRunning  BY DEF IInv
  <1>2. QED  BY <1>1, Invariant, PTL

-----------------------------------------------------------------------------
(***************************************************************************)
(* What a delete leaves behind.                                            *)
(***************************************************************************)
\* Every collection that read the row of a deleted server had read it when the
\* delete committed: it owes at most the sample it is about.
ReadersOwe == \A g \in Goroutines, s \in Servers : s \notin rows /\ Reading(g, s) => g \in owed

\* A step that brings back no row, settles nothing and starts no reading keeps it.
LEMMA OwedKept ==
  ASSUME ReadersOwe, UNCHANGED rows, owed \subseteq owed',
         \A g \in Goroutines, s \in Servers : Reading(g, s)' => Reading(g, s)
  PROVE  ReadersOwe'
  BY DEF ReadersOwe

\* A collection reads only a row that is there, and a delete makes a debtor of
\* each one that has read it; so nobody else stores a sample afterwards.
LEMMA OwedStep ==
  IInv /\ ReadersOwe /\ OnlyOwedSamples /\ [Next]_vars => ReadersOwe' /\ OnlyOwedSamples'
  <1> SUFFICES ASSUME IInv, ReadersOwe, strays = {}, [Next]_vars
               PROVE  ReadersOwe' /\ strays' = {}
    BY DEF OnlyOwedSamples
  <1>1. /\ pc \in [Goroutines -> {"none", "spawned", "collecting", "sampling", "storing",
                                  "online", "failed", "waiting", "ended"}]
        /\ server \in [Goroutines -> SUBSET Servers]
        /\ \A g \in Goroutines : \A r, s \in server[g] : r = s
    BY DEF IInv, Typed
  <1>2. ASSUME UNCHANGED <<rows, histories, pc, server>> PROVE ReadersOwe' /\ strays' = {}
    BY <1>2, OwedKept DEF Reading, On, histories
  <1>3. ASSUME NEW g \in Goroutines, NEW to, to \notin {"sampling", "storing"},
               UNCHANGED <<rows, server>>, pc' = [pc EXCEPT ![g] = to], owed' \in {owed, owed \ {g}}
        PROVE  ReadersOwe'
    <2>1. ASSUME NEW h \in Goroutines, NEW s \in Servers, s \notin rows, Reading(h, s)'
          PROVE  h \in owed'
      <3>1. h # g /\ Reading(h, s)  BY <1>1, <1>3, <2>1 DEF Reading, On
      <3>2. QED  BY <1>3, <2>1, <3>1 DEF ReadersOwe
    <2>2. QED  BY <1>3, <2>1 DEF ReadersOwe
  <1>4. ASSUME NEW g \in Goroutines, NEW s \in Servers, Spawn(g, s), UNCHANGED <<rows, histories>>
        PROVE  ReadersOwe' /\ strays' = {}
    <2>1. \A h \in Goroutines, r \in Servers : Reading(h, r)' => Reading(h, r)
      BY <1>1, <1>4 DEF Spawn, Reading, On
    <2>2. QED  BY <1>4, <2>1, OwedKept DEF histories
  <1>5. ASSUME NEW g \in Goroutines, Collector(g) PROVE ReadersOwe' /\ strays' = {}
    <2>1. ASSUME NEW s \in Servers, Register(g, s) PROVE ReadersOwe' /\ strays' = {}
      BY <1>3, <2>1 DEF Register, dbVars, histories
    <2>2. ASSUME NEW s \in Servers, Collect(g, s) PROVE ReadersOwe' /\ strays' = {}
      <3>1. CASE s \in rows
        <4>1. ASSUME NEW h \in Goroutines, NEW r \in Servers, r \notin rows, Reading(h, r)'
              PROVE  h \in owed
          <5>1. CASE h = g
            <6>1. r = s  BY <1>1, <2>2, <4>1, <5>1 DEF Collect, Reading, On
            <6>2. QED  BY <3>1, <4>1, <6>1
          <5>2. CASE h # g
            <6>1. Reading(h, r)  BY <1>1, <2>2, <4>1, <5>2 DEF Collect, Reading, On
            <6>2. QED  BY <4>1, <6>1 DEF ReadersOwe
          <5>3. QED  BY <5>1, <5>2
        <4>2. QED  BY <2>2, <4>1 DEF Collect, ReadersOwe, dbVars, histories
      <3>2. CASE s \notin rows
        BY <1>3, <2>2, <3>2 DEF Collect, dbVars, histories
      <3>3. QED  BY <3>1, <3>2
    <2>3. ASSUME NEW s \in Servers, StoreSample(g, s) PROVE ReadersOwe' /\ strays' = {}
      <3>1. ReadersOwe'  BY <1>3, <2>3 DEF StoreSample
      <3>2. s \notin rows => g \in owed  BY <2>3 DEF StoreSample, Reading, ReadersOwe
      <3>3. QED  BY <2>3, <3>1, <3>2 DEF StoreSample
    <2>4. ASSUME NEW s \in Servers, UpdateStatus(g, s) PROVE ReadersOwe' /\ strays' = {}
      BY <1>3, <2>4 DEF UpdateStatus
    <2>5. CASE Sampled(g)
      <3>1. PICK next \in {"storing", "failed", "waiting"} :
              /\ pc' = [pc EXCEPT ![g] = next]
              /\ owed' = IF next = "storing" THEN owed ELSE owed \ {g}
        BY <2>5 DEF Sampled
      <3>2. pc[g] = "sampling" /\ UNCHANGED <<rows, server, strays>>  BY <2>5 DEF Sampled, dbVars
      <3>3. CASE next = "storing"
        <4>1. \A h \in Goroutines, r \in Servers : Reading(h, r)' => Reading(h, r)
          BY <1>1, <3>1, <3>2, <3>3 DEF Reading, On
        <4>2. QED  BY <3>1, <3>2, <3>3, <4>1, OwedKept
      <3>4. CASE next # "storing"  BY <1>3, <3>1, <3>2, <3>4
      <3>5. QED  BY <3>3, <3>4
    <2>6. CASE Tick(g) \/ Done(g)  BY <1>3, <2>6 DEF Tick, Done, dbVars, histories
    <2>7. QED  BY <1>5, <2>1, <2>2, <2>3, <2>4, <2>5, <2>6 DEF Collector
  <1>6. ASSUME NEW t \in Callers, NEW s \in Servers, DeleteServer(t, s)
        PROVE  ReadersOwe' /\ strays' = {}
    <2>1. UNCHANGED <<pc, server, strays>>  BY <1>6 DEF DeleteServer, runVars
    <2>2. CASE UNCHANGED <<rows, owed>>  BY <2>1, <2>2, OwedKept DEF Reading, On
    <2>3. CASE rows' = rows \ {s} /\ owed' = owed \cup {g \in Goroutines : Reading(g, s)}
      BY <2>1, <2>3 DEF ReadersOwe, Reading, On
    <2>4. QED  BY <1>6, <2>1, <2>2, <2>3 DEF DeleteServer
  <1>7. ASSUME NEW t \in Callers, Handler(t) PROVE ReadersOwe' /\ strays' = {}
    BY <1>2, <1>4, <1>6, <1>7
       DEF Handler, Request, MarkOnline, TestFails, StartCollector, StopCollector, MarkOffline,
           dbVars, runVars
  <1>8. CASE \E g \in Goroutines, s \in Servers : StartAllExisting(g, s)
    BY <1>4, <1>8 DEF StartAllExisting, dbVars
  <1>9. CASE StopAll \/ StopHTTP \/ CloseDB \/ UNCHANGED vars
    BY <1>2, <1>9 DEF StopAll, StopHTTP, CloseDB, vars, dbVars, runVars
  <1>10. QED  BY <1>5, <1>7, <1>8, <1>9 DEF Next

\* However its collectors are started, restarted and stopped around the delete, a
\* deleted server gets no sample but one from each collection under way at it.
THEOREM DeletedOwed == Spec => []OnlyOwedSamples
  <1>1. Init => ReadersOwe /\ OnlyOwedSamples  BY DEF Init, ReadersOwe, OnlyOwedSamples
  <1>2. QED  BY <1>1, OwedStep, Invariant, PTL DEF Spec
-----------------------------------------------------------------------------
\* A request that goes on keeps its record's type.
LEMMA AdvanceTyped ==
  ASSUME RestTyped, NEW t \in Callers, NEW at \in {"starting", "stopped", "done"},
         Advance(t, at)
  PROVE  step' \in [Callers -> [op: Operations \cup {"none"}, server: SUBSET Servers,
                                at: {"idle", "begun", "starting", "stopped", "done"}]]
  <1> DEFINE Step == [op: Operations \cup {"none"}, server: SUBSET Servers,
                      at: {"idle", "begun", "starting", "stopped", "done"}]
  <1>1. step \in [Callers -> Step]  BY DEF RestTyped
  <1>2. step' = [step EXCEPT ![t] = [step[t] EXCEPT !.at = at]]
    BY <1>1 DEF Advance
  <1>3. [step[t] EXCEPT !.at = at] \in Step
    <2>1. step[t] \in Step  BY <1>1
    <2>2. QED  BY <2>1
  <1>4. QED  BY <1>1, <1>2, <1>3

\* The other variables keep their types.
LEMMA RestStep == RestTyped /\ [Next]_vars => RestTyped'
  <1> SUFFICES ASSUME RestTyped, [Next]_vars PROVE RestTyped'  OBVIOUS
  <1>1. ASSUME NEW s, NEW v \in {"online", "offline"}, SetStatus(s, v)
        PROVE  status' \in [Servers -> {"unknown", "online", "offline"}]
    BY <1>1 DEF SetStatus, RestTyped
  <1>2. ASSUME NEW g \in Goroutines, Writes(g) PROVE late' \subseteq Goroutines
    BY <1>2 DEF Writes, RestTyped
  <1>3. ASSUME NEW g \in Goroutines, Collector(g) PROVE RestTyped'
    <2>1. ASSUME NEW s \in Servers, StoreSample(g, s) PROVE RestTyped'
      BY <1>2, <2>1 DEF StoreSample, RestTyped
    <2>2. ASSUME NEW s \in Servers, UpdateStatus(g, s) PROVE RestTyped'
      <3>1. status' \in [Servers -> {"unknown", "online", "offline"}]
        BY <1>1, <2>2 DEF UpdateStatus
      <3>2. QED  BY <1>2, <2>2, <3>1 DEF UpdateStatus, RestTyped
    <2>3. ASSUME UNCHANGED <<dbVars, existing, step, db, shutdown, histories>> PROVE RestTyped'
      BY <2>3 DEF RestTyped, dbVars, histories
    <2>4. CASE Sampled(g)  BY <2>4 DEF Sampled, RestTyped, dbVars
    <2>5. QED
      BY <1>3, <2>1, <2>2, <2>3, <2>4 DEF Collector, Register, Collect, Tick, Done
  <1>4. ASSUME NEW g \in Goroutines, NEW s \in Servers, StartAllExisting(g, s)
        PROVE  RestTyped'
    BY <1>4 DEF StartAllExisting, RestTyped, dbVars, histories
  <1>5. ASSUME NEW t \in Callers, Handler(t) PROVE RestTyped'
    <2>1. ASSUME NEW s \in Servers, NEW op \in Operations, Request(t, op, s)
          PROVE  RestTyped'
      BY <2>1 DEF Request, RestTyped, dbVars, histories
    <2>2. ASSUME NEW s \in Servers, MarkOnline(t, s) \/ TestFails(t, s) \/ MarkOffline(t, s)
          PROVE  RestTyped'
      <3>1. status' \in [Servers -> {"unknown", "online", "offline"}]
        BY <1>1, <2>2 DEF MarkOnline, TestFails, MarkOffline
      <3>2. Advance(t, "starting") \/ Advance(t, "done")
        BY <2>2 DEF MarkOnline, TestFails, MarkOffline
      <3>3. QED
        BY <2>2, <3>1, <3>2, AdvanceTyped DEF MarkOnline, TestFails, MarkOffline, RestTyped, histories
    <2>3. ASSUME NEW s \in Servers, NEW g \in Goroutines, StartCollector(t, s, g)
          PROVE  RestTyped'
      BY <2>3, AdvanceTyped DEF StartCollector, RestTyped, dbVars, histories
    <2>4. ASSUME NEW s \in Servers, StopCollector(t, s) PROVE RestTyped'
      BY <2>4, AdvanceTyped DEF StopCollector, RestTyped, dbVars, histories
    <2>5. ASSUME NEW s \in Servers, DeleteServer(t, s) PROVE RestTyped'
      BY <2>5, AdvanceTyped DEF DeleteServer, RestTyped
    <2>6. QED  BY <1>5, <2>1, <2>2, <2>3, <2>4, <2>5 DEF Handler
  <1>6. CASE StopAll \/ StopHTTP \/ CloseDB
    BY <1>6 DEF StopAll, StopHTTP, CloseDB, RestTyped, dbVars, histories
  <1>7. CASE UNCHANGED vars  BY <1>7 DEF vars, RestTyped, dbVars, histories
  <1>8. QED  BY <1>3, <1>4, <1>5, <1>6, <1>7 DEF Next

\* The variables keep their types, and a goroutine leaves its loop only when
\* it is cancelled.
THEOREM CollectorTyped == Spec => []TypeOK
  <1>1. Init => RestTyped  BY DEF Init, RestTyped, NoRequest
  <1>2. IInv /\ RestTyped => TypeOK  BY DEF IInv, Typed, RestTyped, TypeOK
  <1>3. QED  BY <1>1, <1>2, Invariant, RestStep, PTL DEF Spec
=============================================================================
