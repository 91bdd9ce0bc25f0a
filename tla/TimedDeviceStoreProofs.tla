----------------------- MODULE TimedDeviceStoreProofs -----------------------
(***************************************************************************)
(* How long an online device can stay silent before it is shown offline,   *)
(* for any number of devices and handlers and any timeouts, torn reads     *)
(* included: the sweep's own delays add up to DetectionDelay.              *)
(***************************************************************************)
EXTENDS TimedDeviceStore, DeviceStoreProofs, FiniteSetTheorems

-----------------------------------------------------------------------------
(* The inductive invariant. *)

\* The sweep has the record of k in hand.
InHand(k) == pc[Sweeper] \in {"check", "notify", "lock", "write"} /\ dev[Sweeper].id = k

\* The time that n notifications take at most.
Cost(n) == n * NotifyMax

\* A notification for every device but one.
Round == Cost(Cardinality(Devices) - 1)

\* The devices other than k that are not in S, and the time for all of them.
Rest(S, k)     == Devices \ (S \union {k})
RestCost(S, k) == Cost(Cardinality(Rest(S, k)))

\* The sweep is notifying about the record it has in hand, or is about to.
Expiring ==
  \/ pc[Sweeper] = "notify"
  \/ pc[Sweeper] = "check" /\ dev[Sweeper].online /\ Stale(dev[Sweeper], now)

\* The time until it is done with that, and when it began to.
InWork == IF ~Expiring THEN 0
          ELSE IF pc[Sweeper] = "check" THEN NotifyMax
          ELSE NotifyMax - (now - since[Sweeper])
Began  == IF pc[Sweeper] = "check" THEN now ELSE since[Sweeper]

\* The time until the sweep comes to k: in this sweep, or in the next one.
ThisSweep(k) == InWork + RestCost(seen, k)
Left(k) ==
  CASE pc[Sweeper] = "sleep" -> (IF wakeAt > now THEN wakeAt - now ELSE 0) + Round
    [] pc[Sweeper] # "sleep" /\ k \in todo \ seen    -> ThisSweep(k)
    [] pc[Sweeper] # "sleep" /\ k \notin todo \ seen -> ThisSweep(k) + SweepDelay + Round

\* The oldest a record can be when the sweep comes to it.
Oldest == OfflineAfter + SweepDelay + 2 * Round

Age(d) == now - d.pingedAt

\* A handler is writing a record of k: the sweep may read a torn one.
Overwritten(k) == \E t \in Handlers : pc[t] = "write" /\ dev[t].id = k

\* The stored record of k is one the sweep must find.
Live(k) == k \in DOMAIN devices /\ devices[k].online

\* A record the sweep has not got in hand is found before it is too old.
FoundInTime(k) ==
  Live(k) /\ ~Overwritten(k) /\ ~InHand(k) => Age(devices[k]) + Left(k) <= Oldest

\* One it has in hand was found in time, or has been stored since.
InHandOK(k) ==
  Live(k) /\ ~Overwritten(k) /\ InHand(k) =>
    CASE pc[Sweeper] = "check" ->
           /\ Age(devices[k]) <= Oldest
           /\ devices[k] = dev[Sweeper] \/ Age(devices[k]) <= OfflineAfter
      [] pc[Sweeper] = "notify" -> Age(devices[k]) <= Oldest + (now - since[Sweeper])
      [] pc[Sweeper] \in {"lock", "write"} -> Age(devices[k]) <= Oldest + NotifyMax

\* What the sweep makes of one that is being overwritten does not matter: a new
\* one is stored before any time passes.
OverwrittenOK(k) ==
  Live(k) /\ Overwritten(k) => Age(devices[k]) <= Oldest + NotifyMax

\* A record that a handler is about to store is as old as its notification; one
\* of an unknown device has just been made.
FreshOK(t) ==
  /\ pc[t] \in {"found", "missing"} => msg[t].id \in Devices
  /\ pc[t] = "found" \/ Carrying(t) => dev[t].id \in Devices
  /\ dev[t].online /\ pc[t] = "notify" => dev[t].pingedAt >= since[t]
  /\ dev[t].online /\ pc[t] \in {"lock", "write"} => Age(dev[t]) <= NotifyMax
  /\ pc[t] = "found" \/ Carrying(t) =>
       dev[t].id \in DOMAIN devices \/ (pc[t] \in {"lock", "write"} /\ Age(dev[t]) = 0)

\* The sweep began with a record torn between none and the first one of k, and
\* notifies under the empty id: whatever is stored for k then is younger.
TornFirst(k) == Expiring /\ dev[Sweeper].id = NoID /\ seen \intersect Devices = {k}
TornOK(k) ==
  TornFirst(k) =>
    \A t \in Handlers :
      Carrying(t) /\ dev[t].id = k /\ dev[t].online => dev[t].pingedAt >= Began

\* The deadlines, and where the sweep is.
Deadlines ==
  /\ since \in [Threads -> Int]
  /\ \A t \in Threads : since[t] <= now /\ (Notifying(t) => now - since[t] <= NotifyMax)
  /\ wakeAt <= now + SweepDelay
SweepOK ==
  /\ ~Live(NoID)
  /\ \A k \in Devices : InHand(k) => k \in seen
  /\ Expiring => seen \intersect Devices # {}
  /\ Carrying(Sweeper) => ~dev[Sweeper].online
  /\ ~up => pc = Idle /\ DOMAIN devices = {}

InTime(k) == FoundInTime(k) /\ InHandOK(k) /\ OverwrittenOK(k) /\ TornOK(k)

TimedInv ==
  /\ TypeOK /\ LockDiscipline /\ Deadlines /\ SweepOK
  /\ \A t \in Handlers : FreshOK(t)
  /\ \A k \in Devices : InTime(k)

-----------------------------------------------------------------------------
(* Counting notifications. *)

\* One more costs NotifyMax more.
LEMMA CostFacts ==
  /\ \A n \in Nat : Cost(n) \in Nat /\ Cost(n + 1) = Cost(n) + NotifyMax
  /\ \A m, n \in Nat : m <= n => Cost(m) <= Cost(n)
<1> USE NotifyAssumption DEF NotifyAssumption, Cost
<1>1. \A n \in Nat : Cost(n) \in Nat /\ Cost(n + 1) = Cost(n) + NotifyMax
  OBVIOUS
<1>2. ASSUME NEW m \in Nat, NEW n \in Nat, m <= n PROVE Cost(m) <= Cost(n)
  <2>1. PICK i \in Nat : n = m + i
    BY <1>2
  <2>2. n * NotifyMax = m * NotifyMax + i * NotifyMax /\ i * NotifyMax \in Nat
    BY <2>1
  <2> QED
    BY <2>2
<1> QED
  BY <1>1, <1>2

\* Every device counts once.
LEMMA CountRest ==
  ASSUME NEW k \in Devices, NEW S
  PROVE  /\ Cardinality(Devices) - 1 \in Nat /\ Cardinality(Rest(S, k)) \in Nat
         /\ Cardinality(Rest(S, k)) <= Cardinality(Devices) - 1
         /\ \A j \in (S \intersect Devices) \ {k} :
              Cardinality(Rest(S, k)) + 1 <= Cardinality(Devices) - 1
         /\ \A j \in Rest(S, k) :
              Cardinality(Rest(S \union {j}, k)) + 1 = Cardinality(Rest(S, k))
         /\ S = {} => Cardinality(Rest(S, k)) = Cardinality(Devices) - 1
<1> DEFINE R == Rest(S, k)
           D == Devices \ {k}
<1>1. IsFiniteSet(D) /\ Cardinality(D) = Cardinality(Devices) - 1
  BY ONLY k \in Devices, FiniteAssumption, FS_RemoveElement DEF FiniteAssumption
<1>2. Cardinality(D) \in Nat
  BY ONLY <1>1, FS_CardinalityType
<1>3. R \subseteq D
  BY DEF Rest
<1>4. IsFiniteSet(R) /\ Cardinality(R) <= Cardinality(D)
  BY ONLY <1>1, <1>3, FS_Subset
<1>5. Cardinality(R) \in Nat
  BY ONLY <1>4, FS_CardinalityType
<1>6. ASSUME NEW j \in (S \intersect Devices) \ {k}
      PROVE  Cardinality(R) + 1 <= Cardinality(D)
  <2>1. j \in D /\ R \subseteq D \ {j}
    BY DEF Rest
  <2>2. IsFiniteSet(D \ {j}) /\ Cardinality(D \ {j}) = Cardinality(D) - 1
    BY ONLY <1>1, <2>1, FS_RemoveElement
  <2>3. Cardinality(R) <= Cardinality(D \ {j})
    BY ONLY <2>1, <2>2, FS_Subset
  <2> QED
    BY <1>2, <1>5, <2>2, <2>3
<1>7. ASSUME NEW j \in R
      PROVE  Cardinality(Rest(S \union {j}, k)) + 1 = Cardinality(R)
  <2>1. Rest(S \union {j}, k) = R \ {j}
    BY DEF Rest
  <2>2. Cardinality(R \ {j}) = Cardinality(R) - 1
    BY ONLY <1>4, <1>7, FS_RemoveElement
  <2> QED
    BY <1>5, <2>1, <2>2
<1>8. S = {} => R = D
  BY DEF Rest
<1> QED
  BY <1>1, <1>2, <1>4, <1>5, <1>6, <1>7, <1>8

\* So does its notification.
LEMMA RestCosts ==
  ASSUME NEW k \in Devices, NEW S
  PROVE  /\ Round \in Nat /\ RestCost(S, k) \in Nat /\ RestCost(S, k) <= Round
         /\ \A j \in (S \intersect Devices) \ {k} : RestCost(S, k) + NotifyMax <= Round
         /\ \A j \in Rest(S, k) :
              RestCost(S \union {j}, k) + NotifyMax = RestCost(S, k)
         /\ S = {} => RestCost(S, k) = Round
<1> DEFINE r == Cardinality(Rest(S, k))
           d == Cardinality(Devices) - 1
<1>1. d \in Nat /\ r \in Nat /\ r <= d
  BY CountRest
<1>2. ASSUME NEW j \in (S \intersect Devices) \ {k} PROVE Cost(r) + NotifyMax <= Cost(d)
  <2>1. r + 1 <= d
    BY CountRest
  <2>2. Cost(r + 1) <= Cost(d) /\ Cost(r + 1) = Cost(r) + NotifyMax
    BY <1>1, <2>1, CostFacts
  <2> QED
    BY <2>2
<1>3. ASSUME NEW j \in Rest(S, k)
      PROVE  RestCost(S \union {j}, k) + NotifyMax = Cost(r)
  <2> DEFINE q == Cardinality(Rest(S \union {j}, k))
  <2>1. q + 1 = r /\ q \in Nat
    BY CountRest
  <2>2. Cost(q + 1) = Cost(q) + NotifyMax
    BY <2>1, CostFacts
  <2> QED
    BY <2>1, <2>2 DEF RestCost
<1>4. S = {} => r = d
  BY CountRest
<1>5. Cost(r) \in Nat /\ Cost(d) \in Nat /\ Cost(r) <= Cost(d)
  BY <1>1, CostFacts
<1> QED
  BY <1>2, <1>3, <1>4, <1>5 DEF RestCost, Round

-----------------------------------------------------------------------------
(* The steps, and what they leave alone. *)

\* since is when each thread came to its pc.
Stamped == since' = [t \in Threads |-> IF pc'[t] # pc[t] THEN now' ELSE since[t]]

\* A timed step is a step of the store, and is stamped.
LEMMA TimedStep ==
  ASSUME TimedNext
  PROVE  /\ Stamped /\ Next
         /\ \/ \E t \in Handlers : Call(t) \/ HandlerStep(t)
            \/ SweepStep \/ Subscribe \/ Down \/ Start \/ TimedTick
BY DEF TimedNext, Timed, Stamped, Next, TimedTick, Exit, MapFatal

\* A handler does not touch the sweep, nor the sweep a handler.
LEMMA HandlerAside ==
  ASSUME NEW t \in Handlers, Call(t) \/ HandlerStep(t)
  PROVE  UNCHANGED <<now, up, wakeAt, todo, seen>>
BY DEF Call, Read, HandlerStep, SetDevice, Notify, Lock, Write, PingRegister,
       PingRejected, PingRefresh, CallMissing, PingDeviceFound, MarkOfflineFound, GoOn,
       sweepVars

\* The deadlines of a step that takes no time.
LEMMA DeadlinesKept ==
  ASSUME TypeOK, Deadlines, Stamped, now' = now, wakeAt' <= now + SweepDelay
  PROVE  Deadlines'
<1> USE NotifyAssumption DEF NotifyAssumption
<1>1. now \in Int /\ since \in [Threads -> Int]
  BY DEF TypeOK, Deadlines
<1>2. since' \in [Threads -> Int]
  BY <1>1 DEF Stamped
<1>3. ASSUME NEW t \in Threads
      PROVE  since'[t] <= now' /\ (Notifying(t)' => now' - since'[t] <= NotifyMax)
  <2>1. since'[t] = IF pc'[t] # pc[t] THEN now ELSE since[t]
    BY DEF Stamped
  <2>2. since[t] <= now /\ (Notifying(t) => now - since[t] <= NotifyMax)
    BY DEF Deadlines
  <2>3. CASE pc'[t] # pc[t]
    BY <1>1, <2>1, <2>3
  <2>4. CASE pc'[t] = pc[t]
    BY <1>1, <2>1, <2>2, <2>4 DEF Notifying
  <2> QED
    BY <2>3, <2>4
<1> QED
  BY <1>2, <1>3 DEF Deadlines

\* A handler that does not move keeps what it is about to store.
LEMMA FreshFrame ==
  ASSUME TypeOK, Deadlines, NEW t \in Handlers, FreshOK(t), Stamped, now' = now,
         DOMAIN devices \subseteq DOMAIN devices',
         pc'[t] = pc[t], msg'[t] = msg[t], dev'[t] = dev[t]
  PROVE  FreshOK(t)'
<1>1. since'[t] = since[t]
  BY DEF Stamped, Threads
<1> QED
  BY <1>1 DEF FreshOK, Carrying, Age

\* Handlers do not notice the sweep.
LEMMA FreshAside ==
  ASSUME TypeOK, Deadlines, \A t \in Handlers : FreshOK(t), Stamped, now' = now,
         DOMAIN devices \subseteq DOMAIN devices', Alone(Sweeper)
  PROVE  \A t \in Handlers : FreshOK(t)'
BY FreshFrame, ThreadsAssumption DEF ThreadsAssumption, Alone, Threads

\* Nor does what they are writing change with it.
LEMMA OverwrittenAside ==
  ASSUME Alone(Sweeper), NEW k
  PROVE  Overwritten(k)' <=> Overwritten(k)
BY ThreadsAssumption DEF ThreadsAssumption, Alone, Threads, Overwritten

\* What the record in hand still takes.
LEMMA WorkBound ==
  ASSUME TypeOK, Deadlines
  PROVE  /\ InWork \in Nat /\ InWork <= NotifyMax
         /\ Began \in Int /\ Began <= now /\ now \in Int
         /\ Expiring => InWork = NotifyMax - (now - Began)
<1> USE NotifyAssumption DEF NotifyAssumption
<1>1. /\ now \in Int /\ since[Sweeper] \in Int /\ since[Sweeper] <= now
      /\ pc[Sweeper] = "notify" => now - since[Sweeper] <= NotifyMax
  BY DEF TypeOK, Deadlines, Notifying, Threads
<1>2. CASE ~Expiring
  BY <1>1, <1>2 DEF InWork, Began
<1>3. CASE Expiring /\ pc[Sweeper] = "check"
  <2>1. InWork = NotifyMax /\ Began = now
    BY <1>3 DEF InWork, Began
  <2> QED
    BY <1>1, <2>1
<1>4. CASE Expiring /\ pc[Sweeper] = "notify"
  <2>1. InWork = NotifyMax - (now - since[Sweeper]) /\ Began = since[Sweeper]
    BY <1>4 DEF InWork, Began
  <2> QED
    BY <1>1, <1>4, <2>1
<1> QED
  BY <1>2, <1>3, <1>4 DEF Expiring

\* How long the sweep takes to a key, at most.
LEMMA LeftBound ==
  ASSUME TypeOK, Deadlines, SweepOK, NEW k \in Devices, ~InHand(k)
  PROVE  /\ Left(k) \in Nat /\ Round \in Nat
         /\ IF TornFirst(k) THEN Left(k) <= InWork + SweepDelay + 2 * Round
                            ELSE Left(k) <= SweepDelay + 2 * Round
<1> USE NotifyAssumption, TimeAssumption DEF NotifyAssumption, TimeAssumption
<1>1. /\ Round \in Nat /\ RestCost(seen, k) \in Nat /\ RestCost(seen, k) <= Round
      /\ \A j \in (seen \intersect Devices) \ {k} : RestCost(seen, k) + NotifyMax <= Round
  BY RestCosts
<1>2. /\ now \in Int /\ wakeAt \in Int /\ wakeAt <= now + SweepDelay
      /\ InWork \in Nat /\ InWork <= NotifyMax
  BY WorkBound DEF TypeOK, Deadlines
<1>3. CASE pc[Sweeper] = "sleep"
  <2>1. Left(k) = (IF wakeAt > now THEN wakeAt - now ELSE 0) + Round
    BY <1>3 DEF Left
  <2>2. ~TornFirst(k)
    BY <1>3 DEF TornFirst, Expiring
  <2> QED
    BY <1>1, <1>2, <2>1, <2>2
<1>4. CASE pc[Sweeper] # "sleep"
  <2> DEFINE r == RestCost(seen, k)
  <2>1. Left(k) \in {InWork + r, InWork + r + SweepDelay + Round}
    BY <1>4 DEF Left, ThisSweep
  <2>2. CASE TornFirst(k)
    BY <1>1, <1>2, <2>1, <2>2
  <2>3. CASE ~TornFirst(k) /\ Expiring
    <3>1. PICK j \in seen \intersect Devices : j # k
      <4>1. CASE dev[Sweeper].id = NoID
        BY <2>3, <4>1 DEF SweepOK, TornFirst
      <4>2. CASE dev[Sweeper].id # NoID
        <5>1. dev[Sweeper].id \in Devices /\ InHand(dev[Sweeper].id)
          BY <2>3, <4>2 DEF TypeOK, Device, Threads, IDs, InHand, Expiring
        <5> QED
          BY <5>1 DEF SweepOK
      <4> QED
        BY <4>1, <4>2
    <3>2. r + NotifyMax <= Round
      BY <1>1, <3>1
    <3> QED
      BY <1>1, <1>2, <2>1, <2>3, <3>2
  <2>4. CASE ~TornFirst(k) /\ ~Expiring
    <3>1. InWork = 0
      BY <2>4 DEF InWork
    <3> QED
      BY <1>1, <2>1, <2>4, <3>1
  <2> QED
    BY <2>2, <2>3, <2>4
<1> QED
  BY <1>3, <1>4

\* Whatever is stored is at most a notification older than Oldest.
LEMMA InTimeBounds ==
  ASSUME TypeOK, Deadlines, SweepOK, NEW k \in Devices, InTime(k), Live(k)
  PROVE  Age(devices[k]) <= Oldest + NotifyMax
<1> USE NotifyAssumption, TimeAssumption DEF NotifyAssumption, TimeAssumption
<1>1. now \in Int /\ devices[k].pingedAt \in Int /\ Round \in Nat
  <2>1. now \in Int /\ devices[k] \in Device
    BY DEF TypeOK, Live
  <2> QED
    BY <2>1, RestCosts DEF Device
<1>2. Oldest \in Int /\ Age(devices[k]) \in Int
  BY <1>1 DEF Oldest, Age
<1>3. CASE Overwritten(k)
  BY <1>3 DEF InTime, OverwrittenOK
<1>4. CASE ~Overwritten(k) /\ ~InHand(k)
  <2>1. Left(k) \in Nat
    BY <1>4, LeftBound
  <2>2. Age(devices[k]) + Left(k) <= Oldest
    BY <1>4 DEF InTime, FoundInTime
  <2> QED
    BY <1>2, <2>1, <2>2
<1>5. CASE ~Overwritten(k) /\ InHand(k)
  <2>1. CASE pc[Sweeper] = "check"
    <3>1. Age(devices[k]) <= Oldest
      BY <1>5, <2>1 DEF InTime, InHandOK
    <3> QED
      BY <1>2, <3>1
  <2>2. CASE pc[Sweeper] = "notify"
    <3>1. Age(devices[k]) <= Oldest + (now - since[Sweeper])
      BY <1>5, <2>2 DEF InTime, InHandOK
    <3>2. now - since[Sweeper] <= NotifyMax /\ since[Sweeper] \in Int
      BY <2>2 DEF Deadlines, Notifying, Threads
    <3> QED
      BY <1>1, <1>2, <3>1, <3>2
  <2>3. CASE pc[Sweeper] \in {"lock", "write"}
    BY <1>5, <2>3 DEF InTime, InHandOK
  <2> QED
    BY <1>5, <2>1, <2>2, <2>3 DEF InHand
<1> QED
  BY <1>3, <1>4, <1>5

-----------------------------------------------------------------------------
(* The steps of a handler. *)

\* The record of k stays, or is one that was pinged a notification ago at most.
Untouched(k) ==
  /\ k \in DOMAIN devices' => k \in DOMAIN devices /\ devices'[k] = devices[k]
  /\ Overwritten(k) => Overwritten(k)'
Refreshes(k) ==
  devices'[k].online =>
    /\ now - devices'[k].pingedAt <= NotifyMax
    /\ TornFirst(k) => devices'[k].pingedAt >= Began

\* What a handler stores is found in time, wherever the sweep is.
LEMMA StoreAside ==
  ASSUME TypeOK, Deadlines, SweepOK, TypeOK', NEW k \in Devices, InTime(k),
         UNCHANGED <<now, wakeAt, todo, seen>>,
         pc'[Sweeper] = pc[Sweeper], dev'[Sweeper] = dev[Sweeper],
         since'[Sweeper] = since[Sweeper], Untouched(k) \/ Refreshes(k)
  PROVE  FoundInTime(k)' /\ InHandOK(k)' /\ OverwrittenOK(k)'
<1> USE NotifyAssumption, TimeAssumption DEF NotifyAssumption, TimeAssumption
<1>1. InWork' = InWork /\ Oldest' = Oldest /\ (InHand(k)' <=> InHand(k))
  BY DEF InWork, Expiring, Round, Oldest, InHand, Cost
<1>2. Left(k)' = Left(k)
  BY <1>1 DEF Left, ThisSweep, Rest, RestCost, Cost, Round
<1>3. now \in Int /\ Round \in Nat /\ InWork \in Nat /\ InWork <= NotifyMax
  BY RestCosts, WorkBound
<1>4. CASE Untouched(k)
  <2> SUFFICES ASSUME Live(k)'
               PROVE  FoundInTime(k)' /\ InHandOK(k)' /\ OverwrittenOK(k)'
    BY DEF FoundInTime, InHandOK, OverwrittenOK
  <2>1. Live(k) /\ devices'[k] = devices[k] /\ (Overwritten(k) => Overwritten(k)')
    BY <1>4 DEF Untouched, Live
  <2>2. Age(devices[k])' = Age(devices[k])
    BY <2>1 DEF Age
  <2>3. FoundInTime(k)'
    BY <1>1, <1>2, <2>1, <2>2 DEF FoundInTime, InTime
  <2>4. InHandOK(k)'
    BY <1>1, <2>1, <2>2 DEF InHandOK, InTime
  <2>5. OverwrittenOK(k)'
    BY <1>1, <2>1, <2>2, InTimeBounds DEF OverwrittenOK
  <2> QED
    BY <2>3, <2>4, <2>5
<1>5. CASE Refreshes(k)
  <2> SUFFICES ASSUME Live(k)'
               PROVE  FoundInTime(k)' /\ InHandOK(k)' /\ OverwrittenOK(k)'
    BY DEF FoundInTime, InHandOK, OverwrittenOK
  <2> DEFINE age == now - devices'[k].pingedAt
  <2>1. devices'[k].pingedAt \in Int
    BY DEF TypeOK, Device, Live
  <2>2. age \in Int /\ age <= NotifyMax /\ age <= OfflineAfter
    BY <1>3, <1>5, <2>1 DEF Refreshes, Live
  <2>3. Age(devices[k])' = age
    BY DEF Age
  <2>4. Oldest \in Int /\ age <= Oldest /\ age <= Oldest + NotifyMax
    BY <1>3, <2>2 DEF Oldest
  <2>5. TornFirst(k) => age + InWork <= NotifyMax
    <3> SUFFICES ASSUME TornFirst(k) PROVE age + InWork <= NotifyMax
      OBVIOUS
    <3>1. devices'[k].pingedAt >= Began
      BY <1>5 DEF Refreshes, Live
    <3>2. InWork = NotifyMax - (now - Began) /\ Began \in Int
      BY WorkBound DEF TornFirst
    <3> QED
      BY <1>3, <2>1, <3>1, <3>2
  <2> HIDE DEF age
  <2>6. FoundInTime(k)'
    <3>1. CASE InHand(k)
      BY <1>1, <3>1 DEF FoundInTime
    <3>2. CASE ~InHand(k)
      <4>1. Left(k) \in Nat
        BY <3>2, LeftBound
      <4>2. CASE TornFirst(k)
        <5>1. Left(k) <= InWork + SweepDelay + 2 * Round
          BY <3>2, <4>2, LeftBound
        <5>2. age + Left(k) <= Oldest
          BY <1>3, <2>2, <2>5, <4>1, <4>2, <5>1 DEF Oldest
        <5> QED
          BY <1>1, <1>2, <2>3, <5>2 DEF FoundInTime
      <4>3. CASE ~TornFirst(k)
        <5>1. Left(k) <= SweepDelay + 2 * Round
          BY <3>2, <4>3, LeftBound
        <5>2. age + Left(k) <= Oldest
          BY <1>3, <2>2, <4>1, <5>1 DEF Oldest
        <5> QED
          BY <1>1, <1>2, <2>3, <5>2 DEF FoundInTime
      <4> QED
        BY <4>2, <4>3
    <3> QED
      BY <3>1, <3>2
  <2>7. InHandOK(k)'
    <3>1. age <= Oldest + (now - since[Sweeper])
      <4>1. since[Sweeper] \in Int /\ since[Sweeper] <= now
        BY DEF Deadlines, Threads
      <4> QED
        BY <1>3, <2>2, <2>4, <4>1
    <3>2. Oldest' = Oldest /\ now' = now /\ Age(devices[k])' = age
      BY <1>1, <2>3
    <3>3. CASE pc[Sweeper] = "check"
      BY <2>2, <2>4, <3>2, <3>3 DEF InHandOK
    <3>4. CASE pc[Sweeper] = "notify"
      BY <3>1, <3>2, <3>4 DEF InHandOK
    <3>5. CASE pc[Sweeper] \in {"lock", "write"}
      BY <2>4, <3>2, <3>5 DEF InHandOK
    <3>6. CASE pc[Sweeper] \notin {"check", "notify", "lock", "write"}
      BY <1>1, <3>6 DEF InHandOK, InHand
    <3> QED
      BY <3>3, <3>4, <3>5, <3>6
  <2>8. OverwrittenOK(k)'
    BY <1>1, <2>3, <2>4 DEF OverwrittenOK
  <2> QED
    BY <2>6, <2>7, <2>8
<1> QED
  BY <1>4, <1>5

\* What a handler does to its record and to the store.
Turn(t) ==
  /\ Alone(t) /\ FreshOK(t)'
  /\ DOMAIN devices \subseteq DOMAIN devices'
  /\ Untouched(NoID) /\ \A k \in Devices : Untouched(k) \/ Refreshes(k)
  /\ Carrying(t)' /\ dev'[t].online =>
       dev'[t].pingedAt = now \/ (Carrying(t) /\ dev'[t] = dev[t])

\* Nobody else's record is put down.
LEMMA OverwrittenFrame ==
  ASSUME NEW t \in Handlers, Alone(t), NEW k, ~(pc[t] = "write" /\ dev[t].id = k)
  PROVE  Overwritten(k) => Overwritten(k)'
BY DEF Overwritten, Alone, Threads

\* A step that stores nothing.
LEMMA TurnInside ==
  ASSUME NEW t \in Handlers, Alone(t), UNCHANGED devices, FreshOK(t)', pc[t] # "write",
         Carrying(t)' /\ dev'[t].online =>
           dev'[t].pingedAt = now \/ (Carrying(t) /\ dev'[t] = dev[t])
  PROVE  Turn(t)
BY OverwrittenFrame DEF Turn, Untouched

\* getDevice, and the steps up to the notification or the lock.
LEMMA TurnFromRead ==
  ASSUME TypeOK, Deadlines, Stamped, NEW t \in Handlers, FreshOK(t),
         \/ Call(t) \/ PingRegister(t) \/ PingRejected(t) \/ PingRefresh(t)
         \/ CallMissing(t) \/ PingDeviceFound(t) \/ MarkOfflineFound(t)
  PROVE  Turn(t)
<1> USE NotifyAssumption DEF NotifyAssumption
<1>1. /\ t \in Threads /\ now \in Int /\ dev[t] \in Device /\ msg[t] \in Message
      /\ since'[t] = IF pc'[t] # pc[t] THEN now' ELSE since[t]
  BY DEF TypeOK, Threads, Stamped
<1>2. CASE Call(t)
  <2>1. PICK call \in {"Ping", "PingDevice", "MarkOffline"}, m \in Message :
           /\ m.id \in Devices /\ UNCHANGED devices /\ pc[t] = "idle"
           /\ IF m.id \in DOMAIN devices
                THEN Moves(t, "found", call, m, devices[m.id])
                ELSE Moves(t, "missing", call, m, dev[t])
    BY <1>2, CallEffect DEF Inside
  <2>2. \A k \in DOMAIN devices : devices[k].id = k
    BY DEF TypeOK
  <2>3. Alone(t) /\ FreshOK(t)' /\ ~Carrying(t)'
    BY <2>1, <2>2 DEF Moves, FreshOK, Carrying
  <2> QED
    BY <2>1, <2>3, TurnInside
<1>3. CASE PingRegister(t)
  <2> DEFINE d == NewDevice(msg[t], now)
  <2>1. /\ pc[t] = "missing" /\ now' = now /\ UNCHANGED devices
        /\ Moves(t, "lock", "Register", msg[t], d)
    BY <1>3, RegisterEffect DEF Inside
  <2>2. d.pingedAt = now /\ d.id = msg[t].id
    BY <1>1, NewDeviceType
  <2>3. d.id \in Devices
    BY <2>1, <2>2 DEF FreshOK
  <2> HIDE DEF d
  <2>4. Alone(t) /\ FreshOK(t)' /\ dev'[t].pingedAt = now
    BY <1>1, <2>1, <2>2, <2>3 DEF Moves, FreshOK, Carrying, Age
  <2> QED
    BY <2>1, <2>4, TurnInside
<1>4. CASE PingRejected(t) \/ CallMissing(t)
  <2>1. UNCHANGED devices /\ Returns(t) /\ pc[t] # "write"
    BY <1>4, LeaveEffect DEF Inside
  <2>2. Alone(t) /\ FreshOK(t)' /\ ~Carrying(t)'
    BY <2>1 DEF Returns, Moves, FreshOK, Carrying
  <2> QED
    BY <2>1, <2>2, TurnInside
<1>5. CASE PingRefresh(t) \/ PingDeviceFound(t)
  <2>1. PICK d \in Device :
           /\ d.pingedAt = now /\ d.id = dev[t].id
           /\ pc[t] = "found" /\ now' = now /\ UNCHANGED devices
           /\ Moves(t, IF dev[t].online THEN "lock" ELSE "notify", op[t], msg[t], d)
    BY <1>5, RefreshEffect DEF Inside
  <2>2. d.id \in Devices /\ d.id \in DOMAIN devices
    BY <2>1 DEF FreshOK
  <2>3. since'[t] = now
    BY <1>1, <2>1 DEF Moves
  <2>4. Alone(t) /\ FreshOK(t)' /\ dev'[t].pingedAt = now
    BY <1>1, <2>1, <2>2, <2>3 DEF Moves, FreshOK, Carrying, Age
  <2> QED
    BY <2>1, <2>4, TurnInside
<1>6. CASE MarkOfflineFound(t)
  <2> DEFINE d == Offline(dev[t])
  <2>1. /\ pc[t] = "found" /\ UNCHANGED devices
        /\ Moves(t, IF dev[t].online THEN "notify" ELSE "lock", op[t], msg[t], d)
    BY <1>6, MarkEffect DEF Inside
  <2>2. ~d.online /\ d.id = dev[t].id
    BY <1>1, OfflineKeeps
  <2>3. d.id \in Devices /\ d.id \in DOMAIN devices
    BY <2>1, <2>2 DEF FreshOK
  <2> HIDE DEF d
  <2>4. Alone(t) /\ FreshOK(t)' /\ ~dev'[t].online
    BY <2>1, <2>2, <2>3 DEF Moves, FreshOK, Carrying
  <2> QED
    BY <2>1, <2>4, TurnInside
<1> QED
  BY <1>2, <1>3, <1>4, <1>5, <1>6

\* The notification takes its time; what is stored after it is as old.
LEMMA TurnToWrite ==
  ASSUME TypeOK, Deadlines, Stamped, NEW t \in Handlers, FreshOK(t),
         \A k \in Devices : TornOK(k), Notify(t) \/ Lock(t) \/ Write(t)
  PROVE  Turn(t)
<1> USE NotifyAssumption DEF NotifyAssumption
<1>1. /\ t \in Threads /\ now \in Int /\ dev[t] \in Device /\ dev[t].pingedAt \in Int
      /\ t # Sweeper /\ since[t] \in Int
  BY ThreadsAssumption DEF ThreadsAssumption, TypeOK, Threads, Device, Deadlines
<1>2. CASE Notify(t)
  <2>1. /\ pc[t] \in {"notify", "announce"} /\ UNCHANGED <<now, devices>>
        /\ IF pc[t] = "notify" THEN Moves(t, "lock", op[t], msg[t], dev[t])
                               ELSE Returns(t)
    BY <1>1, <1>2, NotifyEffect
  <2>2. CASE pc[t] = "notify"
    <3>1. now - since[t] <= NotifyMax
      BY <1>1, <2>2 DEF Deadlines, Notifying
    <3>2. /\ dev[t].id \in Devices /\ dev[t].id \in DOMAIN devices
          /\ dev[t].online => Age(dev[t]) <= NotifyMax
      BY <1>1, <2>2, <3>1 DEF FreshOK, Age, Carrying
    <3>3. Alone(t) /\ FreshOK(t)' /\ Carrying(t) /\ dev'[t] = dev[t]
      BY <2>1, <2>2, <3>2 DEF Moves, FreshOK, Carrying, Age
    <3> QED
      BY <2>1, <3>3, TurnInside
  <2>3. CASE pc[t] # "notify"
    <3>1. Alone(t) /\ FreshOK(t)' /\ ~Carrying(t)'
      BY <2>1, <2>3 DEF Returns, Moves, FreshOK, Carrying
    <3> QED
      BY <2>1, <3>1, TurnInside
  <2> QED
    BY <2>2, <2>3
<1>3. CASE Lock(t)
  <2>1. /\ pc[t] = "lock" /\ UNCHANGED <<now, devices>>
        /\ Moves(t, "write", op[t], msg[t], dev[t])
    BY <1>1, <1>3, LockEffect DEF Inside
  <2>2. Alone(t) /\ FreshOK(t)' /\ Carrying(t) /\ dev'[t] = dev[t]
    BY <2>1 DEF Moves, FreshOK, Carrying, Age
  <2> QED
    BY <2>1, <2>2, TurnInside
<1>4. CASE Write(t)
  <2> DEFINE j == dev[t].id
  <2>1. /\ pc[t] = "write" /\ now' = now
        /\ DOMAIN devices' = DOMAIN devices \union {j}
        /\ devices'[j] = dev[t]
        /\ \A k \in DOMAIN devices \ {j} : devices'[k] = devices[k]
        /\ Moves(t, "announce", op[t], msg[t], dev[t]) \/ Returns(t)
    BY <1>1, <1>4, WriteEffect
  <2>2. Carrying(t)
    BY <2>1 DEF Carrying
  <2>3. j \in Devices /\ (dev[t].online => Age(dev[t]) <= NotifyMax)
    BY <2>1, <2>2 DEF FreshOK
  <2>4. /\ Alone(t) /\ FreshOK(t)'
        /\ Carrying(t)' /\ dev'[t].online => dev'[t] = dev[t]
    BY <2>1, <2>3 DEF Returns, Moves, FreshOK, Carrying
  <2>5. Refreshes(j)
    BY <2>1, <2>2, <2>3 DEF Refreshes, Age, TornOK
  <2>6. \A k : k # j => Untouched(k)
    BY <2>1, <2>4, OverwrittenFrame DEF Untouched
  <2>7. NoID # j
    BY <2>3, DataAssumption DEF DataAssumption
  <2> QED
    BY <2>1, <2>2, <2>4, <2>5, <2>6, <2>7 DEF Turn
<1> QED
  BY <1>2, <1>3, <1>4

\* A handler's step keeps the invariant.
LEMMA HandlerKeeps ==
  ASSUME TimedInv, TypeOK', LockDiscipline', Stamped,
         NEW t \in Handlers, Call(t) \/ HandlerStep(t)
  PROVE  TimedInv'
<1> USE ThreadsAssumption DEF ThreadsAssumption
<1>1. /\ TypeOK /\ Deadlines /\ SweepOK /\ (\A u \in Handlers : FreshOK(u))
      /\ \A k \in Devices : InTime(k) /\ TornOK(k)
  BY DEF TimedInv, InTime
<1>2. UNCHANGED <<now, up, wakeAt, todo, seen>>
  BY HandlerAside
<1>3. Turn(t)
  BY <1>1, TurnFromRead, TurnToWrite DEF HandlerStep, SetDevice
<1>4. /\ pc'[Sweeper] = pc[Sweeper] /\ dev'[Sweeper] = dev[Sweeper]
      /\ since'[Sweeper] = since[Sweeper]
  BY <1>3 DEF Turn, Alone, Threads, Stamped
<1>5. Deadlines'
  BY <1>1, <1>2, DeadlinesKept DEF Deadlines
<1>6. ASSUME NEW u \in Handlers PROVE FreshOK(u)'
  <2>1. CASE u = t
    BY <1>3, <2>1 DEF Turn
  <2>2. CASE u # t
    BY <1>1, <1>2, <1>3, <2>2, FreshFrame DEF Turn, Alone, Threads
  <2> QED
    BY <2>1, <2>2
<1>7. (Expiring' <=> Expiring) /\ Began' = Began
  BY <1>2, <1>4 DEF Expiring, Began
<1>8. SweepOK'
  <2>1. up
    <3>1. pc = Idle => ~HandlerStep(t)
      BY DEF Idle, HandlerStep, SetDevice, Notify, Lock, Write, PingRegister,
             PingRejected, PingRefresh, CallMissing, PingDeviceFound, MarkOfflineFound,
             Threads
    <3>2. Call(t) => up
      BY DEF Call, Read
    <3> QED
      BY <1>1, <3>1, <3>2 DEF SweepOK
  <2>2. \A k : InHand(k)' <=> InHand(k)
    BY <1>4 DEF InHand
  <2>3. ~Live(NoID)'
    BY <1>1, <1>3 DEF Turn, Untouched, Live, SweepOK
  <2>4. Carrying(Sweeper)' => ~dev'[Sweeper].online
    BY <1>1, <1>4 DEF SweepOK, Carrying
  <2> QED
    BY <1>1, <1>2, <1>7, <2>1, <2>2, <2>3, <2>4 DEF SweepOK
<1>9. ASSUME NEW k \in Devices PROVE TornOK(k)'
  <2> SUFFICES ASSUME TornFirst(k), NEW u \in Handlers, Carrying(u)', dev'[u].id = k,
                      dev'[u].online
               PROVE  dev'[u].pingedAt >= Began
    BY <1>2, <1>4, <1>7 DEF TornOK, TornFirst
  <2>1. CASE Carrying(u) /\ dev'[u] = dev[u]
    BY <1>1, <2>1 DEF TornOK
  <2>2. CASE u = t /\ dev'[t].pingedAt = now
    BY <1>1, <2>2, WorkBound
  <2>3. u # t => Carrying(u) /\ dev'[u] = dev[u]
    BY <1>3 DEF Turn, Alone, Carrying, Threads
  <2> QED
    BY <1>3, <2>1, <2>2, <2>3 DEF Turn
<1>10. \A k \in Devices : FoundInTime(k)' /\ InHandOK(k)' /\ OverwrittenOK(k)'
  BY <1>1, <1>2, <1>3, <1>4, StoreAside DEF Turn
<1> QED
  BY <1>5, <1>6, <1>8, <1>9, <1>10 DEF TimedInv, InTime

-----------------------------------------------------------------------------
(* The steps of the sweep. *)

\* While it stores nothing, what handlers are writing stays as old.
LEMMA OverwrittenKept ==
  ASSUME Alone(Sweeper), UNCHANGED <<now, devices>>, NEW k, OverwrittenOK(k)
  PROVE  OverwrittenOK(k)'
<1>1. Oldest' = Oldest /\ (Overwritten(k)' <=> Overwritten(k))
  BY OverwrittenAside DEF Oldest, Round, Cost
<1> QED
  BY <1>1 DEF OverwrittenOK, Live, Age

\* A record is found in time if the sweep comes to it no later than before.
LEMMA FoundKept ==
  ASSUME TypeOK, NEW k \in Devices, FoundInTime(k), Alone(Sweeper),
         UNCHANGED <<now, devices>>,
         ~InHand(k), Left(k) \in Int, Left(k)' \in Int, Left(k)' <= Left(k)
  PROVE  FoundInTime(k)'
<1> USE TimeAssumption DEF TimeAssumption
<1>1. now \in Int /\ Round \in Nat /\ Oldest' = Oldest
  BY RestCosts DEF TypeOK, Oldest, Round, Cost
<1>2. Oldest \in Int
  BY <1>1 DEF Oldest
<1>3. k \in DOMAIN devices => devices[k].pingedAt \in Int
  BY DEF TypeOK, Device
<1>4. Overwritten(k)' <=> Overwritten(k)
  BY OverwrittenAside
<1> QED
  BY <1>1, <1>2, <1>3, <1>4 DEF FoundInTime, Live, Age

\* The sweep begins: every key that is stored is ahead of it.
LEMMA WakeKeeps ==
  ASSUME TypeOK, SweepWake, Alone(Sweeper), NEW k \in Devices, FoundInTime(k)
  PROVE  FoundInTime(k)' /\ InHandOK(k)' /\ ~Expiring'
<1>1. /\ pc[Sweeper] = "sleep" /\ pc'[Sweeper] = "scan" /\ now >= wakeAt
      /\ todo' = DOMAIN devices /\ seen' = {} /\ UNCHANGED <<now, devices, wakeAt>>
  BY DEF SweepWake, Goto, TypeOK, Threads
<1>2. ~InHand(k) /\ ~InHand(k)' /\ ~Expiring'
  BY <1>1 DEF InHand, Expiring
<1>3. CASE k \in DOMAIN devices
  <2>1. Round \in Nat /\ RestCost({}, k) = Round
    BY RestCosts
  <2>2. ~(wakeAt > now) /\ now \in Int /\ wakeAt \in Int
    BY <1>1 DEF TypeOK
  <2>3. Left(k) = Round
    BY <1>1, <2>1, <2>2 DEF Left
  <2>4. InWork' = 0 /\ RestCost(seen, k)' = Round
    BY <1>1, <1>2, <2>1 DEF InWork, RestCost, Rest, Cost
  <2>5. Left(k)' = Round
    BY <1>1, <1>3, <2>1, <2>4 DEF Left, ThisSweep
  <2>6. FoundInTime(k)'
    BY <1>1, <1>2, <2>1, <2>3, <2>5, FoundKept
  <2> QED
    BY <1>2, <2>6 DEF InHandOK
<1>4. CASE k \notin DOMAIN devices
  BY <1>1, <1>2, <1>4 DEF FoundInTime, InHandOK, Live
<1> QED
  BY <1>3, <1>4

\* The sweep ends, and sleeps before it comes to any key again.
LEMMA EndKeeps ==
  ASSUME TypeOK, ScanEnd, Alone(Sweeper), NEW k \in Devices, FoundInTime(k)
  PROVE  FoundInTime(k)' /\ InHandOK(k)' /\ ~Expiring'
<1> USE TimeAssumption DEF TimeAssumption
<1>1. /\ pc[Sweeper] = "scan" /\ pc'[Sweeper] = "sleep" /\ todo \subseteq seen
      /\ wakeAt' = IF now + SweepDelay > MaxTime THEN MaxTime ELSE now + SweepDelay
      /\ UNCHANGED <<now, devices>>
  BY DEF ScanEnd, SweepOver, Goto, TypeOK, Threads
<1>2. ~InHand(k) /\ ~InHand(k)' /\ ~Expiring /\ ~Expiring'
  BY <1>1 DEF InHand, Expiring
<1>3. now \in Int /\ Round \in Nat /\ RestCost(seen, k) \in Nat
  BY RestCosts DEF TypeOK
<1>4. wakeAt' \in Int /\ wakeAt' <= now + SweepDelay
  BY <1>1, <1>3
<1>5. InWork = 0
  BY <1>2 DEF InWork
<1>6. Left(k) = RestCost(seen, k) + SweepDelay + Round
  BY <1>1, <1>3, <1>5 DEF Left, ThisSweep
<1>7. Left(k)' = (IF wakeAt' > now THEN wakeAt' - now ELSE 0) + Round
  BY <1>1 DEF Left, Round, Cost
<1>8. Left(k) \in Int /\ Left(k)' \in Int /\ Left(k)' <= Left(k)
  BY <1>3, <1>4, <1>6, <1>7
<1>9. FoundInTime(k)'
  BY <1>1, <1>2, <1>8, FoundKept
<1> QED
  BY <1>2, <1>9 DEF InHandOK

\* What the sweep takes under key j: the stored record, or one torn by a handler
\* that is writing it.  It is not about to notify under the empty id, but of a
\* record torn between none and the first one.
LEMMA ReadCases ==
  ASSUME TypeOK, LockDiscipline, SweepOK, \A t \in Handlers : FreshOK(t),
         NEW j \in IDs, ScanRead(j)
  PROVE  /\ pc[Sweeper] = "scan" /\ pc'[Sweeper] = "check" /\ Alone(Sweeper)
         /\ UNCHANGED <<now, up, devices, wakeAt, todo>>
         /\ j \notin seen /\ seen' = seen \union {j}
         /\ \/ j \in DOMAIN devices /\ dev'[Sweeper] = devices[j] /\ devices[j].id = j
            \/ /\ Overwritten(j) /\ j \in Devices
               /\ \/ dev'[Sweeper].id = j
                  \/ dev'[Sweeper].id = NoID /\ j \notin DOMAIN devices
         /\ Expiring' => j \in Devices
<1>1. /\ pc[Sweeper] = "scan" /\ pc'[Sweeper] = "check" /\ Alone(Sweeper)
      /\ UNCHANGED <<now, devices>>
      /\ \/ j \in DOMAIN devices /\ dev'[Sweeper] = devices[j] /\ devices[j].id = j
         \/ /\ dev'[Sweeper].id = j \/ (dev'[Sweeper].id = NoID /\ j \notin DOMAIN devices)
            /\ \E u \in Handlers : pc[u] = "write" /\ dev[u].id = j
  BY ReadEffect DEF Inside, Moves
<1>2. UNCHANGED <<up, wakeAt, todo>> /\ j \notin seen /\ seen' = seen \union {j}
  BY DEF ScanRead
<1>3. ASSUME NEW u \in Handlers, pc[u] = "write", dev[u].id = j
      PROVE  Overwritten(j) /\ j \in Devices
  BY <1>3 DEF FreshOK, Carrying, Overwritten
<1>4. ASSUME Expiring', j \in DOMAIN devices, dev'[Sweeper] = devices[j]
      PROVE  j \in Devices
  <2>1. Live(j)
    BY <1>1, <1>4 DEF Expiring, Live
  <2> QED
    BY <2>1 DEF SweepOK, IDs
<1> QED
  BY <1>1, <1>2, <1>3, <1>4

\* The sweep takes key j: it comes to the others a notification later, but has
\* one device less before them.
LEMMA ReadKeeps ==
  ASSUME TypeOK, LockDiscipline, Deadlines, SweepOK, \A t \in Handlers : FreshOK(t),
         NEW j \in IDs, ScanRead(j), NEW k \in Devices, FoundInTime(k)
  PROVE  FoundInTime(k)' /\ InHandOK(k)'
<1> USE TimeAssumption, NotifyAssumption DEF TimeAssumption, NotifyAssumption
<1>1. /\ pc[Sweeper] = "scan" /\ pc'[Sweeper] = "check" /\ Alone(Sweeper)
      /\ UNCHANGED <<now, devices, todo>> /\ j \notin seen /\ seen' = seen \union {j}
  BY ReadCases
<1>2. \/ j \in DOMAIN devices /\ dev'[Sweeper] = devices[j] /\ devices[j].id = j
      \/ /\ Overwritten(j) /\ j \in Devices
         /\ dev'[Sweeper].id = j \/ (dev'[Sweeper].id = NoID /\ j \notin DOMAIN devices)
  BY ReadCases
<1>3. Expiring' => j \in Devices
  BY ReadCases
<1>4. ~InHand(k) /\ ~Expiring
  BY <1>1 DEF InHand, Expiring
<1>5. /\ now \in Int /\ Round \in Nat /\ RestCost(seen, k) \in Nat
      /\ RestCost(seen \union {j}, k) \in Nat
  BY RestCosts DEF TypeOK
<1>6. InWork = 0 /\ InWork' \in {0, NotifyMax} /\ (j \notin Devices => InWork' = 0)
  BY <1>1, <1>3, <1>4 DEF InWork
<1>7. Left(k) \in Nat
  <2>1. Left(k) \in {RestCost(seen, k), RestCost(seen, k) + SweepDelay + Round}
    BY <1>1, <1>5, <1>6 DEF Left, ThisSweep
  <2> QED
    BY <1>5, <2>1
<1>8. Overwritten(k)' <=> Overwritten(k)
  BY <1>1, OverwrittenAside
<1>9. CASE k = j
  <2> SUFFICES ASSUME Live(k), ~Overwritten(k) PROVE FoundInTime(k)' /\ InHandOK(k)'
    BY <1>1, <1>8 DEF FoundInTime, InHandOK, Live
  <2>1. dev'[Sweeper] = devices[k] /\ InHand(k)'
    BY <1>1, <1>2, <1>9 DEF InHand
  <2>2. Oldest' = Oldest /\ devices[k] \in Device
    BY DEF TypeOK, Live, Oldest, Round, Cost
  <2>3. devices[k].pingedAt \in Int /\ Oldest \in Int
    BY <1>5, <2>2 DEF Device, Oldest
  <2>4. now - devices[k].pingedAt <= Oldest
    BY <1>4, <1>5, <1>7, <2>3 DEF FoundInTime, Age
  <2> QED
    BY <1>1, <2>1, <2>2, <2>4 DEF FoundInTime, InHandOK, Age
<1>10. CASE k # j
  <2>1. ~InHand(k)'
    BY <1>1, <1>2, <1>10, DataAssumption DEF DataAssumption, InHand
  <2>2. /\ j \in Devices => RestCost(seen \union {j}, k) + NotifyMax = RestCost(seen, k)
        /\ j \notin Devices => RestCost(seen \union {j}, k) = RestCost(seen, k)
    <3>1. j \in Devices => j \in Rest(seen, k)
      BY <1>1, <1>10 DEF Rest
    <3>2. j \notin Devices => Rest(seen \union {j}, k) = Rest(seen, k)
      BY DEF Rest
    <3> QED
      BY <3>1, <3>2, RestCosts DEF RestCost
  <2>3. RestCost(seen, k)' = RestCost(seen \union {j}, k)
    BY <1>1 DEF RestCost, Rest, Cost
  <2>4. /\ ThisSweep(k) \in Int /\ ThisSweep(k)' \in Int
        /\ ThisSweep(k)' <= ThisSweep(k)
    BY <1>5, <1>6, <2>2, <2>3 DEF ThisSweep
  <2>5. k \in todo' \ seen' <=> k \in todo \ seen
    BY <1>1, <1>10
  <2>6. /\ Left(k) = IF k \in todo \ seen THEN ThisSweep(k)
                                         ELSE ThisSweep(k) + SweepDelay + Round
        /\ Left(k)' = IF k \in todo \ seen THEN ThisSweep(k)'
                                          ELSE ThisSweep(k)' + SweepDelay + Round
    BY <1>1, <2>5 DEF Left, Round, Cost
  <2>7. Left(k)' \in Int /\ Left(k)' <= Left(k)
    BY <1>5, <2>4, <2>6
  <2>8. FoundInTime(k)'
    BY <1>1, <1>4, <1>7, <2>7, FoundKept
  <2> QED
    BY <2>1, <2>8 DEF InHandOK
<1> QED
  BY <1>9, <1>10

\* When the sweep begins with a torn first record of k, k is not stored yet, and
\* what handlers have for it they have just made.
LEMMA ReadTorn ==
  ASSUME TypeOK, LockDiscipline, SweepOK, \A t \in Handlers : FreshOK(t),
         NEW j \in IDs, ScanRead(j), NEW k \in Devices
  PROVE  TornOK(k)'
<1>1. /\ pc'[Sweeper] = "check" /\ Alone(Sweeper) /\ UNCHANGED <<now, devices>>
      /\ seen' = seen \union {j}
  BY ReadCases
<1>2. \/ j \in DOMAIN devices /\ dev'[Sweeper] = devices[j] /\ devices[j].id = j
      \/ /\ Overwritten(j) /\ j \in Devices
         /\ dev'[Sweeper].id = j \/ (dev'[Sweeper].id = NoID /\ j \notin DOMAIN devices)
  BY ReadCases
<1>3. Expiring' => j \in Devices
  BY ReadCases
<1> SUFFICES ASSUME TornFirst(k)', NEW t \in Handlers,
                    Carrying(t)', dev'[t].id = k, dev'[t].online
             PROVE  dev'[t].pingedAt >= Began'
  BY DEF TornOK
<1>4. j = k /\ k \notin DOMAIN devices
  <2>1. j \in Devices /\ dev'[Sweeper].id = NoID /\ seen' \intersect Devices = {k}
    BY <1>3 DEF TornFirst
  <2>2. NoID # j
    BY <2>1, DataAssumption DEF DataAssumption
  <2> QED
    BY <1>1, <1>2, <2>1, <2>2
<1>5. t \in Threads /\ Carrying(t) /\ dev'[t] = dev[t] /\ dev[t].id = k
  BY <1>1, ThreadsAssumption DEF ThreadsAssumption, Alone, Carrying, Threads
<1>6. Age(dev[t]) = 0
  BY <1>4, <1>5 DEF FreshOK
<1>7. now \in Int /\ dev[t].pingedAt \in Int /\ Began' = now
  BY <1>1, <1>5 DEF TypeOK, Device, Began
<1> QED
  BY <1>5, <1>6, <1>7 DEF Age

\* A step of the sweep with another key in hand.
LEMMA WorkKeeps ==
  ASSUME TypeOK, Deadlines, SweepOK, NEW k \in Devices, FoundInTime(k), ~InHand(k),
         Alone(Sweeper), UNCHANGED <<now, devices, todo, seen>>, pc[Sweeper] # "sleep",
         pc'[Sweeper] # "sleep", InWork' \in Int, InWork' <= InWork
  PROVE  FoundInTime(k)'
<1> USE TimeAssumption DEF TimeAssumption
<1>1. /\ Round \in Nat /\ RestCost(seen, k) \in Nat /\ Left(k) \in Int
      /\ InWork \in Int
  BY RestCosts, LeftBound, WorkBound
<1>2. RestCost(seen, k)' = RestCost(seen, k)
  BY DEF RestCost, Rest, Cost
<1>3. ThisSweep(k) \in Int /\ ThisSweep(k)' \in Int /\ ThisSweep(k)' <= ThisSweep(k)
  BY <1>1, <1>2 DEF ThisSweep
<1>4. Left(k)' = IF k \in todo \ seen THEN ThisSweep(k)'
                                      ELSE ThisSweep(k)' + SweepDelay + Round
  BY DEF Left, Round, Cost
<1>5. Left(k) = IF k \in todo \ seen THEN ThisSweep(k)
                                     ELSE ThisSweep(k) + SweepDelay + Round
  BY DEF Left
<1>6. Left(k)' \in Int /\ Left(k)' <= Left(k)
  BY <1>1, <1>3, <1>4, <1>5
<1> QED
  BY <1>1, <1>6, FoundKept

\* A stale record is marked offline; its notification begins now.
LEMMA ExpireKeeps ==
  ASSUME TypeOK, Deadlines, SweepOK, Stamped, ScanExpire,
         NEW k \in Devices, FoundInTime(k), InHandOK(k), TornOK(k)
  PROVE  FoundInTime(k)' /\ InHandOK(k)' /\ TornOK(k)'
<1> USE NotifyAssumption DEF NotifyAssumption
<1>1. /\ pc[Sweeper] = "check" /\ pc'[Sweeper] = "notify" /\ Alone(Sweeper)
      /\ dev'[Sweeper] = Offline(dev[Sweeper])
      /\ UNCHANGED <<now, devices, todo, seen>>
  BY ExpireEffect DEF ScanExpire, GoOn, Inside, Moves, sweepVars
<1>2. dev'[Sweeper].id = dev[Sweeper].id
  BY <1>1, OfflineKeeps DEF TypeOK, Threads
<1>3. now \in Int /\ since'[Sweeper] = now
  BY <1>1 DEF TypeOK, Stamped, Threads
<1>4. InHand(k)' <=> InHand(k)
  BY <1>1, <1>2 DEF InHand
<1>5. Expiring /\ Expiring' /\ Began' = Began
  BY <1>1, <1>3 DEF ScanExpire, Expiring, Began
<1>6. InWork = NotifyMax /\ InWork' = NotifyMax
  BY <1>1, <1>3, <1>5 DEF InWork
<1>7. Overwritten(k)' <=> Overwritten(k)
  BY <1>1, OverwrittenAside
<1>8. TornOK(k)'
  <2> SUFFICES ASSUME TornFirst(k)', NEW t \in Handlers,
                      Carrying(t)', dev'[t].id = k, dev'[t].online
               PROVE  dev'[t].pingedAt >= Began'
    BY DEF TornOK
  <2>1. TornFirst(k)
    BY <1>1, <1>2, <1>5 DEF TornFirst
  <2>2. Carrying(t) /\ dev'[t] = dev[t]
    BY <1>1, ThreadsAssumption DEF ThreadsAssumption, Alone, Carrying, Threads
  <2> QED
    BY <1>5, <2>1, <2>2 DEF TornOK
<1>9. CASE InHand(k)
  <2>1. Oldest' = Oldest /\ Oldest \in Int
    BY RestCosts, TimeAssumption DEF TimeAssumption, Oldest, Round, Cost
  <2>2. Live(k) /\ ~Overwritten(k) => now - devices[k].pingedAt <= Oldest
    BY <1>1, <1>9 DEF InHandOK, Age
  <2>3. now' - since'[Sweeper] = 0
    BY <1>1, <1>3
  <2>4. Oldest + 0 = Oldest
    BY <2>1
  <2> QED
    BY <1>1, <1>4, <1>7, <1>8, <1>9, <2>1, <2>2, <2>3, <2>4
    DEF FoundInTime, InHandOK, Live, Age
<1>10. CASE ~InHand(k)
  <2>1. FoundInTime(k)'
    BY <1>1, <1>6, <1>10, WorkKeeps
  <2> QED
    BY <1>4, <1>8, <1>10, <2>1 DEF InHandOK
<1> QED
  BY <1>9, <1>10

\* A record that is not stale is left, with the time of this sweep's rest, a
\* sleep and the next sweep before it is looked at again.
LEMMA SkipKeeps ==
  ASSUME TypeOK, Deadlines, SweepOK, ScanSkip,
         NEW k \in Devices, FoundInTime(k), InHandOK(k)
  PROVE  FoundInTime(k)' /\ InHandOK(k)' /\ ~Expiring'
<1> USE NotifyAssumption, TimeAssumption DEF NotifyAssumption, TimeAssumption
<1>1. /\ pc[Sweeper] = "check" /\ pc'[Sweeper] = "scan" /\ Alone(Sweeper)
      /\ UNCHANGED <<now, devices, todo, seen>>
  BY SkipEffect DEF ScanSkip, Inside, Moves, sweepVars
<1>2. ~InHand(k)' /\ ~Expiring' /\ ~Expiring
  BY <1>1 DEF InHand, Expiring, ScanSkip
<1>3. InWork = 0 /\ InWork' = 0
  BY <1>2 DEF InWork
<1>4. Overwritten(k)' <=> Overwritten(k)
  BY <1>1, OverwrittenAside
<1>5. CASE InHand(k)
  <2> SUFFICES ASSUME Live(k), ~Overwritten(k) PROVE FoundInTime(k)' /\ InHandOK(k)'
    BY <1>1, <1>2, <1>4 DEF FoundInTime, InHandOK, Live
  <2>1. now \in Int /\ devices[k].pingedAt \in Int
    BY DEF TypeOK, Device, Live
  <2>2. now - devices[k].pingedAt <= OfflineAfter
    <3>1. devices[k] = dev[Sweeper] \/ now - devices[k].pingedAt <= OfflineAfter
      BY <1>1, <1>5 DEF InHandOK, Age
    <3>2. devices[k] = dev[Sweeper] => ~(now - devices[k].pingedAt > OfflineAfter)
      BY DEF ScanSkip, Stale, Live
    <3> QED
      BY <2>1, <3>1, <3>2
  <2>3. /\ Round \in Nat /\ RestCost(seen, k) \in Nat /\ RestCost(seen, k) <= Round
        /\ RestCost(seen, k)' = RestCost(seen, k) /\ Round' = Round
    BY <1>1, RestCosts DEF RestCost, Rest, Cost, Round
  <2>4. k \in seen
    BY <1>5 DEF SweepOK
  <2>5. Left(k)' = RestCost(seen, k) + SweepDelay + Round
    BY <1>1, <1>3, <2>3, <2>4 DEF Left, ThisSweep
  <2>6. Age(devices[k])' + Left(k)' <= Oldest
    BY <1>1, <2>1, <2>2, <2>3, <2>5 DEF Age, Oldest
  <2>7. Oldest' = Oldest
    BY <2>3 DEF Oldest
  <2> QED
    BY <1>1, <1>2, <2>6, <2>7 DEF FoundInTime, InHandOK, Age
<1>6. CASE ~InHand(k)
  <2>1. FoundInTime(k)'
    BY <1>1, <1>3, <1>6, WorkKeeps
  <2> QED
    BY <1>2, <2>1 DEF InHandOK
<1> QED
  BY <1>5, <1>6

\* The notification is over, by its timeout at the latest.
LEMMA NotifiedKeeps ==
  ASSUME TypeOK, Deadlines, SweepOK, Notify(Sweeper),
         NEW k \in Devices, FoundInTime(k), InHandOK(k)
  PROVE  FoundInTime(k)' /\ InHandOK(k)' /\ ~Expiring'
<1> USE NotifyAssumption, TimeAssumption DEF NotifyAssumption, TimeAssumption
<1>1. /\ pc[Sweeper] = "notify" /\ pc'[Sweeper] = "lock" /\ Alone(Sweeper)
      /\ dev'[Sweeper] = dev[Sweeper] /\ UNCHANGED <<now, devices, todo, seen>>
  <2>1. pc[Sweeper] # "announce" /\ Sweeper \in Threads
    BY DEF TypeOK, SweepPCs, Threads
  <2> QED
    BY <2>1, NotifyEffect DEF Notify, Moves, sweepVars
<1>2. (InHand(k)' <=> InHand(k)) /\ (Overwritten(k)' <=> Overwritten(k))
  BY <1>1, OverwrittenAside DEF InHand
<1>3. /\ now \in Int /\ since[Sweeper] \in Int /\ since[Sweeper] <= now
      /\ now - since[Sweeper] <= NotifyMax
  BY <1>1 DEF TypeOK, Deadlines, Notifying, Threads
<1>4. InWork \in Nat /\ InWork' = 0 /\ ~Expiring'
  BY <1>1, WorkBound DEF InWork, Expiring
<1>5. CASE InHand(k)
  <2>1. Oldest' = Oldest /\ Oldest \in Int
    BY RestCosts DEF Oldest, Round, Cost
  <2>2. k \in DOMAIN devices => devices[k].pingedAt \in Int
    BY DEF TypeOK, Device
  <2>3. Live(k) /\ ~Overwritten(k) =>
          now - devices[k].pingedAt <= Oldest + (now - since[Sweeper])
    BY <1>1, <1>5 DEF InHandOK, Age
  <2>4. Live(k) /\ ~Overwritten(k) => now - devices[k].pingedAt <= Oldest + NotifyMax
    BY <1>3, <2>1, <2>2, <2>3 DEF Live
  <2> QED
    BY <1>1, <1>2, <1>4, <1>5, <2>1, <2>4 DEF FoundInTime, InHandOK, Live, Age
<1>6. CASE ~InHand(k)
  <2>1. FoundInTime(k)'
    BY <1>1, <1>4, <1>6, WorkKeeps
  <2> QED
    BY <1>2, <1>4, <1>6, <2>1 DEF InHandOK
<1> QED
  BY <1>5, <1>6

\* The lock takes no time.
LEMMA LockKeeps ==
  ASSUME TypeOK, Deadlines, SweepOK, Lock(Sweeper),
         NEW k \in Devices, FoundInTime(k), InHandOK(k)
  PROVE  FoundInTime(k)' /\ InHandOK(k)' /\ ~Expiring'
<1>1. /\ pc[Sweeper] = "lock" /\ pc'[Sweeper] = "write" /\ Alone(Sweeper)
      /\ dev'[Sweeper] = dev[Sweeper] /\ UNCHANGED <<now, devices, todo, seen>>
  <2>1. Sweeper \in Threads
    BY DEF Threads
  <2> QED
    BY <2>1, LockEffect DEF Lock, Inside, Moves, sweepVars
<1>2. (InHand(k)' <=> InHand(k)) /\ (Overwritten(k)' <=> Overwritten(k))
  BY <1>1, OverwrittenAside DEF InHand
<1>3. InWork = 0 /\ InWork' = 0 /\ ~Expiring'
  BY <1>1 DEF InWork, Expiring
<1>4. Oldest' = Oldest
  BY DEF Oldest, Round, Cost
<1>5. CASE InHand(k)
  BY <1>1, <1>2, <1>3, <1>4, <1>5 DEF FoundInTime, InHandOK, Live, Age
<1>6. CASE ~InHand(k)
  <2>1. FoundInTime(k)'
    BY <1>1, <1>3, <1>6, WorkKeeps
  <2> QED
    BY <1>2, <1>3, <1>6, <2>1 DEF InHandOK
<1> QED
  BY <1>5, <1>6

\* What the sweep stores is offline.
LEMMA WriteKeeps ==
  ASSUME TypeOK, SweepOK, Write(Sweeper),
         NEW k \in Devices, FoundInTime(k), OverwrittenOK(k)
  PROVE  FoundInTime(k)' /\ InHandOK(k)' /\ OverwrittenOK(k)' /\ ~Expiring'
<1> USE TimeAssumption DEF TimeAssumption
<1> DEFINE j == dev[Sweeper].id
<1>1. /\ pc[Sweeper] = "write" /\ pc'[Sweeper] = "scan" /\ Alone(Sweeper)
      /\ DOMAIN devices' = DOMAIN devices \union {j}
      /\ devices'[j] = dev[Sweeper]
      /\ \A i \in DOMAIN devices \ {j} : devices'[i] = devices[i]
      /\ UNCHANGED <<now, todo, seen>>
  <2>1. Sweeper \in Threads
    BY DEF Threads
  <2> QED
    BY <2>1, WriteEffect DEF Write, Moves, sweepVars
<1>2. ~dev[Sweeper].online
  BY <1>1 DEF SweepOK, Carrying
<1>3. ~InHand(k)' /\ (k # j => ~InHand(k)) /\ ~Expiring' /\ ~Expiring
  BY <1>1 DEF InHand, Expiring
<1>4. Overwritten(k)' <=> Overwritten(k)
  BY <1>1, OverwrittenAside
<1>5. CASE k = j
  BY <1>1, <1>2, <1>3, <1>5 DEF FoundInTime, InHandOK, OverwrittenOK, Live
<1>6. CASE k # j
  <2>1. InWork = 0 /\ InWork' = 0
    BY <1>3 DEF InWork
  <2>2. Left(k)' = Left(k) /\ Oldest' = Oldest
    BY <1>1, <2>1 DEF Left, ThisSweep, RestCost, Rest, Cost, Round, Oldest
  <2>3. (Live(k)' <=> Live(k)) /\ (Live(k) => devices'[k] = devices[k])
    BY <1>1, <1>6 DEF Live
  <2>4. FoundInTime(k)' /\ OverwrittenOK(k)'
    BY <1>1, <1>3, <1>4, <1>6, <2>2, <2>3 DEF FoundInTime, OverwrittenOK, Age
  <2> QED
    BY <1>3, <2>4 DEF InHandOK
<1> QED
  BY <1>5, <1>6

\* Every step of the sweep keeps the invariant.
LEMMA SweepKeeps ==
  ASSUME TimedInv, TypeOK', LockDiscipline', Stamped, SweepStep
  PROVE  TimedInv'
<1> USE ThreadsAssumption DEF ThreadsAssumption
<1>1. /\ TypeOK /\ LockDiscipline /\ Deadlines /\ SweepOK
      /\ \A t \in Handlers : FreshOK(t)
      /\ \A k \in Devices : FoundInTime(k) /\ InHandOK(k) /\ OverwrittenOK(k) /\ TornOK(k)
  BY DEF TimedInv, InTime
<1>2. Sweeper \in Threads /\ (~up => pc[Sweeper] = "sleep")
  BY <1>1 DEF Threads, SweepOK, Idle
<1>3. ASSUME UNCHANGED <<now, up>>, Alone(Sweeper), wakeAt' <= now + SweepDelay,
             DOMAIN devices \subseteq DOMAIN devices', up, ~Live(NoID)',
             \A k \in Devices : InHand(k)' => k \in seen',
             Expiring' => seen' \intersect Devices # {},
             Carrying(Sweeper)' => ~dev'[Sweeper].online,
             \A k \in Devices :
               FoundInTime(k)' /\ InHandOK(k)' /\ OverwrittenOK(k)' /\ TornOK(k)'
      PROVE  TimedInv'
  <2>1. Deadlines'
    BY <1>1, <1>3, DeadlinesKept
  <2>2. \A t \in Handlers : FreshOK(t)'
    BY <1>1, <1>3, FreshAside
  <2>3. SweepOK'
    BY <1>3 DEF SweepOK
  <2> QED
    BY <1>3, <2>1, <2>2, <2>3 DEF TimedInv, InTime
<1>4. ASSUME UNCHANGED <<now, up, devices>>, Alone(Sweeper), wakeAt' <= now + SweepDelay, up,
             \A k \in Devices : InHand(k)' => k \in seen',
             Expiring' => seen' \intersect Devices # {},
             Carrying(Sweeper)' => ~dev'[Sweeper].online,
             \A k \in Devices : FoundInTime(k)' /\ InHandOK(k)' /\ TornOK(k)'
      PROVE  TimedInv'
  <2>1. ~Live(NoID)'
    BY <1>1, <1>4 DEF SweepOK, Live
  <2>2. \A k \in Devices : OverwrittenOK(k)'
    BY <1>1, <1>4, OverwrittenKept
  <2> QED
    BY <1>3, <1>4, <2>1, <2>2
<1>5. ~Expiring' => \A k \in Devices : TornOK(k)'
  BY DEF TornOK, TornFirst
<1>6. CASE SweepWake
  <2>1. /\ UNCHANGED <<now, up, devices, wakeAt>> /\ up /\ pc'[Sweeper] = "scan"
        /\ Alone(Sweeper)
    BY <1>1, <1>2, <1>6, WakeEndEffect DEF SweepWake, Goto, Moves, TypeOK
  <2>2. \A k \in Devices : FoundInTime(k)' /\ InHandOK(k)'
    BY <1>1, <1>6, <2>1, WakeKeeps
  <2> QED
    BY <1>1, <1>4, <1>5, <2>1, <2>2 DEF Deadlines, InHand, Carrying, Expiring
<1>7. CASE ScanEnd
  <2>1. /\ UNCHANGED <<now, up, devices>> /\ up /\ pc'[Sweeper] = "sleep"
        /\ Alone(Sweeper)
    BY <1>1, <1>2, <1>7, WakeEndEffect DEF ScanEnd, SweepOver, Goto, Moves, TypeOK
  <2>2. \A k \in Devices : FoundInTime(k)' /\ InHandOK(k)'
    BY <1>1, <1>7, <2>1, EndKeeps
  <2>3. wakeAt' <= now + SweepDelay
    <3>1. now \in Int /\ wakeAt' = IF now + SweepDelay > MaxTime THEN MaxTime
                                                               ELSE now + SweepDelay
      BY <1>1, <1>7 DEF ScanEnd, TypeOK
    <3> QED
      BY <3>1, TimeAssumption DEF TimeAssumption
  <2> QED
    BY <1>4, <1>5, <2>1, <2>2, <2>3 DEF InHand, Carrying, Expiring
<1>8. ASSUME NEW j \in IDs, ScanRead(j) PROVE TimedInv'
  <2>1. /\ UNCHANGED <<now, up, devices, wakeAt>> /\ Alone(Sweeper)
        /\ pc[Sweeper] = "scan" /\ pc'[Sweeper] = "check" /\ seen' = seen \union {j}
    BY <1>1, <1>8, ReadCases
  <2>2. dev'[Sweeper].id \in {j, NoID} /\ (Expiring' => j \in Devices)
    BY <1>1, <1>8, ReadCases
  <2>3. \A k \in Devices : FoundInTime(k)' /\ InHandOK(k)' /\ TornOK(k)'
    BY <1>1, <1>8, ReadKeeps, ReadTorn
  <2>4. \A k \in Devices : InHand(k)' => k \in seen'
    BY <2>1, <2>2, DataAssumption DEF DataAssumption, InHand
  <2>5. up /\ wakeAt' <= now + SweepDelay /\ ~Carrying(Sweeper)'
    BY <1>1, <1>2, <2>1 DEF Deadlines, Carrying
  <2> QED
    BY <1>4, <2>1, <2>2, <2>3, <2>4, <2>5
<1>9. CASE ScanExpire
  <2>1. /\ UNCHANGED <<now, up, devices, wakeAt, seen>> /\ up /\ Alone(Sweeper)
        /\ pc[Sweeper] = "check" /\ pc'[Sweeper] = "notify"
        /\ dev'[Sweeper] = Offline(dev[Sweeper])
    BY <1>1, <1>2, <1>9, ExpireEffect DEF ScanExpire, GoOn, Inside, Moves, sweepVars
  <2>2. ~dev'[Sweeper].online /\ dev'[Sweeper].id = dev[Sweeper].id
    BY <1>1, <1>2, <2>1, OfflineKeeps DEF TypeOK
  <2>3. \A k \in Devices : FoundInTime(k)' /\ InHandOK(k)' /\ TornOK(k)'
    BY <1>1, <1>9, ExpireKeeps
  <2>4. (\A k \in Devices : InHand(k)' => InHand(k)) /\ Expiring
    BY <1>9, <2>1, <2>2 DEF InHand, ScanExpire, Expiring
  <2> QED
    BY <1>1, <1>4, <2>1, <2>2, <2>3, <2>4 DEF Deadlines, SweepOK
<1>10. CASE ScanSkip
  <2>1. /\ UNCHANGED <<now, up, devices, wakeAt, seen>> /\ up /\ Alone(Sweeper)
        /\ pc'[Sweeper] = "scan"
    BY <1>1, <1>2, <1>10, SkipEffect DEF ScanSkip, Inside, Moves, sweepVars
  <2>2. \A k \in Devices : FoundInTime(k)' /\ InHandOK(k)'
    BY <1>1, <1>10, SkipKeeps
  <2> QED
    BY <1>1, <1>4, <1>5, <2>1, <2>2 DEF Deadlines, InHand, Carrying, Expiring
<1>11. CASE Notify(Sweeper)
  <2>1. pc[Sweeper] = "notify"
    BY <1>1, <1>11 DEF Notify, TypeOK, SweepPCs
  <2>2. /\ UNCHANGED <<now, up, devices, wakeAt, seen>> /\ up /\ Alone(Sweeper)
        /\ pc'[Sweeper] = "lock" /\ dev'[Sweeper] = dev[Sweeper]
    BY <1>1, <1>2, <1>11, <2>1, NotifyEffect DEF Notify, Moves, sweepVars
  <2>3. \A k \in Devices : FoundInTime(k)' /\ InHandOK(k)'
    BY <1>1, <1>11, NotifiedKeeps
  <2>4. (\A k \in Devices : InHand(k)' => InHand(k)) /\ ~Expiring'
    BY <2>1, <2>2 DEF InHand, Expiring
  <2> QED
    BY <1>1, <1>4, <1>5, <2>1, <2>2, <2>3, <2>4 DEF Deadlines, SweepOK, Carrying
<1>12. CASE Lock(Sweeper)
  <2>1. /\ UNCHANGED <<now, up, devices, wakeAt, seen>> /\ up /\ Alone(Sweeper)
        /\ pc[Sweeper] = "lock" /\ pc'[Sweeper] = "write"
        /\ dev'[Sweeper] = dev[Sweeper]
    BY <1>1, <1>2, <1>12, LockEffect DEF Lock, Inside, Moves, sweepVars
  <2>2. \A k \in Devices : FoundInTime(k)' /\ InHandOK(k)'
    BY <1>1, <1>12, LockKeeps
  <2>3. (\A k \in Devices : InHand(k)' => InHand(k)) /\ ~Expiring'
    BY <2>1 DEF InHand, Expiring
  <2> QED
    BY <1>1, <1>4, <1>5, <2>1, <2>2, <2>3 DEF Deadlines, SweepOK, Carrying
<1>13. CASE Write(Sweeper)
  <2> DEFINE j == dev[Sweeper].id
  <2>1. /\ UNCHANGED <<now, up, wakeAt, seen>> /\ up /\ Alone(Sweeper)
        /\ pc[Sweeper] = "write" /\ pc'[Sweeper] = "scan"
    BY <1>1, <1>2, <1>13, WriteEffect DEF Write, Moves, sweepVars
  <2>2. /\ DOMAIN devices' = DOMAIN devices \union {j}
        /\ devices'[j] = dev[Sweeper]
        /\ \A k \in DOMAIN devices \ {j} : devices'[k] = devices[k]
    BY <1>1, <1>2, <1>13, WriteEffect
  <2>3. ~Live(NoID)'
    BY <1>1, <2>1, <2>2 DEF SweepOK, Live, Carrying
  <2>4. \A k \in Devices : FoundInTime(k)' /\ InHandOK(k)' /\ OverwrittenOK(k)'
    BY <1>1, <1>13, WriteKeeps
  <2>5. ~Expiring' /\ ~Carrying(Sweeper)' /\ \A k : ~InHand(k)'
    BY <2>1 DEF InHand, Carrying, Expiring
  <2> QED
    BY <1>1, <1>3, <1>5, <2>1, <2>2, <2>3, <2>4, <2>5 DEF Deadlines
<1> QED
  BY <1>6, <1>7, <1>8, <1>9, <1>10, <1>11, <1>12, <1>13 DEF SweepStep, SetDevice

-----------------------------------------------------------------------------
(* The process and the clock. *)

\* Without records and threads at work there is nothing to be late with.
LEMMA NothingLate ==
  ASSUME TypeOK', LockDiscipline', Deadlines', pc' = Idle, DOMAIN devices' = {}
  PROVE  TimedInv'
<1>1. pc'[Sweeper] = "sleep" /\ \A t \in Handlers : pc'[t] = "idle"
  BY ThreadsAssumption DEF ThreadsAssumption, Idle, Threads
<1>2. ~Expiring' /\ \A k : ~Live(k)' /\ ~InHand(k)'
  BY <1>1 DEF Expiring, Live, InHand
<1>3. SweepOK'
  BY <1>1, <1>2 DEF SweepOK, Carrying
<1>4. \A t \in Handlers : FreshOK(t)'
  BY <1>1 DEF FreshOK, Carrying
<1>5. \A k \in Devices : InTime(k)'
  BY <1>2 DEF InTime, FoundInTime, InHandOK, OverwrittenOK, TornOK, TornFirst
<1> QED
  BY <1>3, <1>4, <1>5 DEF TimedInv

\* Steps that the deadlines do not see.
LEMMA TimedFrame ==
  ASSUME TimedInv, TypeOK', LockDiscipline',
         UNCHANGED <<now, up, devices, wakeAt, todo, seen, pc, msg, dev, since>>
  PROVE  TimedInv'
<1>1. Deadlines' /\ \A t \in Handlers : FreshOK(t)'
  BY DEF TimedInv, Deadlines, Notifying, FreshOK, Carrying, Age
<1>2. /\ (Expiring' <=> Expiring) /\ UNCHANGED <<InWork, Began, Oldest>>
      /\ \A k : /\ (InHand(k)' <=> InHand(k)) /\ (Live(k)' <=> Live(k))
                /\ (Overwritten(k)' <=> Overwritten(k))
  BY DEF Expiring, InWork, Began, Oldest, Round, Cost, InHand, Live, Overwritten
<1>3. SweepOK'
  BY <1>2 DEF TimedInv, SweepOK, Carrying
<1>4. ASSUME NEW k \in Devices PROVE InTime(k)'
  <2>1. Left(k)' = Left(k)
    BY <1>2 DEF Left, ThisSweep, RestCost, Rest, Round, Cost
  <2>2. FoundInTime(k)'
    BY <1>2, <2>1 DEF TimedInv, InTime, FoundInTime, Age
  <2>3. InHandOK(k)'
    BY <1>2 DEF TimedInv, InTime, InHandOK, Age
  <2>4. OverwrittenOK(k)'
    BY <1>2 DEF TimedInv, InTime, OverwrittenOK, Age
  <2>5. TornOK(k)'
    BY <1>2 DEF TimedInv, InTime, TornOK, TornFirst, Carrying
  <2> QED
    BY <2>2, <2>3, <2>4, <2>5 DEF InTime
<1> QED
  BY <1>1, <1>3, <1>4 DEF TimedInv

\* The end of a process, its start, and the subscription.
LEMMA ProcessKeeps ==
  ASSUME TimedInv, TypeOK', LockDiscipline', Stamped, Down \/ Start \/ Subscribe
  PROVE  TimedInv'
<1>1. TypeOK /\ Deadlines /\ SweepOK
  BY DEF TimedInv
<1>2. now' = now /\ wakeAt' <= now + SweepDelay
  BY <1>1, TimeAssumption
  DEF TimeAssumption, Down, Start, Subscribe, sweepVars, Deadlines, TypeOK
<1>3. Deadlines'
  BY <1>1, <1>2, DeadlinesKept
<1>4. CASE Down
  BY <1>3, <1>4, NothingLate DEF Down, NoDevices
<1>5. CASE Start
  BY <1>1, <1>3, <1>5, NothingLate DEF Start, SweepOK, threadVars
<1>6. CASE Subscribe
  <2>1. UNCHANGED <<now, up, devices, wakeAt, todo, seen, pc, msg, dev>>
    BY <1>6 DEF Subscribe, threadVars, sweepVars
  <2>2. since' = [t \in Threads |-> since[t]]
    BY <2>1 DEF Stamped
  <2>3. since' = since
    BY <1>1, <2>2 DEF Deadlines
  <2> QED
    BY <2>1, <2>3, TimedFrame
<1> QED
  BY <1>4, <1>5, <1>6

\* A tick makes every record a tick older, and brings the sweep as much closer.
LEMMA TickKeeps ==
  ASSUME TimedInv, TypeOK', LockDiscipline', Stamped, TimedTick
  PROVE  TimedInv'
<1> USE TimeAssumption, NotifyAssumption DEF TimeAssumption, NotifyAssumption
<1>1. /\ TypeOK /\ Deadlines /\ SweepOK /\ (\A t \in Handlers : FreshOK(t))
      /\ \A k \in Devices : FoundInTime(k) /\ InHandOK(k) /\ TornOK(k)
  BY DEF TimedInv, InTime
<1>2. /\ now' = now + 1 /\ now \in Int /\ wakeAt \in Int
      /\ UNCHANGED <<up, devices, wakeAt, todo, seen, pc, msg, dev>>
  BY <1>1 DEF TimedTick, Tick, threadVars, sweepVars, TypeOK
<1>3. since' = since /\ since \in [Threads -> Int] /\ \A t \in Threads : since[t] <= now
  <2>1. since' = [t \in Threads |-> since[t]]
    BY <1>2 DEF Stamped
  <2> QED
    BY <1>1, <2>1 DEF Deadlines
<1>4. ASSUME NEW t \in Threads, Notifying(t) PROVE up /\ now - since[t] < NotifyMax
  <2>1. up
    BY <1>1, <1>4 DEF SweepOK, Idle, Notifying
  <2> QED
    BY <1>4, <2>1 DEF TimedTick, MayWait, Notifying
<1>5. Deadlines'
  <2>1. ASSUME NEW t \in Threads
        PROVE  since'[t] <= now' /\ (Notifying(t)' => now' - since'[t] <= NotifyMax)
    BY <1>2, <1>3, <1>4 DEF Notifying
  <2>2. wakeAt' <= now' + SweepDelay
    BY <1>1, <1>2 DEF Deadlines
  <2> QED
    BY <1>3, <2>1, <2>2 DEF Deadlines
<1>6. CASE ~up
  BY <1>1, <1>2, <1>5, <1>6, NothingLate DEF SweepOK
<1>7. CASE up
  <2>1. \A t \in Threads : pc[t] \in {"idle", "sleep", "notify", "announce"}
    BY <1>7 DEF TimedTick, MayWait, Notifying
  <2>2. \A t \in Handlers : FreshOK(t)'
    BY <1>1, <1>2, <1>3, <2>1 DEF FreshOK, Carrying, Threads
  <2>3. pc[Sweeper] \in {"sleep", "notify"} /\ Sweeper \in Threads
    BY <1>1, <2>1 DEF TypeOK, SweepPCs, Threads
  <2>4. /\ (Expiring <=> pc[Sweeper] = "notify") /\ (Expiring' <=> Expiring)
        /\ Began' = Began
        /\ \A k : ~Overwritten(k) /\ ~Overwritten(k)'
    BY <1>2, <1>3, <2>1, <2>3 DEF Expiring, Began, Overwritten, Threads
  <2>5. SweepOK'
    BY <1>1, <1>2, <2>4 DEF SweepOK, InHand, Carrying, Live
  <2>6. ASSUME NEW k \in Devices
        PROVE  FoundInTime(k)' /\ InHandOK(k)' /\ OverwrittenOK(k)' /\ TornOK(k)'
    <3>1. /\ (InHand(k)' <=> InHand(k)) /\ (Live(k)' <=> Live(k))
          /\ Oldest' = Oldest /\ Round' = Round /\ RestCost(seen, k)' = RestCost(seen, k)
      BY <1>2 DEF InHand, Live, Oldest, RestCost, Rest, Round, Cost
    <3>2. /\ Round \in Nat /\ RestCost(seen, k) \in Nat
          /\ (k \in DOMAIN devices => devices[k].pingedAt \in Int)
      BY <1>1, RestCosts DEF TypeOK, Device
    <3>3. Oldest \in Int
      BY <3>2 DEF Oldest
    <3>4. ASSUME ~InHand(k) PROVE Left(k) \in Int /\ Left(k)' = Left(k) - 1
      <4>1. CASE pc[Sweeper] = "sleep"
        <5>1. now < wakeAt
          BY <1>7, <2>3, <4>1 DEF TimedTick, MayWait, Notifying
        <5>2. Left(k) = (IF wakeAt > now THEN wakeAt - now ELSE 0) + Round
          BY <4>1 DEF Left
        <5>3. Left(k)' = (IF wakeAt > now + 1 THEN wakeAt - (now + 1) ELSE 0) + Round
          BY <1>2, <3>1, <4>1 DEF Left
        <5> QED
          BY <1>2, <3>2, <5>1, <5>2, <5>3
      <4>2. CASE pc[Sweeper] = "notify"
        <5>1. /\ InWork = NotifyMax - (now - since[Sweeper])
              /\ InWork' = NotifyMax - ((now + 1) - since[Sweeper])
          BY <1>2, <1>3, <2>4, <4>2 DEF InWork
        <5>2. InWork \in Int /\ InWork' = InWork - 1
          BY <1>2, <1>3, <2>3, <5>1
        <5>3. ThisSweep(k) \in Int /\ ThisSweep(k)' = ThisSweep(k) - 1
          BY <3>1, <3>2, <5>2 DEF ThisSweep
        <5>4. /\ Left(k) = IF k \in todo \ seen THEN ThisSweep(k)
                                               ELSE ThisSweep(k) + SweepDelay + Round
              /\ Left(k)' = IF k \in todo \ seen THEN ThisSweep(k)'
                                                ELSE ThisSweep(k)' + SweepDelay + Round
          BY <1>2, <3>1, <4>2 DEF Left
        <5> QED
          BY <3>2, <5>3, <5>4
      <4> QED
        BY <2>3, <4>1, <4>2
    <3>5. FoundInTime(k)'
      BY <1>1, <1>2, <2>4, <3>1, <3>2, <3>3, <3>4 DEF FoundInTime, Live, Age
    <3>6. InHandOK(k)'
      <4>1. CASE InHand(k)
        <5>1. pc[Sweeper] = "notify"
          BY <2>3, <4>1 DEF InHand
        <5>2. Live(k) => now - devices[k].pingedAt <= Oldest + (now - since[Sweeper])
          BY <1>1, <2>4, <4>1, <5>1 DEF InHandOK, Age
        <5>3. Live(k) =>
                (now + 1) - devices[k].pingedAt <= Oldest + ((now + 1) - since[Sweeper])
          BY <1>2, <1>3, <2>3, <3>2, <3>3, <5>2 DEF Live
        <5> QED
          BY <1>2, <1>3, <3>1, <5>1, <5>3 DEF InHandOK, Age
      <4>2. CASE ~InHand(k)
        BY <3>1, <4>2 DEF InHandOK
      <4> QED
        BY <4>1, <4>2
    <3>7. TornOK(k)'
      BY <1>1, <1>2, <2>4 DEF TornOK, TornFirst, Carrying
    <3> QED
      BY <2>4, <3>5, <3>6, <3>7 DEF OverwrittenOK
  <2> QED
    BY <1>5, <2>2, <2>5, <2>6 DEF TimedInv, InTime
<1> QED
  BY <1>6, <1>7

-----------------------------------------------------------------------------
(* The bound. *)

\* Initially there are no devices.
LEMMA InitTimedInv == TimedInit => TimedInv
<1> SUFFICES ASSUME TimedInit PROVE TimedInv
  OBVIOUS
<1> USE ThreadsAssumption, NotifyAssumption, TimeAssumption
    DEF ThreadsAssumption, NotifyAssumption, TimeAssumption
<1>1. TypeOK
  BY InitTypeOK DEF TimedInit
<1>2. LockDiscipline
  BY DEF TimedInit, Init, LockDiscipline, Idle
<1>3. Deadlines
  BY DEF TimedInit, Init, Deadlines, Notifying, Idle
<1>4. DOMAIN devices = {} /\ up /\ pc[Sweeper] = "sleep"
      /\ \A t \in Handlers : pc[t] = "idle"
  BY DEF TimedInit, Init, NoDevices, Idle, Threads
<1>5. SweepOK /\ \A t \in Handlers : FreshOK(t)
  BY <1>4 DEF SweepOK, InHand, Live, Expiring, Carrying, FreshOK
<1>6. \A k \in Devices : InTime(k)
  BY <1>4 DEF InTime, FoundInTime, InHandOK, OverwrittenOK, TornOK, TornFirst, Live, Expiring
<1> QED
  BY <1>1, <1>2, <1>3, <1>5, <1>6 DEF TimedInv

\* Every step keeps the invariant.
LEMMA NextTimedInv == TimedInv /\ [TimedNext]_timedVars => TimedInv'
<1> SUFFICES ASSUME TimedInv, [TimedNext]_timedVars PROVE TimedInv'
  OBVIOUS
<1>1. CASE TimedNext
  <2>1. Stamped /\ Next
    BY <1>1, TimedStep
  <2>2. TypeOK' /\ LockDiscipline'
    BY <2>1, NextTypeOK, NextLockDiscipline DEF TimedInv
  <2>3. \/ \E t \in Handlers : Call(t) \/ HandlerStep(t)
        \/ SweepStep \/ Subscribe \/ Down \/ Start \/ TimedTick
    BY <1>1, TimedStep
  <2> QED
    BY <2>1, <2>2, <2>3, HandlerKeeps, SweepKeeps, ProcessKeeps, TickKeeps
<1>2. CASE UNCHANGED timedVars
  <2>1. UNCHANGED <<now, up, devices, mu, wakeAt, todo, seen, pc, msg, dev, since, vars>>
    BY <1>2 DEF timedVars, vars, threadVars, sweepVars
  <2>2. TypeOK' /\ LockDiscipline'
    BY <2>1, NextTypeOK, NextLockDiscipline DEF TimedInv
  <2> QED
    BY <2>1, <2>2, TimedFrame
<1> QED
  BY <1>1, <1>2

\* DetectionDelay is Oldest and one notification.
LEMMA TimedInvBounds == TimedInv => DetectionBound
<1> SUFFICES ASSUME TimedInv, NEW k \in DOMAIN devices, devices[k].online
             PROVE  now - devices[k].pingedAt <= DetectionDelay
  BY DEF DetectionBound
<1> USE NotifyAssumption, TimeAssumption DEF NotifyAssumption, TimeAssumption
<1>1. TypeOK /\ Deadlines /\ SweepOK /\ Live(k)
  BY DEF TimedInv, Live
<1>2. k \in Devices
  BY <1>1 DEF SweepOK, TypeOK, IDs
<1>3. Age(devices[k]) <= Oldest + NotifyMax
  BY <1>1, <1>2, InTimeBounds DEF TimedInv
<1>4. DetectionDelay = Oldest + NotifyMax
  <2> DEFINE d == Cardinality(Devices) - 1
  <2>1. d \in Nat /\ Cardinality(Devices) = d + 1
    <3>1. d \in Nat
      BY <1>2, CountRest
    <3>2. Cardinality(Devices) \in Nat
      BY ONLY FiniteAssumption, FS_CardinalityType DEF FiniteAssumption
    <3> QED
      BY <3>1, <3>2
  <2>2. Round = d * NotifyMax /\ Round \in Nat
    BY <1>2, RestCosts DEF Round, Cost
  <2> HIDE DEF d
  <2>3. (2 * (d + 1) - 1) * NotifyMax = 2 * (d * NotifyMax) + NotifyMax
    BY <2>1
  <2>4. DetectionDelay = OfflineAfter + SweepDelay + (2 * (d + 1) - 1) * NotifyMax
    BY <2>1 DEF DetectionDelay
  <2> QED
    BY <2>2, <2>3, <2>4 DEF Oldest
<1> QED
  BY <1>3, <1>4 DEF Age

\* store.go:61-98: the sweep marks every silent device offline within
\* DetectionDelay, a minute, the sleep and two rounds of notifications but one,
\* however many devices there are, whatever pings overlap with it, and whatever
\* it reads of a record that is being written.
THEOREM FoundWithinDelay == TimedSpec => []DetectionBound
<1>1. TimedInit => TimedInv
  BY InitTimedInv
<1>2. TimedInv /\ [TimedNext]_timedVars => TimedInv'
  BY NextTimedInv
<1>3. TimedInv => DetectionBound
  BY TimedInvBounds
<1> QED
  BY <1>1, <1>2, <1>3, PTL DEF TimedSpec

=============================================================================
