------------------------- MODULE DeviceStoreProofs -------------------------
(***************************************************************************)
(* Proofs about DeviceStore, for any devices, handlers, messages, delays   *)
(* and race outcomes: its types, its lock, what it shows as offline, and   *)
(* that without torn reads and MarkOffline it implements Presence.         *)
(***************************************************************************)
EXTENDS DeviceStore, TLAPS

-----------------------------------------------------------------------------
(* What the helpers return. *)

\* The zero values are values of their types.
LEMMA ZeroTypes == ZeroDevice \in Device /\ NoMessage \in Message
BY TimeAssumption, DataAssumption
DEF TimeAssumption, DataAssumption, ZeroDevice, Device, NoMessage, Message, IDs, ZeroTime

\* A registered device is a Device.
LEMMA NewDeviceType ==
  ASSUME NEW m \in Message, NEW t \in Int
  PROVE  /\ NewDevice(m, t) \in Device
         /\ NewDevice(m, t).online /\ NewDevice(m, t).pingedAt = t
         /\ NewDevice(m, t).id = m.id
BY DEF NewDevice, Device, Message

\* A refreshed device is a Device under the same id, online and just pinged.
LEMMA RefreshedType ==
  ASSUME NEW d \in Device, NEW m \in Message, NEW t \in Int
  PROVE  /\ Refreshed(d, m, t) \in Device
         /\ Refreshed(d, m, t).online /\ Refreshed(d, m, t).pingedAt = t
         /\ Refreshed(d, m, t).id = d.id
BY DEF Refreshed, Device, Message

\* So is one whose status, or status and ping time, are set.
LEMMA StatusType ==
  ASSUME NEW d \in Device, NEW b \in BOOLEAN
  PROVE  /\ [d EXCEPT !.online = b] \in Device
         /\ \A t \in Int : [d EXCEPT !.pingedAt = t, !.online = b] \in Device
BY DEF Device

\* A torn read yields a Device.
LEMMA TornType ==
  ASSUME NEW old \in Device, NEW new \in Device, NEW d \in Torn(old, new)
  PROVE  d \in Device
BY DEF Torn, Device

\* Whatever the sweep reads is a Device.
LEMMA SnapshotType ==
  ASSUME TypeOK, NEW k, NEW d \in Snapshots(k)
  PROVE  d \in Device
<1>1. Stored(k) \in Device
  BY ZeroTypes DEF Stored, TypeOK
<1>2. CASE "torn" \in RaceOutcomes /\ k \in BeingWritten
  <2>1. mu \in Threads
    BY <1>2 DEF BeingWritten, TypeOK
  <2>2. dev[mu] \in Device
    BY <2>1 DEF TypeOK
  <2> QED
    BY <1>1, <1>2, <2>2, TornType DEF Snapshots
<1>3. CASE ~("torn" \in RaceOutcomes /\ k \in BeingWritten)
  BY <1>3 DEF Snapshots, TypeOK
<1> QED
  BY <1>2, <1>3

-----------------------------------------------------------------------------
(* Types. *)

\* The initial state has the types.
LEMMA InitTypeOK == Init => TypeOK
<1> SUFFICES ASSUME Init PROVE TypeOK
  OBVIOUS
<1> USE ZeroTypes, TimeAssumption DEF TimeAssumption, Init
<1>1. now \in 0..MaxTime
  OBVIOUS
<1>6. up \in BOOLEAN /\ subscribed \in BOOLEAN
  OBVIOUS
<1>2. /\ DOMAIN devices \subseteq IDs
      /\ \A k \in DOMAIN devices : devices[k] \in Device /\ devices[k].id = k
  BY DEF NoDevices
<1>3. /\ pc \in [Threads -> HandlerPCs \union SweepPCs]
      /\ pc[Sweeper] \in SweepPCs /\ \A t \in Handlers : pc[t] \in HandlerPCs
  BY ThreadsAssumption
  DEF ThreadsAssumption, Threads, Idle, HandlerPCs, SweepPCs
<1>4. /\ op \in [Threads -> {"none", "Ping", "Register", "PingDevice",
                           "MarkOffline"}]
      /\ msg \in [Threads -> Message] /\ dev \in [Threads -> Device]
  OBVIOUS
<1>5. notice \in [IDs -> {"none", "online", "offline"}]
  OBVIOUS
<1> QED
  BY <1>1, <1>2, <1>3, <1>4, <1>5, <1>6 DEF TypeOK, Init

\* Every step keeps the types.
LEMMA NextTypeOK == TypeOK /\ [Next]_vars => TypeOK'
<1> SUFFICES ASSUME TypeOK, [Next]_vars PROVE TypeOK'
  OBVIOUS
<1> USE DataAssumption, TimeAssumption, ThreadsAssumption
    DEF TypeOK, TimeAssumption, DataAssumption, ThreadsAssumption, HandlerPCs,
        SweepPCs, Threads, sweepVars, threadVars
<1>1. ASSUME NEW t \in Handlers, Call(t) PROVE TypeOK'
  <2>1. \A k \in Devices : [NoMessage EXCEPT !.id = k] \in Message
    BY ZeroTypes DEF Message, IDs
  <2>2. PICK call \in {"Ping", "PingDevice", "MarkOffline"}, m \in Message :
          Read(t, call, m)
    <3>1. CASE \E m \in Messages : Read(t, "Ping", m)
      BY <3>1
    <3>2. CASE \E call \in Calls \ {"Ping"}, k \in Devices :
                 Read(t, call, [NoMessage EXCEPT !.id = k])
      BY <3>2, <2>1
    <3> QED
      BY <1>1, <3>1, <3>2 DEF Call
  <2> QED
    BY <2>2 DEF Read, Goto, Threads
<1>2. ASSUME NEW t \in Threads, Notify(t) PROVE TypeOK'
  <2>1. dev[t].id \in IDs
    BY DEF Device
  <2> QED
    BY <1>2, <2>1, ZeroTypes DEF Notify, Goto, Return, StatusOf
<1>3. ASSUME NEW t \in Threads, Lock(t) PROVE TypeOK'
  BY <1>3 DEF Lock, Goto
<1>4. ASSUME NEW t \in Threads, Write(t) PROVE TypeOK'
  BY <1>4, ZeroTypes DEF Write, Goto, Return, NextKey, Put, Device, Threads
<1>5. ASSUME NEW t \in Handlers, PingRegister(t) PROVE TypeOK'
  <2>1. NewDevice(msg[t], now) \in Device
    BY NewDeviceType DEF Threads
  <2> QED
    BY <1>5, <2>1 DEF PingRegister, GoOn, Goto
<1>6. ASSUME NEW t \in Handlers, PingRejected(t) PROVE TypeOK'
  BY <1>6, ZeroTypes DEF PingRejected, Return, Goto
<1>7. ASSUME NEW t \in Handlers, PingRefresh(t) PROVE TypeOK'
  <2>1. Refreshed(dev[t], msg[t], now) \in Device
    BY RefreshedType DEF Threads
  <2> QED
    BY <1>7, <2>1 DEF PingRefresh, GoOn, Goto
<1>8. ASSUME NEW t \in Handlers, CallMissing(t) PROVE TypeOK'
  BY <1>8, ZeroTypes DEF CallMissing, Return, Goto
<1>9. ASSUME NEW t \in Handlers, PingDeviceFound(t) PROVE TypeOK'
  <2>1. dev[t] \in Device /\ now \in Int
    BY DEF Threads
  <2>2. [dev[t] EXCEPT !.pingedAt = now, !.online = TRUE] \in Device
    BY <2>1, StatusType
  <2> QED
    BY <1>9, <2>2 DEF PingDeviceFound, GoOn, Goto
<1>10. ASSUME NEW t \in Handlers, MarkOfflineFound(t) PROVE TypeOK'
  <2>1. [dev[t] EXCEPT !.online = FALSE] \in Device
    BY StatusType DEF Threads
  <2> QED
    BY <1>10, <2>1 DEF MarkOfflineFound, GoOn, Goto
<1>11. ASSUME SweepWake PROVE TypeOK'
  BY <1>11 DEF SweepWake, Goto
<1>12. ASSUME NEW k \in IDs, ScanRead(k) PROVE TypeOK'
  <2>1. PICK d \in Snapshots(k) : dev' = [dev EXCEPT ![Sweeper] = d]
    BY <1>12 DEF ScanRead
  <2>2. d \in Device
    BY <2>1, SnapshotType
  <2> QED
    BY <1>12, <2>1, <2>2 DEF ScanRead, Goto
<1>13. ASSUME ScanExpire PROVE TypeOK'
  <2>1. [dev[Sweeper] EXCEPT !.online = FALSE] \in Device
    BY StatusType DEF Threads
  <2> QED
    BY <1>13, <2>1 DEF ScanExpire, GoOn, Goto
<1>14. ASSUME ScanSkip PROVE TypeOK'
  BY <1>14, ZeroTypes DEF ScanSkip, NextKey, Goto
<1>15. ASSUME ScanEnd PROVE TypeOK'
  <2>1. wakeAt' \in Int
    BY <1>15 DEF ScanEnd
  <2> QED
    BY <1>15, <2>1 DEF ScanEnd, SweepOver, Goto
<1>16. ASSUME Subscribe PROVE TypeOK'
  BY <1>16 DEF Subscribe, threadVars, sweepVars
<1>17. ASSUME Down PROVE TypeOK'
  BY <1>17, ZeroTypes DEF Down, NoDevices, Idle, Threads
<1>18. ASSUME Start PROVE TypeOK'
  BY <1>18 DEF Start, threadVars
<1>19. ASSUME Tick PROVE TypeOK'
  BY <1>19 DEF Tick, threadVars, sweepVars
<1>20. ASSUME UNCHANGED vars PROVE TypeOK'
  BY <1>20 DEF vars, threadVars, sweepVars
<1> QED
  BY <1>1, <1>2, <1>3, <1>4, <1>5, <1>6, <1>7, <1>8, <1>9, <1>10, <1>11,
     <1>12, <1>13, <1>14, <1>15, <1>16, <1>17, <1>18, <1>19, <1>20
  DEF Next, HandlerStep, SetDevice, SweepStep, Exit, MapFatal, Threads

\* Type correctness of the store (store.go:26-32) under every interleaving.
THEOREM TypeCorrect == Spec => []TypeOK
BY InitTypeOK, NextTypeOK, PTL DEF Spec

-----------------------------------------------------------------------------
(* The lock. *)

\* Every step keeps the lock with the one thread that writes.
LEMMA NextLockDiscipline ==
  TypeOK /\ LockDiscipline /\ [Next]_vars => LockDiscipline'
<1> SUFFICES ASSUME TypeOK, LockDiscipline, [Next]_vars PROVE LockDiscipline'
  OBVIOUS
<1> USE ThreadsAssumption
    DEF ThreadsAssumption, TypeOK, LockDiscipline, threadVars, sweepVars, Goto
<1>1. ASSUME NEW t \in Handlers, Call(t) PROVE LockDiscipline'
  BY <1>1 DEF Call, Read, Threads
<1>2. ASSUME NEW t \in Threads, Notify(t) PROVE LockDiscipline'
  BY <1>2 DEF Notify, Return
<1>3. ASSUME NEW t \in Threads, Lock(t) PROVE LockDiscipline'
  BY <1>3 DEF Lock
<1>4. ASSUME NEW t \in Threads, Write(t) PROVE LockDiscipline'
  <2>1. mu' = NoThread /\ \A u \in Threads : pc'[u] # "write"
    <3>1. mu = t /\ \A u \in Threads \ {t} : pc[u] # "write"
      BY <1>4 DEF Write
    <3>2. pc'[t] # "write" /\ \A u \in Threads \ {t} : pc'[u] = pc[u]
      <4>1. CASE t = Sweeper
        BY <1>4, <4>1 DEF Write, NextKey
      <4>2. CASE t # Sweeper
        BY <1>4, <4>2 DEF Write, Return
      <4> QED
        BY <4>1, <4>2
    <3> QED
      BY <1>4, <3>1, <3>2 DEF Write
  <2> QED
    BY <2>1
<1>5. ASSUME NEW t \in Handlers,
             \/ PingRegister(t) \/ PingRejected(t) \/ PingRefresh(t)
             \/ CallMissing(t) \/ PingDeviceFound(t) \/ MarkOfflineFound(t)
      PROVE  LockDiscipline'
  BY <1>5 DEF PingRegister, PingRejected, PingRefresh, CallMissing,
              PingDeviceFound, MarkOfflineFound, GoOn, Return, Threads
<1>6. ASSUME SweepWake \/ (\E k \in IDs : ScanRead(k)) \/ ScanExpire
             \/ ScanSkip \/ ScanEnd
      PROVE  LockDiscipline'
  BY <1>6 DEF SweepWake, ScanRead, ScanExpire, ScanSkip, ScanEnd, SweepOver, GoOn, NextKey,
              Threads
<1>7. ASSUME Down PROVE LockDiscipline'
  BY <1>7 DEF Down, Idle
<1>8. ASSUME Subscribe \/ Start \/ Tick \/ UNCHANGED vars PROVE LockDiscipline'
  BY <1>8 DEF Subscribe, Start, Tick, vars
<1> QED
  BY <1>1, <1>2, <1>3, <1>4, <1>5, <1>6, <1>7, <1>8
  DEF Next, HandlerStep, SetDevice, SweepStep, Exit, MapFatal, Threads

\* setDevice (store.go:217-222) has one writer at a time, and c.mu names it.
THEOREM MutualExclusion == Spec => []LockDiscipline
<1>1. Init => LockDiscipline
  BY ThreadsAssumption
  DEF ThreadsAssumption, Init, LockDiscipline, Idle
<1> QED
  BY <1>1, NextLockDiscipline, TypeCorrect, PTL DEF Spec

-----------------------------------------------------------------------------
(* What each step does to the thread that takes it. *)

\* Only thread t moves.
Alone(t) ==
  \A u \in Threads \ {t} :
    pc'[u] = pc[u] /\ op'[u] = op[u] /\ msg'[u] = msg[u] /\ dev'[u] = dev[u]

Moves(t, where, o, m, d) ==
  /\ pc'[t] = where /\ op'[t] = o /\ msg'[t] = m /\ dev'[t] = d
  /\ Alone(t)

Returns(t) == Moves(t, "idle", "none", NoMessage, ZeroDevice)

\* Nothing but the threads changes.
Inside == UNCHANGED <<now, up, subscribed, devices, notice>>

\* getDevice (store.go:209-215) gives the stored record or nothing.
LEMMA CallEffect ==
  ASSUME TypeOK, NEW t \in Handlers, Call(t)
  PROVE  \E call \in {"Ping", "PingDevice", "MarkOffline"}, m \in Message :
           /\ m.id \in Devices /\ pc[t] = "idle" /\ mu = NoThread
           /\ up /\ subscribed /\ Inside /\ UNCHANGED mu
           /\ IF m.id \in DOMAIN devices
                THEN Moves(t, "found", call, m, devices[m.id])
                ELSE Moves(t, "missing", call, m, dev[t])
<1>1. PICK call \in {"Ping", "PingDevice", "MarkOffline"}, m \in Message :
        m.id \in Devices /\ Read(t, call, m)
  <2>1. CASE "Ping" \in Calls /\ \E m \in Messages : Read(t, "Ping", m)
    BY <2>1, DataAssumption DEF DataAssumption
  <2>2. CASE \E call \in Calls \ {"Ping"}, k \in Devices :
               Read(t, call, [NoMessage EXCEPT !.id = k])
    <3>1. PICK call \in Calls \ {"Ping"}, k \in Devices :
            Read(t, call, [NoMessage EXCEPT !.id = k])
      BY <2>2
    <3>2. /\ [NoMessage EXCEPT !.id = k] \in Message
          /\ [NoMessage EXCEPT !.id = k].id = k
      BY ZeroTypes DEF Message, IDs
    <3>3. call \in {"Ping", "PingDevice", "MarkOffline"}
      BY DataAssumption DEF DataAssumption
    <3> QED
      BY <3>1, <3>2, <3>3
  <2> QED
    BY <2>1, <2>2 DEF Call
<1> QED
  BY <1>1 DEF Read, Goto, Moves, Alone, Inside, TypeOK, Threads, sweepVars

\* The steps of a handler between its read and its write.
LEMMA RegisterEffect ==
  ASSUME TypeOK, NEW t \in Handlers, PingRegister(t)
  PROVE  /\ pc[t] = "missing" /\ op[t] = "Ping" /\ Inside /\ UNCHANGED mu
         /\ Moves(t, "lock", "Register", msg[t], NewDevice(msg[t], now))
BY DEF PingRegister, GoOn, Goto, Moves, Alone, Inside, TypeOK, Threads

\* A refused message and an unknown device end the call.
LEMMA LeaveEffect ==
  ASSUME TypeOK, NEW t \in Handlers, PingRejected(t) \/ CallMissing(t)
  PROVE  pc[t] \in {"found", "missing"} /\ Inside /\ UNCHANGED mu /\ Returns(t)
BY DEF PingRejected, CallMissing, Return, Returns, Goto, Moves, Alone, Inside, TypeOK,
       Threads

\* Both refreshing calls leave the identity of the record alone.
LEMMA RefreshEffect ==
  ASSUME TypeOK, NEW t \in Handlers, PingRefresh(t) \/ PingDeviceFound(t)
  PROVE  \E d \in Device :
           /\ d.online /\ d.pingedAt = now /\ d.id = dev[t].id
           /\ d.type = dev[t].type /\ d.createdAt = dev[t].createdAt
           /\ pc[t] = "found" /\ op[t] \in {"Ping", "PingDevice"}
           /\ Inside /\ UNCHANGED mu
           /\ Moves(t, IF dev[t].online THEN "lock" ELSE "notify", op[t], msg[t], d)
<1>1. dev[t] \in Device /\ msg[t] \in Message /\ now \in Int
  BY DEF TypeOK, Threads
<1>2. CASE PingRefresh(t)
  <2> DEFINE d == Refreshed(dev[t], msg[t], now)
  <2>1. /\ d \in Device /\ d.online /\ d.pingedAt = now /\ d.id = dev[t].id
    BY <1>1, RefreshedType
  <2>2. d.type = dev[t].type /\ d.createdAt = dev[t].createdAt
    BY <1>1 DEF Refreshed, Device
  <2>3. /\ pc[t] = "found" /\ op[t] = "Ping" /\ Inside /\ UNCHANGED mu
        /\ Moves(t, IF dev[t].online THEN "lock" ELSE "notify", op[t], msg[t], d)
    BY <1>2 DEF PingRefresh, GoOn, Goto, Moves, Alone, Inside, TypeOK, Threads
  <2> QED
    BY <2>1, <2>2, <2>3
<1>3. CASE PingDeviceFound(t)
  <2> DEFINE d == [dev[t] EXCEPT !.pingedAt = now, !.online = TRUE]
  <2>1. d \in Device
    BY <1>1, StatusType
  <2>2. /\ d.online /\ d.pingedAt = now /\ d.id = dev[t].id
        /\ d.type = dev[t].type /\ d.createdAt = dev[t].createdAt
    BY <1>1 DEF Device
  <2>3. /\ pc[t] = "found" /\ op[t] = "PingDevice" /\ Inside /\ UNCHANGED mu
        /\ Moves(t, IF dev[t].online THEN "lock" ELSE "notify", op[t], msg[t], d)
    BY <1>3 DEF PingDeviceFound, GoOn, Goto, Moves, Alone, Inside, TypeOK, Threads
  <2> QED
    BY <2>1, <2>2, <2>3
<1> QED
  BY <1>2, <1>3

\* d, marked offline.
Offline(d) == [d EXCEPT !.online = FALSE]

\* Marking a copy offline changes nothing else of it.
LEMMA OfflineKeeps ==
  ASSUME NEW d \in Device
  PROVE  /\ Offline(d) \in Device /\ ~Offline(d).online /\ Offline(d).id = d.id
         /\ Offline(d).type = d.type /\ Offline(d).createdAt = d.createdAt
         /\ Offline(d).pingedAt = d.pingedAt
BY DEF Offline, Device

\* MarkOffline (store.go:167-181) goes on with its copy, marked offline.
LEMMA MarkEffect ==
  ASSUME TypeOK, NEW t \in Handlers, MarkOfflineFound(t)
  PROVE  /\ pc[t] = "found" /\ op[t] = "MarkOffline" /\ Inside /\ UNCHANGED mu
         /\ Moves(t, IF dev[t].online THEN "notify" ELSE "lock", op[t], msg[t],
                  Offline(dev[t]))
BY DEF MarkOfflineFound, Offline, GoOn, Goto, Moves, Alone, Inside, TypeOK, Threads

\* The steps every thread takes.
LEMMA NotifyEffect ==
  ASSUME TypeOK, NEW t \in Threads, Notify(t)
  PROVE  /\ pc[t] \in {"notify", "announce"}
         /\ UNCHANGED <<now, up, subscribed, devices, mu>>
         /\ dev[t].id \in IDs
         /\ subscribed => notice'[dev[t].id] = StatusOf(dev[t])
         /\ \A k \in IDs \ {dev[t].id} : notice'[k] = notice[k]
         /\ IF pc[t] = "notify" THEN Moves(t, "lock", op[t], msg[t], dev[t])
                                ELSE Returns(t)
<1>1. dev[t].id \in IDs
  BY DEF TypeOK, Device
<1> QED
  BY <1>1 DEF Notify, Return, Returns, Goto, Moves, Alone, TypeOK

\* The lock is taken and nothing else happens.
LEMMA LockEffect ==
  ASSUME TypeOK, NEW t \in Threads, Lock(t)
  PROVE  pc[t] = "lock" /\ Inside /\ Moves(t, "write", op[t], msg[t], dev[t])
BY DEF Lock, Goto, Moves, Alone, Inside, TypeOK, sweepVars

\* A write (store.go:217-222) changes the record of one id.
LEMMA WriteEffect ==
  ASSUME TypeOK, NEW t \in Threads, Write(t)
  PROVE  /\ pc[t] = "write" /\ UNCHANGED <<now, up, subscribed, notice>>
         /\ DOMAIN devices' = DOMAIN devices \union {dev[t].id}
         /\ devices'[dev[t].id] = dev[t]
         /\ \A k \in DOMAIN devices \ {dev[t].id} : devices'[k] = devices[k]
         /\ CASE t = Sweeper -> Moves(t, "scan", op[t], msg[t], ZeroDevice)
              [] t # Sweeper /\ op[t] = "Register" ->
                   Moves(t, "announce", op[t], msg[t], dev[t])
              [] t # Sweeper /\ op[t] # "Register" -> Returns(t)
<1>1. /\ pc[t] = "write" /\ UNCHANGED <<now, up, subscribed, notice>>
      /\ DOMAIN devices' = DOMAIN devices \union {dev[t].id}
      /\ devices'[dev[t].id] = dev[t]
      /\ \A k \in DOMAIN devices \ {dev[t].id} : devices'[k] = devices[k]
  BY DEF Write, Put
<1>2. CASE t = Sweeper
  <2>1. Moves(t, "scan", op[t], msg[t], ZeroDevice)
    BY <1>2 DEF Write, NextKey, Goto, Moves, Alone, TypeOK
  <2> QED
    BY <1>1, <1>2, <2>1
<1>3. CASE t # Sweeper /\ op[t] = "Register"
  <2>1. Moves(t, "announce", op[t], msg[t], dev[t])
    BY <1>3 DEF Write, Goto, Moves, Alone, TypeOK
  <2> QED
    BY <1>1, <1>3, <2>1
<1>4. CASE t # Sweeper /\ op[t] # "Register"
  <2>1. Returns(t)
    BY <1>4 DEF Write, Return, Returns, Goto, Moves, Alone, TypeOK
  <2> QED
    BY <1>1, <1>4, <2>1
<1> QED
  BY <1>2, <1>3, <1>4

\* The steps of the sweep.  An unlocked read yields the stored record, unless
\* the record is being written: then it may be torn between the two, and the
\* id of what it yields may be empty if nothing was stored.
LEMMA ReadEffect ==
  ASSUME TypeOK, LockDiscipline, NEW k \in IDs, ScanRead(k)
  PROVE  /\ pc[Sweeper] = "scan" /\ Inside /\ UNCHANGED mu
         /\ \E d \in Device :
              /\ Moves(Sweeper, "check", op[Sweeper], msg[Sweeper], d)
              /\ \/ k \in DOMAIN devices /\ d = devices[k] /\ d.id = k
                 \/ /\ "torn" \in RaceOutcomes
                    /\ d.id = k \/ (d.id = NoID /\ k \notin DOMAIN devices)
                    /\ \E u \in Handlers : pc[u] = "write" /\ dev[u].id = k
<1>1. PICK d \in Snapshots(k) : dev' = [dev EXCEPT ![Sweeper] = d]
  BY DEF ScanRead
<1>2. d \in Device
  BY <1>1, SnapshotType
<1>3. /\ pc[Sweeper] = "scan" /\ Inside /\ UNCHANGED mu
      /\ Moves(Sweeper, "check", op[Sweeper], msg[Sweeper], d)
  BY <1>1 DEF ScanRead, Goto, Moves, Alone, Inside, TypeOK, Threads
<1>4. CASE "torn" \in RaceOutcomes /\ k \in BeingWritten
  <2>1. mu \in Threads /\ dev[mu].id = k
    BY <1>4 DEF BeingWritten, TypeOK
  <2>2. pc[mu] = "write"
    BY <2>1 DEF LockDiscipline
  <2>3. mu \in Handlers
    BY <2>1, <2>2, <1>3 DEF Threads
  <2>4. Stored(k).id = k \/ (Stored(k).id = NoID /\ k \notin DOMAIN devices)
    BY DEF Stored, TypeOK, ZeroDevice
  <2>5. d.id \in {Stored(k).id, dev[mu].id}
    BY <1>4 DEF Snapshots, Torn
  <2> QED
    BY <1>2, <1>3, <1>4, <2>1, <2>2, <2>3, <2>4, <2>5
<1>5. CASE ~("torn" \in RaceOutcomes /\ k \in BeingWritten)
  <2>1. k \in DOMAIN devices /\ d = devices[k]
    BY <1>5 DEF Snapshots
  <2>2. d.id = k
    BY <2>1 DEF TypeOK
  <2> QED
    BY <1>2, <1>3, <2>1, <2>2
<1> QED
  BY <1>4, <1>5

\* A record the sweep finds stale goes on marked offline.
LEMMA ExpireEffect ==
  ASSUME TypeOK, ScanExpire
  PROVE  /\ pc[Sweeper] = "check" /\ Inside /\ UNCHANGED mu
         /\ Moves(Sweeper, "notify", op[Sweeper], msg[Sweeper], Offline(dev[Sweeper]))
BY DEF ScanExpire, Offline, GoOn, Goto, Moves, Alone, Inside, TypeOK, Threads

\* A record the sweep does not change is dropped.
LEMMA SkipEffect ==
  ASSUME TypeOK, ScanSkip
  PROVE  /\ pc[Sweeper] = "check" /\ Inside /\ UNCHANGED mu
         /\ Moves(Sweeper, "scan", op[Sweeper], msg[Sweeper], ZeroDevice)
BY DEF ScanSkip, NextKey, Goto, Moves, Alone, Inside, TypeOK, Threads

\* The sweep begins and ends with no record in hand.
LEMMA WakeEndEffect ==
  ASSUME TypeOK, SweepWake \/ ScanEnd
  PROVE  /\ pc[Sweeper] \in {"sleep", "scan"} /\ Inside /\ UNCHANGED mu
         /\ \E where \in {"sleep", "scan"} :
              Moves(Sweeper, where, op[Sweeper], msg[Sweeper], dev[Sweeper])
BY DEF SweepWake, ScanEnd, SweepOver, Goto, Moves, Alone, Inside, TypeOK, Threads

\* The clock never goes back.
LEMMA TimeGoesOn == TypeOK /\ [Next]_vars => now \in Int /\ now' \in Int /\ now' >= now
<1> SUFFICES ASSUME TypeOK, [Next]_vars
             PROVE  now \in Int /\ now' \in Int /\ now' >= now
  OBVIOUS
<1>1. CASE Tick
  BY <1>1 DEF Tick, TypeOK
<1>2. CASE ~Tick
  <2>1. UNCHANGED now
    BY <1>2
    DEF Next, HandlerStep, SetDevice, SweepStep, Exit, MapFatal, Call, Read, Notify, Lock,
        Write, PingRegister, PingRejected, PingRefresh, CallMissing, PingDeviceFound,
        MarkOfflineFound, GoOn, SweepWake, ScanRead, ScanExpire, ScanSkip, ScanEnd,
        SweepOver, Down, Subscribe, Start, vars
  <2> QED
    BY <2>1 DEF TypeOK
<1> QED
  BY <1>1, <1>2

-----------------------------------------------------------------------------
(* What is shown offline. *)

StaleInv == OfflineIsStale /\ PendingIsStale

\* A record that is stale stays stale.
LEMMA StaleLasts ==
  ASSUME TypeOK, Tick, NEW d \in Device, Stale(d, now)
  PROVE  Stale(d, now')
BY TimeAssumption DEF TimeAssumption, TypeOK, Tick, Stale, Device

\* Every step keeps stored and pending records online or stale.
LEMMA NextStaleInv == TypeOK /\ StaleInv /\ [Next]_vars => StaleInv'
<1> SUFFICES ASSUME TypeOK, StaleInv, [Next]_vars PROVE StaleInv'
  OBVIOUS
<1> USE ThreadsAssumption
    DEF ThreadsAssumption, TypeOK, StaleInv, OfflineIsStale, PendingIsStale,
        Carrying, threadVars, sweepVars, Goto
<1>1. ASSUME NEW t \in Handlers, Call(t) PROVE StaleInv'
  <2>1. PICK call \in Calls,
               m \in Messages \union {[NoMessage EXCEPT !.id = k] : k \in Devices} :
               Read(t, call, m)
    BY <1>1 DEF Call
  <2> QED
    BY <2>1 DEF Read, Threads
<1>2. ASSUME NEW t \in Threads, Notify(t) PROVE StaleInv'
  BY <1>2 DEF Notify, Return
<1>3. ASSUME NEW t \in Threads, Lock(t) PROVE StaleInv'
  BY <1>3 DEF Lock
<1>4. ASSUME NEW t \in Threads, Write(t) PROVE StaleInv'
  <2>1. OfflineIsStale'
    BY <1>4 DEF Write, Put
  <2>2. PendingIsStale'
    <3>1. CASE t = Sweeper
      BY <1>4, <3>1 DEF Write, NextKey
    <3>2. CASE t # Sweeper
      BY <1>4, <3>2 DEF Write, Return
    <3> QED
      BY <3>1, <3>2
  <2> QED
    BY <2>1, <2>2
<1>5. ASSUME NEW t \in Handlers, PingRegister(t) PROVE StaleInv'
  <2>1. NewDevice(msg[t], now).online
    BY DEF NewDevice
  <2> QED
    BY <1>5, <2>1 DEF PingRegister, GoOn, Threads
<1>6. ASSUME NEW t \in Handlers, PingRejected(t) \/ CallMissing(t) PROVE StaleInv'
  BY <1>6 DEF PingRejected, CallMissing, Return
<1>7. ASSUME NEW t \in Handlers, PingRefresh(t) PROVE StaleInv'
  <2>1. Refreshed(dev[t], msg[t], now).online
    BY RefreshedType DEF Threads
  <2> QED
    BY <1>7, <2>1 DEF PingRefresh, GoOn, Threads
<1>8. ASSUME NEW t \in Handlers, PingDeviceFound(t) PROVE StaleInv'
  <2>1. [dev[t] EXCEPT !.pingedAt = now, !.online = TRUE].online
    BY DEF Device, Threads
  <2> QED
    BY <1>8, <2>1 DEF PingDeviceFound, GoOn, Threads
<1>9. ASSUME NEW t \in Handlers, MarkOfflineFound(t) PROVE StaleInv'
  BY <1>9 DEF MarkOfflineFound, GoOn, Threads
<1>10. ASSUME SweepWake \/ (\E k \in IDs : ScanRead(k)) \/ ScanEnd PROVE StaleInv'
  BY <1>10 DEF SweepWake, ScanRead, ScanEnd, SweepOver
<1>11. ASSUME ScanExpire PROVE StaleInv'
  <2>1. Stale([dev[Sweeper] EXCEPT !.online = FALSE], now)
    BY <1>11 DEF ScanExpire, Stale, Device, Threads
  <2> QED
    BY <1>11, <2>1 DEF ScanExpire, GoOn, Threads
<1>12. ASSUME ScanSkip PROVE StaleInv'
  BY <1>12 DEF ScanSkip, NextKey
<1>13. ASSUME Down PROVE StaleInv'
  BY <1>13 DEF Down, NoDevices, Idle
<1>14. ASSUME Tick PROVE StaleInv'
  BY <1>14, StaleLasts DEF Tick
<1>15. ASSUME Subscribe \/ Start \/ UNCHANGED vars PROVE StaleInv'
  BY <1>15 DEF Subscribe, Start, vars
<1> QED
  BY <1>1, <1>2, <1>3, <1>4, <1>5, <1>6, <1>7, <1>8, <1>9, <1>10, <1>11,
     <1>12, <1>13, <1>14, <1>15
  DEF Next, HandlerStep, SetDevice, SweepStep, Exit, MapFatal, Threads

\* Initially nothing is stored or pending.
LEMMA InitStaleInv == Init => StaleInv
BY DEF Init, StaleInv, OfflineIsStale, PendingIsStale, Carrying, NoDevices, Idle

\* The sweep (store.go:89-97) never shows a fresh record as offline, whatever
\* overlaps with it.
THEOREM StaleOffline == Spec => []OfflineIsStale
<1>1. StaleInv => OfflineIsStale
  BY DEF StaleInv
<1> QED
  BY <1>1, InitStaleInv, NextStaleInv, TypeCorrect, PTL DEF Spec

\* No thread is ever on its way to announce or store a fresh record as offline
\* (store.go:191-222).
THEOREM StalePending == Spec => []PendingIsStale
<1>1. StaleInv => PendingIsStale
  BY DEF StaleInv
<1> QED
  BY <1>1, InitStaleInv, NextStaleInv, TypeCorrect, PTL DEF Spec

-----------------------------------------------------------------------------
(* The refinement of Presence. *)

\* Every step keeps the times of the records between 0 and now.
LEMMA NextSeenInThePast ==
  TypeOK /\ SeenInThePast /\ [Next]_vars => SeenInThePast'
<1> SUFFICES ASSUME TypeOK, SeenInThePast, [Next]_vars, "torn" \notin RaceOutcomes
             PROVE  SeenInThePast'
  BY DEF SeenInThePast
<1> USE ThreadsAssumption
    DEF ThreadsAssumption, TypeOK, SeenInThePast, HasRead, Carrying, threadVars,
        sweepVars, Goto
<1>1. ASSUME NEW t \in Handlers, Call(t) PROVE SeenInThePast'
  <2>1. PICK call \in Calls,
               m \in Messages \union {[NoMessage EXCEPT !.id = k] : k \in Devices} :
               Read(t, call, m)
    BY <1>1 DEF Call
  <2> QED
    BY <2>1 DEF Read, Threads
<1>2. ASSUME NEW t \in Threads, Notify(t) PROVE SeenInThePast'
  BY <1>2 DEF Notify, Return
<1>3. ASSUME NEW t \in Threads, Lock(t) PROVE SeenInThePast'
  BY <1>3 DEF Lock
<1>4. ASSUME NEW t \in Threads, Write(t) PROVE SeenInThePast'
  <2>1. /\ DOMAIN devices' = DOMAIN devices \union {dev[t].id}
        /\ \A k \in DOMAIN devices' : devices'[k].pingedAt \in 0..now
        /\ now' = now
    BY <1>4 DEF Write, Put
  <2>2. CASE t = Sweeper
    BY <1>4, <2>1, <2>2 DEF Write, NextKey
  <2>3. CASE t # Sweeper
    BY <1>4, <2>1, <2>3 DEF Write, Return
  <2> QED
    BY <2>2, <2>3
<1>5. ASSUME NEW t \in Handlers, PingRegister(t) PROVE SeenInThePast'
  <2>1. /\ NewDevice(msg[t], now).online
        /\ NewDevice(msg[t], now).pingedAt \in 0..now
    BY DEF NewDevice
  <2> QED
    BY <1>5, <2>1 DEF PingRegister, GoOn, Threads
<1>6. ASSUME NEW t \in Handlers, PingRejected(t) \/ CallMissing(t)
      PROVE  SeenInThePast'
  BY <1>6 DEF PingRejected, CallMissing, Return
<1>7. ASSUME NEW t \in Handlers, PingRefresh(t) PROVE SeenInThePast'
  <2>1. /\ dev[t] \in Device /\ msg[t] \in Message
        /\ now \in Int /\ now \in 0..now
    BY DEF Threads
  <2> DEFINE d == Refreshed(dev[t], msg[t], now)
  <2>2. d.online /\ d.pingedAt = now
    BY ONLY <2>1, RefreshedType
  <2>3. d.online /\ d.pingedAt \in 0..now
    BY <2>1, <2>2
  <2> QED
    BY <1>7, <2>3 DEF PingRefresh, GoOn, Threads
<1>8. ASSUME NEW t \in Handlers, PingDeviceFound(t) PROVE SeenInThePast'
  <2> DEFINE d == [dev[t] EXCEPT !.pingedAt = now, !.online = TRUE]
  <2>1. d.online /\ d.pingedAt \in 0..now
    BY DEF Device, Threads
  <2> QED
    BY <1>8, <2>1 DEF PingDeviceFound, GoOn, Threads
<1>9. ASSUME NEW t \in Handlers, MarkOfflineFound(t) PROVE SeenInThePast'
  <2> DEFINE d == [dev[t] EXCEPT !.online = FALSE]
  <2>1. d.pingedAt = dev[t].pingedAt /\ d.id = dev[t].id
    BY DEF Device, Threads
  <2>2. d.pingedAt \in 0..now /\ d.id \in DOMAIN devices
    BY <1>9, <2>1 DEF MarkOfflineFound, Threads
  <2>3. /\ dev' = [dev EXCEPT ![t] = d]
        /\ pc'[t] \in {"notify", "lock"} /\ UNCHANGED <<now, devices>>
        /\ \A u \in Threads \ {t} : pc'[u] = pc[u]
    BY <1>9 DEF MarkOfflineFound, GoOn, Threads
  <2> HIDE DEF d
  <2> QED
    BY <2>2, <2>3 DEF Threads
<1>10. ASSUME NEW k \in IDs, ScanRead(k) PROVE SeenInThePast'
  <2>1. PICK d \in Snapshots(k) : dev' = [dev EXCEPT ![Sweeper] = d]
    BY <1>10 DEF ScanRead
  <2>2. k \in DOMAIN devices /\ d = devices[k]
    BY <2>1 DEF Snapshots
  <2> QED
    BY <1>10, <2>1, <2>2 DEF ScanRead
<1>11. ASSUME SweepWake \/ ScanEnd PROVE SeenInThePast'
  BY <1>11 DEF SweepWake, ScanEnd, SweepOver
<1>12. ASSUME ScanExpire PROVE SeenInThePast'
  <2> DEFINE d == [dev[Sweeper] EXCEPT !.online = FALSE]
  <2>1. d.pingedAt = dev[Sweeper].pingedAt /\ d.id = dev[Sweeper].id
    BY DEF Device, Threads
  <2> QED
    BY <1>12, <2>1 DEF ScanExpire, GoOn, Threads
<1>13. ASSUME ScanSkip PROVE SeenInThePast'
  BY <1>13 DEF ScanSkip, NextKey
<1>14. ASSUME Down PROVE SeenInThePast'
  BY <1>14 DEF Down, NoDevices, Idle
<1>15. ASSUME Tick PROVE SeenInThePast'
  BY <1>15 DEF Tick
<1>16. ASSUME Subscribe \/ Start \/ UNCHANGED vars PROVE SeenInThePast'
  BY <1>16 DEF Subscribe, Start, vars
<1> QED
  BY <1>1, <1>2, <1>3, <1>4, <1>5, <1>6, <1>7, <1>8, <1>9, <1>10, <1>11,
     <1>12, <1>13, <1>14, <1>15, <1>16
  DEF Next, HandlerStep, SetDevice, SweepStep, Exit, MapFatal, Threads

\* Without torn reads, no record carries a time that has not come, and no record
\* is offline that was never registered (store.go:100-180).
THEOREM TimesOfPings == Spec => []SeenInThePast
<1>1. Init => SeenInThePast
  BY DEF Init, SeenInThePast, HasRead, Carrying, NoDevices, Idle
<1> QED
  BY <1>1, NextSeenInThePast, TypeCorrect, PTL DEF Spec

\* Storing a record is a step of Presence: Appear or Expire.
LEMMA WriteStep ==
  ASSUME TypeOK, PendingIsStale, SeenInThePast,
         "torn" \notin RaceOutcomes, "MarkOffline" \notin Calls,
         NEW t \in Threads, Write(t)
  PROVE  Abstract!Next
<1> DEFINE d == dev[t]
           status == [k \in IDs |-> Status(k)]
           seenAt == [k \in IDs |-> SeenAt(k)]
<1>1. /\ d \in Device /\ d.id \in IDs /\ d.pingedAt \in 0..now
      /\ d.online \/ (d.id \in DOMAIN devices /\ now - d.pingedAt > OfflineAfter)
      /\ d.online \in BOOLEAN
  BY DEF TypeOK, PendingIsStale, SeenInThePast, Write, Carrying, Stale, Device
<1>2. \A k \in IDs : /\ Status(k)' = IF k = d.id THEN StatusOf(d) ELSE Status(k)
                     /\ SeenAt(k)' = IF k = d.id THEN d.pingedAt ELSE SeenAt(k)
  BY <1>1 DEF Write, Put, Status, SeenAt
<1>3. /\ status' = [status EXCEPT ![d.id] = StatusOf(d)]
      /\ seenAt' = [seenAt EXCEPT ![d.id] = d.pingedAt]
      /\ now' = now
  BY <1>1, <1>2 DEF Write
<1>4. CASE d.online
  BY <1>1, <1>3, <1>4
  DEF Abstract!Next, Abstract!Appear, Abstract!Show, StatusOf
<1>5. CASE ~d.online
  <2>1. status[d.id] # "unknown"
    BY <1>1, <1>5 DEF Status, StatusOf
  <2> QED
    BY <1>1, <1>3, <1>5, <2>1
    DEF Abstract!Next, Abstract!Expire, Abstract!Show, StatusOf
<1> QED
  BY <1>4, <1>5

\* Every step of the store is a step of Presence or changes nothing it shows.
LEMMA PresenceStep ==
  ASSUME TypeOK, PendingIsStale, SeenInThePast,
         "torn" \notin RaceOutcomes, "MarkOffline" \notin Calls, [Next]_vars
  PROVE  [Abstract!Next]_Abstract!vars
<1>1. ASSUME NEW t \in Threads, Write(t) PROVE Abstract!Next
  BY <1>1, WriteStep
<1>2. ASSUME Down PROVE Abstract!Next
  BY <1>2 DEF Down, NoDevices, Abstract!Next, Abstract!Forget, Status, SeenAt
<1>3. ASSUME Tick PROVE Abstract!Next
  BY <1>3 DEF Tick, Abstract!Next, Abstract!Tick, Status, SeenAt
<1>4. ASSUME UNCHANGED <<now, devices>> PROVE UNCHANGED Abstract!vars
  BY <1>4 DEF Abstract!vars, Status, SeenAt
<1>5. ASSUME NEW t \in Handlers, Call(t) PROVE UNCHANGED <<now, devices>>
  BY <1>5 DEF Call, Read
<1>6. ASSUME NEW t \in Threads, Notify(t) \/ Lock(t)
      PROVE  UNCHANGED <<now, devices>>
  BY <1>6 DEF Notify, Lock
<1>7. ASSUME NEW t \in Handlers,
             \/ PingRegister(t) \/ PingRejected(t) \/ PingRefresh(t)
             \/ CallMissing(t) \/ PingDeviceFound(t) \/ MarkOfflineFound(t)
      PROVE  UNCHANGED <<now, devices>>
  BY <1>7 DEF PingRegister, PingRejected, PingRefresh, CallMissing,
              PingDeviceFound, MarkOfflineFound, GoOn
<1>8. ASSUME SweepWake \/ (\E k \in IDs : ScanRead(k)) \/ ScanExpire
             \/ ScanSkip \/ ScanEnd \/ Subscribe \/ Start \/ UNCHANGED vars
      PROVE  UNCHANGED <<now, devices>>
  BY <1>8 DEF SweepWake, ScanRead, ScanExpire, ScanSkip, ScanEnd, SweepOver, GoOn,
              Subscribe, Start, vars
<1> QED
  BY <1>1, <1>2, <1>3, <1>4, <1>5, <1>6, <1>7, <1>8
  DEF Next, HandlerStep, SetDevice, SweepStep, Exit, MapFatal, Threads

\* The store of store.go, used through Ping and PingDevice and free of torn
\* reads, keeps the promises of Presence.
THEOREM Refinement ==
  ASSUME "torn" \notin RaceOutcomes, "MarkOffline" \notin Calls
  PROVE  Spec => ImplementsPresence
<1>1. Init => Abstract!Init
  BY DEF Init, NoDevices, Abstract!Init, Status, SeenAt
<1>2. TypeOK /\ StaleInv /\ SeenInThePast /\ [Next]_vars
        => [Abstract!Next]_Abstract!vars
  BY PresenceStep DEF StaleInv
<1> QED
  BY <1>1, <1>2, InitStaleInv, NextStaleInv, TimesOfPings, TypeCorrect, PTL
  DEF Spec, ImplementsPresence, Abstract!Spec

=============================================================================
