----------------------- MODULE DeviceStoreAuditProofs -----------------------
(***************************************************************************)
(* Proofs about what the store promises to calls that do not overlap, for  *)
(* any devices, handlers, messages, delays and calls.                      *)
(***************************************************************************)
EXTENDS DeviceStoreAudit, DeviceStoreProofs

-----------------------------------------------------------------------------
(* The inductive invariant. *)

\* Thread t is at work on id k.
Busy(t)     == pc[t] \notin {"idle", "sleep", "scan"}
Works(t, k) == Busy(t) /\ Target(t) = k

\* What a handler holds at each point of a call.
HandlerOK(t) ==
  /\ pc[t] = "idle" <=> op[t] = "none"
  /\ ~Busy(t) => msg[t] = NoMessage
  /\ Busy(t) => msg[t].id \in Devices
  /\ pc[t] = "found" \/ Carrying(t) => dev[t].id = msg[t].id
  /\ op[t] = "Register" => pc[t] \in {"lock", "write", "announce"}
  /\ pc[t] = "announce" => op[t] = "Register"
  /\ Carrying(t) => (dev[t].online <=> op[t] # "MarkOffline")
  /\ Carrying(t) /\ op[t] # "MarkOffline" => dev[t].pingedAt <= now

\* What the sweep holds; it only ever marks offline.
SweeperOK ==
  /\ op[Sweeper] = "none"
  /\ ~Busy(Sweeper) => dev[Sweeper] = ZeroDevice
  /\ Carrying(Sweeper) => ~dev[Sweeper].online

\* Before the subscription there is nothing to announce.
NothingYet ==
  \/ up /\ subscribed
  \/ DOMAIN devices = {} /\ ~Busy(Sweeper) /\ \A t \in Handlers : ~Busy(t)

\* The variables that watch have seen what goes on now.
Watching ==
  /\ acked \in [Devices -> Int] /\ \A k \in Devices : acked[k] <= now
  /\ RacedNow \subseteq raced /\ SweptNow \subseteq swept

Shape ==
  /\ TypeOK /\ LockDiscipline
  /\ (\A t \in Handlers : HandlerOK(t)) /\ SweeperOK /\ NothingYet /\ Watching

\* A ping that is yet to be announced, or will be once it is stored.
WillAnnounce(t) ==
  op[t] # "MarkOffline" /\ (pc[t] = "notify" \/ op[t] = "Register")

\* A ping that is yet to be stored.
WillStore(t) == op[t] # "MarkOffline" /\ pc[t] \in {"notify", "lock", "write"}

\* The last message about k was, or the next one will be, "online".
Up(k) ==
  notice[k] = "online" \/ \E t \in Handlers : Works(t, k) /\ WillAnnounce(t)

\* t has announced that k is offline and is about to store it.
Downs(t, k) == Works(t, k) /\ MarksOffline(t) /\ pc[t] \in {"lock", "write"}

\* How the message about an id and its record go together.
PingsUp(k) ==
  \A t \in Handlers :
    Works(t, k) /\ op[t] # "MarkOffline" /\ pc[t] # "missing" /\ dev[t].online => Up(k)
DownsTold(k) == \A t \in Threads : Downs(t, k) => notice[k] = "offline"
MarksFresh(k) ==
  \A t \in Handlers :
    Works(t, k) /\ op[t] = "MarkOffline" /\ pc[t] = "found" =>
      k \in DOMAIN devices /\ dev[t] = devices[k]
AnnouncesStored(k) ==
  \A t \in Handlers :
    Works(t, k) /\ pc[t] = "announce" => k \in DOMAIN devices /\ devices[k].online
RecordTold(k) ==
  k \in DOMAIN devices =>
    IF devices[k].online
      THEN Up(k) \/ \E t \in Threads : Downs(t, k)
      ELSE notice[k] = "offline" \/ \E t \in Handlers : Works(t, k) /\ WillStore(t)

NoticeInv(k) ==
  PingsUp(k) /\ DownsTold(k) /\ MarksFresh(k) /\ AnnouncesStored(k) /\ RecordTold(k)

\* Whatever holds a record of k holds the latest answered ping.
AckedInv(k) ==
  /\ k \in DOMAIN devices => devices[k].pingedAt >= acked[k]
  /\ \A t \in Threads : Works(t, k) /\ pc[t] # "missing" => dev[t].pingedAt >= acked[k]

\* A registration in progress.
Registers(t) == pc[t] = "missing" \/ (op[t] = "Register" /\ pc[t] # "announce")

\* Whatever holds a record of k holds its identity.
SameIdentity(d, e) == d.type = e.type /\ d.createdAt = e.createdAt
IdentityInv(k) ==
  \A t \in Threads : Works(t, k) =>
    IF Registers(t) THEN k \notin DOMAIN devices
                    ELSE k \in DOMAIN devices /\ SameIdentity(dev[t], devices[k])

NoticesOK    == \A k \in IDs \ swept : NoticeInv(k)
AckedOK      == \A k \in Devices \ (raced \union swept) : AckedInv(k)
IdentitiesOK == "torn" \notin RaceOutcomes => \A k \in IDs \ raced : IdentityInv(k)

-----------------------------------------------------------------------------
(* The shape of a state. *)

\* A thread that does not move keeps what it holds.
LEMMA HandlerFrame ==
  ASSUME TypeOK, now' \in Int, now' >= now, NEW t \in Handlers, HandlerOK(t),
         pc'[t] = pc[t], op'[t] = op[t], msg'[t] = msg[t], dev'[t] = dev[t]
  PROVE  HandlerOK(t)'
<1>1. now \in Int /\ dev[t].pingedAt \in Int
  BY DEF TypeOK, Device, Threads
<1> QED
  BY <1>1 DEF HandlerOK, Busy, Carrying

\* So a step of one thread is a matter of what that thread holds.
LEMMA HandlersFrame ==
  ASSUME TypeOK, now' \in Int, now' >= now, NEW t \in Threads, Alone(t),
         \A u \in Handlers : HandlerOK(u), t \in Handlers => HandlerOK(t)'
  PROVE  \A u \in Handlers : HandlerOK(u)'
BY HandlerFrame DEF Alone, Threads

Held == TypeOK /\ LockDiscipline /\ (\A t \in Handlers : HandlerOK(t)) /\ SweeperOK

\* A handler that returns holds nothing.
LEMMA ReturnedOK ==
  ASSUME NEW t \in Handlers, Returns(t)
  PROVE  HandlerOK(t)'
BY DEF Returns, Moves, HandlerOK, Busy, Carrying

\* Every step keeps what the handlers hold.
LEMMA HandlersKept ==
  ASSUME Held, [Next]_vars
  PROVE  \A u \in Handlers : HandlerOK(u)'
<1> USE ThreadsAssumption DEF ThreadsAssumption
<1>1. TypeOK /\ (\A t \in Handlers : HandlerOK(t))
  BY DEF Held
<1>2. now \in Int /\ now' \in Int /\ now' >= now
  BY <1>1, TimeGoesOn
<1>3. \A t \in Handlers : t \in Threads /\ t # Sweeper
  BY DEF Threads
<1>4. \A t \in Handlers :
        dev[t] \in Device /\ msg[t] \in Message /\ dev[t].pingedAt \in Int
  BY <1>1 DEF TypeOK, Device, Threads
<1>5. ASSUME NEW t \in Handlers, Call(t) PROVE HandlerOK(t)' /\ Alone(t)
  <2>1. PICK call \in {"Ping", "PingDevice", "MarkOffline"}, m \in Message :
           /\ m.id \in Devices
           /\ IF m.id \in DOMAIN devices
                THEN Moves(t, "found", call, m, devices[m.id])
                ELSE Moves(t, "missing", call, m, dev[t])
    BY <1>1, <1>5, CallEffect
  <2>2. \A k \in DOMAIN devices : devices[k].id = k
    BY <1>1 DEF TypeOK
  <2> QED
    BY <2>1, <2>2 DEF HandlerOK, Busy, Carrying, Moves
<1>6. ASSUME NEW t \in Handlers, PingRegister(t) PROVE HandlerOK(t)' /\ Alone(t)
  <2> DEFINE d == NewDevice(msg[t], now)
  <2>1. /\ pc[t] = "missing" /\ now' = now
        /\ Moves(t, "lock", "Register", msg[t], d)
    BY <1>1, <1>6, RegisterEffect DEF Inside
  <2>2. d.online /\ d.pingedAt = now /\ d.id = msg[t].id
    BY <1>2, <1>4, NewDeviceType
  <2> HIDE DEF d
  <2> QED
    BY <1>1, <1>2, <2>1, <2>2 DEF HandlerOK, Busy, Carrying, Moves
<1>7. ASSUME NEW t \in Handlers, PingRejected(t) \/ CallMissing(t)
      PROVE  HandlerOK(t)' /\ Alone(t)
  BY <1>1, <1>7, LeaveEffect, ReturnedOK DEF Returns, Moves
<1>8. ASSUME NEW t \in Handlers, PingRefresh(t) \/ PingDeviceFound(t)
      PROVE  HandlerOK(t)' /\ Alone(t)
  <2>1. PICK d \in Device :
           /\ d.online /\ d.pingedAt = now /\ d.id = dev[t].id
           /\ pc[t] = "found" /\ op[t] \in {"Ping", "PingDevice"} /\ now' = now
           /\ Moves(t, IF dev[t].online THEN "lock" ELSE "notify", op[t], msg[t], d)
    BY <1>1, <1>8, RefreshEffect DEF Inside
  <2> QED
    BY <1>1, <1>2, <2>1 DEF HandlerOK, Busy, Carrying, Moves
<1>9. ASSUME NEW t \in Handlers, MarkOfflineFound(t) PROVE HandlerOK(t)' /\ Alone(t)
  <2>1. /\ pc[t] = "found" /\ op[t] = "MarkOffline"
        /\ Moves(t, IF dev[t].online THEN "notify" ELSE "lock", op[t], msg[t],
                 Offline(dev[t]))
    BY <1>1, <1>9, MarkEffect
  <2>2. ~Offline(dev[t]).online /\ Offline(dev[t]).id = dev[t].id
    BY <1>4, OfflineKeeps
  <2> QED
    BY <1>1, <2>1, <2>2 DEF HandlerOK, Busy, Carrying, Moves
<1>10. ASSUME NEW t \in Threads, Notify(t)
       PROVE  (t \in Handlers => HandlerOK(t)') /\ Alone(t)
  <2>1. /\ pc[t] \in {"notify", "announce"} /\ now' = now
        /\ IF pc[t] = "notify" THEN Moves(t, "lock", op[t], msg[t], dev[t])
                               ELSE Returns(t)
    BY <1>1, <1>10, NotifyEffect
  <2>2. CASE pc[t] = "notify"
    BY <1>1, <2>1, <2>2 DEF HandlerOK, Busy, Carrying, Moves
  <2>3. CASE pc[t] # "notify"
    BY <2>1, <2>3, ReturnedOK DEF Returns, Moves
  <2> QED
    BY <2>2, <2>3
<1>11. ASSUME NEW t \in Threads, Lock(t)
       PROVE  (t \in Handlers => HandlerOK(t)') /\ Alone(t)
  <2>1. /\ pc[t] = "lock" /\ now' = now
        /\ Moves(t, "write", op[t], msg[t], dev[t])
    BY <1>1, <1>11, LockEffect DEF Inside
  <2> QED
    BY <1>1, <2>1 DEF HandlerOK, Busy, Carrying, Moves
<1>12. ASSUME NEW t \in Threads, Write(t)
       PROVE  (t \in Handlers => HandlerOK(t)') /\ Alone(t)
  <2>1. /\ pc[t] = "write" /\ now' = now
        /\ CASE t = Sweeper -> Moves(t, "scan", op[t], msg[t], ZeroDevice)
              [] t # Sweeper /\ op[t] = "Register" ->
                   Moves(t, "announce", op[t], msg[t], dev[t])
              [] t # Sweeper /\ op[t] # "Register" -> Returns(t)
    BY <1>1, <1>12, WriteEffect
  <2>2. CASE t = Sweeper
    BY <1>3, <2>1, <2>2 DEF Moves
  <2>3. CASE t # Sweeper /\ op[t] = "Register"
    BY <1>1, <2>1, <2>3 DEF HandlerOK, Busy, Carrying, Moves
  <2>4. CASE t # Sweeper /\ op[t] # "Register"
    BY <2>1, <2>4, ReturnedOK DEF Returns, Moves
  <2> QED
    BY <2>2, <2>3, <2>4
<1>13. ASSUME SweepWake \/ (\E k \in IDs : ScanRead(k)) \/ ScanExpire \/ ScanSkip
              \/ ScanEnd
       PROVE  Alone(Sweeper)
  BY <1>13 DEF SweepWake, ScanRead, ScanExpire, ScanSkip, ScanEnd, SweepOver, GoOn,
               NextKey, Goto, Alone, TypeOK, Held
<1>14. ASSUME Down PROVE \A u \in Handlers : HandlerOK(u)'
  BY <1>3, <1>14 DEF Down, Idle, HandlerOK, Busy, Carrying
<1>15. ASSUME Subscribe \/ Start \/ Tick \/ UNCHANGED vars
       PROVE  \A u \in Handlers : HandlerOK(u)'
  <2>1. pc' = pc /\ op' = op /\ msg' = msg /\ dev' = dev
    BY <1>15 DEF Subscribe, Start, Tick, vars, threadVars
  <2> QED
    BY <1>1, <1>2, <2>1, HandlerFrame
<1>16. ASSUME NEW t \in Threads, (t \in Handlers => HandlerOK(t)') /\ Alone(t)
       PROVE  \A u \in Handlers : HandlerOK(u)'
  BY <1>1, <1>2, <1>16, HandlersFrame
<1> QED
  BY <1>3, <1>5, <1>6, <1>7, <1>8, <1>9, <1>10, <1>11, <1>12, <1>13, <1>14, <1>15, <1>16
  DEF Next, HandlerStep, SetDevice, SweepStep, Exit, MapFatal, Threads

\* Every step keeps what the sweep holds.
LEMMA SweeperKept == ASSUME Held, [Next]_vars PROVE SweeperOK'
<1> USE ThreadsAssumption DEF ThreadsAssumption
<1>1. TypeOK /\ LockDiscipline /\ SweeperOK /\ Sweeper \in Threads
  BY DEF Held, Threads
<1>2. \A t \in Handlers : t \in Threads /\ t # Sweeper
  BY DEF Threads
<1>3. pc[Sweeper] \in SweepPCs /\ dev[Sweeper] \in Device
  BY <1>1 DEF TypeOK
<1>4. ASSUME pc'[Sweeper] = pc[Sweeper], op'[Sweeper] = op[Sweeper],
             dev'[Sweeper] = dev[Sweeper]
      PROVE  SweeperOK'
  BY <1>1, <1>4 DEF SweeperOK, Busy, Carrying
<1>5. ASSUME NEW t \in Handlers, Alone(t) PROVE SweeperOK'
  BY <1>1, <1>2, <1>4, <1>5 DEF Alone
<1>6. ASSUME NEW t \in Handlers, Call(t) \/ HandlerStep(t) PROVE Alone(t)
  BY <1>1, <1>2, <1>6
  DEF TypeOK, Alone, Call, Read, HandlerStep, SetDevice, PingRegister, PingRejected,
      PingRefresh, CallMissing, PingDeviceFound, MarkOfflineFound, Notify, Lock, Write,
      GoOn, Return, Goto
<1>7. ASSUME SweepWake \/ ScanEnd PROVE SweeperOK'
  BY <1>1, <1>7, WakeEndEffect DEF Moves, SweeperOK, Busy, Carrying
<1>8. ASSUME NEW k \in IDs, ScanRead(k) PROVE SweeperOK'
  <2>1. \E d \in Device : Moves(Sweeper, "check", op[Sweeper], msg[Sweeper], d)
    BY <1>1, <1>8, ReadEffect
  <2> QED
    BY <1>1, <2>1 DEF Moves, SweeperOK, Busy, Carrying
<1>9. ASSUME ScanExpire PROVE SweeperOK'
  BY <1>1, <1>3, <1>9, ExpireEffect, OfflineKeeps DEF Moves, SweeperOK, Busy, Carrying
<1>10. ASSUME ScanSkip PROVE SweeperOK'
  BY <1>1, <1>10, SkipEffect DEF Moves, SweeperOK, Busy, Carrying
<1>11. ASSUME Notify(Sweeper) PROVE SweeperOK'
  BY <1>1, <1>3, <1>11, NotifyEffect DEF Moves, SweeperOK, Busy, Carrying, SweepPCs
<1>12. ASSUME Lock(Sweeper) PROVE SweeperOK'
  BY <1>1, <1>12, LockEffect DEF Moves, SweeperOK, Busy, Carrying
<1>13. ASSUME Write(Sweeper) PROVE SweeperOK'
  BY <1>1, <1>13, WriteEffect DEF Moves, SweeperOK, Busy, Carrying
<1>14. ASSUME Down PROVE SweeperOK'
  BY <1>1, <1>14 DEF Down, Idle, SweeperOK, Busy, Carrying
<1>15. ASSUME Subscribe \/ Start \/ Tick \/ UNCHANGED vars PROVE SweeperOK'
  BY <1>4, <1>15 DEF Subscribe, Start, Tick, vars, threadVars
<1> QED
  BY <1>5, <1>6, <1>7, <1>8, <1>9, <1>10, <1>11, <1>12, <1>13, <1>14, <1>15
  DEF Next, SetDevice, SweepStep, Exit, MapFatal

\* Until the subscription nothing is stored, and nobody is at work.
LEMMA NothingKept == ASSUME Held, NothingYet, [Next]_vars PROVE NothingYet'
<1> USE ThreadsAssumption DEF ThreadsAssumption
<1>1. TypeOK /\ LockDiscipline /\ Sweeper \in Threads
  BY DEF Held, Threads
<1>2. \A t \in Handlers : t \in Threads /\ t # Sweeper
  BY DEF Threads
<1>3. CASE Down
  BY <1>1, <1>2, <1>3 DEF Down, NoDevices, Idle, NothingYet, Busy
<1>4. CASE ~Down /\ up /\ subscribed
  <2>1. up' /\ subscribed'
    BY <1>4
    DEF Next, HandlerStep, SetDevice, SweepStep, Exit, MapFatal, Call, Read, Notify, Lock,
        Write, PingRegister, PingRejected, PingRefresh, CallMissing, PingDeviceFound,
        MarkOfflineFound, GoOn, SweepWake, ScanRead, ScanExpire, ScanSkip, ScanEnd,
        SweepOver, Tick, Subscribe, Start, vars
  <2> QED
    BY <2>1 DEF NothingYet
<1>5. CASE ~Down /\ ~(up /\ subscribed)
  <2>1. DOMAIN devices = {} /\ ~Busy(Sweeper) /\ \A t \in Handlers : ~Busy(t)
    BY <1>5 DEF NothingYet
  <2>2. \A t \in Threads : pc[t] \in {"idle", "sleep", "scan"} /\ pc[t] # "write"
    BY <2>1 DEF Busy, Threads
  <2>3. \A t \in Handlers : ~Call(t) /\ pc[t] = "idle"
    <3>1. ASSUME NEW t \in Handlers PROVE pc[t] = "idle"
      BY <1>1, <1>2, <2>2 DEF TypeOK, HandlerPCs
    <3>2. ASSUME NEW t \in Handlers PROVE ~Call(t)
      BY <1>5 DEF Call, Read
    <3> QED
      BY <3>1, <3>2
  <2>4. \A k \in IDs : ~ScanRead(k)
    <3>1. \A k \in IDs : Snapshots(k) = {}
      BY <1>1, <2>1, <2>2
      DEF Snapshots, BeingWritten, LockDiscipline, TypeOK
    <3> QED
      BY <3>1 DEF ScanRead
  <2>5. \/ UNCHANGED <<devices, pc>>
        \/ UNCHANGED devices /\ (SweepWake \/ ScanEnd)
    BY <1>5, <2>2, <2>3, <2>4
    DEF Next, HandlerStep, SetDevice, SweepStep, Exit, MapFatal, Notify, Lock,
        Write, PingRegister, PingRejected, PingRefresh, CallMissing, PingDeviceFound,
        MarkOfflineFound, GoOn, SweepWake, ScanExpire, ScanSkip, ScanEnd,
        SweepOver, Tick, Subscribe, Start, vars, threadVars, Threads
  <2>6. CASE UNCHANGED <<devices, pc>>
    BY <2>1, <2>6 DEF NothingYet, Busy
  <2>7. CASE UNCHANGED devices /\ (SweepWake \/ ScanEnd)
    <3>1. \A t \in Threads : pc'[t] = pc[t] \/ pc'[t] \in {"sleep", "scan"}
      BY <1>1, <2>7, WakeEndEffect DEF Moves, Alone
    <3> QED
      BY <2>1, <2>7, <3>1, <1>1, <1>2 DEF NothingYet, Busy
  <2> QED
    BY <2>5, <2>6, <2>7
<1> QED
  BY <1>3, <1>4, <1>5

\* What the watching variables hold of the next state.
LEMMA WatchEffect ==
  ASSUME Held, Watching, [AuditNext]_<<vars, auditVars>>
  PROVE  /\ [Next]_vars
         /\ acked' \in [Devices -> Int]
         /\ \A k \in Devices : acked'[k] <= now'
         /\ up' => /\ raced \subseteq raced' /\ swept \subseteq swept'
                   /\ RacedNow' \subseteq raced' /\ SweptNow' \subseteq swept'
<1> USE ThreadsAssumption DEF ThreadsAssumption
<1>1. TypeOK /\ \A t \in Handlers : HandlerOK(t)
  BY DEF Held
<1>2. [Next]_vars
  BY DEF AuditNext
<1>3. now \in Nat /\ now' \in Int /\ now' >= now
  BY <1>1, <1>2, TimeGoesOn, TimeAssumption DEF TypeOK, TimeAssumption
<1>4. acked \in [Devices -> Int] /\ \A k \in Devices : acked[k] <= now
  BY DEF Watching
<1>5. CASE Next /\ Watch
  <2>1. ASSUME NEW k \in Devices
        PROVE  LET a == CASE ~up' -> ZeroTime
                          [] AcksPing(k) /\ dev[mu].pingedAt > acked[k] -> dev[mu].pingedAt
                          [] OTHER -> acked[k]
               IN  a \in Int /\ a <= now'
    <3>1. ZeroTime \in Int /\ ZeroTime <= now'
      BY <1>3, TimeAssumption DEF ZeroTime, TimeAssumption
    <3>2. acked[k] \in Int /\ acked[k] <= now'
      BY <1>3, <1>4
    <3>3. AcksPing(k) => dev[mu].pingedAt \in Int /\ dev[mu].pingedAt <= now'
      <4>1. SUFFICES ASSUME AcksPing(k)
                     PROVE  dev[mu].pingedAt \in Int /\ dev[mu].pingedAt <= now'
        OBVIOUS
      <4>2. mu \in Handlers /\ pc[mu] = "write" /\ op[mu] # "MarkOffline"
        BY <4>1 DEF AcksPing, Stores
      <4>3. dev[mu].pingedAt <= now
        BY <1>1, <4>2 DEF HandlerOK, Carrying
      <4>4. dev[mu].pingedAt \in Int
        BY <1>1, <4>2 DEF TypeOK, Device, Threads
      <4> QED
        BY <1>3, <4>3, <4>4
    <3> QED
      BY <3>1, <3>2, <3>3
  <2> QED
    BY <1>2, <1>5, <2>1 DEF Watch
<1>6. CASE UNCHANGED <<vars, auditVars>>
  <2>1. /\ UNCHANGED vars /\ acked' = acked /\ raced' = raced /\ swept' = swept
        /\ now' = now
    BY <1>6 DEF auditVars, vars
  <2>2. RacedNow' = RacedNow /\ SweptNow' = SweptNow
    BY <2>1 DEF RacedNow, SweptNow, Overlap, Target, MarksOffline, vars, threadVars
  <2> QED
    BY <1>2, <1>4, <2>1, <2>2 DEF Watching
<1> QED
  BY <1>5, <1>6 DEF AuditNext

\* Every step keeps the shape.
LEMMA ShapeKept == ASSUME Shape, [AuditNext]_<<vars, auditVars>> PROVE Shape'
<1>1. Held /\ NothingYet /\ Watching
  BY DEF Shape, Held
<1>2. /\ [Next]_vars
      /\ acked' \in [Devices -> Int] /\ \A k \in Devices : acked'[k] <= now'
      /\ up' => RacedNow' \subseteq raced' /\ SweptNow' \subseteq swept'
  BY <1>1, WatchEffect
<1>3. TypeOK' /\ LockDiscipline'
  BY <1>1, <1>2, NextTypeOK, NextLockDiscipline DEF Held
<1>4. (\A t \in Handlers : HandlerOK(t)') /\ SweeperOK' /\ NothingYet'
  BY <1>1, <1>2, HandlersKept, SweeperKept, NothingKept
<1>5. ~up' => RacedNow' = {} /\ SweptNow' = {}
  BY ONLY <1>4, ThreadsAssumption, DataAssumption
  DEF NothingYet, HandlerOK, RacedNow, SweptNow, Overlap, Target, NoMessage,
      DataAssumption, ThreadsAssumption, Threads
<1>6. Watching'
  BY <1>2, <1>5 DEF Watching
<1> QED
  BY <1>3, <1>4, <1>6 DEF Shape

\* The initial state has the shape.
LEMMA InitShape == AuditInit => Shape
<1> SUFFICES ASSUME AuditInit PROVE Shape
  OBVIOUS
<1> USE ThreadsAssumption DEF ThreadsAssumption
<1>1. Init
  BY DEF AuditInit
<1>2. TypeOK
  BY <1>1, InitTypeOK
<1>3. /\ \A t \in Threads : /\ op[t] = "none" /\ msg[t] = NoMessage
                            /\ dev[t] = ZeroDevice
                            /\ pc[t] = IF t = Sweeper THEN "sleep" ELSE "idle"
      /\ mu = NoThread /\ DOMAIN devices = {} /\ now = 0
  BY <1>1 DEF Init, Idle, NoDevices
<1>4. \A t \in Handlers : HandlerOK(t)
  BY <1>3 DEF HandlerOK, Busy, Carrying, Threads
<1>5. SweeperOK /\ LockDiscipline /\ NothingYet
  BY <1>3 DEF SweeperOK, Busy, Carrying, Threads, LockDiscipline, NothingYet
<1>6. RacedNow = {} /\ SweptNow = {}
  BY <1>3, DataAssumption
  DEF RacedNow, SweptNow, Overlap, Target, NoMessage, ZeroDevice, Threads, DataAssumption
<1>7. acked \in [Devices -> Int] /\ \A k \in Devices : acked[k] <= now
  BY <1>3, TimeAssumption DEF AuditInit, ZeroTime, TimeAssumption
<1> QED
  BY <1>2, <1>4, <1>5, <1>6, <1>7 DEF Shape, Watching

-----------------------------------------------------------------------------
(* A step is about one id. *)

\* What is kept about id k.
SameRecord(k) ==
  /\ k \in DOMAIN devices' <=> k \in DOMAIN devices
  /\ k \in DOMAIN devices => devices'[k] = devices[k]

Elsewhere(k) ==
  /\ \A t \in Threads : /\ Works(t, k)' <=> Works(t, k)
                        /\ Works(t, k) => /\ pc'[t] = pc[t] /\ op'[t] = op[t]
                                          /\ msg'[t] = msg[t] /\ dev'[t] = dev[t]
  /\ SameRecord(k)
  /\ notice'[k] = notice[k]

\* A thread that works on another id before and after its step.
LEMMA ElsewhereOf ==
  ASSUME NEW k, NEW t \in Threads, Alone(t), ~Works(t, k), ~Works(t, k)',
         SameRecord(k), notice'[k] = notice[k]
  PROVE  Elsewhere(k)
BY DEF Elsewhere, Alone, Works, Busy, Target

\* Nobody comes to or goes from any id.
LEMMA ElsewhereIdle ==
  ASSUME Inside, pc' = pc, op' = op, msg' = msg, dev' = dev, NEW k
  PROVE  Elsewhere(k)
BY DEF Inside, Elsewhere, SameRecord, Works, Busy, Target

\* What Works says of a thread whose message, or record, keeps its id.
LEMMA KeepsTarget ==
  ASSUME NEW k, NEW t \in Threads, ~Works(t, k), Busy(t),
         t # Sweeper => msg'[t] = msg[t], t = Sweeper => dev'[t].id = dev[t].id
  PROVE  ~Works(t, k)'
BY DEF Works, Target

\* A thread that is back works on nothing.
LEMMA LeavesTarget ==
  ASSUME NEW k, NEW t \in Threads, pc'[t] \in {"idle", "scan", "sleep"}
  PROVE  ~Works(t, k)'
BY DEF Works, Busy

\* The steps that are about k.
AboutK(k) ==
  \/ \E t \in Handlers : Call(t) /\ Works(t, k)'
  \/ \E t \in Handlers :
       /\ Works(t, k)
       /\ \/ PingRegister(t) \/ PingRejected(t) \/ PingRefresh(t)
          \/ CallMissing(t) \/ PingDeviceFound(t) \/ MarkOfflineFound(t)
  \/ \E t \in Threads : Works(t, k) /\ SetDevice(t)
  \/ \E j \in IDs : ScanRead(j) /\ Works(Sweeper, k)'
  \/ Works(Sweeper, k) /\ (ScanExpire \/ ScanSkip)

\* What a thread that carries a record carries is about the id it works on.
LEMMA CarriedTarget ==
  ASSUME Shape, NEW t \in Threads, Carrying(t)
  PROVE  Busy(t) /\ Target(t) = dev[t].id
BY ThreadsAssumption
DEF ThreadsAssumption, Shape, HandlerOK, Carrying, Busy, Target, Threads

\* Every step is about k or leaves all that concerns k alone.
LEMMA OneId ==
  ASSUME Shape, [Next]_vars, up', NEW k \in IDs
  PROVE  Elsewhere(k) \/ AboutK(k)
<1> USE ThreadsAssumption DEF ThreadsAssumption
<1>1. TypeOK /\ LockDiscipline /\ \A t \in Handlers : HandlerOK(t)
  BY DEF Shape
<1>2. Sweeper \in Threads /\ \A t \in Handlers : t \in Threads /\ t # Sweeper
  BY DEF Threads
<1>3. \A t \in Threads : dev[t] \in Device
  BY <1>1 DEF TypeOK
<1>4. Inside => SameRecord(k) /\ notice'[k] = notice[k]
  BY DEF Inside, SameRecord
<1>5. ASSUME NEW t \in Handlers, Call(t) PROVE Elsewhere(k) \/ AboutK(k)
  <2>1. /\ pc[t] = "idle" /\ Inside /\ Alone(t)
    BY <1>1, <1>5, CallEffect DEF Moves
  <2>2. ~Works(t, k)
    BY <2>1 DEF Works, Busy
  <2> QED
    BY <1>2, <1>4, <1>5, <2>1, <2>2, ElsewhereOf DEF AboutK
<1>6. ASSUME NEW t \in Handlers,
             \/ PingRegister(t) \/ PingRejected(t) \/ PingRefresh(t)
             \/ CallMissing(t) \/ PingDeviceFound(t) \/ MarkOfflineFound(t)
      PROVE  Elsewhere(k) \/ AboutK(k)
  <2>1. /\ Inside /\ Alone(t) /\ pc[t] \in {"found", "missing"}
        /\ msg'[t] = msg[t] \/ pc'[t] = "idle"
    BY <1>1, <1>6, RegisterEffect, LeaveEffect, RefreshEffect, MarkEffect
    DEF Moves, Returns
  <2>2. Busy(t)
    BY <2>1 DEF Busy
  <2>3. ~Works(t, k) => ~Works(t, k)'
    BY <1>2, <2>1, <2>2, KeepsTarget, LeavesTarget
  <2> QED
    BY <1>2, <1>4, <1>6, <2>1, <2>3, ElsewhereOf DEF AboutK
<1>7. ASSUME NEW t \in Threads, SetDevice(t) PROVE Elsewhere(k) \/ AboutK(k)
  <2>1. SUFFICES ASSUME ~Works(t, k) PROVE Elsewhere(k)
    BY <1>7 DEF AboutK
  <2>2. Carrying(t)
    BY <1>7 DEF SetDevice, Notify, Lock, Write, Carrying
  <2>3. Busy(t) /\ dev[t].id # k
    BY <2>1, <2>2, CarriedTarget DEF Works
  <2>4. CASE Notify(t)
    <3>1. /\ UNCHANGED devices /\ notice'[k] = notice[k] /\ Alone(t)
          /\ pc'[t] = "idle" \/ (msg'[t] = msg[t] /\ dev'[t] = dev[t])
      BY <1>1, <2>3, <2>4, NotifyEffect DEF Moves, Returns
    <3>2. ~Works(t, k)'
      BY <2>1, <2>3, <3>1, KeepsTarget, LeavesTarget
    <3> QED
      BY <2>1, <3>1, <3>2, ElsewhereOf DEF SameRecord
  <2>5. CASE Lock(t)
    <3>1. Inside /\ Alone(t) /\ msg'[t] = msg[t] /\ dev'[t] = dev[t]
      BY <1>1, <2>5, LockEffect DEF Moves
    <3>2. ~Works(t, k)'
      BY <2>1, <2>3, <3>1, KeepsTarget
    <3> QED
      BY <1>4, <2>1, <3>1, <3>2, ElsewhereOf
  <2>6. CASE Write(t)
    <3>1. /\ UNCHANGED notice
          /\ DOMAIN devices' = DOMAIN devices \union {dev[t].id}
          /\ \A j \in DOMAIN devices \ {dev[t].id} : devices'[j] = devices[j]
          /\ CASE t = Sweeper -> Moves(t, "scan", op[t], msg[t], ZeroDevice)
               [] t # Sweeper /\ op[t] = "Register" ->
                    Moves(t, "announce", op[t], msg[t], dev[t])
               [] t # Sweeper /\ op[t] # "Register" -> Returns(t)
      BY <1>1, <2>6, WriteEffect
    <3>2. Alone(t) /\ (pc'[t] \in {"idle", "scan"} \/ (t # Sweeper /\ msg'[t] = msg[t]))
      BY <3>1 DEF Moves, Returns
    <3>3. ~Works(t, k)'
      BY <2>1, <2>3, <3>2, KeepsTarget, LeavesTarget
    <3> QED
      BY <2>1, <2>3, <3>1, <3>2, <3>3, ElsewhereOf DEF SameRecord
  <2> QED
    BY <1>7, <2>4, <2>5, <2>6 DEF SetDevice
<1>8. ASSUME NEW j \in IDs, ScanRead(j) PROVE Elsewhere(k) \/ AboutK(k)
  <2>1. pc[Sweeper] = "scan" /\ Inside /\ Alone(Sweeper)
    BY <1>1, <1>8, ReadEffect DEF Moves
  <2>2. ~Works(Sweeper, k)
    BY <2>1 DEF Works, Busy
  <2> QED
    BY <1>2, <1>4, <1>8, <2>1, <2>2, ElsewhereOf DEF AboutK
<1>9. ASSUME ScanExpire \/ ScanSkip PROVE Elsewhere(k) \/ AboutK(k)
  <2>1. SUFFICES ASSUME ~Works(Sweeper, k) PROVE Elsewhere(k)
    BY <1>9 DEF AboutK
  <2>2. /\ pc[Sweeper] = "check" /\ Inside /\ Alone(Sweeper)
        /\ pc'[Sweeper] = "scan" \/ dev'[Sweeper].id = dev[Sweeper].id
    BY <1>1, <1>2, <1>3, <1>9, ExpireEffect, SkipEffect, OfflineKeeps DEF Moves
  <2>3. ~Works(Sweeper, k)'
    BY <1>2, <2>1, <2>2, KeepsTarget, LeavesTarget DEF Busy
  <2> QED
    BY <1>2, <1>4, <2>1, <2>2, <2>3, ElsewhereOf
<1>10. ASSUME SweepWake \/ ScanEnd PROVE Elsewhere(k)
  <2>1. /\ pc[Sweeper] \in {"sleep", "scan"} /\ Inside /\ Alone(Sweeper)
        /\ pc'[Sweeper] \in {"sleep", "scan"}
    BY <1>1, <1>10, WakeEndEffect DEF Moves
  <2>2. ~Works(Sweeper, k) /\ ~Works(Sweeper, k)'
    BY <2>1 DEF Works, Busy
  <2> QED
    BY <1>2, <1>4, <2>1, <2>2, ElsewhereOf
<1>11. ASSUME Subscribe \/ Start \/ Tick \/ UNCHANGED vars PROVE Elsewhere(k)
  <2>1. /\ pc' = pc /\ op' = op /\ msg' = msg /\ dev' = dev
        /\ devices' = devices /\ notice' = notice
    BY <1>11 DEF Subscribe, Start, Tick, vars, threadVars
  <2> QED
    BY <2>1 DEF Elsewhere, SameRecord, Works, Busy, Target
<1>12. ~Down
  BY DEF Down
<1> QED
  BY <1>2, <1>5, <1>6, <1>7, <1>8, <1>9, <1>10, <1>11, <1>12
  DEF Next, HandlerStep, SetDevice, SweepStep, Exit, MapFatal, Threads

-----------------------------------------------------------------------------
(* Who works on an id that calls have not overlapped on. *)

\* Whoever marks an id offline works on it alone.
LEMMA Apart ==
  ASSUME Shape, NEW k \in IDs \ swept, NEW t \in Threads, NEW u \in Threads,
         Works(t, k), Works(u, k), MarksOffline(u)
  PROVE  t = u
<1> USE ThreadsAssumption DEF ThreadsAssumption
<1>1. SUFFICES ASSUME t # u PROVE FALSE
  OBVIOUS
<1>2. \A h \in Handlers : Works(h, k) => k \in Devices
  BY DEF Shape, HandlerOK, Works, Target, Threads
<1>3. CASE t \in Handlers
  BY <1>1, <1>2, <1>3 DEF Shape, Watching, SweptNow, Overlap, Works
<1>4. CASE t = Sweeper
  <2>1. u \in Handlers
    BY <1>1, <1>4 DEF Threads
  <2> QED
    BY <1>1, <1>2, <1>4, <2>1 DEF Shape, Watching, SweptNow, Overlap, Works, MarksOffline
<1> QED
  BY <1>3, <1>4 DEF Threads

\* At most one thread works on a device that no calls have overlapped on.
LEMMA Sole ==
  ASSUME Shape, NEW k \in Devices \ (raced \union swept),
         NEW t \in Threads, NEW u \in Threads, Works(t, k), Works(u, k)
  PROVE  t = u
<1> USE ThreadsAssumption DEF ThreadsAssumption
<1>1. CASE t \in Handlers /\ u \in Handlers
  BY <1>1 DEF Shape, Watching, RacedNow, Overlap, Works
<1>2. CASE t = Sweeper \/ u = Sweeper
  BY <1>2, Apart DEF MarksOffline, IDs
<1> QED
  BY <1>1, <1>2 DEF Threads

-----------------------------------------------------------------------------
(* The last message and the record. *)

\* A step that is not about k.
LEMMA NoticeElsewhere ==
  ASSUME NEW k, NoticeInv(k), Elsewhere(k)
  PROVE  NoticeInv(k)'
<1>1. Up(k) => Up(k)'
  BY DEF Elsewhere, Up, WillAnnounce, Threads
<1>2. \A t \in Threads : Downs(t, k) <=> Downs(t, k)'
  BY DEF Elsewhere, Downs, MarksOffline
<1>3. \A t \in Handlers : Works(t, k) /\ WillStore(t) => Works(t, k)' /\ WillStore(t)'
  BY DEF Elsewhere, WillStore, Threads
<1>4. PingsUp(k)'
  BY <1>1 DEF NoticeInv, PingsUp, Elsewhere, Threads
<1>5. DownsTold(k)'
  BY <1>2 DEF NoticeInv, DownsTold, Elsewhere
<1>6. MarksFresh(k)' /\ AnnouncesStored(k)'
  BY DEF NoticeInv, MarksFresh, AnnouncesStored, Elsewhere, SameRecord, Threads
<1>7. RecordTold(k)'
  BY <1>1, <1>2, <1>3 DEF NoticeInv, RecordTold, Elsewhere, SameRecord
<1> QED
  BY <1>4, <1>5, <1>6, <1>7 DEF NoticeInv

\* A step in which one thread moves on and the records stay: what the other
\* threads do is what they did.
LEMMA OthersStay ==
  ASSUME NEW k, NEW t \in Threads, Alone(t)
  PROVE  \A u \in Threads \ {t} :
           /\ Works(u, k)' <=> Works(u, k)
           /\ Downs(u, k)' <=> Downs(u, k)
           /\ WillAnnounce(u)' <=> WillAnnounce(u)
           /\ WillStore(u)' <=> WillStore(u)
           /\ pc'[u] = pc[u] /\ op'[u] = op[u] /\ dev'[u] = dev[u]
BY DEF Alone, Works, Busy, Target, Downs, WillAnnounce, WillStore, MarksOffline

\* A call begins.
LEMMA NoticeCall ==
  ASSUME Shape, NEW k \in IDs, NoticeInv(k), NEW t \in Handlers, Call(t), Works(t, k)',
         up' => SweptNow' \subseteq swept', k \notin swept'
  PROVE  NoticeInv(k)'
<1> USE ThreadsAssumption DEF ThreadsAssumption
<1>1. PICK call \in {"Ping", "PingDevice", "MarkOffline"}, m \in Message :
           /\ m.id \in Devices /\ pc[t] = "idle" /\ mu = NoThread
           /\ up /\ subscribed /\ Inside /\ UNCHANGED mu
           /\ IF m.id \in DOMAIN devices
                THEN Moves(t, "found", call, m, devices[m.id])
                ELSE Moves(t, "missing", call, m, dev[t])
  BY CallEffect DEF Shape
<1>2. t \in Threads /\ t # Sweeper /\ Alone(t) /\ msg'[t] = m /\ op'[t] = call
  BY <1>1 DEF Threads, Moves
<1>3. m.id = k /\ k \in Devices
  BY <1>1, <1>2 DEF Works, Target
<1>4. /\ pc'[t] = IF k \in DOMAIN devices THEN "found" ELSE "missing"
      /\ k \in DOMAIN devices => dev'[t] = devices[k]
      /\ devices' = devices /\ notice' = notice /\ up'
  BY <1>1, <1>3 DEF Moves, Inside
<1>5. ~Works(t, k) /\ ~Downs(t, k) /\ ~Downs(t, k)' /\ ~WillStore(t)
  BY <1>1, <1>4 DEF Works, Busy, Downs, WillStore
<1>6. /\ Up(k) => Up(k)'
      /\ \A u \in Threads : Downs(u, k)' <=> Downs(u, k)
  BY <1>2, <1>4, <1>5, OthersStay DEF Up, Threads
<1>7. \A u \in Threads : ~Downs(u, k)
  <2>1. SUFFICES ASSUME NEW u \in Threads, Downs(u, k)' PROVE FALSE
    BY <1>6
  <2>2. u # t /\ Target(u)' = k /\ MarksOffline(u)'
    BY <1>5, <2>1 DEF Downs, Works
  <2>3. Target(t)' = k
    BY DEF Works
  <2>4. k \in SweptNow'
    BY <1>3, <2>2, <2>3 DEF SweptNow, Overlap
  <2> QED
    BY <1>4, <2>4
<1>8. k \in DOMAIN devices /\ devices[k].online => Up(k)
  BY <1>7 DEF NoticeInv, RecordTold
<1>9. PingsUp(k)'
  <2>1. SUFFICES ASSUME NEW u \in Handlers,
                        (Works(u, k) /\ op[u] # "MarkOffline" /\ pc[u] # "missing"
                           /\ dev[u].online)'
                 PROVE  Up(k)'
    BY DEF PingsUp
  <2>2. CASE u = t
    BY <1>4, <1>6, <1>8, <2>1, <2>2
  <2>3. CASE u # t
    BY <1>2, <1>6, <2>1, <2>3, OthersStay DEF NoticeInv, PingsUp, Threads
  <2> QED
    BY <2>2, <2>3
<1>10. DownsTold(k)'
  BY <1>6, <1>7 DEF DownsTold
<1>11. MarksFresh(k)' /\ AnnouncesStored(k)'
  <2>1. ASSUME NEW u \in Handlers, Works(u, k)'
        PROVE  /\ (op[u] = "MarkOffline" /\ pc[u] = "found")' =>
                    k \in DOMAIN devices' /\ dev'[u] = devices'[k]
               /\ pc'[u] = "announce" => k \in DOMAIN devices' /\ devices'[k].online
    <3>1. CASE u = t
      BY <1>4, <3>1
    <3>2. CASE u # t
      BY <1>2, <1>4, <2>1, <3>2, OthersStay
      DEF NoticeInv, MarksFresh, AnnouncesStored, Threads
    <3> QED
      BY <3>1, <3>2
  <2> QED
    BY <2>1 DEF MarksFresh, AnnouncesStored
<1>12. RecordTold(k)'
  <2>1. \A u \in Handlers : Works(u, k) /\ WillStore(u) => Works(u, k)' /\ WillStore(u)'
    BY <1>2, <1>5, OthersStay DEF Threads
  <2> QED
    BY <1>4, <1>6, <1>8, <2>1 DEF NoticeInv, RecordTold
<1> QED
  BY <1>9, <1>10, <1>11, <1>12 DEF NoticeInv

\* The sweep reads a record, or the empty record of a torn registration.
LEMMA NoticeScan ==
  ASSUME Shape, NEW k \in IDs, NoticeInv(k), NEW j \in IDs, ScanRead(j)
  PROVE  NoticeInv(k)'
<1> USE ThreadsAssumption DEF ThreadsAssumption
<1>1. /\ pc[Sweeper] = "scan" /\ pc'[Sweeper] = "check" /\ Alone(Sweeper)
      /\ devices' = devices /\ notice' = notice
  BY ReadEffect DEF Shape, Moves, Inside
<1>2. Sweeper \in Threads /\ \A t \in Handlers : t \in Threads \ {Sweeper}
  BY DEF Threads
<1>3. ~Downs(Sweeper, k) /\ ~Downs(Sweeper, k)'
  BY <1>1 DEF Downs
<1>4. \A u \in Threads : Downs(u, k)' <=> Downs(u, k)
  BY <1>1, <1>2, <1>3, OthersStay
<1>5. \A u \in Handlers :
        /\ Works(u, k)' <=> Works(u, k)
        /\ WillAnnounce(u)' <=> WillAnnounce(u)
        /\ WillStore(u)' <=> WillStore(u)
        /\ pc'[u] = pc[u] /\ op'[u] = op[u] /\ dev'[u] = dev[u]
  BY <1>1, <1>2, OthersStay
<1>6. Up(k) => Up(k)'
  BY <1>1, <1>5 DEF Up
<1>7. PingsUp(k)' /\ DownsTold(k)'
  BY <1>1, <1>4, <1>5, <1>6 DEF NoticeInv, PingsUp, DownsTold
<1>8. MarksFresh(k)' /\ AnnouncesStored(k)'
  BY <1>1, <1>5 DEF NoticeInv, MarksFresh, AnnouncesStored
<1>9. RecordTold(k)'
  BY <1>1, <1>4, <1>5, <1>6 DEF NoticeInv, RecordTold
<1> QED
  BY <1>7, <1>8, <1>9 DEF NoticeInv

\* A ping that moves on without a write: the others stay, and what matters is
\* whether the ping still announces and still stores.
LEMMA NoticePing ==
  ASSUME Shape, NEW k \in IDs \ swept, NoticeInv(k),
         NEW t \in Handlers, Works(t, k), Alone(t), op[t] # "MarkOffline",
         UNCHANGED <<devices, notice>>,
         op'[t] # "MarkOffline",
         Up(k) => Up(k)',
         (Works(t, k) /\ pc[t] # "missing" /\ dev[t].online)' => Up(k)',
         Works(t, k) /\ WillStore(t) => Works(t, k)' /\ WillStore(t)',
         (Works(t, k) /\ pc[t] = "announce")' => k \in DOMAIN devices /\ devices[k].online
  PROVE  NoticeInv(k)'
<1> USE ThreadsAssumption DEF ThreadsAssumption
<1>1. t \in Threads /\ t # Sweeper
  BY DEF Threads
<1>2. ~MarksOffline(t) /\ ~MarksOffline(t)'
  BY <1>1 DEF MarksOffline
<1>3. \A u \in Threads : ~Downs(u, k)
  BY <1>1, <1>2, Apart DEF Downs
<1>4. \A u \in Threads : ~Downs(u, k)'
  BY <1>1, <1>2, <1>3, OthersStay DEF Downs
<1>5. \A u \in Handlers : Works(u, k) => op[u] # "MarkOffline"
  BY <1>1, <1>2, Apart DEF MarksOffline, Threads
<1>6. \A u \in Handlers : Works(u, k)' => op'[u] # "MarkOffline"
  BY <1>1, <1>2, <1>5, OthersStay DEF Threads
<1>7. PingsUp(k)'
  <2>1. SUFFICES ASSUME NEW u \in Handlers,
                        (Works(u, k) /\ op[u] # "MarkOffline" /\ pc[u] # "missing"
                           /\ dev[u].online)'
                 PROVE  Up(k)'
    BY DEF PingsUp
  <2>2. CASE u = t
    BY <2>1, <2>2
  <2>3. CASE u # t
    BY <1>1, <2>1, <2>3, OthersStay DEF NoticeInv, PingsUp, Threads
  <2> QED
    BY <2>2, <2>3
<1>8. DownsTold(k)' /\ MarksFresh(k)'
  BY <1>4, <1>6 DEF DownsTold, MarksFresh
<1>9. AnnouncesStored(k)'
  BY <1>1, OthersStay DEF NoticeInv, AnnouncesStored, Threads
<1>10. RecordTold(k)'
  <2>1. \A u \in Handlers : Works(u, k) /\ WillStore(u) => Works(u, k)' /\ WillStore(u)'
    BY <1>1, OthersStay DEF Threads
  <2> QED
    BY <1>3, <2>1 DEF NoticeInv, RecordTold
<1> QED
  BY <1>7, <1>8, <1>9, <1>10 DEF NoticeInv

\* While one marks k offline, the message about k is right, or is offline and
\* the record is about to be.
LEMMA NoticeOfMarker ==
  ASSUME Shape, NEW k \in IDs \ swept, NoticeInv(k),
         NEW t \in Threads, Works(t, k), MarksOffline(t)
  PROVE  /\ \A u \in Threads \ {t} : ~Works(u, k)
         /\ Downs(t, k) => notice[k] = "offline"
         /\ k \in DOMAIN devices =>
              IF devices[k].online THEN notice[k] = "online" \/ Downs(t, k)
                                   ELSE notice[k] = "offline"
<1> USE ThreadsAssumption DEF ThreadsAssumption
<1>1. \A u \in Threads \ {t} : ~Works(u, k)
  BY Apart
<1>2. \A u \in Handlers : Works(u, k) => op[u] = "MarkOffline"
  BY <1>1 DEF MarksOffline, Threads
<1>3. Up(k) => notice[k] = "online"
  BY <1>2 DEF Up, WillAnnounce
<1>4. \A u \in Threads : Downs(u, k) => u = t
  BY <1>1 DEF Downs
<1>5. \A u \in Handlers : Works(u, k) => ~WillStore(u)
  BY <1>2 DEF WillStore
<1> QED
  BY <1>1, <1>3, <1>4, <1>5 DEF NoticeInv, DownsTold, RecordTold

\* A step of one that marks k offline.
LEMMA NoticeMark ==
  ASSUME NEW k \in IDs, NEW t \in Threads, Alone(t),
         \A u \in Threads \ {t} : ~Works(u, k),
         pc'[t] \notin {"found", "announce"},
         Works(t, k)' => t = Sweeper \/ op'[t] = "MarkOffline",
         Downs(t, k)' => notice'[k] = "offline",
         k \in DOMAIN devices' =>
           IF devices'[k].online THEN notice'[k] = "online" \/ Downs(t, k)'
                                 ELSE notice'[k] = "offline"
  PROVE  NoticeInv(k)'
<1> USE ThreadsAssumption DEF ThreadsAssumption
<1>1. \A u \in Threads : Works(u, k)' => u = t
  BY OthersStay
<1>2. PingsUp(k)' /\ MarksFresh(k)' /\ AnnouncesStored(k)'
  BY <1>1 DEF PingsUp, MarksFresh, AnnouncesStored, Threads
<1>3. DownsTold(k)'
  BY <1>1 DEF DownsTold, Downs
<1>4. RecordTold(k)'
  BY DEF RecordTold, Up
<1> QED
  BY <1>2, <1>3, <1>4 DEF NoticeInv

\* A ping that does not announce and does not store may leave, and a ping that
\* leaves without a store told nothing.
LEMMA UpWithout ==
  ASSUME NEW k, NEW t \in Threads, Alone(t), notice'[k] = notice[k], Up(k),
         Works(t, k) /\ WillAnnounce(t) => Works(t, k)' /\ WillAnnounce(t)'
  PROVE  Up(k)'
BY OthersStay DEF Up, Threads

\* The steps of a handler that works on k, up to its write.
LEMMA NoticeHandler ==
  ASSUME Shape, NEW k \in IDs \ swept, NoticeInv(k), NEW t \in Handlers, Works(t, k),
         \/ PingRegister(t) \/ PingRejected(t) \/ PingRefresh(t)
         \/ CallMissing(t) \/ PingDeviceFound(t) \/ MarkOfflineFound(t)
  PROVE  NoticeInv(k)'
<1> USE ThreadsAssumption DEF ThreadsAssumption
<1>1. TypeOK /\ HandlerOK(t) /\ t \in Threads /\ t # Sweeper
  BY DEF Shape, Threads
<1>2. Target(t) = msg[t].id /\ msg[t].id = k /\ dev[t] \in Device
  BY <1>1 DEF Works, Target, TypeOK
<1>3. CASE PingRegister(t)
  <2>1. /\ pc[t] = "missing" /\ op[t] = "Ping" /\ UNCHANGED <<devices, notice>>
        /\ Alone(t) /\ pc'[t] = "lock" /\ op'[t] = "Register" /\ msg'[t] = msg[t]
    BY <1>1, <1>3, RegisterEffect DEF Moves, Inside
  <2>2. Works(t, k)' /\ WillAnnounce(t)' /\ WillStore(t)'
    BY <1>1, <1>2, <2>1 DEF Works, Busy, Target, WillAnnounce, WillStore
  <2>3. Up(k)'
    BY <2>2 DEF Up
  <2> QED
    BY <1>1, <2>1, <2>2, <2>3, NoticePing
<1>4. CASE PingRejected(t) \/ CallMissing(t)
  <2>1. /\ pc[t] \in {"found", "missing"} /\ UNCHANGED <<devices, notice>>
        /\ Alone(t) /\ pc'[t] = "idle" /\ op'[t] = "none"
    BY <1>1, <1>4, LeaveEffect DEF Returns, Moves, Inside
  <2>2. ~Works(t, k)' /\ ~Downs(t, k) /\ ~Downs(t, k)' /\ ~WillStore(t) /\ ~WillAnnounce(t)
    BY <1>1, <2>1 DEF Works, Busy, Downs, WillStore, WillAnnounce, HandlerOK
  <2>3. CASE op[t] = "MarkOffline"
    BY <1>1, <2>1, <2>2, <2>3, NoticeOfMarker, NoticeMark DEF MarksOffline
  <2>4. CASE op[t] # "MarkOffline"
    <3>1. Up(k) => Up(k)'
      BY <1>1, <2>1, <2>2, UpWithout
    <3> QED
      BY <1>1, <2>1, <2>2, <2>4, <3>1, NoticePing
  <2> QED
    BY <2>3, <2>4
<1>5. CASE PingRefresh(t) \/ PingDeviceFound(t)
  <2>1. PICK d \in Device :
           /\ d.online
           /\ pc[t] = "found" /\ op[t] \in {"Ping", "PingDevice"}
           /\ Inside
           /\ Moves(t, IF dev[t].online THEN "lock" ELSE "notify", op[t], msg[t], d)
    BY <1>1, <1>5, RefreshEffect
  <2>2. /\ UNCHANGED <<devices, notice>> /\ Alone(t)
        /\ pc'[t] = (IF dev[t].online THEN "lock" ELSE "notify")
        /\ op'[t] = op[t] /\ msg'[t] = msg[t]
    BY <2>1 DEF Inside, Moves
  <2>3. Works(t, k)' /\ WillStore(t)'
    BY <1>1, <1>2, <2>1, <2>2 DEF Works, Busy, Target, WillStore
  <2>4. ~WillAnnounce(t)
    BY <2>1 DEF WillAnnounce
  <2>5. Up(k)'
    <3>1. CASE dev[t].online
      <4>1. Up(k)
        BY <2>1, <3>1 DEF NoticeInv, PingsUp
      <4> QED
        BY <1>1, <2>2, <2>4, <4>1, UpWithout
    <3>2. CASE ~dev[t].online
      BY <2>1, <2>2, <2>3, <3>2 DEF Up, WillAnnounce
    <3> QED
      BY <3>1, <3>2
  <2> QED
    BY <1>1, <2>1, <2>2, <2>3, <2>5, NoticePing
<1>6. CASE MarkOfflineFound(t)
  <2>1. /\ pc[t] = "found" /\ op[t] = "MarkOffline" /\ UNCHANGED <<devices, notice>>
        /\ Alone(t) /\ pc'[t] = (IF dev[t].online THEN "notify" ELSE "lock")
        /\ op'[t] = op[t] /\ msg'[t] = msg[t]
    BY <1>1, <1>6, MarkEffect DEF Moves, Inside
  <2>2. /\ \A u \in Threads \ {t} : ~Works(u, k)
        /\ IF devices[k].online THEN notice[k] = "online" ELSE notice[k] = "offline"
        /\ dev[t] = devices[k]
    BY <1>1, <2>1, NoticeOfMarker DEF MarksOffline, Downs, NoticeInv, MarksFresh
  <2>3. Downs(t, k)' => ~dev[t].online
    BY <2>1 DEF Downs
  <2> QED
    BY <1>1, <2>1, <2>2, <2>3, NoticeMark
<1> QED
  BY <1>3, <1>4, <1>5, <1>6

\* The steps every thread takes.
LEMMA NoticeSetDevice ==
  ASSUME Shape, NEW k \in IDs \ swept, NoticeInv(k), NEW t \in Threads, Works(t, k),
         SetDevice(t)
  PROVE  NoticeInv(k)'
<1> USE ThreadsAssumption DEF ThreadsAssumption
<1>1. TypeOK /\ NothingYet /\ SweeperOK /\ \A u \in Handlers : HandlerOK(u)
  BY DEF Shape
<1>2. Carrying(t)
  BY DEF SetDevice, Notify, Lock, Write, Carrying
<1>3. dev[t].id = k /\ Target(t) = k /\ Busy(t) /\ dev[t] \in Device
  BY <1>1, <1>2, CarriedTarget DEF Works, TypeOK
<1>4. up /\ subscribed
  BY <1>1, <1>3 DEF NothingYet, Threads
<1>5. dev[t].online <=> ~MarksOffline(t)
  BY <1>1, <1>2 DEF HandlerOK, SweeperOK, MarksOffline, Threads
<1>6. CASE Notify(t)
  <2>1. /\ pc[t] \in {"notify", "announce"} /\ UNCHANGED devices
        /\ notice'[k] = StatusOf(dev[t])
        /\ IF pc[t] = "notify" THEN Moves(t, "lock", op[t], msg[t], dev[t])
                               ELSE Returns(t)
    BY <1>1, <1>3, <1>4, <1>6, NotifyEffect
  <2>2. /\ Alone(t) /\ (pc'[t] = "idle" \/ (pc'[t] = "lock" /\ op'[t] = op[t]))
    BY <2>1 DEF Moves, Returns
  <2>3. CASE MarksOffline(t)
    <3>1. notice'[k] = "offline" /\ pc[t] = "notify"
      BY <1>1, <1>5, <2>1, <2>3 DEF StatusOf, HandlerOK, MarksOffline, TypeOK, SweepPCs, Threads
    <3>2. pc'[t] = "lock" /\ op'[t] = op[t] /\ msg'[t] = msg[t] /\ dev'[t] = dev[t]
      BY <2>1, <3>1 DEF Moves
    <3>3. Works(t, k)' /\ Downs(t, k)'
      BY <1>3, <2>3, <3>2 DEF Works, Busy, Target, Downs, MarksOffline
    <3>4. \A u \in Threads \ {t} : ~Works(u, k)
      BY <2>3, Apart
    <3> QED
      BY <2>2, <2>3, <3>1, <3>2, <3>3, <3>4, NoticeMark DEF MarksOffline
  <2>4. CASE ~MarksOffline(t)
    <3>1. notice'[k] = "online"
      BY <1>5, <2>1, <2>4 DEF StatusOf
    <3>2. Up(k)' /\ t \in Handlers /\ op[t] # "MarkOffline"
      BY <2>4, <3>1 DEF Up, MarksOffline, Threads
    <3>3. \A u \in Threads : Works(u, k) => ~MarksOffline(u)
      BY <2>4, Apart
    <3>4. \A u \in Handlers \ {t} :
            /\ Works(u, k)' => op'[u] # "MarkOffline"
            /\ Works(u, k)' <=> Works(u, k)
            /\ WillStore(u)' <=> WillStore(u)
            /\ pc'[u] = pc[u]
      BY <2>2, <3>3, OthersStay DEF MarksOffline, Threads
    <3>5. PingsUp(k)'
      BY <3>2 DEF PingsUp
    <3>6. \A u \in Threads : ~Downs(u, k)'
      <4>1. ~Downs(t, k)'
        BY <2>2, <2>4, <3>2 DEF Downs, MarksOffline, Works, Busy
      <4> QED
        BY <2>2, <3>3, <4>1, OthersStay DEF Downs
    <3>7. MarksFresh(k)' /\ DownsTold(k)'
      BY <2>2, <3>4, <3>6 DEF MarksFresh, DownsTold
    <3>8. AnnouncesStored(k)'
      <4>1. devices' = devices /\ pc'[t] # "announce"
        BY <2>1, <2>2
      <4>2. \A u \in Handlers : Works(u, k)' /\ pc'[u] = "announce" =>
              Works(u, k) /\ pc[u] = "announce"
        BY <3>4, <4>1
      <4> QED
        BY <4>1, <4>2 DEF NoticeInv, AnnouncesStored
    <3>9. RecordTold(k)'
      <4>1. SUFFICES ASSUME k \in DOMAIN devices, ~devices[k].online
                     PROVE  \E u \in Handlers : Works(u, k)' /\ WillStore(u)'
        BY <2>1, <3>2 DEF RecordTold
      <4>2. CASE pc[t] = "notify"
        <5>1. pc'[t] = "lock" /\ op'[t] = op[t] /\ msg'[t] = msg[t] /\ dev'[t] = dev[t]
          BY <2>1, <4>2 DEF Moves
        <5>2. Works(t, k)' /\ WillStore(t)'
          BY <1>3, <3>2, <5>1 DEF Works, Busy, Target, WillStore
        <5> QED
          BY <3>2, <5>2
      <4>3. CASE pc[t] = "announce"
        BY <3>2, <4>1, <4>3 DEF NoticeInv, AnnouncesStored
      <4> QED
        BY <2>1, <4>2, <4>3
    <3> QED
      BY <3>5, <3>7, <3>8, <3>9 DEF NoticeInv
  <2> QED
    BY <2>3, <2>4
<1>7. CASE Lock(t)
  <2>1. /\ pc[t] = "lock" /\ UNCHANGED <<devices, notice>> /\ Alone(t)
        /\ pc'[t] = "write" /\ op'[t] = op[t] /\ msg'[t] = msg[t] /\ dev'[t] = dev[t]
    BY <1>1, <1>7, LockEffect DEF Inside, Moves
  <2>2. /\ Works(t, k)' /\ (Downs(t, k)' <=> Downs(t, k))
        /\ (WillAnnounce(t)' <=> WillAnnounce(t)) /\ (WillStore(t)' <=> WillStore(t))
    BY <1>3, <2>1 DEF Works, Busy, Target, Downs, MarksOffline, WillAnnounce, WillStore
  <2>3. CASE MarksOffline(t)
    BY <2>1, <2>2, <2>3, NoticeOfMarker, NoticeMark DEF MarksOffline
  <2>4. CASE ~MarksOffline(t)
    <3>1. t \in Handlers /\ op[t] # "MarkOffline"
      BY <2>4 DEF MarksOffline, Threads
    <3>2. Up(k) => Up(k)'
      BY <2>1, <2>2, UpWithout
    <3>3. Up(k)
      BY <1>5, <2>1, <2>4, <3>1 DEF NoticeInv, PingsUp
    <3> QED
      BY <2>1, <2>2, <3>1, <3>2, <3>3, NoticePing
  <2> QED
    BY <2>3, <2>4
<1>8. CASE Write(t)
  <2>1. /\ pc[t] = "write" /\ notice' = notice
        /\ k \in DOMAIN devices' /\ devices'[k] = dev[t]
        /\ CASE t = Sweeper -> Moves(t, "scan", op[t], msg[t], ZeroDevice)
              [] t # Sweeper /\ op[t] = "Register" ->
                   Moves(t, "announce", op[t], msg[t], dev[t])
              [] t # Sweeper /\ op[t] # "Register" -> Returns(t)
    BY <1>1, <1>3, <1>8, WriteEffect
  <2>2. Alone(t)
    BY <2>1 DEF Moves, Returns
  <2>3. CASE MarksOffline(t)
    <3>1. /\ notice[k] = "offline" /\ \A u \in Threads \ {t} : ~Works(u, k)
      BY <2>1, <2>3, NoticeOfMarker DEF Downs
    <3>2. pc'[t] \in {"idle", "scan"}
      BY <1>1, <2>1, <2>3 DEF MarksOffline, Moves, Returns
    <3>3. ~Works(t, k)'
      BY <3>2 DEF Works, Busy
    <3> QED
      BY <1>5, <2>1, <2>2, <2>3, <3>1, <3>2, <3>3, NoticeMark DEF Downs
  <2>4. CASE ~MarksOffline(t)
    <3>1. t \in Handlers /\ op[t] # "MarkOffline" /\ dev[t].online /\ t # Sweeper
      BY <1>5, <2>4 DEF MarksOffline, Threads
    <3>2. Up(k)
      BY <2>1, <3>1 DEF NoticeInv, PingsUp
    <3>3. \/ pc'[t] = "announce" /\ op'[t] = op[t] /\ msg'[t] = msg[t] /\ op[t] = "Register"
          \/ pc'[t] = "idle" /\ op'[t] = "none" /\ op[t] # "Register"
      BY <2>1, <3>1 DEF Moves, Returns
    <3>4. Up(k)'
      <4>1. WillAnnounce(t) => Works(t, k)' /\ WillAnnounce(t)'
        BY <1>3, <2>1, <3>1, <3>3 DEF WillAnnounce, Works, Busy, Target
      <4> QED
        BY <2>1, <2>2, <3>2, <4>1, UpWithout
    <3>5. \A u \in Threads : Works(u, k) => ~MarksOffline(u)
      BY <2>4, Apart
    <3>6. \A u \in Handlers : Works(u, k)' => op'[u] # "MarkOffline"
      BY <2>2, <3>1, <3>3, <3>5, OthersStay DEF MarksOffline, Threads
    <3>7. \A u \in Threads : ~Downs(u, k)'
      <4>1. ~Downs(t, k)'
        BY <3>3 DEF Downs
      <4> QED
        BY <2>2, <3>5, <4>1, OthersStay DEF Downs
    <3>8. PingsUp(k)' /\ DownsTold(k)' /\ MarksFresh(k)'
      BY <3>4, <3>6, <3>7 DEF PingsUp, DownsTold, MarksFresh
    <3>9. AnnouncesStored(k)' /\ RecordTold(k)'
      BY <2>1, <3>1, <3>4 DEF AnnouncesStored, RecordTold
    <3> QED
      BY <3>8, <3>9 DEF NoticeInv
  <2> QED
    BY <2>3, <2>4
<1> QED
  BY <1>6, <1>7, <1>8 DEF SetDevice

\* The sweep goes on with the record of k, or with the next key.
LEMMA NoticeSweep ==
  ASSUME Shape, NEW k \in IDs \ swept, NoticeInv(k), Works(Sweeper, k),
         ScanExpire \/ ScanSkip
  PROVE  NoticeInv(k)'
<1> USE ThreadsAssumption DEF ThreadsAssumption
<1>1. TypeOK /\ Sweeper \in Threads /\ MarksOffline(Sweeper)
  BY DEF Shape, Threads, MarksOffline
<1>2. /\ pc[Sweeper] = "check" /\ UNCHANGED <<devices, notice>> /\ Alone(Sweeper)
      /\ pc'[Sweeper] \in {"notify", "scan"}
  BY <1>1, ExpireEffect, SkipEffect DEF Moves, Inside
<1>3. ~Downs(Sweeper, k) /\ ~Downs(Sweeper, k)'
  BY <1>2 DEF Downs
<1> QED
  BY <1>1, <1>2, <1>3, NoticeOfMarker, NoticeMark

\* Every step keeps what ties the messages to the records.
LEMMA NoticesKept ==
  ASSUME Shape, Shape', NoticesOK, [AuditNext]_<<vars, auditVars>>
  PROVE  NoticesOK'
<1>1. SUFFICES ASSUME NEW k \in IDs, k \notin swept' PROVE NoticeInv(k)'
  BY DEF NoticesOK
<1>2. CASE ~up'
  <2>1. DOMAIN devices' = {} /\ ~Busy(Sweeper)' /\ \A t \in Handlers : ~Busy(t)'
    BY <1>2 DEF Shape, NothingYet
  <2>2. \A t \in Threads : ~Works(t, k)'
    BY <2>1 DEF Works, Threads
  <2> QED
    BY <2>1, <2>2
    DEF NoticeInv, PingsUp, DownsTold, Downs, MarksFresh, AnnouncesStored, RecordTold,
        Threads
<1>3. CASE up'
  <2>1. /\ [Next]_vars /\ swept \subseteq swept' /\ SweptNow' \subseteq swept'
    BY <1>3, WatchEffect DEF Shape, Held
  <2>2. NoticeInv(k) /\ k \in IDs \ swept
    BY <1>1, <2>1 DEF NoticesOK
  <2>3. Elsewhere(k) \/ AboutK(k)
    BY <1>3, <2>1, OneId
  <2>4. CASE Elsewhere(k)
    BY <2>2, <2>4, NoticeElsewhere
  <2>5. CASE AboutK(k)
    BY <1>1, <2>1, <2>2, <2>5, NoticeCall, NoticeHandler, NoticeSetDevice, NoticeScan,
       NoticeSweep DEF AboutK
  <2> QED
    BY <2>3, <2>4, <2>5
<1> QED
  BY <1>2, <1>3

\* Once nobody works on an id, the last message about it tells the stored status
\* (store.go:114-116, 142-146, 94-95), unless a call has overlapped with the
\* sweep or with a MarkOffline on it; calls of Ping and PingDevice may overlap as
\* they like.
THEOREM NoticesAgree == AuditSpec => []NoticeAgrees
<1>1. AuditInit => Shape /\ NoticesOK
  <2>1. AuditInit => DOMAIN devices = {} /\ \A t \in Threads : ~Busy(t)
    BY DEF AuditInit, Init, NoDevices, Idle, Busy
  <2>2. AuditInit => NoticesOK
    BY <2>1
    DEF NoticesOK, NoticeInv, PingsUp, DownsTold, Downs, MarksFresh, AnnouncesStored,
        RecordTold, Works, Threads
  <2> QED
    BY <2>2, InitShape
<1>2. Shape /\ NoticesOK /\ [AuditNext]_<<vars, auditVars>> => (Shape /\ NoticesOK)'
  BY ShapeKept, NoticesKept
<1>3. Shape /\ NoticesOK => NoticeAgrees
  <2>1. SUFFICES ASSUME Shape, NoticesOK, NEW k \in DOMAIN devices, Quiet(k), k \notin swept
                 PROVE  notice[k] = StatusOf(devices[k])
    BY DEF NoticeAgrees
  <2>2. RecordTold(k)
    BY <2>1 DEF Shape, TypeOK, NoticesOK, NoticeInv
  <2>3. \A t \in Threads : ~Works(t, k)
    BY <2>1 DEF Quiet, Works
  <2> QED
    BY <2>1, <2>2, <2>3 DEF RecordTold, Up, Downs, StatusOf, Threads
<1> QED
  BY <1>1, <1>2, <1>3, PTL DEF AuditSpec

-----------------------------------------------------------------------------
(* The latest answered ping. *)

\* Only a write is the answer to a ping.
LEMMA AckedBy ==
  ASSUME Held, Watching, AuditNext, up', NEW k \in Devices
  PROVE  \/ acked'[k] = acked[k]
         \/ /\ mu \in Handlers /\ pc[mu] = "write" /\ pc'[mu] # "write"
            /\ dev[mu].id = k /\ acked'[k] = dev[mu].pingedAt
BY DEF AuditNext, Watch, AcksPing, Stores

\* A write is the step of the thread that holds the lock.
LEMMA WriterIs ==
  ASSUME Held, NEW t \in Threads, pc[t] = "write"
  PROVE  mu = t
BY DEF Held, LockDiscipline

\* A step that is not about k.
LEMMA AckedElsewhere ==
  ASSUME Shape, AuditNext, up', NEW k \in Devices, AckedInv(k), Elsewhere(k)
  PROVE  AckedInv(k)'
<1>1. Held /\ Watching
  BY DEF Shape, Held
<1>2. acked'[k] = acked[k]
  <2>1. SUFFICES ASSUME mu \in Handlers, pc[mu] = "write", pc'[mu] # "write",
                        dev[mu].id = k
                 PROVE  FALSE
    BY <1>1, AckedBy
  <2>2. mu \in Threads /\ Works(mu, k)
    BY <2>1, CarriedTarget DEF Carrying, Works, Threads
  <2> QED
    BY <2>1, <2>2 DEF Elsewhere
<1> QED
  BY <1>2 DEF AckedInv, Elsewhere, SameRecord

\* A step of t about k: the other threads do not work on k.
LEMMA AckedStep ==
  ASSUME NEW k \in Devices, AckedInv(k), NEW t \in Threads, Alone(t),
         \A u \in Threads \ {t} : ~Works(u, k),
         k \in DOMAIN devices' => devices'[k].pingedAt >= acked'[k],
         Works(t, k)' /\ pc'[t] # "missing" => dev'[t].pingedAt >= acked'[k]
  PROVE  AckedInv(k)'
BY OthersStay DEF AckedInv

\* Every step keeps the latest answered ping of an id nothing overlapped on.
LEMMA AckedKept ==
  ASSUME Shape, Shape', AckedOK, AuditNext
  PROVE  AckedOK'
<1> USE ThreadsAssumption DEF ThreadsAssumption
<1>1. SUFFICES ASSUME NEW k \in Devices, k \notin raced' \union swept' PROVE AckedInv(k)'
  BY DEF AckedOK
<1>2. CASE ~up'
  <2>1. DOMAIN devices' = {} /\ ~Busy(Sweeper)' /\ \A t \in Handlers : ~Busy(t)'
    BY <1>2 DEF Shape, NothingYet
  <2> QED
    BY <2>1 DEF AckedInv, Works, Threads
<1>3. CASE up'
  <2>1. /\ [Next]_vars /\ Held /\ Watching
        /\ raced \subseteq raced' /\ swept \subseteq swept'
        /\ RacedNow' \subseteq raced' /\ SweptNow' \subseteq swept'
    BY <1>3, WatchEffect DEF Shape, Held
  <2>2. AckedInv(k) /\ k \in Devices \ (raced \union swept) /\ k \in IDs
    BY <1>1, <2>1 DEF AckedOK, IDs
  <2>3. /\ TypeOK /\ LockDiscipline /\ (\A t \in Handlers : HandlerOK(t))
        /\ now \in Int /\ acked[k] \in Int /\ acked[k] <= now
    BY DEF Shape, Watching, TypeOK
  <2>4. \A t \in Threads : dev[t] \in Device /\ dev[t].pingedAt \in Int
    BY <2>3 DEF TypeOK, Device
  <2>5. ASSUME NEW t \in Threads, Works(t, k)
        PROVE  \A u \in Threads \ {t} : ~Works(u, k)
    BY <2>2, <2>5, Sole
  <2>6. ASSUME NEW t \in Threads, Alone(t), Works(t, k)'
        PROVE  \A u \in Threads \ {t} : ~Works(u, k)
    <3>1. SUFFICES ASSUME NEW u \in Threads \ {t}, Works(u, k)' PROVE FALSE
      BY <2>6, OthersStay
    <3>2. Overlap(t, u, k)' /\ Overlap(u, t, k)'
      BY <2>6, <3>1 DEF Works, Overlap
    <3>3. \/ t \in Handlers /\ u \in Handlers
          \/ t = Sweeper /\ u \in Handlers
          \/ u = Sweeper /\ t \in Handlers
      BY <3>1 DEF Threads
    <3>4. k \in RacedNow' \union SweptNow'
      BY <3>2, <3>3 DEF RacedNow, SweptNow, MarksOffline
    <3> QED
      BY <1>1, <2>1, <3>4
  <2>7. ASSUME NEW t \in Threads, pc[t] # "write", Alone(t)
        PROVE  acked'[k] = acked[k]
    <3>1. SUFFICES ASSUME mu \in Handlers, pc[mu] = "write", pc'[mu] # "write"
                   PROVE  FALSE
      BY <1>3, <2>1, AckedBy
    <3>2. mu \in Threads \ {t}
      BY <2>7, <3>1 DEF Threads
    <3> QED
      BY <2>7, <3>1, <3>2 DEF Alone
  <2>8. ASSUME NEW t \in Handlers, Call(t), Works(t, k)' PROVE AckedInv(k)'
    <3>1. PICK call \in {"Ping", "PingDevice", "MarkOffline"}, m \in Message :
             /\ pc[t] = "idle" /\ Inside
             /\ IF m.id \in DOMAIN devices
                  THEN Moves(t, "found", call, m, devices[m.id])
                  ELSE Moves(t, "missing", call, m, dev[t])
      BY <2>3, <2>8, CallEffect
    <3>2. t \in Threads /\ t # Sweeper /\ Alone(t) /\ msg'[t] = m
      BY <3>1 DEF Threads, Moves
    <3>3. m.id = k
      BY <2>8, <3>2 DEF Works, Target
    <3>4. /\ devices' = devices
          /\ IF k \in DOMAIN devices THEN dev'[t] = devices[k] ELSE pc'[t] = "missing"
      BY <3>1, <3>3 DEF Moves, Inside
    <3>5. acked'[k] = acked[k]
      BY <2>7, <3>1, <3>2
    <3> QED
      BY <2>2, <2>6, <2>8, <3>2, <3>4, <3>5, AckedStep DEF AckedInv
  <2>9. ASSUME NEW t \in Handlers, Works(t, k),
               \/ PingRegister(t) \/ PingRejected(t) \/ PingRefresh(t)
               \/ CallMissing(t) \/ PingDeviceFound(t) \/ MarkOfflineFound(t)
        PROVE  AckedInv(k)'
    <3>1. t \in Threads /\ msg[t] \in Message
      BY <2>3 DEF Threads, TypeOK
    <3>2. /\ pc[t] \in {"found", "missing"} /\ devices' = devices /\ Alone(t)
          /\ \/ pc'[t] = "idle"
             \/ dev'[t].pingedAt = now
             \/ dev'[t].pingedAt = dev[t].pingedAt /\ pc[t] = "found"
      BY <2>3, <2>4, <2>9, <3>1, RegisterEffect, NewDeviceType, LeaveEffect, RefreshEffect,
         MarkEffect, OfflineKeeps
      DEF Moves, Returns, Inside
    <3>3. acked'[k] = acked[k]
      BY <2>7, <3>1, <3>2
    <3>4. Works(t, k)' => dev'[t].pingedAt >= acked[k]
      BY <2>2, <2>3, <2>9, <3>1, <3>2 DEF AckedInv, Works, Busy
    <3> QED
      BY <2>2, <2>5, <2>9, <3>1, <3>2, <3>3, <3>4, AckedStep DEF AckedInv
  <2>10. ASSUME NEW t \in Threads, Works(t, k), Notify(t) \/ Lock(t) PROVE AckedInv(k)'
    <3>1. /\ pc[t] \in {"notify", "announce", "lock"} /\ devices' = devices /\ Alone(t)
          /\ pc'[t] = "idle" \/ dev'[t] = dev[t]
      BY <2>3, <2>10, NotifyEffect, LockEffect DEF Moves, Returns, Inside
    <3>2. acked'[k] = acked[k]
      BY <2>7, <3>1
    <3>3. Works(t, k)' => dev'[t].pingedAt >= acked[k]
      BY <2>2, <2>10, <3>1 DEF AckedInv, Works, Busy
    <3> QED
      BY <2>2, <2>5, <2>10, <3>1, <3>2, <3>3, AckedStep DEF AckedInv
  <2>11. ASSUME NEW t \in Threads, Works(t, k), Write(t) PROVE AckedInv(k)'
    <3>1. Carrying(t)
      BY <2>11 DEF Write, Carrying
    <3>2. dev[t].id = k
      BY <2>11, <3>1, CarriedTarget DEF Works
    <3>3. /\ pc[t] = "write" /\ devices'[k] = dev[t]
          /\ CASE t = Sweeper -> Moves(t, "scan", op[t], msg[t], ZeroDevice)
                [] t # Sweeper /\ op[t] = "Register" ->
                     Moves(t, "announce", op[t], msg[t], dev[t])
                [] t # Sweeper /\ op[t] # "Register" -> Returns(t)
      BY <2>3, <2>11, <3>2, WriteEffect
    <3>4. /\ Alone(t)
          /\ pc'[t] \in {"idle", "scan"} \/ dev'[t] = dev[t]
      BY <3>3 DEF Moves, Returns
    <3>5. mu = t
      BY <2>1, <3>3, WriterIs
    <3>6. dev[t].pingedAt >= acked[k]
      BY <2>2, <2>11, <3>3 DEF AckedInv
    <3>7. dev[t].pingedAt >= acked'[k]
      BY <1>3, <2>1, <2>4, <3>5, <3>6, AckedBy
    <3>8. Works(t, k)' => dev'[t].pingedAt >= acked'[k]
      BY <3>4, <3>7 DEF Works, Busy
    <3> QED
      BY <2>2, <2>5, <2>11, <3>3, <3>4, <3>7, <3>8, AckedStep
  <2>12. ASSUME NEW j \in IDs, ScanRead(j), Works(Sweeper, k)' PROVE AckedInv(k)'
    <3>1. PICK d \in Device :
            /\ pc[Sweeper] = "scan" /\ Inside
            /\ Moves(Sweeper, "check", op[Sweeper], msg[Sweeper], d)
            /\ \/ j \in DOMAIN devices /\ d = devices[j] /\ d.id = j
               \/ /\ d.id \in {j, NoID}
                  /\ \E u \in Handlers : pc[u] = "write" /\ dev[u].id = j
      BY <2>3, <2>12, ReadEffect
    <3>2. /\ Sweeper \in Threads /\ Alone(Sweeper) /\ dev'[Sweeper] = d
          /\ devices' = devices
      BY <3>1 DEF Threads, Moves, Inside
    <3>3. d.id = k
      BY <2>12, <3>2 DEF Works, Target
    <3>4. \A u \in Threads \ {Sweeper} : ~Works(u, k)
      BY <2>6, <2>12, <3>2
    <3>5. k \in DOMAIN devices /\ d = devices[k]
      <4>1. SUFFICES ASSUME d.id \in {j, NoID},
                            NEW u \in Handlers, pc[u] = "write", dev[u].id = j
                     PROVE  FALSE
        BY <3>1, <3>3
      <4>2. j = k
        BY <3>3, <4>1, DataAssumption DEF DataAssumption
      <4>3. u \in Threads \ {Sweeper} /\ Carrying(u)
        BY <4>1 DEF Threads, Carrying
      <4>4. Works(u, k)
        BY <4>1, <4>2, <4>3, CarriedTarget DEF Works
      <4> QED
        BY <3>4, <4>3, <4>4
    <3>6. acked'[k] = acked[k]
      BY <2>7, <3>1, <3>2
    <3> QED
      BY <2>2, <3>2, <3>4, <3>5, <3>6, AckedStep DEF AckedInv
  <2>13. ASSUME Works(Sweeper, k), ScanExpire \/ ScanSkip PROVE AckedInv(k)'
    <3>1. Sweeper \in Threads
      BY DEF Threads
    <3>2. /\ pc[Sweeper] = "check" /\ devices' = devices /\ Alone(Sweeper)
          /\ pc'[Sweeper] = "scan" \/ dev'[Sweeper].pingedAt = dev[Sweeper].pingedAt
      BY <2>3, <2>4, <2>13, <3>1, ExpireEffect, SkipEffect, OfflineKeeps DEF Moves, Inside
    <3>3. acked'[k] = acked[k]
      BY <2>7, <3>1, <3>2
    <3>4. Works(Sweeper, k)' => dev'[Sweeper].pingedAt >= acked[k]
      BY <2>2, <2>13, <3>1, <3>2 DEF AckedInv, Works, Busy
    <3> QED
      BY <2>2, <2>5, <2>13, <3>1, <3>2, <3>3, <3>4, AckedStep DEF AckedInv
  <2>14. Elsewhere(k) \/ AboutK(k)
    BY <1>3, <2>1, <2>2, OneId
  <2>15. CASE Elsewhere(k)
    BY <1>3, <2>2, <2>15, AckedElsewhere
  <2>16. CASE AboutK(k)
    BY <2>8, <2>9, <2>10, <2>11, <2>12, <2>13, <2>16 DEF AboutK, SetDevice
  <2> QED
    BY <2>14, <2>15, <2>16
<1> QED
  BY <1>2, <1>3

\* An answered ping is never undone by an older one (store.go:101) on a device
\* that no two handlers, and no handler together with the sweep, worked on at
\* once; of overlaps on other devices, and of torn reads, it is independent.
THEOREM AnswersKept == AuditSpec => []AnsweredPingKept
<1>1. AuditInit => Shape /\ AckedOK
  <2>1. AuditInit => DOMAIN devices = {} /\ \A t \in Threads : ~Busy(t)
    BY DEF AuditInit, Init, NoDevices, Idle, Busy
  <2>2. AuditInit => AckedOK
    BY <2>1 DEF AckedOK, AckedInv, Works
  <2> QED
    BY <2>2, InitShape
<1>2. Shape /\ AckedOK /\ [AuditNext]_<<vars, auditVars>> => (Shape /\ AckedOK)'
  <2>1. SUFFICES ASSUME Shape, AckedOK, [AuditNext]_<<vars, auditVars>>
                 PROVE  Shape' /\ AckedOK'
    OBVIOUS
  <2>2. Shape'
    BY <2>1, ShapeKept
  <2>3. CASE AuditNext
    BY <2>1, <2>2, <2>3, AckedKept
  <2>4. CASE UNCHANGED <<vars, auditVars>>
    <3>1. /\ pc' = pc /\ msg' = msg /\ dev' = dev /\ devices' = devices
          /\ acked' = acked /\ raced' = raced /\ swept' = swept
      BY <2>4 DEF vars, threadVars, auditVars
    <3>2. ASSUME NEW k, NEW t PROVE Works(t, k)' <=> Works(t, k)
      BY <3>1 DEF Works, Busy, Target
    <3>3. ASSUME NEW k, AckedInv(k) PROVE AckedInv(k)'
      BY <3>1, <3>2, <3>3 DEF AckedInv
    <3> QED
      BY <2>1, <2>2, <3>1, <3>3 DEF AckedOK
  <2> QED
    BY <2>1, <2>2, <2>3, <2>4
<1>3. Shape /\ AckedOK => AnsweredPingKept
  BY DEF AckedOK, AckedInv, AnsweredPingKept
<1> QED
  BY <1>1, <1>2, <1>3, PTL DEF AuditSpec

-----------------------------------------------------------------------------
(* What a device was registered as. *)

\* A step that is not about k.
LEMMA IdentityElsewhere ==
  ASSUME NEW k, IdentityInv(k), Elsewhere(k)
  PROVE  IdentityInv(k)'
BY DEF IdentityInv, Elsewhere, SameRecord, Registers, SameIdentity

\* A step of t that stores nothing: t is left with the identity of the record,
\* or still registers, or leaves.
LEMMA IdentityStep ==
  ASSUME NEW k, IdentityInv(k), NEW t \in Threads, Alone(t), devices' = devices,
         Works(t, k)' =>
           IF Registers(t)' THEN k \notin DOMAIN devices
                            ELSE k \in DOMAIN devices /\ SameIdentity(dev'[t], devices[k])
  PROVE  IdentityInv(k)'
<1>1. ASSUME NEW u \in Threads, Works(u, k)'
      PROVE  IF Registers(u)' THEN k \notin DOMAIN devices
                              ELSE k \in DOMAIN devices /\ SameIdentity(dev'[u], devices[k])
  <2>1. CASE u = t
    BY <1>1, <2>1
  <2>2. CASE u # t
    <3>1. Works(u, k) /\ (Registers(u)' <=> Registers(u)) /\ dev'[u] = dev[u]
      BY <1>1, <2>2, OthersStay DEF Registers
    <3> QED
      BY <3>1 DEF IdentityInv
  <2> QED
    BY <2>1, <2>2
<1> QED
  BY <1>1 DEF IdentityInv

\* A write of the record of k: whoever else works on k holds the same identity,
\* and a registration is alone.
LEMMA IdentityWrite ==
  ASSUME Shape, NEW k \in IDs \ raced, IdentityInv(k),
         NEW t \in Threads, Works(t, k), Write(t)
  PROVE  /\ k \in DOMAIN devices => SameIdentity(devices'[k], devices[k])
         /\ IdentityInv(k)'
<1> USE ThreadsAssumption DEF ThreadsAssumption
<1>1. TypeOK /\ SweeperOK /\ \A u \in Handlers : HandlerOK(u)
  BY DEF Shape
<1>2. Carrying(t)
  BY DEF Write, Carrying
<1>3. dev[t].id = k
  BY <1>2, CarriedTarget DEF Works
<1>4. /\ pc[t] = "write"
      /\ k \in DOMAIN devices' /\ devices'[k] = dev[t]
      /\ CASE t = Sweeper -> Moves(t, "scan", op[t], msg[t], ZeroDevice)
            [] t # Sweeper /\ op[t] = "Register" ->
                 Moves(t, "announce", op[t], msg[t], dev[t])
            [] t # Sweeper /\ op[t] # "Register" -> Returns(t)
  BY <1>1, <1>3, WriteEffect
<1>5. /\ Alone(t)
      /\ pc'[t] \in {"idle", "scan"} \/ (pc'[t] = "announce" /\ dev'[t] = dev[t])
  BY <1>4 DEF Moves, Returns
<1>6. Works(t, k)' => ~Registers(t)' /\ SameIdentity(dev'[t], devices'[k])
  BY <1>4, <1>5 DEF Works, Busy, Registers, SameIdentity
<1>7. k \in DOMAIN devices => ~Registers(t) /\ SameIdentity(dev[t], devices[k])
  BY DEF IdentityInv
<1>8. ASSUME NEW u \in Threads \ {t}, Works(u, k)
      PROVE  ~Registers(u) /\ k \in DOMAIN devices /\ SameIdentity(dev[u], devices[k])
  <2>1. CASE k \in DOMAIN devices
    BY <1>8, <2>1 DEF IdentityInv
  <2>2. CASE k \notin DOMAIN devices
    <3>1. Registers(t) /\ Registers(u)
      BY <1>8, <2>2 DEF IdentityInv
    <3>2. t \in Handlers /\ u \in Handlers
      BY <1>1, <3>1 DEF Registers, SweeperOK, TypeOK, SweepPCs, Threads
    <3>3. k \in Devices
      BY <1>1, <3>2 DEF HandlerOK, Works, Target
    <3>4. k \in RacedNow
      BY <1>8, <3>2, <3>3 DEF RacedNow, Overlap, Works
    <3> QED
      BY <3>4 DEF Shape, Watching
  <2> QED
    BY <2>1, <2>2
<1>9. ASSUME NEW u \in Threads, Works(u, k)'
      PROVE  ~Registers(u)' /\ SameIdentity(dev'[u], devices'[k])
  <2>1. CASE u = t
    BY <1>6, <1>9, <2>1
  <2>2. CASE u # t
    <3>1. Works(u, k) /\ (Registers(u)' <=> Registers(u)) /\ dev'[u] = dev[u]
      BY <1>5, <1>9, <2>2, OthersStay DEF Registers
    <3>2. ~Registers(u) /\ SameIdentity(dev[u], devices[k]) /\ k \in DOMAIN devices
      BY <1>8, <2>2, <3>1
    <3> QED
      BY <1>4, <1>7, <3>1, <3>2 DEF SameIdentity
  <2> QED
    BY <2>1, <2>2
<1> QED
  BY <1>4, <1>7, <1>9 DEF IdentityInv, SameIdentity

\* The steps about k.
LEMMA IdentityAbout ==
  ASSUME Shape, "torn" \notin RaceOutcomes, NEW k \in IDs \ raced, IdentityInv(k), AboutK(k)
  PROVE  IdentityInv(k)'
<1> USE ThreadsAssumption DEF ThreadsAssumption
<1>1. /\ TypeOK /\ LockDiscipline /\ SweeperOK /\ Sweeper \in Threads
      /\ \A t \in Handlers : HandlerOK(t) /\ t \in Threads /\ t # Sweeper
  BY DEF Shape, Threads
<1>2. \A t \in Threads : dev[t] \in Device
  BY <1>1 DEF TypeOK
<1>3. ASSUME NEW t \in Handlers, Call(t), Works(t, k)' PROVE IdentityInv(k)'
  <2>1. PICK call \in {"Ping", "PingDevice", "MarkOffline"}, m \in Message :
           /\ Inside
           /\ IF m.id \in DOMAIN devices
                THEN Moves(t, "found", call, m, devices[m.id])
                ELSE Moves(t, "missing", call, m, dev[t])
    BY <1>1, <1>3, CallEffect
  <2>2. Alone(t) /\ msg'[t] = m /\ op'[t] # "Register"
    BY <2>1 DEF Moves
  <2>3. m.id = k
    BY <1>1, <1>3, <2>2 DEF Works, Target
  <2>4. /\ devices' = devices
        /\ IF k \in DOMAIN devices THEN dev'[t] = devices[k] /\ pc'[t] = "found"
                                   ELSE pc'[t] = "missing"
    BY <2>1, <2>3 DEF Moves, Inside
  <2> QED
    BY <1>1, <2>2, <2>4, IdentityStep DEF Registers, SameIdentity
<1>4. ASSUME NEW t \in Handlers, Works(t, k),
             \/ PingRegister(t) \/ PingRejected(t) \/ PingRefresh(t)
             \/ CallMissing(t) \/ PingDeviceFound(t) \/ MarkOfflineFound(t)
      PROVE  IdentityInv(k)'
  <2>1. /\ devices' = devices /\ Alone(t)
        /\ \/ pc'[t] = "idle"
           \/ pc[t] = "missing" /\ pc'[t] = "lock" /\ op'[t] = "Register"
           \/ /\ pc[t] = "found" /\ op'[t] = op[t] /\ pc'[t] \in {"lock", "notify"}
              /\ SameIdentity(dev'[t], dev[t])
    BY <1>1, <1>2, <1>4, RegisterEffect, LeaveEffect, RefreshEffect, MarkEffect, OfflineKeeps
    DEF Moves, Returns, Inside, SameIdentity
  <2>2. CASE pc'[t] = "idle"
    BY <1>1, <2>1, <2>2, IdentityStep DEF Works, Busy
  <2>3. CASE pc[t] = "missing" /\ pc'[t] = "lock" /\ op'[t] = "Register"
    <3>1. k \notin DOMAIN devices
      BY <1>1, <1>4, <2>3 DEF IdentityInv, Registers
    <3> QED
      BY <1>1, <2>1, <2>3, <3>1, IdentityStep DEF Registers
  <2>4. CASE /\ pc[t] = "found" /\ op'[t] = op[t] /\ pc'[t] \in {"lock", "notify"}
             /\ SameIdentity(dev'[t], dev[t])
    <3>1. op[t] # "Register"
      BY <1>1, <2>4 DEF HandlerOK
    <3>2. k \in DOMAIN devices /\ SameIdentity(dev[t], devices[k])
      BY <1>1, <1>4, <2>4, <3>1 DEF IdentityInv, Registers
    <3> QED
      BY <1>1, <2>1, <2>4, <3>1, <3>2, IdentityStep DEF Registers, SameIdentity
  <2> QED
    BY <2>1, <2>2, <2>3, <2>4
<1>5. ASSUME NEW t \in Threads, Works(t, k), Notify(t) \/ Lock(t) PROVE IdentityInv(k)'
  <2>1. /\ pc[t] \in {"notify", "announce", "lock"} /\ devices' = devices /\ Alone(t)
        /\ \/ pc'[t] = "idle"
           \/ /\ pc[t] # "announce" /\ pc'[t] \in {"lock", "write"} /\ op'[t] = op[t]
              /\ dev'[t] = dev[t]
    BY <1>1, <1>5, NotifyEffect, LockEffect DEF Moves, Returns, Inside
  <2>2. Works(t, k)' => (Registers(t)' <=> Registers(t)) /\ dev'[t] = dev[t]
    BY <2>1 DEF Works, Busy, Registers
  <2> QED
    BY <1>5, <2>1, <2>2, IdentityStep DEF IdentityInv
<1>6. ASSUME NEW j \in IDs, ScanRead(j), Works(Sweeper, k)' PROVE IdentityInv(k)'
  <2>1. PICK d \in Device :
          /\ Inside /\ Moves(Sweeper, "check", op[Sweeper], msg[Sweeper], d)
          /\ j \in DOMAIN devices /\ d = devices[j] /\ d.id = j
    BY <1>1, <1>6, ReadEffect
  <2>2. /\ Alone(Sweeper) /\ dev'[Sweeper] = d /\ pc'[Sweeper] = "check"
        /\ op'[Sweeper] = op[Sweeper] /\ devices' = devices
    BY <2>1 DEF Moves, Inside
  <2>3. j = k
    BY <1>6, <2>1, <2>2 DEF Works, Target
  <2> QED
    BY <1>1, <2>1, <2>2, <2>3, IdentityStep DEF Registers, SameIdentity, SweeperOK
<1>7. ASSUME Works(Sweeper, k), ScanExpire \/ ScanSkip PROVE IdentityInv(k)'
  <2>1. /\ pc[Sweeper] = "check" /\ devices' = devices /\ Alone(Sweeper)
        /\ \/ pc'[Sweeper] = "scan"
           \/ /\ pc'[Sweeper] = "notify" /\ op'[Sweeper] = op[Sweeper]
              /\ SameIdentity(dev'[Sweeper], dev[Sweeper])
    BY <1>1, <1>2, <1>7, ExpireEffect, SkipEffect, OfflineKeeps
    DEF Moves, Inside, SameIdentity
  <2>2. k \in DOMAIN devices /\ SameIdentity(dev[Sweeper], devices[k])
    BY <1>1, <1>7, <2>1 DEF IdentityInv, Registers, SweeperOK
  <2>3. Works(Sweeper, k)' => ~Registers(Sweeper)' /\ SameIdentity(dev'[Sweeper], devices[k])
    BY <1>1, <2>1, <2>2 DEF Works, Busy, Registers, SweeperOK, SameIdentity
  <2> QED
    BY <1>1, <2>1, <2>2, <2>3, IdentityStep
<1>8. ASSUME NEW t \in Threads, Works(t, k), Write(t) PROVE IdentityInv(k)'
  BY <1>8, IdentityWrite
<1> QED
  BY <1>3, <1>4, <1>5, <1>6, <1>7, <1>8 DEF AboutK, SetDevice

\* Every step keeps the identities.
LEMMA IdentitiesKept ==
  ASSUME Shape, Shape', IdentitiesOK, [AuditNext]_<<vars, auditVars>>
  PROVE  IdentitiesOK'
<1>1. SUFFICES ASSUME "torn" \notin RaceOutcomes, NEW k \in IDs, k \notin raced'
               PROVE  IdentityInv(k)'
  BY DEF IdentitiesOK
<1>2. CASE ~up'
  <2>1. ~Busy(Sweeper)' /\ \A t \in Handlers : ~Busy(t)'
    BY <1>2 DEF Shape, NothingYet
  <2> QED
    BY <2>1 DEF IdentityInv, Works, Threads
<1>3. CASE up'
  <2>1. [Next]_vars /\ raced \subseteq raced'
    BY <1>3, WatchEffect DEF Shape, Held
  <2>2. IdentityInv(k) /\ k \in IDs \ raced
    BY <1>1, <2>1 DEF IdentitiesOK
  <2> QED
    BY <1>1, <1>3, <2>1, <2>2, OneId, IdentityElsewhere, IdentityAbout
<1> QED
  BY <1>2, <1>3

\* While the process runs, a step leaves the type and the registration time of a
\* stored record alone.
LEMMA IdentityOfStep ==
  ASSUME Shape, IdentitiesOK, "torn" \notin RaceOutcomes,
         [AuditNext]_<<vars, auditVars>>,
         NEW k \in DOMAIN devices, up', k \notin raced'
  PROVE  SameIdentity(devices'[k], devices[k])
<1>1. [Next]_vars /\ raced \subseteq raced' /\ k \in IDs
  BY WatchEffect DEF Shape, Held, TypeOK
<1>2. IdentityInv(k) /\ k \in IDs \ raced
  BY <1>1 DEF IdentitiesOK
<1>3. CASE Elsewhere(k)
  BY <1>3 DEF Elsewhere, SameRecord, SameIdentity
<1>4. CASE \E t \in Threads : Works(t, k) /\ Write(t)
  BY <1>2, <1>4, IdentityWrite
<1>5. CASE AboutK(k) /\ ~\E t \in Threads : Works(t, k) /\ Write(t)
  <2>1. devices' = devices
    BY <1>5
    DEF AboutK, SetDevice, Call, Read, PingRegister, PingRejected, PingRefresh, CallMissing,
        PingDeviceFound, MarkOfflineFound, Notify, Lock, ScanRead, ScanExpire, ScanSkip, GoOn
  <2> QED
    BY <2>1 DEF SameIdentity
<1> QED
  BY <1>1, <1>3, <1>4, <1>5, OneId

\* What a device was registered as (store.go:105-122) lasts as long as the
\* process, unless two handlers have worked on its id at once, whatever the sweep
\* writes back; provided that the unlocked read of the sweep (store.go:89) is not
\* torn: one that mixes the empty record with a registration in progress is
\* written back without a type.
THEOREM IdentitiesLast ==
  ASSUME "torn" \notin RaceOutcomes
  PROVE  AuditSpec => IdentityKept
<1>1. AuditInit => Shape /\ IdentitiesOK
  <2>1. AuditInit => \A t \in Threads : ~Busy(t)
    BY DEF AuditInit, Init, Idle, Busy
  <2>2. AuditInit => IdentitiesOK
    BY <2>1 DEF IdentitiesOK, IdentityInv, Works
  <2> QED
    BY <2>2, InitShape
<1>2. Shape /\ IdentitiesOK /\ [AuditNext]_<<vars, auditVars>>
        => (Shape /\ IdentitiesOK)'
  BY ShapeKept, IdentitiesKept
<1>3. Shape /\ IdentitiesOK /\ [AuditNext]_<<vars, auditVars>>
        => [\A k \in DOMAIN devices :
              up' /\ k \notin raced' =>
                /\ devices'[k].type = devices[k].type
                /\ devices'[k].createdAt = devices[k].createdAt]_<<vars, auditVars>>
  BY IdentityOfStep DEF SameIdentity
<1> QED
  BY <1>1, <1>2, <1>3, PTL DEF AuditSpec, IdentityKept

=============================================================================
