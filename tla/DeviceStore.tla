---------------------------- MODULE DeviceStore ----------------------------
(***************************************************************************)
(* The device store of the control center (internal/ping/store.go): a map  *)
(* from device id to Device, guarded by a sync.RWMutex, changed by the     *)
(* goroutines that serve /ping and by one background goroutine, the        *)
(* sweeper, that marks silent devices offline once a minute.               *)
(*                                                                         *)
(* Every operation is a read-modify-write in three parts: a copy of the    *)
(* record is taken under the read lock, changed (and announced to the      *)
(* subscriber) with no lock held, and stored under the write lock.  The    *)
(* sweeper ranges over the map and reads it with no lock at all.           *)
(***************************************************************************)
EXTENDS Integers

CONSTANTS
  Devices,       \* ids that pass the length check of /ping
  NoID,          \* the empty id of a zero Device
  Handlers,      \* goroutines in which net/http runs handlers
  Sweeper,       \* the goroutine started by New
  NoThread,      \* "the write lock is free"
  Texts,         \* strings a message may carry
  NoText,        \* the empty string
  Messages,      \* bodies a /ping may carry
  Calls,         \* operations of the Store interface that handlers call
  RaceOutcomes,  \* what an unsynchronised map access may do besides work
  MayExit,       \* whether the process may be stopped (a deploy)
  OfflineAfter,  \* time.Minute, in ticks
  SweepDelay,    \* the sleep between two sweeps, in ticks
  LastCall,      \* bound: no request arrives after this time
  MaxTime        \* bound: the clock stops here

Threads == Handlers \union {Sweeper}
IDs     == Devices \union {NoID}

\* Name, IP, BuildTime and UpdatedAt are left out: the store copies them and
\* decides nothing by them.
Message == [id : IDs, type : Texts, revision : Texts, branch : Texts]

Device  == [id : IDs, type : Texts, revision : Texts, branch : Texts,
            online : BOOLEAN, createdAt : Int, pingedAt : Int]

ASSUME ThreadsAssumption ==
  /\ Sweeper \notin Handlers
  /\ NoThread \notin Threads
ASSUME DataAssumption ==
  /\ NoID \notin Devices
  /\ NoText \in Texts
  /\ Messages \subseteq {m \in Message : m.id \in Devices}
  /\ Calls \subseteq {"Ping", "PingDevice", "MarkOffline"}
  /\ RaceOutcomes \subseteq {"torn", "fatal"}
  /\ MayExit \in BOOLEAN
ASSUME TimeAssumption ==
  /\ OfflineAfter \in Nat
  /\ SweepDelay \in Nat
  /\ LastCall \in Nat
  /\ MaxTime \in Nat

VARIABLES
  now,         \* the clock
  up,          \* the process runs
  subscribed,  \* c.subs is not empty
  devices,     \* c.devices: partial function from ids to Device
  mu,          \* the thread that holds c.mu for writing, or NoThread
  pc,          \* where each thread is
  op,          \* the operation each handler runs
  msg,         \* the argument of that operation
  dev,         \* the local variable `device` of each thread
  wakeAt,      \* when the sleep of the sweeper ends
  todo,        \* keys the range statement must still yield
  seen,        \* keys it has yielded
  notice       \* the last status each id was announced with

threadVars == <<pc, op, msg, dev>>
sweepVars  == <<wakeAt, todo, seen>>
vars == <<now, up, subscribed, devices, mu, threadVars, sweepVars, notice>>

-----------------------------------------------------------------------------
(* Values. *)

\* The zero time.Time lies further back than any age the code asks about.
ZeroTime == -(OfflineAfter + 1)

ZeroDevice == [id |-> NoID, type |-> NoText, revision |-> NoText, branch |-> NoText,
               online |-> FALSE, createdAt |-> ZeroTime, pingedAt |-> ZeroTime]

NoMessage == [id |-> NoID, type |-> NoText, revision |-> NoText, branch |-> NoText]

\* Mutant: the registration forgets PingedAt.
NewDevice_NeverPinged(m, t) ==
  [id |-> m.id, type |-> m.type, revision |-> m.revision, branch |-> m.branch,
   online |-> TRUE, createdAt |-> t, pingedAt |-> ZeroTime]

\* The Device a first ping registers.
NewDevice(m, t) ==
  [id |-> m.id, type |-> m.type, revision |-> m.revision, branch |-> m.branch,
   online |-> TRUE, createdAt |-> t, pingedAt |-> t]

\* Mutant: a further ping does not bring a device back online.
Refreshed_StillOffline(d, m, t) == [d EXCEPT !.pingedAt = t]

\* Mutant: a further ping registers the device anew.
Refreshed_Anew(d, m, t) == NewDevice(m, t)

\* The Device a further ping of a known device makes of its copy d.  Under a
\* new branch the code stores the revision.
Refreshed(d, m, t) ==
  [d EXCEPT
     !.pingedAt = t,
     !.online   = TRUE,
     !.revision = IF m.revision # NoText THEN m.revision ELSE @,
     !.branch   = IF m.branch \notin {NoText, @} THEN m.revision ELSE @]

\* time.Since(d.PingedAt) > time.Minute
Stale(d, t) == t - d.pingedAt > OfflineAfter

StatusOf(d) == IF d.online THEN "online" ELSE "offline"

\* What an unlocked read may see of a record that is being overwritten: each
\* field is the old or the new one.
Torn(old, new) ==
  [id : {old.id, new.id}, type : {old.type, new.type},
   revision : {old.revision, new.revision}, branch : {old.branch, new.branch},
   online : {old.online, new.online},
   createdAt : {old.createdAt, new.createdAt},
   pingedAt : {old.pingedAt, new.pingedAt}]

\* Mutant: a device that is known is not overwritten.
Put_InsertOnly(f, k, d) ==
  [x \in DOMAIN f \union {k} |-> IF x \notin DOMAIN f THEN d ELSE f[x]]

\* c.devices[k] = d
Put(f, k, d) == [x \in DOMAIN f \union {k} |-> IF x = k THEN d ELSE f[x]]

-----------------------------------------------------------------------------
(* Starting and stopping the process. *)

Idle == [t \in Threads |-> IF t = Sweeper THEN "sleep" ELSE "idle"]

NoDevices == [k \in {} |-> ZeroDevice]

\* The store New makes; the first sweep comes before the first sleep.
Init ==
  /\ now = 0 /\ up = TRUE /\ subscribed = FALSE
  /\ devices = NoDevices /\ mu = NoThread
  /\ pc = Idle
  /\ op = [t \in Threads |-> "none"]
  /\ msg = [t \in Threads |-> NoMessage]
  /\ dev = [t \in Threads |-> ZeroDevice]
  /\ wakeAt = 0 /\ todo = {} /\ seen = {}
  /\ notice = [k \in IDs |-> "none"]

\* Nothing is persisted: whatever ends the process ends with an empty store.
Down ==
  /\ up' = FALSE /\ subscribed' = FALSE
  /\ devices' = NoDevices /\ mu' = NoThread
  /\ pc' = Idle
  /\ op' = [t \in Threads |-> "none"]
  /\ msg' = [t \in Threads |-> NoMessage]
  /\ dev' = [t \in Threads |-> ZeroDevice]
  /\ todo' = {} /\ seen' = {}
  /\ UNCHANGED <<now, wakeAt, notice>>

\* SIGTERM or SIGQUIT; handlers and the sweep are cut off where they are.
Exit == up /\ MayExit /\ Down

Start ==
  /\ ~up
  /\ up' = TRUE
  /\ wakeAt' = now
  /\ UNCHANGED <<now, subscribed, devices, mu, threadVars, todo, seen, notice>>

\* main subscribes deviceStateNotify before it starts the HTTP server.
Subscribe ==
  /\ up
  /\ ~subscribed
  /\ subscribed' = TRUE
  /\ UNCHANGED <<now, up, devices, mu, threadVars, sweepVars, notice>>

-----------------------------------------------------------------------------
(* Steps every thread takes. *)

Goto(t, where) == pc' = [pc EXCEPT ![t] = where]

\* The call of thread t returns.
Return(t) ==
  /\ Goto(t, "idle")
  /\ op' = [op EXCEPT ![t] = "none"]
  /\ msg' = [msg EXCEPT ![t] = NoMessage]
  /\ dev' = [dev EXCEPT ![t] = ZeroDevice]

\* Mutant: the sweep returns where it should continue.
NextKey_Return == Return(Sweeper)

\* The sweep is done with one key and goes on to the next.
NextKey ==
  /\ Goto(Sweeper, "scan")
  /\ dev' = [dev EXCEPT ![Sweeper] = ZeroDevice]
  /\ UNCHANGED <<op, msg>>

\* notify: every subscriber is called, on the thread and without the lock.
Notify(t) ==
  /\ pc[t] \in {"notify", "announce"}
  /\ notice' = IF subscribed
                 THEN [notice EXCEPT ![dev[t].id] = StatusOf(dev[t])]
                 ELSE notice
  /\ IF pc[t] = "notify" THEN Goto(t, "lock") /\ UNCHANGED <<op, msg, dev>>
                         ELSE Return(t)
  /\ UNCHANGED <<now, up, subscribed, devices, mu, sweepVars>>

\* Mutant: the lock is taken for reading.
Lock_Shared(t) ==
  /\ pc[t] = "lock"
  /\ mu' = t
  /\ Goto(t, "write")
  /\ UNCHANGED <<now, up, subscribed, devices, op, msg, dev, sweepVars, notice>>

\* setDevice, first half: c.mu.Lock().
Lock(t) ==
  /\ pc[t] = "lock"
  /\ mu = NoThread
  /\ mu' = t
  /\ Goto(t, "write")
  /\ UNCHANGED <<now, up, subscribed, devices, op, msg, dev, sweepVars, notice>>

\* setDevice, second half, and what its caller does next.
Write(t) ==
  /\ pc[t] = "write"
  /\ devices' = Put(devices, dev[t].id, dev[t])
  /\ mu' = NoThread
  /\ IF t = Sweeper THEN NextKey
     ELSE IF op[t] = "Register"
       THEN Goto(t, "announce") /\ UNCHANGED <<op, msg, dev>>
       ELSE Return(t)
  /\ UNCHANGED <<now, up, subscribed, sweepVars, notice>>

-----------------------------------------------------------------------------
(* Calls of the HTTP handlers. *)

\* getDevice: under the read lock, so while no thread holds the write lock.
Read(t, call, m) ==
  /\ up /\ subscribed
  /\ now <= LastCall
  /\ pc[t] = "idle"
  /\ mu = NoThread
  /\ op' = [op EXCEPT ![t] = call]
  /\ msg' = [msg EXCEPT ![t] = m]
  /\ IF m.id \in DOMAIN devices
       THEN Goto(t, "found") /\ dev' = [dev EXCEPT ![t] = devices[m.id]]
       ELSE Goto(t, "missing") /\ UNCHANGED dev
  /\ UNCHANGED <<now, up, subscribed, devices, mu, sweepVars, notice>>

Call(t) ==
  \/ "Ping" \in Calls /\ \E m \in Messages : Read(t, "Ping", m)
  \/ \E call \in Calls \ {"Ping"}, k \in Devices :
       Read(t, call, [NoMessage EXCEPT !.id = k])

\* The rest of a call up to its write: the thread goes on with record d.
GoOn(t, where, d) ==
  /\ Goto(t, where)
  /\ dev' = [dev EXCEPT ![t] = d]
  /\ UNCHANGED <<now, up, subscribed, devices, mu, msg, sweepVars, notice>>

\* Ping of an unknown device: stored first, announced afterwards.
PingRegister(t) ==
  /\ pc[t] = "missing" /\ op[t] = "Ping"
  /\ op' = [op EXCEPT ![t] = "Register"]
  /\ GoOn(t, "lock", NewDevice(msg[t], now))

\* Ping under another type: the message is skipped.
PingRejected(t) ==
  /\ pc[t] = "found" /\ op[t] = "Ping"
  /\ dev[t].type # msg[t].type
  /\ Return(t)
  /\ UNCHANGED <<now, up, subscribed, devices, mu, sweepVars, notice>>

\* Mutant: a return from offline is not announced.
PingRefresh_Silent(t) ==
  /\ pc[t] = "found" /\ op[t] = "Ping"
  /\ dev[t].type = msg[t].type
  /\ GoOn(t, "lock", Refreshed(dev[t], msg[t], now))
  /\ UNCHANGED op

\* Ping of a known device: a return from offline is announced first.
PingRefresh(t) ==
  /\ pc[t] = "found" /\ op[t] = "Ping"
  /\ dev[t].type = msg[t].type
  /\ GoOn(t, IF dev[t].online THEN "lock" ELSE "notify",
          Refreshed(dev[t], msg[t], now))
  /\ UNCHANGED op

\* Mutant: the call waits for the device to be registered.
CallMissing_Waits(t) ==
  /\ pc[t] = "missing" /\ op[t] # "Ping"
  /\ msg[t].id \in DOMAIN devices
  /\ Return(t)
  /\ UNCHANGED <<now, up, subscribed, devices, mu, sweepVars, notice>>

\* PingDevice and MarkOffline do nothing for an unknown device.
CallMissing(t) ==
  /\ pc[t] = "missing" /\ op[t] # "Ping"
  /\ Return(t)
  /\ UNCHANGED <<now, up, subscribed, devices, mu, sweepVars, notice>>

PingDeviceFound(t) ==
  /\ pc[t] = "found" /\ op[t] = "PingDevice"
  /\ GoOn(t, IF dev[t].online THEN "lock" ELSE "notify",
          [dev[t] EXCEPT !.pingedAt = now, !.online = TRUE])
  /\ UNCHANGED op

MarkOfflineFound(t) ==
  /\ pc[t] = "found" /\ op[t] = "MarkOffline"
  /\ GoOn(t, IF dev[t].online THEN "notify" ELSE "lock",
          [dev[t] EXCEPT !.online = FALSE])
  /\ UNCHANGED op

-----------------------------------------------------------------------------
(* The sweep: updateDevicesState, called by start every SweepDelay. *)

\* Takes and drops the write lock (only to time it), then enters the range.
SweepWake ==
  /\ up
  /\ pc[Sweeper] = "sleep"
  /\ now >= wakeAt
  /\ mu = NoThread
  /\ Goto(Sweeper, "scan")
  /\ todo' = DOMAIN devices
  /\ seen' = {}
  /\ UNCHANGED <<now, up, subscribed, devices, mu, op, msg, dev, wakeAt, notice>>

\* The key a thread is storing right now.
BeingWritten == IF mu = NoThread THEN {} ELSE {dev[mu].id}

Stored(k) == IF k \in DOMAIN devices THEN devices[k] ELSE ZeroDevice

\* What c.devices[k], read without the lock, may yield.
Snapshots(k) ==
  IF "torn" \in RaceOutcomes /\ k \in BeingWritten
    THEN Torn(Stored(k), dev[mu])
    ELSE {devices[j] : j \in {k} \intersect DOMAIN devices}

\* range may or may not yield a key that was added after it began.
ScanRead(k) ==
  /\ pc[Sweeper] = "scan"
  /\ k \notin seen
  /\ \E d \in Snapshots(k) : dev' = [dev EXCEPT ![Sweeper] = d]
  /\ seen' = seen \union {k}
  /\ Goto(Sweeper, "check")
  /\ UNCHANGED <<now, up, subscribed, devices, mu, op, msg, wakeAt, todo, notice>>

\* Mutant: the age is not looked at.
ScanExpire_Fresh ==
  /\ pc[Sweeper] = "check"
  /\ dev[Sweeper].online
  /\ GoOn(Sweeper, "notify", [dev[Sweeper] EXCEPT !.online = FALSE])
  /\ UNCHANGED op

\* A stale online device is marked offline, announced and then stored.
ScanExpire ==
  /\ pc[Sweeper] = "check"
  /\ Stale(dev[Sweeper], now) /\ dev[Sweeper].online
  /\ GoOn(Sweeper, "notify", [dev[Sweeper] EXCEPT !.online = FALSE])
  /\ UNCHANGED op

ScanSkip ==
  /\ pc[Sweeper] = "check"
  /\ ~(Stale(dev[Sweeper], now) /\ dev[Sweeper].online)
  /\ NextKey
  /\ UNCHANGED <<now, up, subscribed, devices, mu, sweepVars, notice>>

SweepOver ==
  /\ pc[Sweeper] = "scan"
  /\ todo' = {} /\ seen' = {}
  /\ UNCHANGED <<now, up, subscribed, devices, mu, op, msg, dev, notice>>

\* Mutant: the sweep stops before it has seen every key.
ScanEnd_Early ==
  SweepOver /\ Goto(Sweeper, "sleep") /\ wakeAt' = now + SweepDelay

\* Mutant: the loop of start is left out.
ScanEnd_Once ==
  SweepOver /\ todo \subseteq seen /\ Goto(Sweeper, "idle") /\ UNCHANGED wakeAt

\* Mutant: the loop of start does not sleep.
ScanEnd_Awake ==
  SweepOver /\ todo \subseteq seen /\ Goto(Sweeper, "sleep") /\ wakeAt' = now

\* The sleep starts when the sweep is over.  At MaxTime the clock stands for
\* any later time, so a sleep ends there at the latest.
ScanEnd ==
  /\ SweepOver
  /\ todo \subseteq seen
  /\ Goto(Sweeper, "sleep")
  /\ wakeAt' = IF now + SweepDelay > MaxTime THEN MaxTime ELSE now + SweepDelay

\* The runtime detects a map that is ranged over while it is written.
MapFatal ==
  /\ "fatal" \in RaceOutcomes
  /\ pc[Sweeper] = "scan"
  /\ mu # NoThread
  /\ Down

Tick ==
  /\ now < MaxTime
  /\ now' = now + 1
  /\ UNCHANGED <<up, subscribed, devices, mu, threadVars, sweepVars, notice>>

-----------------------------------------------------------------------------
\* What thread t does once it has work.
SetDevice(t) == Notify(t) \/ Lock(t) \/ Write(t)

HandlerStep(t) ==
  \/ PingRegister(t) \/ PingRejected(t) \/ PingRefresh(t)
  \/ CallMissing(t) \/ PingDeviceFound(t) \/ MarkOfflineFound(t)
  \/ SetDevice(t)

SweepStep ==
  \/ SweepWake
  \/ \E k \in IDs : ScanRead(k)
  \/ ScanExpire \/ ScanSkip \/ ScanEnd
  \/ SetDevice(Sweeper)

Next ==
  \/ \E t \in Handlers : Call(t) \/ HandlerStep(t)
  \/ SweepStep
  \/ Subscribe \/ Exit \/ Start \/ MapFatal \/ Tick

Spec == Init /\ [][Next]_vars

\* The scheduler runs every goroutine and the clock advances.  The lock need
\* not be fair: requests end at LastCall, and a waiting thread gets it then.
Fairness ==
  /\ WF_vars(Tick) /\ WF_vars(SweepStep)
  /\ \A t \in Handlers : WF_vars(HandlerStep(t))

FairSpec == Spec /\ Fairness

-----------------------------------------------------------------------------
(* Properties. *)

HandlerPCs == {"idle", "found", "missing", "notify", "lock", "write", "announce"}
SweepPCs   == {"sleep", "scan", "check", "notify", "lock", "write"}

\* Types; a record is stored under its own id, and the sweep never leaves its
\* loop as a call returns.
TypeOK ==
  /\ now \in 0..MaxTime
  /\ up \in BOOLEAN /\ subscribed \in BOOLEAN
  /\ DOMAIN devices \subseteq IDs
  /\ \A k \in DOMAIN devices : devices[k] \in Device /\ devices[k].id = k
  /\ mu \in Threads \union {NoThread}
  /\ pc \in [Threads -> HandlerPCs \union SweepPCs]
  /\ pc[Sweeper] \in SweepPCs /\ \A t \in Handlers : pc[t] \in HandlerPCs
  /\ op \in [Threads -> {"none", "Ping", "Register", "PingDevice", "MarkOffline"}]
  /\ msg \in [Threads -> Message]
  /\ dev \in [Threads -> Device]
  /\ wakeAt \in Int
  /\ todo \subseteq IDs /\ seen \subseteq IDs
  /\ notice \in [IDs -> {"none", "online", "offline"}]

\* setDevice (store.go:217): at most one thread is between Lock and Unlock,
\* and it is the one c.mu says.
LockDiscipline == \A t \in Threads : (pc[t] = "write") <=> (mu = t)

\* The sweep (store.go:89-97): when nobody calls MarkOffline, a device is shown
\* offline only after a minute without pings, as far as its own record says.
\* However the steps of pings, registrations and sweeps interleave, none of them
\* makes a fresh record offline, and no torn read leads to one (DeviceStoreProofs).
OfflineIsStale ==
  "MarkOffline" \notin Calls =>
    \A k \in DOMAIN devices : ~devices[k].online => Stale(devices[k], now)

\* What makes OfflineIsStale inductive: every record a thread is about to
\* announce or to store is online or stale already.
Carrying(t) == pc[t] \in {"notify", "announce", "lock", "write"}
PendingIsStale ==
  /\ \A t \in Threads : op[t] = "MarkOffline" => "MarkOffline" \in Calls
  /\ "MarkOffline" \notin Calls =>
       \A t \in Threads : Carrying(t) => dev[t].online \/ Stale(dev[t], now)

\* What the refinement of Presence rests on: without torn reads, the record a
\* thread has read or is about to store carries the time of a ping, and is
\* offline only under an id that is known.
HasRead(t) == pc[t] \in {"found", "check"}
SeenInThePast ==
  "torn" \notin RaceOutcomes =>
    /\ \A k \in DOMAIN devices : devices[k].pingedAt \in 0..now
    /\ \A t \in Threads : HasRead(t) \/ Carrying(t) =>
         /\ dev[t].pingedAt \in 0..now
         /\ dev[t].online \/ dev[t].id \in DOMAIN devices
    /\ \A t \in Threads : HasRead(t) => dev[t].id \in DOMAIN devices

\* store.go:89-97: a record the sweep found stale is marked offline or is
\* refreshed in the meantime, unless the process ends.
SilentGoesOffline ==
  \A k \in Devices :
    (k \in DOMAIN devices /\ devices[k].online /\ Stale(devices[k], now))
      ~> (k \notin DOMAIN devices \/ ~devices[k].online \/ ~Stale(devices[k], now))

\* Every handler comes back from the store: neither the lock nor the sweep
\* (TODO at store.go:69) holds up a request for good.
CallsReturn == \A t \in Handlers : pc[t] # "idle" ~> pc[t] = "idle"

\* A store in which every record that is written is the one that Presence
\* allows; see Presence.
Status(k) == IF k \notin DOMAIN devices THEN "unknown" ELSE StatusOf(devices[k])
SeenAt(k) == IF k \notin DOMAIN devices THEN 0 ELSE devices[k].pingedAt

Abstract == INSTANCE Presence
  WITH Ids <- IDs, clock <- now,
       status <- [k \in IDs |-> Status(k)], seenAt <- [k \in IDs |-> SeenAt(k)]

ImplementsPresence == Abstract!Spec

=============================================================================
