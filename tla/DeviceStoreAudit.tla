-------------------------- MODULE DeviceStoreAudit --------------------------
(***************************************************************************)
(* What the store promises to calls that do not overlap, and how little    *)
(* the overlaps that break a promise have to be.  The variables added here *)
(* watch the store and never restrict it: which pings were answered and    *)
(* which threads have worked on one id at the same time.                   *)
(***************************************************************************)
EXTENDS DeviceStore

VARIABLES
  acked,   \* the PingedAt of the latest ping of each id that was stored
  raced,   \* ids on which two handlers have worked at the same time
  swept    \* ids on which a handler has worked together with one that marks
           \* devices offline: the sweep, or MarkOffline

auditVars == <<acked, raced, swept>>

\* The id thread t works on.
Target(t) == IF t = Sweeper THEN dev[t].id ELSE msg[t].id

Quiet(k) == \A t \in Threads : Target(t) # k

Overlap(t, u, k) == t # u /\ Target(t) = k /\ Target(u) = k

MarksOffline(t) == t = Sweeper \/ op[t] = "MarkOffline"

RacedNow == {k \in Devices : \E t, u \in Handlers : Overlap(t, u, k)}
SweptNow == {k \in Devices :
               \E t \in Handlers, u \in Threads : Overlap(t, u, k) /\ MarksOffline(u)}

AuditInit ==
  /\ Init
  /\ acked = [k \in Devices |-> ZeroTime]
  /\ raced = {} /\ swept = {}

\* The last step of setDevice.
Stores(t) == t \in Threads /\ pc[t] = "write" /\ pc'[t] # "write" /\ up'

AcksPing(k) == Stores(mu) /\ mu \in Handlers /\ dev[mu].id = k
               /\ op[mu] \in {"Ping", "Register", "PingDevice"}

Watch ==
  /\ acked' = [k \in Devices |->
                CASE ~up' -> ZeroTime
                  [] AcksPing(k) /\ dev[mu].pingedAt > acked[k] -> dev[mu].pingedAt
                  [] OTHER -> acked[k]]
  /\ raced' = IF up' THEN raced \union RacedNow' ELSE {}
  /\ swept' = IF up' THEN swept \union SweptNow' ELSE {}

AuditNext == Next /\ Watch

AuditSpec == AuditInit /\ [][AuditNext]_<<vars, auditVars>>

-----------------------------------------------------------------------------
\* store.go:114-116, 142-146, 94-95: the record and the last message about it
\* are changed in separate steps, in either order.  Once nobody works on an
\* id, the last message still tells the stored status, unless a call once
\* overlapped with the sweep, or with a MarkOffline, on it.  Two pings may
\* overlap as they like, and register the same device twice.
NoticeAgrees ==
  \A k \in DOMAIN devices :
    Quiet(k) /\ k \notin swept =>
      notice[k] = StatusOf(devices[k])

\* Ping (store.go:101): an answered ping is never undone by an older one when
\* no other call or sweep has overlapped with a call about the device.
AnsweredPingKept ==
  \A k \in DOMAIN devices :
    k \in Devices \ (raced \union swept) => devices[k].pingedAt >= acked[k]

\* store.go:105-122: what a device was registered as (its type, the time it
\* was registered) lasts as long as the process, unless two handlers have
\* worked on its id at once; no overlap with the sweep can change it, although
\* the sweep writes back whole records it read without the lock; only a read torn
\* between the empty record and a registration could.
IdentityKept ==
  [][\A k \in DOMAIN devices :
       up' /\ k \notin raced' =>
         /\ devices'[k].type = devices[k].type
         /\ devices'[k].createdAt = devices[k].createdAt]_<<vars, auditVars>>

\* "Ping proceeds ping message from device and updates its state."
\* (store.go:100), read as: what an answered ping stored is not taken back.
PingUpdatesState ==
  \A k \in DOMAIN devices : k \in Devices => devices[k].pingedAt >= acked[k]

=============================================================================
