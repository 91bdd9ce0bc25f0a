------------------------------ MODULE Presence ------------------------------
(***************************************************************************)
(* What the device store promises about the presence of a device, with no  *)
(* goroutines, locks or sweeps: a device is unknown until it is seen, it   *)
(* is shown online with the time of some ping, it is shown offline only    *)
(* when the ping it is shown with is older than OfflineAfter, and it is    *)
(* forgotten only when the whole store is.                                 *)
(*                                                                         *)
(* The time of the ping need not be the latest one: the store may show an  *)
(* older ping than it has answered, which is as much as it can promise     *)
(* when calls overlap (DeviceStoreAudit says when it promises more).       *)
(***************************************************************************)
EXTENDS Integers

CONSTANTS Ids, OfflineAfter, MaxTime

VARIABLES clock, status, seenAt

vars == <<clock, status, seenAt>>

Init ==
  /\ clock = 0
  /\ status = [k \in Ids |-> "unknown"]
  /\ seenAt = [k \in Ids |-> 0]

Show(k, what, t) ==
  /\ status' = [status EXCEPT ![k] = what]
  /\ seenAt' = [seenAt EXCEPT ![k] = t]
  /\ UNCHANGED clock

\* A ping received at time t is shown.
Appear(k) == \E t \in 0..clock : Show(k, "online", t)

\* A device that has been silent for too long is shown offline.
Expire(k) ==
  /\ status[k] # "unknown"
  /\ \E t \in 0..clock : clock - t > OfflineAfter /\ Show(k, "offline", t)

\* The store is lost.
Forget ==
  /\ status' = [k \in Ids |-> "unknown"]
  /\ seenAt' = [k \in Ids |-> 0]
  /\ UNCHANGED clock

Tick ==
  /\ clock < MaxTime
  /\ clock' = clock + 1
  /\ UNCHANGED <<status, seenAt>>

Next == (\E k \in Ids : Appear(k) \/ Expire(k)) \/ Forget \/ Tick

Spec == Init /\ [][Next]_vars

=============================================================================
