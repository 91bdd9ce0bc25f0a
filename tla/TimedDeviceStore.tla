-------------------------- MODULE TimedDeviceStore --------------------------
(***************************************************************************)
(* The device store with deadlines: how long an online device can stay     *)
(* silent before it is shown offline.                                      *)
(*                                                                         *)
(* Only notifying takes time: the subscriber sends a Telegram message with *)
(* a timeout of 15 seconds (cmd/main.go:187) on the thread that notifies.  *)
(* Everything else is done at once, so the clock stands still while a      *)
(* thread can take any other step, and a sleep ends when it is due.        *)
(***************************************************************************)
EXTENDS DeviceStore, FiniteSets

CONSTANT NotifyMax   \* the timeout of a notification, in ticks

\* 15 seconds, against a minute.
ASSUME NotifyAssumption == NotifyMax \in Nat /\ NotifyMax <= OfflineAfter
ASSUME FiniteAssumption == IsFiniteSet(Devices)

VARIABLE since       \* when each thread came to its pc

timedVars == <<vars, since>>

Notifying(t) == pc[t] \in {"notify", "announce"}

\* Thread t lets a tick pass: it has no call, it sleeps, or it is notifying
\* and has not reached the timeout.
MayWait(t) ==
  \/ pc[t] = "idle"
  \/ pc[t] = "sleep" /\ now < wakeAt
  \/ Notifying(t) /\ now - since[t] < NotifyMax

TimedInit == Init /\ since = [t \in Threads |-> 0]

\* The process is stopped or started by people, not by the clock.
TimedTick == Tick /\ (up => \A t \in Threads : MayWait(t))

Timed(A) ==
  /\ A
  /\ since' = [t \in Threads |-> IF pc'[t] # pc[t] THEN now' ELSE since[t]]

TimedNext ==
  \/ Timed(\E t \in Handlers : Call(t) \/ HandlerStep(t))
  \/ Timed(SweepStep)
  \/ Timed(Subscribe \/ Exit \/ Start \/ MapFatal)
  \/ Timed(TimedTick)

\* The scheduler runs every goroutine, and calls that arrive one upon the other
\* do not keep the clock from advancing between them.
TimedSpec ==
  /\ TimedInit /\ [][TimedNext]_timedVars
  /\ \A t \in Handlers : SF_timedVars(Timed(HandlerStep(t)))
  /\ SF_timedVars(Timed(SweepStep)) /\ WF_timedVars(Timed(Subscribe))
  /\ SF_timedVars(Timed(TimedTick))

\* A silent device is one tick past OfflineAfter old when it can first be found
\* stale; a sweep that has just passed it is finished, sleeps, and comes back to
\* it last, with one notification for every device in between.
DetectionDelay ==
  OfflineAfter + SweepDelay + (2 * Cardinality(Devices) - 1) * NotifyMax

\* store.go:61-98: the sweep finds every silent device within that delay, which
\* the TODO at store.go:69 fears to be long when there are many devices.
DetectionBound ==
  \A k \in DOMAIN devices :
    devices[k].online => now - devices[k].pingedAt <= DetectionDelay

\* The deadlines never stop the clock: no thread is ever stuck at a step that
\* it must take at once, so DetectionBound is not true for want of time.
TimePasses == <>(now = MaxTime)

=============================================================================
