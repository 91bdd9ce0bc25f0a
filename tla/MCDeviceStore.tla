--------------------------- MODULE MCDeviceStore ---------------------------
(* Small instances of DeviceStore: one tick is a minute. *)
EXTENDS DeviceStore, TLC

CONSTANTS d1, d2, h1, h2, lamp, plug, r1, b1

MCTexts    == {NoText, lamp, plug, r1, b1}
MCDevices  == {d1, d2}
OneDevice  == {d1}
MCHandlers == {h1, h2}
OneHandler == {h1}

Body(k, type, rev, branch) ==
  [id |-> k, type |-> type, revision |-> rev, branch |-> branch]

\* Plain keep-alives of every device.
KeepAlives == {Body(k, lamp, NoText, NoText) : k \in Devices}
\* A new build of a device, and a device of another type under its id.
Builds == {Body(d1, lamp, r1, b1), Body(d1, plug, NoText, NoText)}

PingCalls == {"Ping", "PingDevice"}
OnlyPing  == {"Ping"}
PingMark  == {"Ping", "MarkOffline"}
AnyRace   == {"torn", "fatal"}
NoRace    == {}

ThreadSymmetry == Permutations(MCHandlers)

=============================================================================
