----------------------------- MODULE DnsUpdater -----------------------------
(***************************************************************************)
(* The client of the own DNS service (internal/dnsupdater/updater.go),     *)
(* which main uses when no VPS control panel is configured: an update is   *)
(* one request that carries all names of the namespace.                    *)
(***************************************************************************)
EXTENDS DnsCalls

CONSTANT Hosts     \* hosts the service knows

VARIABLES
  addressParses,   \* url.Parse takes the configured address
  zone,            \* at the service: host -> address
  late             \* at the service: requests given up, [hosts, ip]

vars == <<namespaces, addressParses, zone, late, pc, call, reply, calls>>

Init ==
  /\ CallsInit
  /\ addressParses \in BOOLEAN
  /\ zone = [h \in Hosts |-> OldIP]
  /\ late = {}

\* New: without namespaces there is nothing to update and clientNoop does it.
IsNoop == DOMAIN namespaces = {}

UpdateDNS(t, ns, ip) ==
  BeginCall(t, ns, ip, "update") /\ UNCHANGED <<addressParses, zone, late>>

Return(t, result) ==
  pc[t] = "update" /\ EndCall(t, result) /\ UNCHANGED addressParses

Noop(t) == IsNoop /\ Return(t, "ok") /\ UNCHANGED <<zone, late>>

BadAddress(t) ==
  ~IsNoop /\ ~addressParses /\ Return(t, "error") /\ UNCHANGED <<zone, late>>

NotConfigured(t) ==
  /\ ~IsNoop /\ addressParses /\ ~Configured(t)
  /\ Return(t, "notFound")
  /\ UNCHANGED <<zone, late>>

SendsRequest(t) == ~IsNoop /\ addressParses /\ Configured(t)

\* The names of the request that the service knows; it sets them in one step.
Names(t) == {h \in Hosts : Contains(NamesOf(t), h)}
Updated(H, ip) == [h \in Hosts |-> IF h \in H THEN ip ELSE zone[h]]

\* updateRecord returns nil only for the answer "Success".
UpdateRecord(t) ==
  /\ SendsRequest(t)
  /\ zone' = Updated(Names(t), call[t].ip)
  /\ Return(t, "ok")
  /\ UNCHANGED late

\* Mutant: the answer is not looked at.
RequestFails_Ignored(t) ==
  /\ SendsRequest(t)
  /\ late' \in {late, late \union {[hosts |-> Names(t), ip |-> call[t].ip]}}
  /\ Return(t, "ok")
  /\ UNCHANGED zone

\* No answer, one that does not parse, or one without "Success".  The service
\* may carry out the request all the same.
RequestFails(t) ==
  /\ SendsRequest(t)
  /\ late' \in {late, late \union {[hosts |-> Names(t), ip |-> call[t].ip]}}
  /\ Return(t, "error")
  /\ UNCHANGED zone

CarryOut(w) ==
  /\ w \in late
  /\ late' = late \ {w}
  /\ zone' = Updated(w.hosts, w.ip)
  /\ UNCHANGED <<namespaces, addressParses, pc, call, reply, calls>>

Next ==
  \/ \E t \in Callers :
       \/ \E ns \in Asked, ip \in IPs : UpdateDNS(t, ns, ip)
       \/ Noop(t) \/ BadAddress(t) \/ NotConfigured(t)
       \/ UpdateRecord(t) \/ RequestFails(t)
  \/ \E w \in late : CarryOut(w)

Spec == Init /\ [][Next]_vars

=============================================================================
