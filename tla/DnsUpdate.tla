----------------------------- MODULE DnsUpdate -----------------------------
(***************************************************************************)
(* What an UpdateDNS client (dnsupdater.Client, vpsmanager.Client) promises *)
(* to its caller, whatever the service behind it is and how many requests  *)
(* it takes: a call sets names of its namespace to its address and nothing *)
(* else; if it reports success, it has set every name the service knows.   *)
(* A call that fails may have set any of them, and a request it gave up    *)
(* may still be carried out later.  Calls are not isolated.                *)
(***************************************************************************)
EXTENDS Naturals, Sequences

CONSTANTS Callers, Hosts, IPs, OldIP,
          Configs,   \* configurations: namespace -> names it lists
          Asked      \* namespaces calls may name, configured or not

VARIABLES
  namespaces,  \* the configuration
  zone,        \* address of every known host
  late,        \* requests given up but not yet carried out: <<host, ip>>
  active,      \* callers in a call
  call,        \* [ns, ip] of each caller's call
  done,        \* the names that call has set
  reply        \* what each caller's latest call returned

vars == <<namespaces, zone, late, active, call, done, reply>>

Known == DOMAIN zone

NamesIn(ns) ==
  {h \in Known : /\ ns \in DOMAIN namespaces
                 /\ \E i \in 1..Len(namespaces[ns]) : namespaces[ns][i] = h}

NoCall == [ns |-> OldIP, ip |-> OldIP]

Init ==
  /\ namespaces \in Configs
  /\ zone \in UNION {[H -> {OldIP}] : H \in SUBSET Hosts}
  /\ late = {}
  /\ active = {}
  /\ call = [t \in Callers |-> NoCall]
  /\ done = [t \in Callers |-> {}]
  /\ reply = [t \in Callers |-> "none"]

Begin(t, ns, ip) ==
  /\ t \notin active
  /\ active' = active \union {t}
  /\ call' = [call EXCEPT ![t] = [ns |-> ns, ip |-> ip]]
  /\ done' = [done EXCEPT ![t] = {}]
  /\ reply' = [reply EXCEPT ![t] = "none"]
  /\ UNCHANGED <<namespaces, zone, late>>

\* Some names of the namespace get the address of the call.
Put(t, H) ==
  /\ H \subseteq NamesIn(call[t].ns)
  /\ zone' = [h \in Known |-> IF h \in H THEN call[t].ip ELSE zone[h]]

Set(t, H) ==
  /\ t \in active
  /\ Put(t, H)
  /\ done' = [done EXCEPT ![t] = @ \union H]
  /\ UNCHANGED <<namespaces, late, active, call, reply>>

Succeed(t, H) ==
  /\ Put(t, H)
  /\ NamesIn(call[t].ns) \subseteq done[t] \union H
  /\ reply' = [reply EXCEPT ![t] = "ok"]
  /\ UNCHANGED late

Fail(t, H) ==
  /\ H \subseteq NamesIn(call[t].ns)
  /\ late' = late \union {<<h, call[t].ip>> : h \in H}
  /\ reply' = [reply EXCEPT ![t] = "error"]
  /\ UNCHANGED zone

\* Only a call that has asked for no change may say so.
NotFound(t) ==
  /\ done[t] = {}
  /\ reply' = [reply EXCEPT ![t] = "notFound"]
  /\ UNCHANGED <<zone, late>>

End(t) ==
  /\ t \in active
  /\ NotFound(t) \/ \E H \in SUBSET Hosts : Succeed(t, H) \/ Fail(t, H)
  /\ active' = active \ {t}
  /\ call' = [call EXCEPT ![t] = NoCall]
  /\ done' = [done EXCEPT ![t] = {}]
  /\ UNCHANGED namespaces

\* The service carries out requests that were given up; of the others, it may
\* forget some.
CarryOut(W) ==
  /\ zone' = [h \in Known |->
                IF \E w \in W : w[1] = h
                  THEN (CHOOSE w \in W : w[1] = h)[2] ELSE zone[h]]
  /\ late' \in SUBSET late
  /\ UNCHANGED <<namespaces, active, call, done, reply>>

Next ==
  \/ \E t \in Callers :
       \/ \E ns \in Asked, ip \in IPs : Begin(t, ns, ip)
       \/ \E H \in SUBSET Hosts : Set(t, H)
       \/ End(t)
  \/ \E W \in SUBSET late : CarryOut(W)

Spec == Init /\ [][Next]_vars

=============================================================================
