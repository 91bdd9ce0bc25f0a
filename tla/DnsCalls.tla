------------------------------ MODULE DnsCalls ------------------------------
(***************************************************************************)
(* What the two clients behind /update_dns have in common                  *)
(* (dnsupdater.Client, implemented by vpsmanager and by dnsupdater): the   *)
(* configuration main hands to both, and the calls of handleDNSUpdate,     *)
(* which run concurrently, one per request.                                *)
(***************************************************************************)
EXTENDS Naturals, SequencesExt

CONSTANTS
  Callers,    \* goroutines that serve /update_dns
  IPs, OldIP, \* addresses callers ask for; the one hosts have before
  Configs,    \* cfg.DNSUpdater.Namespaces: namespace -> sequence of names
  Asked,      \* namespaces callers ask for, configured or not
  MaxCalls    \* bound: calls per caller

ASSUME DnsAssumption ==
  /\ OldIP \notin IPs
  /\ \A c \in Configs : /\ DOMAIN c \subseteq Asked
                         /\ \A ns \in DOMAIN c : c[ns] \in Seq(ToSet(c[ns]))
  /\ MaxCalls \in Nat

VARIABLES
  namespaces, \* the namespaces of the configuration
  pc,         \* where each caller's UpdateDNS is, or "idle"
  call,       \* its arguments: [ns, ip]
  reply,      \* what each caller's latest call returned
  calls       \* how many calls each caller has made

NoCall == [ns |-> OldIP, ip |-> OldIP]

CallsInit ==
  /\ namespaces \in Configs
  /\ pc = [t \in Callers |-> "idle"]
  /\ call = [t \in Callers |-> NoCall]
  /\ reply = [t \in Callers |-> "none"]
  /\ calls = [t \in Callers |-> 0]

Goto(t, where) == pc' = [pc EXCEPT ![t] = where]

\* handleDNSUpdate calls the client, whose work starts at `first`.
BeginCall(t, ns, ip, first) ==
  /\ pc[t] = "idle" /\ calls[t] < MaxCalls
  /\ Goto(t, first)
  /\ call' = [call EXCEPT ![t] = [ns |-> ns, ip |-> ip]]
  /\ reply' = [reply EXCEPT ![t] = "none"]
  /\ calls' = [calls EXCEPT ![t] = @ + 1]
  /\ UNCHANGED namespaces

EndCall(t, result) ==
  /\ Goto(t, "idle")
  /\ call' = [call EXCEPT ![t] = NoCall]
  /\ reply' = [reply EXCEPT ![t] = result]
  /\ UNCHANGED <<namespaces, calls>>

Configured(t) == call[t].ns \in DOMAIN namespaces
NamesOf(t)    == IF Configured(t) THEN namespaces[call[t].ns] ELSE <<>>

\* Nothing keeps a caller waiting but requests, and those time out.
CallsReturn == \A t \in Callers : pc[t] # "idle" ~> pc[t] = "idle"

=============================================================================
