----------------------------- MODULE DnsClients -----------------------------
(***************************************************************************)
(* The client behind /update_dns: main takes vpsmanager if a control panel *)
(* is configured and dnsupdater otherwise (cmd/main.go:118-128), and hands *)
(* it the same namespaces.  Whichever it is, handleDNSUpdate may rely on   *)
(* what DnsUpdate says and on nothing else.                                *)
(***************************************************************************)
EXTENDS VpsManager

VARIABLES
  vpscp,           \* cfg.VPSCP is set
  addressParses,   \* of dnsupdater
  zone,
  dnsLate

dnsVars == <<addressParses, zone, dnsLate>>
allVars == <<vpscp, vars, dnsVars>>

\* The hosts of the account are those of the DNS service.
Dns == INSTANCE DnsUpdater WITH Hosts <- Known, late <- dnsLate

\* Only dnsupdater has an address to parse.
ClientsInit ==
  /\ vpscp \in BOOLEAN
  /\ Init /\ Dns!Init
  /\ vpscp => addressParses

\* The choice of main; the other client is not made.
ClientsNext ==
  /\ \/ vpscp /\ Next /\ UNCHANGED dnsVars
     \/ ~vpscp /\ Dns!Next /\ UNCHANGED <<client, service, index, next>>
  /\ UNCHANGED vpscp

ClientsSpec == ClientsInit /\ [][ClientsNext]_allVars

\* The service need not answer.  A request to it ends by the timeout of
\* http.DefaultClient if by nothing else: yandex.New sets 15 seconds before main
\* makes either client, and telegram.New, if Telegram is configured, 10.  A call
\* that sends nothing goes on at once.
VpsGoesOn(t) == vpscp /\ (SkipName(t) \/ Finish(t)) /\ UNCHANGED <<vpscp, dnsVars>>
VpsTimesOut(t) == vpscp /\ RequestFails(t) /\ UNCHANGED <<vpscp, dnsVars>>
DnsGoesOn(t) ==
  /\ ~vpscp
  /\ Dns!Noop(t) \/ Dns!BadAddress(t) \/ Dns!NotConfigured(t) \/ Dns!RequestFails(t)
  /\ UNCHANGED <<vpscp, client, service, index, next>>

ClientsFairSpec ==
  /\ ClientsSpec
  /\ \A t \in Callers : /\ WF_allVars(VpsGoesOn(t)) /\ WF_allVars(VpsTimesOut(t))
                        /\ WF_allVars(DnsGoesOn(t))

-----------------------------------------------------------------------------
(* Properties. *)

\* UpdateDNS (vpsmanager/client.go:76-142, dnsupdater/updater.go:57-134) keeps
\* the promise of DnsUpdate: it changes names of its namespace only, success
\* means that each of them the service knows was set, and "not found" that none
\* was.
Abstract == INSTANCE DnsUpdate
  WITH Hosts  <- Known,
       zone   <- IF vpscp THEN [h \in Known |-> value[IndexOf(h)]] ELSE zone,
       late   <- IF vpscp THEN {<<Records[w[1]].host, w[2]>> : w \in late}
                          ELSE UNION {{<<h, w.ip>> : h \in w.hosts} : w \in dnsLate},
       active <- {t \in Callers : pc[t] # "idle"},
       done   <- [t \in Callers |->
                    {NamesOf(t)[i] : i \in 1..(next[t] - 1)} \intersect Known]

ImplementsDnsUpdate == Abstract!Spec

=============================================================================
