---------------------------- MODULE MCDnsClients ----------------------------
(* Small instances of DnsClients: three hosts, one of them listed twice and one
   without an A record; without namespaces, or with two that share a host and
   name hosts the service does not know. *)
EXTENDS DnsClients, TLC

CONSTANTS www, mail, txt, home, lab, typo, ip1, ip2, t1, t2

MCRecords == <<[host |-> www, type |-> "A"], [host |-> www, type |-> "A"],
               [host |-> txt, type |-> "TXT"], [host |-> mail, type |-> "A"]>>
Shared    == home :> <<www, txt, mail>> @@ lab :> <<mail>>
MCConfigs == {<<>>, Shared}
MCAsked   == {home, lab, typo}
MCCallers == {t1, t2}
MCIPs     == {ip1, ip2}

=============================================================================
