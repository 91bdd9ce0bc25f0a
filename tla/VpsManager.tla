----------------------------- MODULE VpsManager -----------------------------
(***************************************************************************)
(* The client of the VPS control panel (internal/vpsmanager/client.go) as  *)
(* the handlers of /update_dns use it: an update fetches the zones of the  *)
(* account, the records of the first one, and then puts the new address to *)
(* one record after the other.  Updates run concurrently, any request may  *)
(* fail, and a record may change even if the request for it has failed.    *)
(***************************************************************************)
EXTENDS DnsCalls

CONSTANT Records    \* records of the first zone of the account: [host, type]

ASSUME RecordsAssumption ==
  Records \in Seq({[host |-> Records[r].host, type |-> Records[r].type] : r \in DOMAIN Records})

RecordIds == 1..Len(Records)
Hosts     == {Records[r].host : r \in RecordIds}

VARIABLES
  client,   \* New: "starting", then "ready", or "exited" when it failed
  value,    \* at the service: the address of each record
  late,     \* at the service: requests the client gave up, <<record, ip>>
  index,    \* recordsIdxByValue: host -> record id
  next      \* the position in recordsFromNS

service  == <<value, late>>
callVars == <<namespaces, pc, call, index, next, reply, calls>>
vars     == <<client, service, callVars>>

NoIndex == [h \in {} |-> 0]

Init ==
  /\ CallsInit
  /\ client = "starting"
  /\ value = [r \in RecordIds |-> OldIP]
  /\ late = {}
  /\ index = [t \in Callers |-> NoIndex]
  /\ next = [t \in Callers |-> 1]

\* New tries the token, or gets one; main returns if that fails.
New ==
  /\ client = "starting"
  /\ client' \in {"ready", "exited"}
  /\ UNCHANGED <<service, callVars>>

-----------------------------------------------------------------------------
Return(t, result) ==
  /\ EndCall(t, result)
  /\ index' = [index EXCEPT ![t] = NoIndex]
  /\ next' = [next EXCEPT ![t] = 1]

\* handleDNSUpdate.  A namespace that is not configured is not an error.
UpdateDNS(t, ns, ip) ==
  /\ client = "ready"
  /\ BeginCall(t, ns, ip, "infos")
  /\ UNCHANGED <<client, service, index, next>>

\* The account may have no zone.
GetDNSInfos(t) ==
  /\ pc[t] = "infos"
  /\ \/ Goto(t, "records") /\ UNCHANGED <<namespaces, call, index, next, reply, calls>>
     \/ Return(t, "notFound")
  /\ UNCHANGED <<client, service>>

\* Mutant: records of every type are indexed.
Indexed_AnyType(h) == {r \in RecordIds : Records[r].host = h}

Indexed(h) == {r \in RecordIds : Records[r].host = h /\ Records[r].type = "A"}

\* Mutant: the first record of a host stays in the index.
IndexOf_First(h) == CHOOSE r \in Indexed(h) : \A q \in Indexed(h) : r <= q

\* Of several A records of a host, the last one is indexed.
IndexOf(h) == CHOOSE r \in Indexed(h) : \A q \in Indexed(h) : q <= r
Known      == {h \in Hosts : Indexed(h) # {}}

GetDNSRecords(t) ==
  /\ pc[t] = "records"
  /\ index' = [index EXCEPT ![t] = [h \in Known |-> IndexOf(h)]]
  /\ Goto(t, "update")
  /\ UNCHANGED <<client, service, namespaces, call, next, reply, calls>>

\* The name the loop is at.
AtName(t)  == pc[t] = "update" /\ next[t] <= Len(NamesOf(t))
Name(t)    == NamesOf(t)[next[t]]
HasName(t) == AtName(t) /\ Name(t) \in DOMAIN index[t]

\* Mutant: the loop ends at a name without a record.
SkipName_Breaks(t) ==
  /\ AtName(t) /\ ~HasName(t)
  /\ Return(t, "ok")
  /\ UNCHANGED <<client, service>>

\* A name without a record is passed over.
SkipName(t) ==
  /\ AtName(t) /\ ~HasName(t)
  /\ next' = [next EXCEPT ![t] = @ + 1]
  /\ UNCHANGED <<client, service, namespaces, pc, call, index, reply, calls>>

\* updateDNSRecord.
UpdateDNSRecord(t) ==
  /\ HasName(t)
  /\ value' = [value EXCEPT ![index[t][Name(t)]] = call[t].ip]
  /\ next' = [next EXCEPT ![t] = @ + 1]
  /\ UNCHANGED <<client, late, namespaces, pc, call, index, reply, calls>>

\* Mutant: a request that fails is made again.
RequestFails_Retries(t) ==
  /\ HasName(t)
  /\ late' = late \union {<<index[t][Name(t)], call[t].ip>>}
  /\ UNCHANGED <<client, value, callVars>>

\* performRequest fails: refused, timed out, or the client of /update_dns has
\* left.  The service may carry out an update all the same.
RequestFails(t) ==
  /\ \/ (pc[t] \in {"infos", "records"} \/ HasName(t)) /\ UNCHANGED late
     \/ HasName(t) /\ late' = late \union {<<index[t][Name(t)], call[t].ip>>}
  /\ Return(t, "error")
  /\ UNCHANGED <<client, value>>

CarryOut(w) ==
  /\ w \in late
  /\ late' = late \ {w}
  /\ value' = [value EXCEPT ![w[1]] = w[2]]
  /\ UNCHANGED <<client, callVars>>

Finish(t) ==
  /\ pc[t] = "update" /\ next[t] > Len(NamesOf(t))
  /\ Return(t, "ok")
  /\ UNCHANGED <<client, service>>

Step(t) == GetDNSInfos(t) \/ GetDNSRecords(t) \/ SkipName(t)
           \/ UpdateDNSRecord(t) \/ RequestFails(t) \/ Finish(t)

Next ==
  \/ New
  \/ \E t \in Callers :
       \/ \E ns \in Asked, ip \in IPs : UpdateDNS(t, ns, ip)
       \/ Step(t)
  \/ \E w \in late : CarryOut(w)

Spec == Init /\ [][Next]_vars

-----------------------------------------------------------------------------
(* Properties. *)

\* Types; the index holds A records under their own host, so the second check of
\* the type (client.go:125) never fails.
TypeOK ==
  /\ client \in {"starting", "ready", "exited"}
  /\ value \in [RecordIds -> IPs \union {OldIP}]
  /\ late \subseteq RecordIds \X IPs
  /\ pc \in [Callers -> {"idle", "infos", "records", "update"}]
  /\ \A t \in Callers :
       /\ \A h \in DOMAIN index[t] : Records[index[t][h]] = [host |-> h, type |-> "A"]
       /\ next[t] \in 1..Len(NamesOf(t)) + 1
       /\ pc[t] # "update" => next[t] = 1 /\ index[t] = NoIndex
  /\ reply \in [Callers -> {"none", "ok", "error", "notFound"}]

\* The index (client.go:100-111): a record changes only if it is the last A
\* record of a host that a configured namespace lists.
OthersUntouched ==
  \A r \in RecordIds : value[r] # OldIP =>
    /\ Records[r].type = "A"
    /\ \A q \in RecordIds : q > r => Records[q] # Records[r]
    /\ \E ns \in DOMAIN namespaces : Records[r].host \in ToSet(namespaces[ns])

=============================================================================
