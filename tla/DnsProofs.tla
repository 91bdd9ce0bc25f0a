----------------------------- MODULE DnsProofs -----------------------------
(* Theorems about the clients behind /update_dns: for any number of concurrent
   calls, any records of the account and any configuration. *)
EXTENDS DnsClients, FiniteSetTheorems, TLAPS

\* A record that an update may change: the last A record of a host that a
\* configured namespace lists.
Settable(r) ==
  /\ r \in RecordIds /\ Records[r].type = "A"
  /\ \A q \in RecordIds : q > r => Records[q] # Records[r]
  /\ \E ns \in DOMAIN namespaces : Records[r].host \in ToSet(namespaces[ns])

ServiceOK ==
  /\ value \in [RecordIds -> IPs \union {OldIP}]
  /\ \A r \in RecordIds : value[r] # OldIP => Settable(r)
  /\ \A w \in late : \E r \in RecordIds, ip \in IPs : w = <<r, ip>> /\ Settable(r)

Calls == [ns : Asked \union {OldIP}, ip : IPs \union {OldIP}]

\* The index of GetDNSRecords.
FullIndex == [h \in Known |-> IndexOf(h)]

CallsOK ==
  /\ vpscp \in BOOLEAN /\ client \in {"starting", "ready", "exited"}
  /\ namespaces \in Configs
  /\ pc \in [Callers -> {"idle", "infos", "records", "update"}]
  /\ call \in [Callers -> Calls]
  /\ reply \in [Callers -> {"none", "ok", "error", "notFound"}]
  /\ next \in [Callers -> Nat] /\ index \in [Callers -> {NoIndex, FullIndex}]

\* Where a call is in the names of its namespace, and what it has indexed.
Caller(t) ==
  /\ pc[t] # "idle" => call[t].ip \in IPs
  /\ next[t] >= 1 /\ next[t] <= Len(NamesOf(t)) + 1
  /\ pc[t] # "update" \/ vpscp = FALSE => next[t] = 1 /\ index[t] = NoIndex

Inv == CallsOK /\ ServiceOK /\ \A t \in Callers : Caller(t)

-----------------------------------------------------------------------------
(* The index. *)

\* Of finitely many numbers one is the largest: the one with fewest above it.
LEMMA Largest ==
  ASSUME NEW S, S \subseteq Nat, IsFiniteSet(S), S # {}
  PROVE  \E m \in S : \A x \in S : x <= m
<1> DEFINE Above(x) == {y \in S : y > x}
           Aboves   == {Above(x) : x \in S}
<1>1. Aboves \subseteq FiniteSubsetsOf(S) /\ Aboves # {}
  <2>1. \A x \in S : IsFiniteSet(Above(x)) /\ Above(x) \subseteq S
    BY FS_Subset
  <2> QED BY <2>1 DEF FiniteSubsetsOf
<1>2. PICK A \in Aboves : \A B \in Aboves : <<B, A>> \notin StrictSubsetOrdering(S)
  BY <1>1, FS_StrictSubsetOrderingWellFounded, WFMin
<1>3. PICK m \in S : A = Above(m)
  OBVIOUS
<1>4. ASSUME NEW y \in S, y > m PROVE FALSE
  <2>1. /\ Above(y) \subseteq A /\ y \in A /\ y \notin Above(y)
        /\ A \subseteq S /\ Above(y) \in Aboves
    <3>1. \A z \in Above(y) : z > m
      <4> SUFFICES ASSUME NEW z \in S, z > y PROVE z > m
        OBVIOUS
      <4>1. z \in Nat /\ y \in Nat /\ m \in Nat
        OBVIOUS
      <4> QED BY <1>4, <4>1
    <3>2. y \notin Above(y)
      BY <1>4
    <3> QED BY <1>3, <1>4, <3>1, <3>2
  <2>2. <<Above(y), A>> \in StrictSubsetOrdering(S)
    BY <2>1 DEF StrictSubsetOrdering
  <2> QED BY <1>2, <2>1, <2>2
<1> QED BY <1>4

\* The ids of the records are finitely many numbers, and each record has its fields.
LEMMA RecordsTypes ==
  /\ Len(Records) \in Nat /\ RecordIds \subseteq Nat /\ IsFiniteSet(RecordIds)
  /\ \A r \in RecordIds : Records[r] = [host |-> Records[r].host, type |-> Records[r].type]
<1>1. Len(Records) \in Nat /\ DOMAIN Records = RecordIds /\ RecordIds \subseteq Nat
  BY RecordsAssumption DEF RecordIds
<1>2. IsFiniteSet(RecordIds)
  BY <1>1, FS_Interval DEF RecordIds
<1>3. \A r \in RecordIds :
        \E q \in RecordIds : Records[r] = [host |-> Records[q].host, type |-> Records[q].type]
  BY <1>1, RecordsAssumption
<1> QED BY <1>1, <1>2, <1>3

\* client.go:100-111: the record that is indexed for a host is its last A record.
LEMMA IndexOfKnown ==
  ASSUME NEW h \in Known
  PROVE  IndexOf(h) \in Indexed(h) /\ \A q \in Indexed(h) : q <= IndexOf(h)
<1>1. Indexed(h) \subseteq RecordIds /\ Indexed(h) # {}
  BY DEF Indexed, Known
<1>2. IsFiniteSet(Indexed(h)) /\ Indexed(h) \subseteq Nat
  BY <1>1, RecordsTypes, FS_Subset
<1>3. \E r \in Indexed(h) : \A q \in Indexed(h) : q <= r
  BY <1>1, <1>2, Largest
<1> QED BY <1>3 DEF IndexOf

\* What is indexed for a host is an A record of that host, and no later one equals it.
LEMMA IndexOfRecord ==
  ASSUME NEW h \in Known
  PROVE  /\ IndexOf(h) \in RecordIds
         /\ Records[IndexOf(h)] = [host |-> h, type |-> "A"]
         /\ \A q \in RecordIds : q > IndexOf(h) => Records[q] # Records[IndexOf(h)]
<1>1. /\ IndexOf(h) \in RecordIds /\ Records[IndexOf(h)].host = h
      /\ Records[IndexOf(h)].type = "A"
  BY IndexOfKnown DEF Indexed
<1>2. Records[IndexOf(h)] = [host |-> h, type |-> "A"]
  BY <1>1, RecordsTypes
<1>3. ASSUME NEW q \in RecordIds, q > IndexOf(h), Records[q] = Records[IndexOf(h)]
      PROVE  FALSE
  <2>1. q \in Indexed(h)
    BY <1>1, <1>3 DEF Indexed
  <2>2. q <= IndexOf(h) /\ q \in Nat /\ IndexOf(h) \in Nat
    BY <1>1, <2>1, IndexOfKnown, RecordsTypes
  <2> QED BY <1>3, <2>2
<1> QED BY <1>1, <1>2, <1>3

\* The record of a host in the index may be changed.
LEMMA IndexedSettable ==
  ASSUME CallsOK, NEW t \in Callers, Caller(t), HasName(t)
  PROVE  LET r == index[t][Name(t)]
         IN r \in RecordIds /\ Settable(r) /\ call[t].ip \in IPs
<1>1. /\ pc[t] = "update" /\ Name(t) \in Known /\ index[t][Name(t)] = IndexOf(Name(t))
      /\ call[t].ip \in IPs /\ next[t] \in Nat /\ next[t] >= 1 /\ next[t] <= Len(NamesOf(t))
  BY DEF HasName, AtName, Caller, CallsOK, NoIndex, FullIndex
<1>2. /\ IndexOf(Name(t)) \in RecordIds /\ Records[IndexOf(Name(t))] = [host |-> Name(t), type |-> "A"]
      /\ \A q \in RecordIds : q > IndexOf(Name(t)) => Records[q] # Records[IndexOf(Name(t))]
  BY <1>1, IndexOfRecord
<1>3. Configured(t) /\ NamesOf(t) = namespaces[call[t].ns]
  BY <1>1 DEF NamesOf
<1>4. Name(t) \in ToSet(namespaces[call[t].ns])
  <2>1. namespaces[call[t].ns] \in Seq(ToSet(namespaces[call[t].ns]))
    BY <1>3, DnsAssumption DEF CallsOK, Configured
  <2> QED BY <1>1, <1>3, <2>1 DEF Name
<1>5. Records[IndexOf(Name(t))].host = Name(t) /\ Records[IndexOf(Name(t))].type = "A"
  BY <1>2
<1>6. Settable(IndexOf(Name(t)))
  BY <1>2, <1>3, <1>4, <1>5 DEF Settable, Configured
<1> QED BY <1>1, <1>2, <1>6

-----------------------------------------------------------------------------
(* The calls. *)

\* A step of one call keeps what is said of all of them when it keeps what is said
\* of that one.
LEMMA OneCall ==
  ASSUME CallsOK, \A s \in Callers : Caller(s), NEW t \in Callers, Caller(t)',
         UNCHANGED <<vpscp, client, namespaces>>,
         \E w \in {"idle", "infos", "records", "update"} : pc' = [pc EXCEPT ![t] = w],
         \E c \in Calls : call' = [call EXCEPT ![t] = c],
         \E p \in {"none", "ok", "error", "notFound"} : reply' = [reply EXCEPT ![t] = p],
         \E n \in Nat : next' = [next EXCEPT ![t] = n],
         \E i \in {NoIndex, FullIndex} : index' = [index EXCEPT ![t] = i]
  PROVE  CallsOK' /\ \A s \in Callers : Caller(s)'
<1>1. CallsOK'
  <2>1. pc' \in [Callers -> {"idle", "infos", "records", "update"}]
    BY DEF CallsOK
  <2>2. reply' \in [Callers -> {"none", "ok", "error", "notFound"}]
    BY DEF CallsOK
  <2>3. call' \in [Callers -> Calls]
    BY DEF CallsOK
  <2>4. next' \in [Callers -> Nat]
    BY DEF CallsOK
  <2>5. index' \in [Callers -> {NoIndex, FullIndex}]
    BY DEF CallsOK
  <2> QED BY <2>1, <2>2, <2>3, <2>4, <2>5 DEF CallsOK, FullIndex
<1>2. ASSUME NEW s \in Callers, s # t PROVE Caller(s)'
  <2>1. /\ pc'[s] = pc[s] /\ call'[s] = call[s] /\ next'[s] = next[s] /\ index'[s] = index[s]
    BY <1>2 DEF CallsOK
  <2>2. NamesOf(s)' = NamesOf(s)
    BY <2>1 DEF NamesOf, Configured
  <2> QED BY <2>1, <2>2 DEF Caller
<1> QED BY <1>1, <1>2

\* A namespace has a number of names, none if it is not configured.
LEMMA LengthTypes ==
  ASSUME NEW c \in Configs, NEW ns
  PROVE  Len(IF ns \in DOMAIN c THEN c[ns] ELSE <<>>) \in Nat
<1>1. CASE ns \in DOMAIN c
  <2>1. c[ns] \in Seq(ToSet(c[ns]))
    BY <1>1, DnsAssumption
  <2>2. Len(c[ns]) \in Nat
    BY <2>1
  <2> QED BY <1>1, <2>2
<1>2. CASE ns \notin DOMAIN c
  BY <1>2
<1> QED BY <1>1, <1>2

\* So has that of a call.
LEMMA NamesTypes ==
  ASSUME CallsOK, NEW t \in Callers
  PROVE  Len(NamesOf(t)) \in Nat
  BY LengthTypes DEF CallsOK, NamesOf, Configured

\* The same of the state after a step.
LEMMA NamesTypesNext ==
  ASSUME CallsOK', NEW t \in Callers
  PROVE  Len(NamesOf(t)') \in Nat
  BY LengthTypes DEF CallsOK, NamesOf, Configured

\* handleDNSUpdate makes a call: nothing is indexed for it yet.
LEMMA BeginKeeps ==
  ASSUME CallsOK, \A s \in Callers : Caller(s), NEW t \in Callers, NEW ns \in Asked, NEW ip \in IPs,
         NEW first \in {"infos", "update"}, BeginCall(t, ns, ip, first),
         UNCHANGED <<vpscp, client, index, next>>
  PROVE  CallsOK' /\ \A s \in Callers : Caller(s)'
<1>1. /\ pc' = [pc EXCEPT ![t] = first] /\ call' = [call EXCEPT ![t] = [ns |-> ns, ip |-> ip]]
      /\ reply' = [reply EXCEPT ![t] = "none"] /\ namespaces' = namespaces
      /\ [ns |-> ns, ip |-> ip] \in Calls /\ pc[t] = "idle"
  BY DEF BeginCall, Goto, Calls
<1>2. /\ next' = [next EXCEPT ![t] = next[t]] /\ next[t] \in Nat
      /\ index' = [index EXCEPT ![t] = index[t]] /\ next[t] = 1 /\ index[t] = NoIndex
  BY <1>1 DEF CallsOK, Caller
<1>3. /\ call'[t].ip \in IPs /\ next'[t] = 1 /\ index'[t] = NoIndex
  BY <1>1, <1>2 DEF CallsOK
<1>4. CallsOK'
  BY <1>1, <1>2 DEF CallsOK
<1>5. Len(NamesOf(t)') \in Nat
  BY <1>4, NamesTypesNext
<1>6. Caller(t)'
  BY <1>3, <1>5 DEF Caller, NoIndex
<1> QED BY <1>1, <1>2, <1>6, OneCall

\* handleDNSUpdate gets its answer: nothing is left of the call.
LEMMA EndKeeps ==
  ASSUME CallsOK, \A s \in Callers : Caller(s), NEW t \in Callers,
         NEW result \in {"ok", "error", "notFound"}, EndCall(t, result),
         UNCHANGED <<vpscp, client>>,
         \/ index' = [index EXCEPT ![t] = NoIndex] /\ next' = [next EXCEPT ![t] = 1]
         \/ vpscp = FALSE /\ UNCHANGED <<index, next>>
  PROVE  CallsOK' /\ \A s \in Callers : Caller(s)'
<1>1. /\ pc' = [pc EXCEPT ![t] = "idle"] /\ call' = [call EXCEPT ![t] = NoCall]
      /\ reply' = [reply EXCEPT ![t] = result] /\ namespaces' = namespaces /\ NoCall \in Calls
  BY DEF EndCall, Goto, Calls, NoCall
<1>2. index' = [index EXCEPT ![t] = NoIndex] /\ next' = [next EXCEPT ![t] = 1]
  <2>1. CASE vpscp = FALSE /\ UNCHANGED <<index, next>>
    <3>1. index[t] = NoIndex /\ next[t] = 1
      BY <2>1 DEF Caller
    <3> QED BY <2>1, <3>1 DEF CallsOK
  <2> QED BY <2>1
<1>3. pc'[t] = "idle" /\ next'[t] = 1 /\ index'[t] = NoIndex
  BY <1>1, <1>2 DEF CallsOK
<1>4. CallsOK'
  BY <1>1, <1>2 DEF CallsOK
<1>5. Len(NamesOf(t)') \in Nat
  BY <1>4, NamesTypesNext
<1>6. next'[t] >= 1 /\ next'[t] <= Len(NamesOf(t)') + 1
  BY <1>3, <1>5
<1>7. Caller(t)'
  BY <1>3, <1>6 DEF Caller
<1> QED BY <1>1, <1>2, <1>7, OneCall

\* The steps of vpsmanager on the way.
LEMMA AdvanceKeeps ==
  ASSUME CallsOK, \A s \in Callers : Caller(s), NEW t \in Callers, vpscp = TRUE,
         UNCHANGED <<vpscp, client, namespaces, call, reply>>,
         \/ /\ pc[t] = "infos" /\ pc' = [pc EXCEPT ![t] = "records"] /\ UNCHANGED <<index, next>>
         \/ /\ pc[t] = "records" /\ pc' = [pc EXCEPT ![t] = "update"] /\ UNCHANGED next
            /\ index' = [index EXCEPT ![t] = FullIndex]
         \/ /\ AtName(t) /\ next' = [next EXCEPT ![t] = next[t] + 1] /\ UNCHANGED <<pc, index>>
  PROVE  CallsOK' /\ \A s \in Callers : Caller(s)'
<1>1. /\ Caller(t) /\ NamesOf(t)' = NamesOf(t) /\ Len(NamesOf(t)) \in Nat /\ next[t] \in Nat
      /\ Len(NamesOf(t)') = Len(NamesOf(t)) /\ index[t] \in {NoIndex, FullIndex}
      /\ pc[t] # "idle" /\ call[t] \in Calls /\ reply[t] \in {"none", "ok", "error", "notFound"}
  BY NamesTypes DEF NamesOf, Configured, AtName, CallsOK
<1>2. /\ call' = [call EXCEPT ![t] = call[t]] /\ reply' = [reply EXCEPT ![t] = reply[t]]
  BY DEF CallsOK
<1>3. /\ \E w \in {"records", "update"} : pc' = [pc EXCEPT ![t] = w]
      /\ \E n \in Nat : next' = [next EXCEPT ![t] = n]
      /\ \E i \in {NoIndex, FullIndex} : index' = [index EXCEPT ![t] = i]
  <2>1. CASE pc[t] = "infos" /\ pc' = [pc EXCEPT ![t] = "records"] /\ UNCHANGED <<index, next>>
    <3>1. next' = [next EXCEPT ![t] = next[t]] /\ index' = [index EXCEPT ![t] = index[t]]
      BY <2>1 DEF CallsOK
    <3> QED BY <1>1, <2>1, <3>1
  <2>2. CASE /\ pc[t] = "records" /\ pc' = [pc EXCEPT ![t] = "update"] /\ UNCHANGED next
             /\ index' = [index EXCEPT ![t] = FullIndex]
    <3>1. next' = [next EXCEPT ![t] = next[t]]
      BY <2>2 DEF CallsOK
    <3> QED BY <1>1, <2>2, <3>1
  <2>3. CASE AtName(t) /\ next' = [next EXCEPT ![t] = next[t] + 1] /\ UNCHANGED <<pc, index>>
    <3>1. /\ pc' = [pc EXCEPT ![t] = pc[t]] /\ pc[t] = "update"
          /\ index' = [index EXCEPT ![t] = index[t]]
      BY <2>3 DEF CallsOK, AtName
    <3>2. next[t] + 1 \in Nat
      BY <1>1
    <3>3. \E w \in {"records", "update"} : pc' = [pc EXCEPT ![t] = w]
      BY <3>1
    <3>4. \E n \in Nat : next' = [next EXCEPT ![t] = n]
      BY <2>3, <3>2
    <3> QED BY <1>1, <3>1, <3>3, <3>4
  <2> QED BY <2>1, <2>2, <2>3
<1>4. Caller(t)'
  <2>1. CASE pc[t] = "infos" /\ pc' = [pc EXCEPT ![t] = "records"] /\ UNCHANGED <<index, next>>
    BY <1>1, <2>1 DEF Caller, CallsOK
  <2>2. CASE /\ pc[t] = "records" /\ pc' = [pc EXCEPT ![t] = "update"] /\ UNCHANGED next
             /\ index' = [index EXCEPT ![t] = FullIndex]
    <3>1. pc'[t] = "update" /\ index'[t] = FullIndex
      BY <2>2 DEF CallsOK
    <3> QED BY <1>1, <2>2, <3>1 DEF Caller
  <2>3. CASE AtName(t) /\ next' = [next EXCEPT ![t] = next[t] + 1] /\ UNCHANGED <<pc, index>>
    <3>1. next'[t] = next[t] + 1 /\ next[t] <= Len(NamesOf(t)) /\ pc[t] = "update"
      BY <2>3 DEF CallsOK, AtName
    <3>2. next'[t] >= 1 /\ next'[t] <= Len(NamesOf(t)') + 1
      BY <1>1, <3>1
    <3> QED BY <1>1, <2>3, <3>1, <3>2 DEF Caller
  <2> QED BY <2>1, <2>2, <2>3
<1> QED BY <1>1, <1>2, <1>3, <1>4, OneCall


-----------------------------------------------------------------------------
(* The service. *)

\* Of the steps, those that leave the records and the requests given up alone.
LEMMA ServiceUntouched ==
  ASSUME ServiceOK, UNCHANGED <<value, late, namespaces>>
  PROVE  ServiceOK'
  BY DEF ServiceOK, Settable

\* A record that may be set is set, to an address that was asked for.
LEMMA SetKeeps ==
  ASSUME ServiceOK, NEW r \in RecordIds, Settable(r), NEW ip \in IPs,
         value' = [value EXCEPT ![r] = ip], UNCHANGED namespaces,
         \A w \in late' : w \in late
  PROVE  ServiceOK'
<1>1. value' \in [RecordIds -> IPs \union {OldIP}]
  BY DEF ServiceOK
<1>2. \A s \in RecordIds : Settable(s)' <=> Settable(s)
  BY DEF Settable
<1>3. ASSUME NEW s \in RecordIds, value'[s] # OldIP PROVE Settable(s)
  <2>1. CASE s = r
    BY <2>1
  <2>2. CASE s # r
    BY <1>3, <2>2 DEF ServiceOK
  <2> QED BY <2>1, <2>2
<1>4. ASSUME NEW w \in late'
      PROVE  \E s \in RecordIds, a \in IPs : w = <<s, a>> /\ Settable(s)
  BY DEF ServiceOK
<1> QED BY <1>1, <1>2, <1>3, <1>4 DEF ServiceOK

\* A request is given up that sets a record that may be set.
LEMMA GiveUpKeeps ==
  ASSUME ServiceOK, NEW r \in RecordIds, Settable(r), NEW ip \in IPs,
         late' = late \union {<<r, ip>>}, UNCHANGED <<value, namespaces>>
  PROVE  ServiceOK'
<1>1. \A s \in RecordIds : Settable(s)' <=> Settable(s)
  BY DEF Settable
<1>2. ASSUME NEW w \in late'
      PROVE  \E s \in RecordIds, a \in IPs : w = <<s, a>> /\ Settable(s)
  BY DEF ServiceOK
<1> QED BY <1>1, <1>2 DEF ServiceOK

-----------------------------------------------------------------------------
(* The steps of vpsmanager. *)

\* UpdateDNS begins with the infos of the domains.
LEMMA UpdateDNSKeeps ==
  ASSUME Inv, vpscp' = vpscp, NEW t \in Callers, NEW ns \in Asked, NEW ip \in IPs, UpdateDNS(t, ns, ip)
  PROVE  Inv'
<1>1. /\ BeginCall(t, ns, ip, "infos") /\ UNCHANGED <<vpscp, client, index, next>>
      /\ UNCHANGED <<value, late, namespaces>>
  BY DEF UpdateDNS, BeginCall, service
<1> QED BY <1>1, BeginKeeps, ServiceUntouched DEF Inv

\* A return by any step that leaves the service alone.
LEMMA ReturnKeeps ==
  ASSUME Inv, UNCHANGED <<vpscp, client, service>>, NEW t \in Callers,
         NEW result \in {"ok", "error", "notFound"}, Return(t, result)
  PROVE  Inv'
<1>1. EndCall(t, result) /\ index' = [index EXCEPT ![t] = NoIndex] /\ next' = [next EXCEPT ![t] = 1]
  BY DEF Return
<1>2. UNCHANGED <<value, late, namespaces>>
  BY <1>1 DEF EndCall, service
<1> QED BY <1>1, <1>2, EndKeeps, ServiceUntouched DEF Inv

\* An account without a zone ends the call; otherwise the records are next.
LEMMA GetDNSInfosKeeps ==
  ASSUME Inv, vpscp = TRUE, vpscp' = vpscp, NEW t \in Callers, GetDNSInfos(t)
  PROVE  Inv'
<1>1. CASE Return(t, "notFound")
  BY <1>1, ReturnKeeps DEF GetDNSInfos
<1>2. CASE Goto(t, "records") /\ UNCHANGED <<namespaces, call, index, next, reply, calls>>
  <2>1. /\ UNCHANGED <<vpscp, client, namespaces, call, reply, value, late>>
        /\ pc[t] = "infos" /\ pc' = [pc EXCEPT ![t] = "records"] /\ UNCHANGED <<index, next>>
    BY <1>2 DEF GetDNSInfos, Goto, service
  <2> QED BY <2>1, AdvanceKeeps, ServiceUntouched DEF Inv
<1> QED BY <1>1, <1>2 DEF GetDNSInfos

\* The records are indexed before the first name is looked up.
LEMMA GetDNSRecordsKeeps ==
  ASSUME Inv, vpscp = TRUE, vpscp' = vpscp, NEW t \in Callers, GetDNSRecords(t)
  PROVE  Inv'
<1>1. /\ UNCHANGED <<vpscp, client, namespaces, call, reply, value, late>>
      /\ pc[t] = "records" /\ pc' = [pc EXCEPT ![t] = "update"] /\ UNCHANGED next
      /\ index' = [index EXCEPT ![t] = FullIndex]
  BY DEF GetDNSRecords, Goto, service, FullIndex
<1> QED BY <1>1, AdvanceKeeps, ServiceUntouched DEF Inv

\* A name without a record is passed over.
LEMMA SkipNameKeeps ==
  ASSUME Inv, vpscp = TRUE, vpscp' = vpscp, NEW t \in Callers, SkipName(t)
  PROVE  Inv'
<1>1. /\ UNCHANGED <<vpscp, client, namespaces, call, reply, value, late>>
      /\ AtName(t) /\ next' = [next EXCEPT ![t] = next[t] + 1] /\ UNCHANGED <<pc, index>>
  BY DEF SkipName, service
<1> QED BY <1>1, AdvanceKeeps, ServiceUntouched DEF Inv

\* The update of a name sets the record that is indexed for it.
LEMMA UpdateDNSRecordKeeps ==
  ASSUME Inv, vpscp = TRUE, vpscp' = vpscp, NEW t \in Callers, UpdateDNSRecord(t)
  PROVE  Inv'
<1>1. /\ UNCHANGED <<vpscp, client, namespaces, call, reply, late>>
      /\ AtName(t) /\ next' = [next EXCEPT ![t] = next[t] + 1] /\ UNCHANGED <<pc, index>>
  BY DEF UpdateDNSRecord, HasName
<1>2. CallsOK' /\ \A s \in Callers : Caller(s)'
  BY <1>1, AdvanceKeeps DEF Inv
<1>3. /\ HasName(t) /\ CallsOK /\ Caller(t)
      /\ value' = [value EXCEPT ![index[t][Name(t)]] = call[t].ip]
  BY DEF UpdateDNSRecord, Inv
<1>4. /\ index[t][Name(t)] \in RecordIds /\ Settable(index[t][Name(t)])
      /\ call[t].ip \in IPs
  BY <1>3, IndexedSettable
<1>5. ServiceOK'
  BY <1>1, <1>3, <1>4, SetKeeps DEF Inv
<1> QED BY <1>2, <1>5 DEF Inv

\* A request that fails may be carried out later, and ends the call.
LEMMA RequestFailsKeeps ==
  ASSUME Inv, vpscp = TRUE, vpscp' = vpscp, NEW t \in Callers, RequestFails(t)
  PROVE  Inv'
<1>1. CASE UNCHANGED late
  <2>1. UNCHANGED <<vpscp, client, service>> /\ Return(t, "error")
    BY <1>1 DEF RequestFails, service
  <2> QED BY <2>1, ReturnKeeps
<1>2. CASE HasName(t) /\ late' = late \union {<<index[t][Name(t)], call[t].ip>>}
  <2>1. /\ EndCall(t, "error") /\ UNCHANGED <<vpscp, client, value>>
        /\ index' = [index EXCEPT ![t] = NoIndex] /\ next' = [next EXCEPT ![t] = 1]
    BY DEF RequestFails, Return
  <2>2. CallsOK' /\ \A s \in Callers : Caller(s)'
    BY <2>1, EndKeeps DEF Inv
  <2>3. namespaces' = namespaces
    BY <2>1 DEF EndCall
  <2>4. /\ index[t][Name(t)] \in RecordIds /\ Settable(index[t][Name(t)])
        /\ call[t].ip \in IPs
    BY <1>2, IndexedSettable DEF Inv
  <2>5. ServiceOK'
    BY <1>2, <2>1, <2>3, <2>4, GiveUpKeeps DEF Inv
  <2> QED BY <2>2, <2>5 DEF Inv
<1> QED BY <1>1, <1>2 DEF RequestFails

\* Behind the last name the call succeeds.
LEMMA FinishKeeps ==
  ASSUME Inv, vpscp' = vpscp, NEW t \in Callers, Finish(t)
  PROVE  Inv'
  BY ReturnKeeps DEF Finish

\* A step that is not one of a call.
LEMMA CallsUntouched ==
  ASSUME CallsOK, \A s \in Callers : Caller(s),
         UNCHANGED <<vpscp, namespaces, pc, call, index, next, reply>>,
         client' \in {"starting", "ready", "exited"}
  PROVE  CallsOK' /\ \A s \in Callers : Caller(s)'
<1>1. CallsOK'
  BY DEF CallsOK, FullIndex
<1>2. ASSUME NEW s \in Callers PROVE Caller(s)'
  <2>1. NamesOf(s)' = NamesOf(s)
    BY DEF NamesOf, Configured
  <2> QED BY <2>1 DEF Caller
<1> QED BY <1>1, <1>2

\* A request given up is carried out after all.
LEMMA CarryOutKeeps ==
  ASSUME Inv, vpscp' = vpscp, NEW w \in late, CarryOut(w)
  PROVE  Inv'
<1>1. /\ UNCHANGED <<vpscp, namespaces, pc, call, index, next, reply, client>>
      /\ late' = late \ {w} /\ value' = [value EXCEPT ![w[1]] = w[2]]
  BY DEF CarryOut, callVars
<1>2. CallsOK' /\ \A s \in Callers : Caller(s)'
  BY <1>1, CallsUntouched DEF Inv, CallsOK
<1>3. PICK r \in RecordIds, ip \in IPs : w = <<r, ip>> /\ Settable(r)
  BY DEF Inv, ServiceOK
<1>4. value' = [value EXCEPT ![r] = ip]
  BY <1>1, <1>3
<1>5. ServiceOK'
  BY <1>1, <1>3, <1>4, SetKeeps DEF Inv
<1> QED BY <1>2, <1>5 DEF Inv

\* Every step of vpsmanager keeps the invariant.
LEMMA VpsKeeps ==
  ASSUME Inv, vpscp = TRUE, vpscp' = vpscp, Next
  PROVE  Inv'
<1>1. CASE New
  <2>1. /\ UNCHANGED <<vpscp, namespaces, pc, call, index, next, reply, value, late>>
        /\ client' \in {"starting", "ready", "exited"}
    BY <1>1 DEF New, service, callVars
  <2> QED BY <2>1, CallsUntouched, ServiceUntouched DEF Inv
<1>2. CASE \E t \in Callers : \E ns \in Asked, ip \in IPs : UpdateDNS(t, ns, ip)
  BY <1>2, UpdateDNSKeeps
<1>3. CASE \E t \in Callers : Step(t)
  <2>1. PICK t \in Callers : Step(t)
    BY <1>3
  <2> QED BY <2>1, GetDNSInfosKeeps, GetDNSRecordsKeeps, SkipNameKeeps, UpdateDNSRecordKeeps,
             RequestFailsKeeps, FinishKeeps DEF Step
<1>4. CASE \E w \in late : CarryOut(w)
  BY <1>4, CarryOutKeeps
<1> QED BY <1>1, <1>2, <1>3, <1>4 DEF Next

-----------------------------------------------------------------------------
(* The steps of dnsupdater. *)

\* It has neither index nor records of the control panel.
LEMMA DnsEndKeeps ==
  ASSUME Inv, vpscp = FALSE, vpscp' = vpscp, UNCHANGED <<client, service, index, next>>,
         NEW t \in Callers, NEW result \in {"ok", "error", "notFound"}, Dns!Return(t, result)
  PROVE  Inv'
<1>1. EndCall(t, result)
  BY DEF Dns!Return, Dns!EndCall, Dns!Goto, Dns!NoCall, EndCall, Goto, NoCall
<1>2. UNCHANGED <<vpscp, client, value, late, index, next, namespaces>>
  BY <1>1 DEF EndCall, service
<1> QED BY <1>1, <1>2, EndKeeps, ServiceUntouched DEF Inv

\* Every step of dnsupdater does.
LEMMA DnsKeeps ==
  ASSUME Inv, vpscp = FALSE, vpscp' = vpscp, UNCHANGED <<client, service, index, next>>, Dns!Next
  PROVE  Inv'
<1>1. ASSUME NEW t \in Callers, NEW ns \in Asked, NEW ip \in IPs, Dns!UpdateDNS(t, ns, ip)
      PROVE  Inv'
  <2>1. BeginCall(t, ns, ip, "update")
    BY <1>1 DEF Dns!UpdateDNS, Dns!BeginCall, Dns!Goto, BeginCall, Goto
  <2>2. UNCHANGED <<vpscp, client, value, late, index, next, namespaces>>
    BY <2>1 DEF BeginCall, service
  <2> QED BY <2>1, <2>2, BeginKeeps, ServiceUntouched DEF Inv
<1>2. ASSUME NEW t \in Callers,
             Dns!Noop(t) \/ Dns!BadAddress(t) \/ Dns!NotConfigured(t)
               \/ Dns!UpdateRecord(t) \/ Dns!RequestFails(t)
      PROVE  Inv'
  <2>1. Dns!Return(t, "ok") \/ Dns!Return(t, "error") \/ Dns!Return(t, "notFound")
    BY <1>2 DEF Dns!Noop, Dns!BadAddress, Dns!NotConfigured, Dns!UpdateRecord, Dns!RequestFails
  <2> QED BY <2>1, DnsEndKeeps
<1>3. ASSUME NEW w \in dnsLate, Dns!CarryOut(w) PROVE Inv'
  <2>1. /\ UNCHANGED <<vpscp, namespaces, pc, call, index, next, reply, client, value, late>>
        /\ client' \in {"starting", "ready", "exited"}
    BY <1>3 DEF Dns!CarryOut, service, Inv, CallsOK
  <2> QED BY <2>1, CallsUntouched, ServiceUntouched DEF Inv
<1> QED BY <1>1, <1>2, <1>3 DEF Dns!Next

-----------------------------------------------------------------------------
\* Initially no call is made and no record has changed.
LEMMA InitInv == ClientsInit => Inv
<1> SUFFICES ASSUME ClientsInit PROVE Inv
  OBVIOUS
<1>1. /\ vpscp \in BOOLEAN /\ client = "starting" /\ namespaces \in Configs
      /\ pc = [t \in Callers |-> "idle"] /\ call = [t \in Callers |-> NoCall]
      /\ reply = [t \in Callers |-> "none"] /\ next = [t \in Callers |-> 1]
      /\ index = [t \in Callers |-> NoIndex]
      /\ value = [r \in RecordIds |-> OldIP] /\ late = {}
  BY DEF ClientsInit, Init, CallsInit
<1>2. NoCall \in Calls
  BY DEF NoCall, Calls
<1>3. CallsOK
  BY <1>1, <1>2 DEF CallsOK
<1>4. ServiceOK
  BY <1>1 DEF ServiceOK
<1>5. ASSUME NEW t \in Callers PROVE Caller(t)
  <2>1. pc[t] = "idle" /\ next[t] = 1 /\ index[t] = NoIndex
    BY <1>1
  <2>2. Len(NamesOf(t)) \in Nat
    BY <1>3, NamesTypes
  <2>3. next[t] >= 1 /\ next[t] <= Len(NamesOf(t)) + 1
    BY <2>1, <2>2
  <2> QED BY <2>1, <2>3 DEF Caller
<1> QED BY <1>3, <1>4, <1>5 DEF Inv

\* Every step of the client that is configured keeps the invariant.
LEMMA StepInv == Inv /\ [ClientsNext]_allVars => Inv'
<1> SUFFICES ASSUME Inv, [ClientsNext]_allVars PROVE Inv'
  OBVIOUS
<1>1. CASE UNCHANGED allVars
  <2>1. /\ UNCHANGED <<vpscp, namespaces, pc, call, index, next, reply, client, value, late>>
        /\ client' \in {"starting", "ready", "exited"}
    BY <1>1 DEF allVars, vars, service, callVars, Inv, CallsOK
  <2> QED BY <2>1, CallsUntouched, ServiceUntouched DEF Inv
<1>2. CASE vpscp /\ Next /\ vpscp' = vpscp
  <2>1. vpscp = TRUE
    BY <1>2 DEF Inv, CallsOK
  <2> QED BY <1>2, <2>1, VpsKeeps
<1>3. CASE ~vpscp /\ Dns!Next /\ UNCHANGED <<client, service, index, next>> /\ vpscp' = vpscp
  <2>1. vpscp = FALSE
    BY <1>3 DEF Inv, CallsOK
  <2> QED BY <1>3, <2>1, DnsKeeps
<1> QED BY <1>1, <1>2, <1>3 DEF ClientsNext

\* What UpdateDNS of both clients keeps (vpsmanager/client.go:76-142,
\* dnsupdater/updater.go:57-77): at most the last A record of a configured host is
\* changed or about to be, and a call is between the first and the last name of
\* its namespace.
THEOREM Invariance == ClientsSpec => []Inv
  BY InitInv, StepInv, PTL DEF ClientsSpec

\* Types; the check of a record's type on the way to its update
\* (vpsmanager/client.go:125) never fails.
THEOREM TypeCorrect == ClientsSpec => []TypeOK
<1>1. Inv => TypeOK
  <2> SUFFICES ASSUME Inv PROVE TypeOK
    OBVIOUS
  <2>1. late \subseteq RecordIds \X IPs
    BY DEF Inv, ServiceOK
  <2>2. ASSUME NEW t \in Callers
        PROVE  /\ \A h \in DOMAIN index[t] : Records[index[t][h]] = [host |-> h, type |-> "A"]
               /\ next[t] \in 1..Len(NamesOf(t)) + 1
               /\ pc[t] # "update" => next[t] = 1 /\ index[t] = NoIndex
    <3>1. Caller(t) /\ next[t] \in Nat /\ index[t] \in {NoIndex, FullIndex}
      BY DEF Inv, CallsOK
    <3>2. Len(NamesOf(t)) \in Nat
      BY NamesTypes DEF Inv
    <3>3. next[t] \in 1..Len(NamesOf(t)) + 1
      BY <3>1, <3>2 DEF Caller
    <3>4. ASSUME NEW h \in DOMAIN index[t]
          PROVE  Records[index[t][h]] = [host |-> h, type |-> "A"]
      <4>1. h \in Known /\ index[t][h] = IndexOf(h)
        BY <3>1 DEF NoIndex, FullIndex
      <4> QED BY <4>1, IndexOfRecord
    <3> QED BY <3>1, <3>3, <3>4 DEF Caller
  <2> QED BY <2>1, <2>2 DEF Inv, CallsOK, ServiceOK, TypeOK
<1> QED BY <1>1, Invariance, PTL

\* The index (vpsmanager/client.go:100-111): whatever calls overlap, fail or are
\* carried out late, only the last A record of a configured host changes.
THEOREM OthersKept == ClientsSpec => []OthersUntouched
<1>1. Inv => OthersUntouched
  BY DEF Inv, ServiceOK, Settable, OthersUntouched
<1> QED BY <1>1, Invariance, PTL

=============================================================================
