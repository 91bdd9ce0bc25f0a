------------------------- MODULE DnsRefinementProofs -------------------------
(***************************************************************************)
(* Both clients behind /update_dns keep the promise of DnsUpdate, for any  *)
(* callers, records of the account and configurations.  The proof maps     *)
(* every step of either client to a step of DnsUpdate, or to none.         *)
(***************************************************************************)
EXTENDS DnsProofs

-----------------------------------------------------------------------------
(* The service of dnsupdater, and the index of vpsmanager. *)

\* It knows the hosts of the account and carries out requests for these.
DnsServiceOK ==
  /\ zone \in [Known -> IPs \union {OldIP}]
  /\ dnsLate \subseteq [hosts : SUBSET Known, ip : IPs]

\* A call of vpsmanager that has come to the names has indexed the records.
IndexesOK == vpscp => \A t \in Callers : pc[t] = "update" => index[t] = FullIndex

RInv == Inv /\ DnsServiceOK /\ IndexesOK

\* Initially every host has its old address.
LEMMA InitDnsService == ClientsInit => DnsServiceOK
BY DEF ClientsInit, Dns!Init, DnsServiceOK

\* Every step keeps the hosts that the service knows.
LEMMA StepDnsService == RInv /\ [ClientsNext]_allVars => DnsServiceOK'
<1> SUFFICES ASSUME RInv, [ClientsNext]_allVars PROVE DnsServiceOK'
  OBVIOUS
<1>1. CASE UNCHANGED <<zone, dnsLate>>
  BY <1>1 DEF RInv, DnsServiceOK
<1>2. ASSUME NEW t \in Callers, ~vpscp, Dns!UpdateRecord(t) PROVE DnsServiceOK'
  <2>1. pc[t] = "update" /\ call[t].ip \in IPs
    BY <1>2 DEF Dns!UpdateRecord, Dns!Return, RInv, Inv, Caller
  <2> QED
    BY <1>2, <2>1 DEF Dns!UpdateRecord, Dns!Updated, RInv, DnsServiceOK
<1>3. ASSUME NEW t \in Callers, ~vpscp, Dns!RequestFails(t) PROVE DnsServiceOK'
  <2>1. pc[t] = "update" /\ call[t].ip \in IPs
    BY <1>3 DEF Dns!RequestFails, Dns!Return, RInv, Inv, Caller
  <2>2. Dns!Names(t) \in SUBSET Known
    BY DEF Dns!Names
  <2>3. [hosts |-> Dns!Names(t), ip |-> call[t].ip] \in [hosts : SUBSET Known, ip : IPs]
    BY <2>1, <2>2
  <2> QED
    BY <1>3, <2>3 DEF Dns!RequestFails, RInv, DnsServiceOK
<1>4. ASSUME NEW w \in dnsLate, Dns!CarryOut(w) PROVE DnsServiceOK'
  BY <1>4 DEF Dns!CarryOut, Dns!Updated, RInv, DnsServiceOK
<1> QED
  BY <1>1, <1>2, <1>3, <1>4
  DEF ClientsNext, Dns!Next, Dns!UpdateDNS, Dns!Noop, Dns!BadAddress, Dns!NotConfigured,
      dnsVars, allVars

\* Initially there is no call.
LEMMA InitIndexes == ClientsInit => IndexesOK
BY DEF ClientsInit, Init, CallsInit, IndexesOK

\* Every step keeps the indexes.
LEMMA StepIndexes == RInv /\ [ClientsNext]_allVars => IndexesOK'
<1> SUFFICES ASSUME RInv, [ClientsNext]_allVars, vpscp' = TRUE, NEW u \in Callers,
                    pc'[u] = "update"
             PROVE  index'[u] = FullIndex
  BY DEF IndexesOK, RInv, Inv, CallsOK, ClientsNext, allVars, FullIndex
<1>1. vpscp = TRUE /\ (Next \/ UNCHANGED vars)
  BY DEF ClientsNext, allVars, RInv, Inv, CallsOK
<1>2. /\ pc \in [Callers -> {"idle", "infos", "records", "update"}]
      /\ index \in [Callers -> {NoIndex, FullIndex}]
      /\ pc[u] = "update" => index[u] = FullIndex
  BY <1>1 DEF RInv, Inv, CallsOK, IndexesOK
<1>3. CASE UNCHANGED <<pc, index>>
  BY <1>2, <1>3
<1>4. ASSUME NEW t \in Callers, GetDNSRecords(t) PROVE index'[u] = FullIndex
  BY <1>2, <1>4 DEF GetDNSRecords, Goto, FullIndex
<1>5. ASSUME NEW t \in Callers, NEW where \in {"idle", "infos", "records"},
             pc' = [pc EXCEPT ![t] = where],
             index' = index \/ index' = [index EXCEPT ![t] = NoIndex]
      PROVE  index'[u] = FullIndex
  <2>1. u # t
    BY <1>2, <1>5
  <2> QED
    BY <1>2, <1>5, <2>1
<1>6. ASSUME NEW t \in Callers, NEW r, Return(t, r) PROVE index'[u] = FullIndex
  BY <1>5, <1>6 DEF Return, EndCall, Goto
<1>7. ASSUME NEW t \in Callers, NEW ns \in Asked, NEW ip \in IPs, UpdateDNS(t, ns, ip)
      PROVE  index'[u] = FullIndex
  BY <1>5, <1>7 DEF UpdateDNS, BeginCall, Goto
<1>8. ASSUME NEW t \in Callers, Step(t) PROVE index'[u] = FullIndex
  BY <1>3, <1>4, <1>5, <1>6, <1>8
  DEF Step, GetDNSInfos, SkipName, UpdateDNSRecord, RequestFails, Finish, Goto
<1> QED
  BY <1>1, <1>3, <1>7, <1>8 DEF Next, New, CarryOut, callVars, vars

-----------------------------------------------------------------------------
(* What DnsUpdate sees. *)

ZoneSeen   == IF vpscp THEN [h \in Known |-> value[IndexOf(h)]] ELSE zone
LateSeen   == IF vpscp THEN {<<Records[w[1]].host, w[2]>> : w \in late}
                       ELSE UNION {{<<h, w.ip>> : h \in w.hosts} : w \in dnsLate}
ActiveSeen == {t \in Callers : pc[t] # "idle"}
DoneOf(t)  == {NamesOf(t)[i] : i \in 1..(next[t] - 1)} \intersect Known
DoneSeen   == [t \in Callers |-> DoneOf(t)]

NamesSeen(ns) ==
  {h \in Known : /\ ns \in DOMAIN namespaces
                 /\ \E i \in 1..Len(namespaces[ns]) : namespaces[ns][i] = h}

\* The names DnsUpdate sees are those of the account.
LEMMA KnownSeen ==
  ASSUME RInv
  PROVE  /\ DOMAIN ZoneSeen = Known /\ ZoneSeen = [h \in Known |-> ZoneSeen[h]]
         /\ \A ns : Abstract!NamesIn(ns) = NamesSeen(ns)
         /\ Abstract!Known = Known
<1>1. DOMAIN ZoneSeen = Known /\ ZoneSeen = [h \in Known |-> ZoneSeen[h]]
  BY DEF RInv, DnsServiceOK, ZoneSeen
<1>2. Abstract!Known = Known
  BY <1>1 DEF Abstract!Known, ZoneSeen
<1> QED
  BY <1>1, <1>2 DEF Abstract!NamesIn, NamesSeen

\* A step DnsUpdate does not see.
LEMMA Unseen ==
  ASSUME UNCHANGED <<namespaces, ZoneSeen, LateSeen, ActiveSeen, call, DoneSeen, reply>>
  PROVE  UNCHANGED Abstract!vars
BY DEF Abstract!vars, ZoneSeen, LateSeen, ActiveSeen, DoneSeen, DoneOf

\* A call begins.
LEMMA BeginSeen ==
  ASSUME NEW t \in Callers, NEW ns \in Asked, NEW ip \in IPs,
         t \notin ActiveSeen, ActiveSeen' = ActiveSeen \union {t},
         call' = [call EXCEPT ![t] = [ns |-> ns, ip |-> ip]],
         DoneSeen' = [DoneSeen EXCEPT ![t] = {}],
         reply' = [reply EXCEPT ![t] = "none"],
         UNCHANGED <<namespaces, ZoneSeen, LateSeen>>
  PROVE  Abstract!Next
<1>1. Abstract!Begin(t, ns, ip)
  BY DEF Abstract!Begin, ZoneSeen, LateSeen, ActiveSeen, DoneSeen, DoneOf
<1> QED
  BY <1>1 DEF Abstract!Next

\* A call sets some names of its namespace.
LEMMA SetSeen ==
  ASSUME RInv, NEW t \in Callers, NEW H \in SUBSET Known,
         t \in ActiveSeen, H \subseteq NamesSeen(call[t].ns),
         ZoneSeen' = [h \in Known |-> IF h \in H THEN call[t].ip ELSE ZoneSeen[h]],
         DoneSeen' = [DoneSeen EXCEPT ![t] = @ \union H],
         UNCHANGED <<namespaces, LateSeen, ActiveSeen, call, reply>>
  PROVE  Abstract!Next
<1>1. Abstract!Put(t, H)
  BY KnownSeen DEF Abstract!Put, ZoneSeen
<1>2. Abstract!Set(t, H)
  BY <1>1 DEF Abstract!Set, LateSeen, ActiveSeen, DoneSeen, DoneOf
<1> QED
  BY <1>2 DEF Abstract!Next

\* A call is over.
EndSeen(t, result) ==
  /\ t \in ActiveSeen /\ ActiveSeen' = ActiveSeen \ {t}
  /\ call' = [call EXCEPT ![t] = NoCall]
  /\ DoneSeen' = [DoneSeen EXCEPT ![t] = {}]
  /\ reply' = [reply EXCEPT ![t] = result]
  /\ namespaces' = namespaces

\* It may be over in three ways.
LEMMA EndsSeen ==
  ASSUME NEW t \in Callers, NEW result, EndSeen(t, result),
         Abstract!NotFound(t)
           \/ \E H \in SUBSET Known : Abstract!Succeed(t, H) \/ Abstract!Fail(t, H)
  PROVE  Abstract!Next
<1>1. Abstract!End(t)
  BY DEF EndSeen, Abstract!End, Abstract!NoCall, NoCall, ActiveSeen, DoneSeen, DoneOf
<1> QED
  BY <1>1 DEF Abstract!Next

\* Nothing was asked for and nothing found.
LEMMA NotFoundSeen ==
  ASSUME NEW t \in Callers, EndSeen(t, "notFound"), DoneOf(t) = {},
         UNCHANGED <<ZoneSeen, LateSeen>>
  PROVE  Abstract!Next
<1>1. Abstract!NotFound(t)
  BY DEF EndSeen, Abstract!NotFound, ZoneSeen, LateSeen, DoneOf
<1> QED
  BY <1>1, EndsSeen

\* The last names are set, and with them all that the service knows.
LEMMA SucceedSeen ==
  ASSUME RInv, NEW t \in Callers, NEW H \in SUBSET Known, EndSeen(t, "ok"),
         H \subseteq NamesSeen(call[t].ns),
         ZoneSeen' = [h \in Known |-> IF h \in H THEN call[t].ip ELSE ZoneSeen[h]],
         NamesSeen(call[t].ns) \subseteq DoneOf(t) \union H,
         UNCHANGED LateSeen
  PROVE  Abstract!Next
<1>1. Abstract!Put(t, H)
  BY KnownSeen DEF Abstract!Put, ZoneSeen
<1>2. Abstract!NamesIn(call[t].ns) \subseteq DoneOf(t) \union H
  BY KnownSeen
<1>3. Abstract!Succeed(t, H)
  BY <1>1, <1>2 DEF EndSeen, Abstract!Succeed, LateSeen, DoneOf
<1> QED
  BY <1>3, EndsSeen

\* Some names may still be set by the request that failed.
LEMMA FailSeen ==
  ASSUME RInv, NEW t \in Callers, NEW H \in SUBSET Known, EndSeen(t, "error"),
         H \subseteq NamesSeen(call[t].ns),
         LateSeen' = LateSeen \union {<<h, call[t].ip>> : h \in H},
         UNCHANGED ZoneSeen
  PROVE  Abstract!Next
<1>1. H \subseteq Abstract!NamesIn(call[t].ns)
  BY KnownSeen
<1>2. Abstract!Fail(t, H)
  BY <1>1 DEF EndSeen, Abstract!Fail, ZoneSeen, LateSeen
<1> QED
  BY <1>2, EndsSeen

\* Requests for some hosts, all for one address, are carried out.
LEMMA CarryOutSeen ==
  ASSUME RInv, NEW H \in SUBSET Known, NEW ip,
         \A h \in H : <<h, ip>> \in LateSeen,
         ZoneSeen' = [h \in Known |-> IF h \in H THEN ip ELSE ZoneSeen[h]],
         LateSeen' \subseteq LateSeen,
         UNCHANGED <<namespaces, ActiveSeen, call, DoneSeen, reply>>
  PROVE  Abstract!Next
<1> DEFINE W == {<<h, ip>> : h \in H}
<1>1. W \in SUBSET LateSeen
  OBVIOUS
<1>2. /\ \A h \in H : <<h, ip>> \in W /\ <<h, ip>>[1] = h
      /\ \A w \in W : w[1] \in H /\ w[2] = ip
  <2>1. \A h \in H : <<h, ip>>[1] = h /\ <<h, ip>>[2] = ip
    OBVIOUS
  <2>2. \A w \in W : \E h \in H : w = <<h, ip>>
    OBVIOUS
  <2> QED
    BY <2>1, <2>2
<1>3. /\ \A h \in Known : (\E w \in W : w[1] = h) <=> h \in H
      /\ \A h \in H : (CHOOSE w \in W : w[1] = h)[2] = ip
  <2> HIDE DEF W
  <2>1. \A h \in Known : (\E w \in W : w[1] = h) <=> h \in H
    BY <1>2
  <2>2. SUFFICES ASSUME NEW h \in H PROVE (CHOOSE w \in W : w[1] = h)[2] = ip
    BY <2>1
  <2>3. (CHOOSE w \in W : w[1] = h) \in W
    BY <1>2
  <2> QED
    BY <1>2, <2>3
<1>4. ZoneSeen' = [h \in Known |->
                     IF \E w \in W : w[1] = h
                       THEN (CHOOSE w \in W : w[1] = h)[2] ELSE ZoneSeen[h]]
  <2> HIDE DEF W
  <2> QED
    BY <1>3
<1> HIDE DEF W
<1>5. Abstract!CarryOut(W)
  BY <1>4, KnownSeen DEF Abstract!CarryOut, ZoneSeen, LateSeen, ActiveSeen, DoneSeen, DoneOf
<1> QED
  BY <1>1, <1>5 DEF Abstract!Next, LateSeen

-----------------------------------------------------------------------------
(* The calls. *)

\* A step of one caller is not seen of the others.
LEMMA OtherCalls ==
  ASSUME RInv, NEW t \in Callers, UNCHANGED namespaces,
         \E c : call' = [call EXCEPT ![t] = c],
         \E n : next' = [next EXCEPT ![t] = n]
  PROVE  DoneSeen' = [DoneSeen EXCEPT ![t] = DoneOf(t)']
<1>1. next \in [Callers -> Nat] /\ call \in [Callers -> Calls]
  BY DEF RInv, Inv, CallsOK
<1>2. ASSUME NEW u \in Callers, u # t PROVE DoneOf(u)' = DoneOf(u)
  <2>1. next'[u] = next[u] /\ call'[u] = call[u]
    BY <1>1, <1>2
  <2> QED
    BY <2>1 DEF DoneOf, NamesOf, Configured
<1> QED
  BY <1>2 DEF DoneSeen

\* Before its first name a call has done nothing.
LEMMA NothingDone ==
  ASSUME NEW t
  PROVE  /\ next[t] = 1 => DoneOf(t) = {}
         /\ next'[t] = 1 => DoneOf(t)' = {}
<1>1. 1..(1 - 1) = {}
  OBVIOUS
<1> QED
  BY <1>1 DEF DoneOf

\* handleDNSUpdate calls either client.
LEMMA BeginOfEither ==
  ASSUME RInv, NEW t \in Callers, NEW ns \in Asked, NEW ip \in IPs,
         NEW first \in {"infos", "update"}, BeginCall(t, ns, ip, first),
         UNCHANGED <<next, ZoneSeen, LateSeen>>
  PROVE  Abstract!Next
<1>1. /\ pc \in [Callers -> {"idle", "infos", "records", "update"}]
      /\ next \in [Callers -> Nat]
  BY DEF RInv, Inv, CallsOK
<1>2. /\ pc[t] = "idle" /\ pc' = [pc EXCEPT ![t] = first]
      /\ call' = [call EXCEPT ![t] = [ns |-> ns, ip |-> ip]]
      /\ reply' = [reply EXCEPT ![t] = "none"] /\ namespaces' = namespaces
  BY DEF BeginCall, Goto
<1>3. t \notin ActiveSeen /\ ActiveSeen' = ActiveSeen \union {t}
  BY <1>1, <1>2 DEF ActiveSeen
<1>4. next[t] = 1
  BY <1>2 DEF RInv, Inv, Caller
<1>5. DoneSeen' = [DoneSeen EXCEPT ![t] = {}]
  <2>1. DoneOf(t)' = {}
    BY <1>4, NothingDone
  <2>2. next' = [next EXCEPT ![t] = next[t]]
    BY <1>1
  <2> QED
    BY <1>2, <2>1, <2>2, OtherCalls
<1> QED
  BY <1>2, <1>3, <1>5, BeginSeen

\* Either client returns.
LEMMA EndOfEither ==
  ASSUME RInv, NEW t \in Callers, NEW result, pc[t] # "idle", EndCall(t, result),
         \/ next' = [next EXCEPT ![t] = 1]
         \/ vpscp = FALSE /\ UNCHANGED next
  PROVE  EndSeen(t, result)
<1>1. /\ pc \in [Callers -> {"idle", "infos", "records", "update"}]
      /\ next \in [Callers -> Nat]
  BY DEF RInv, Inv, CallsOK
<1>2. /\ pc' = [pc EXCEPT ![t] = "idle"] /\ call' = [call EXCEPT ![t] = NoCall]
      /\ reply' = [reply EXCEPT ![t] = result] /\ namespaces' = namespaces
  BY DEF EndCall, Goto
<1>3. t \in ActiveSeen /\ ActiveSeen' = ActiveSeen \ {t}
  BY <1>1, <1>2 DEF ActiveSeen
<1>4. next' = [next EXCEPT ![t] = 1]
  <2>1. vpscp = FALSE => next[t] = 1
    BY DEF RInv, Inv, Caller
  <2> QED
    BY <1>1, <2>1
<1>5. DoneSeen' = [DoneSeen EXCEPT ![t] = {}]
  <2>1. next'[t] = 1
    BY <1>1, <1>4
  <2>2. DoneOf(t)' = {}
    BY <2>1, NothingDone
  <2> QED
    BY <1>2, <1>4, <2>2, OtherCalls
<1> QED
  BY <1>2, <1>3, <1>5 DEF EndSeen

\* Setting nothing.
LEMMA SetsNothing ==
  ASSUME RInv, UNCHANGED ZoneSeen
  PROVE  \A ip : ZoneSeen' = [h \in Known |-> IF h \in {} THEN ip ELSE ZoneSeen[h]]
BY KnownSeen

\* The names of the call of t, as DnsUpdate sees them.
LEMMA NamesOfCall ==
  ASSUME RInv, NEW t \in Callers
  PROVE  /\ NamesSeen(call[t].ns)
              = {NamesOf(t)[i] : i \in 1..Len(NamesOf(t))} \intersect Known
         /\ NamesSeen(call[t].ns) = Dns!Names(t)
<1>1. CASE Configured(t)
  <2>1. /\ call[t].ns \in DOMAIN namespaces /\ NamesOf(t) = namespaces[call[t].ns]
        /\ Dns!NamesOf(t) = NamesOf(t)
    BY <1>1 DEF Configured, NamesOf, Dns!NamesOf, Dns!Configured
  <2> QED
    BY <2>1 DEF NamesSeen, Dns!Names, Dns!Contains
<1>2. CASE ~Configured(t)
  <2>1. /\ call[t].ns \notin DOMAIN namespaces /\ NamesOf(t) = << >>
        /\ Dns!NamesOf(t) = NamesOf(t)
    BY <1>2 DEF Configured, NamesOf, Dns!NamesOf, Dns!Configured
  <2>2. 1..Len(<< >>) = {}
    OBVIOUS
  <2> QED
    BY <2>1, <2>2 DEF NamesSeen, Dns!Names, Dns!Contains
<1> QED
  BY <1>1, <1>2

-----------------------------------------------------------------------------
(* The steps of vpsmanager. *)

\* The records of two hosts are two.
LEMMA IndexInjective ==
  ASSUME NEW h \in Known, NEW g \in Known, IndexOf(h) = IndexOf(g)
  PROVE  h = g
<1>1. /\ Records[IndexOf(h)] = [host |-> h, type |-> "A"]
      /\ Records[IndexOf(g)] = [host |-> g, type |-> "A"]
  BY IndexOfRecord
<1>2. [host |-> h, type |-> "A"].host = h /\ [host |-> g, type |-> "A"].host = g
  OBVIOUS
<1> QED
  BY <1>1, <1>2

\* A record that may be set is the indexed one of its host.
LEMMA SettableIndexed ==
  ASSUME NEW r, Settable(r)
  PROVE  Records[r].host \in Known /\ r = IndexOf(Records[r].host)
<1> DEFINE h == Records[r].host
<1>1. r \in RecordIds /\ Records[r].type = "A" /\ h \in Hosts
  BY DEF Settable, Hosts
<1>2. r \in Indexed(h) /\ h \in Known
  BY <1>1 DEF Indexed, Known
<1>3. /\ IndexOf(h) \in RecordIds /\ Records[IndexOf(h)] = [host |-> h, type |-> "A"]
      /\ r <= IndexOf(h)
  BY <1>2, IndexOfRecord, IndexOfKnown
<1>4. Records[r] = [host |-> h, type |-> "A"]
  BY <1>1, RecordsTypes
<1>5. ~(IndexOf(h) > r)
  BY <1>3, <1>4 DEF Settable
<1>6. r \in Nat /\ IndexOf(h) \in Nat
  BY <1>1, <1>3, RecordsTypes
<1> QED
  BY <1>2, <1>3, <1>5, <1>6

\* Setting the record of a host is setting the host.
LEMMA RecordSet ==
  ASSUME RInv, vpscp = TRUE, vpscp' = TRUE, NEW g \in Known, NEW ip,
         value' = [value EXCEPT ![IndexOf(g)] = ip]
  PROVE  ZoneSeen' = [h \in Known |-> IF h \in {g} THEN ip ELSE ZoneSeen[h]]
<1>1. value \in [RecordIds -> IPs \union {OldIP}]
  BY DEF RInv, Inv, ServiceOK
<1>2. \A h \in Known : IndexOf(h) \in RecordIds
  BY IndexOfRecord
<1>3. \A h \in Known : value'[IndexOf(h)] = IF h \in {g} THEN ip ELSE value[IndexOf(h)]
  BY <1>1, <1>2, IndexInjective
<1> QED
  BY <1>3 DEF ZoneSeen

\* What a step of vpsmanager does not change is not seen.
LEMMA VpsUnseen ==
  ASSUME vpscp = TRUE, vpscp' = TRUE
  PROVE  /\ UNCHANGED value => UNCHANGED ZoneSeen
         /\ UNCHANGED late => UNCHANGED LateSeen
BY DEF ZoneSeen, LateSeen

\* Behind the name it is at, a call has done one name more, if it is known.
LEMMA NameDone ==
  ASSUME RInv, NEW t \in Callers, AtName(t), UNCHANGED <<namespaces, call>>,
         next' = [next EXCEPT ![t] = next[t] + 1]
  PROVE  DoneOf(t)' = DoneOf(t) \union ({Name(t)} \intersect Known)
<1>1. /\ next \in [Callers -> Nat] /\ next[t] >= 1
      /\ NamesOf(t)' = NamesOf(t)
  BY DEF RInv, Inv, CallsOK, Caller, NamesOf, Configured
<1>2. /\ next[t] \in Nat /\ next'[t] = next[t] + 1
      /\ 1..(next'[t] - 1) = (1..(next[t] - 1)) \union {next[t]}
  BY <1>1
<1> QED
  BY <1>1, <1>2 DEF DoneOf, Name

\* A step on the way to the records and past a name that has none.
LEMMA VpsAdvances ==
  ASSUME RInv, vpscp = TRUE, vpscp' = TRUE, NEW t \in Callers,
         \/ /\ GetDNSInfos(t) /\ Goto(t, "records")
            /\ UNCHANGED <<namespaces, call, index, next, reply, calls>>
         \/ GetDNSRecords(t)
         \/ SkipName(t)
  PROVE  UNCHANGED Abstract!vars
<1>1. /\ pc \in [Callers -> {"idle", "infos", "records", "update"}]
      /\ next \in [Callers -> Nat]
  BY DEF RInv, Inv, CallsOK
<1>2. UNCHANGED <<value, late, namespaces, call, reply>>
  BY DEF GetDNSInfos, GetDNSRecords, SkipName, service
<1>3. UNCHANGED <<ZoneSeen, LateSeen>>
  BY <1>2, VpsUnseen
<1>4. UNCHANGED ActiveSeen
  <2>1. \A u \in Callers : (pc'[u] # "idle") <=> (pc[u] # "idle")
    BY <1>1 DEF GetDNSInfos, GetDNSRecords, SkipName, Goto
  <2> QED
    BY <2>1 DEF ActiveSeen
<1>5. UNCHANGED DoneSeen
  <2>1. CASE UNCHANGED next
    BY <1>2, <2>1 DEF DoneSeen, DoneOf, NamesOf, Configured
  <2>2. CASE SkipName(t)
    <3>1. /\ AtName(t) /\ ~HasName(t) /\ index[t] = FullIndex
          /\ next' = [next EXCEPT ![t] = next[t] + 1]
      BY <2>2 DEF SkipName, AtName, RInv, IndexesOK
    <3>2. Name(t) \notin Known
      BY <3>1 DEF HasName, FullIndex
    <3>3. DoneOf(t)' = DoneOf(t)
      BY <1>2, <3>1, <3>2, NameDone
    <3>4. call' = [call EXCEPT ![t] = call[t]]
      BY <1>2 DEF RInv, Inv, CallsOK
    <3>5. DoneSeen' = [DoneSeen EXCEPT ![t] = DoneOf(t)']
      BY <1>2, <3>1, <3>4, OtherCalls
    <3> QED
      BY <3>3, <3>5 DEF DoneSeen
  <2> QED
    BY <2>1, <2>2 DEF GetDNSRecords
<1> QED
  BY <1>2, <1>3, <1>4, <1>5, Unseen

\* The name a call is at, in its namespace.
LEMMA NameSeen ==
  ASSUME RInv, NEW t \in Callers, HasName(t)
  PROVE  /\ Name(t) \in Known /\ Name(t) \in NamesSeen(call[t].ns)
         /\ index[t][Name(t)] = IndexOf(Name(t)) /\ pc[t] = "update"
<1>1. /\ AtName(t) /\ Name(t) \in DOMAIN index[t] /\ index[t] \in {NoIndex, FullIndex}
      /\ next[t] \in Nat /\ next[t] >= 1
  BY DEF HasName, RInv, Inv, CallsOK, Caller
<1>2. Name(t) \in Known /\ index[t][Name(t)] = IndexOf(Name(t))
  BY <1>1 DEF NoIndex, FullIndex
<1>3. Len(NamesOf(t)) \in Nat
  BY NamesTypes DEF RInv, Inv
<1>4. next[t] \in 1..Len(NamesOf(t))
  BY <1>1, <1>3 DEF AtName
<1>5. Name(t) \in NamesSeen(call[t].ns)
  BY <1>2, <1>4, NamesOfCall DEF Name
<1> QED
  BY <1>1, <1>2, <1>5 DEF AtName

\* updateDNSRecord sets one name.
LEMMA VpsSets ==
  ASSUME RInv, vpscp = TRUE, vpscp' = TRUE, NEW t \in Callers, UpdateDNSRecord(t)
  PROVE  Abstract!Next
<1> DEFINE g == Name(t)
<1>1. /\ HasName(t) /\ AtName(t) /\ g \in Known /\ g \in NamesSeen(call[t].ns)
      /\ value' = [value EXCEPT ![IndexOf(g)] = call[t].ip]
      /\ next' = [next EXCEPT ![t] = next[t] + 1] /\ pc[t] = "update"
      /\ UNCHANGED <<late, namespaces, pc, call, reply>>
  BY NameSeen DEF UpdateDNSRecord, HasName
<1>2. ZoneSeen' = [h \in Known |-> IF h \in {g} THEN call[t].ip ELSE ZoneSeen[h]]
  BY <1>1, RecordSet
<1>3. UNCHANGED LateSeen
  BY <1>1, VpsUnseen
<1>4. t \in ActiveSeen /\ UNCHANGED ActiveSeen
  BY <1>1 DEF ActiveSeen
<1>5. DoneSeen' = [DoneSeen EXCEPT ![t] = @ \union {g}]
  <2>1. DoneOf(t)' = DoneOf(t) \union {g}
    BY <1>1, NameDone
  <2>2. call' = [call EXCEPT ![t] = call[t]]
    BY <1>1 DEF RInv, Inv, CallsOK
  <2>3. DoneSeen' = [DoneSeen EXCEPT ![t] = DoneOf(t)']
    BY <1>1, <2>2, OtherCalls
  <2> QED
    BY <2>1, <2>3 DEF DoneSeen
<1>6. {g} \in SUBSET Known /\ {g} \subseteq NamesSeen(call[t].ns)
  BY <1>1
<1> HIDE DEF g
<1> QED
  BY <1>1, <1>2, <1>3, <1>4, <1>5, <1>6, SetSeen

\* A call that returns is over.
LEMMA VpsEnds ==
  ASSUME RInv, vpscp = TRUE, vpscp' = TRUE, NEW t \in Callers, NEW result,
         pc[t] # "idle", Return(t, result)
  PROVE  EndSeen(t, result)
BY EndOfEither DEF Return

\* The account has no zone.
LEMMA VpsFindsNothing ==
  ASSUME RInv, vpscp = TRUE, vpscp' = TRUE, NEW t \in Callers, GetDNSInfos(t),
         Return(t, "notFound")
  PROVE  Abstract!Next
<1>1. pc[t] = "infos" /\ UNCHANGED <<value, late>>
  BY DEF GetDNSInfos, service
<1>2. EndSeen(t, "notFound")
  BY <1>1, VpsEnds
<1>3. DoneOf(t) = {}
  BY <1>1, NothingDone DEF RInv, Inv, Caller
<1>4. UNCHANGED <<ZoneSeen, LateSeen>>
  BY <1>1, VpsUnseen
<1> QED
  BY <1>2, <1>3, <1>4, NotFoundSeen

\* Behind the last name, every name is set.
LEMMA VpsFinishes ==
  ASSUME RInv, vpscp = TRUE, vpscp' = TRUE, NEW t \in Callers, Finish(t)
  PROVE  Abstract!Next
<1>1. /\ pc[t] = "update" /\ next[t] > Len(NamesOf(t)) /\ UNCHANGED <<value, late>>
      /\ Return(t, "ok")
  BY DEF Finish, service
<1>2. EndSeen(t, "ok")
  BY <1>1, VpsEnds
<1>3. UNCHANGED <<ZoneSeen, LateSeen>>
  BY <1>1, VpsUnseen
<1>4. next[t] - 1 = Len(NamesOf(t))
  <2>1. /\ next[t] \in Nat /\ next[t] <= Len(NamesOf(t)) + 1 /\ Len(NamesOf(t)) \in Nat
    BY NamesTypes DEF RInv, Inv, CallsOK, Caller
  <2> QED
    BY <1>1, <2>1
<1> DEFINE H == {}
<1>5. NamesSeen(call[t].ns) \subseteq DoneOf(t) \union H
  BY <1>4, NamesOfCall DEF DoneOf
<1>6. ZoneSeen' = [h \in Known |-> IF h \in H THEN call[t].ip ELSE ZoneSeen[h]]
  BY <1>3, SetsNothing
<1>7. H \in SUBSET Known /\ H \subseteq NamesSeen(call[t].ns)
  OBVIOUS
<1> HIDE DEF H
<1> QED
  BY <1>2, <1>3, <1>5, <1>6, <1>7, SucceedSeen

\* A request fails, and may still be carried out if it was one for a record.
LEMMA VpsFails ==
  ASSUME RInv, vpscp = TRUE, vpscp' = TRUE, NEW t \in Callers, RequestFails(t)
  PROVE  Abstract!Next
<1>1. /\ pc[t] # "idle" /\ UNCHANGED value /\ Return(t, "error")
  BY DEF RequestFails, HasName, AtName
<1>2. EndSeen(t, "error") /\ UNCHANGED ZoneSeen
  BY <1>1, VpsEnds, VpsUnseen
<1>3. CASE UNCHANGED late
  <2>1. LateSeen' = LateSeen \union {<<h, call[t].ip>> : h \in {}}
    BY <1>3, VpsUnseen
  <2> QED
    BY <1>2, <2>1, FailSeen
<1>4. CASE HasName(t) /\ late' = late \union {<<index[t][Name(t)], call[t].ip>>}
  <2> DEFINE g == Name(t)
             w == <<IndexOf(g), call[t].ip>>
  <2>1. /\ g \in Known /\ g \in NamesSeen(call[t].ns) /\ late' = late \union {w}
    BY <1>4, NameSeen
  <2>2. <<Records[w[1]].host, w[2]>> = <<g, call[t].ip>>
    <3>1. Records[IndexOf(g)] = [host |-> g, type |-> "A"]
      BY <2>1, IndexOfRecord
    <3>2. Records[IndexOf(g)].host = g
      BY <3>1
    <3> QED
      BY <3>2
  <2> HIDE DEF w
  <2>3. LateSeen' = LateSeen \union {<<g, call[t].ip>>}
    BY <2>1, <2>2 DEF LateSeen
  <2> HIDE DEF g
  <2>4. LateSeen' = LateSeen \union {<<h, call[t].ip>> : h \in {g}}
    BY <2>3
  <2> QED
    BY <1>2, <2>1, <2>4, FailSeen
<1> QED
  BY <1>3, <1>4 DEF RequestFails

\* The service carries out a request that was given up.
LEMMA VpsCarriesOut ==
  ASSUME RInv, vpscp = TRUE, vpscp' = TRUE, NEW w \in late, CarryOut(w)
  PROVE  Abstract!Next
<1>1. PICK r \in RecordIds, ip \in IPs : w = <<r, ip>> /\ Settable(r)
  BY DEF RInv, Inv, ServiceOK
<1> DEFINE g == Records[r].host
<1>2. g \in Known /\ r = IndexOf(g)
  BY <1>1, SettableIndexed
<1>3. /\ late' \subseteq late /\ value' = [value EXCEPT ![IndexOf(g)] = ip]
      /\ UNCHANGED <<namespaces, pc, call, next, reply>>
  <2>1. w[1] = r /\ w[2] = ip
    BY <1>1
  <2> QED
    BY <1>2, <2>1 DEF CarryOut, callVars
<1>4. <<g, ip>> \in LateSeen
  <2>1. <<Records[w[1]].host, w[2]>> = <<g, ip>>
    BY <1>1
  <2> QED
    BY <2>1 DEF LateSeen
<1>5. LateSeen' \subseteq LateSeen
  BY <1>3 DEF LateSeen
<1> HIDE DEF g
<1> DEFINE H == {g}
<1>6. ZoneSeen' = [h \in Known |-> IF h \in H THEN ip ELSE ZoneSeen[h]]
  BY <1>2, <1>3, RecordSet
<1>7. UNCHANGED <<ActiveSeen, DoneSeen>>
  BY <1>3 DEF ActiveSeen, DoneSeen, DoneOf, NamesOf, Configured
<1>8. H \in SUBSET Known /\ \A h \in H : <<h, ip>> \in LateSeen
  BY <1>2, <1>4
<1> HIDE DEF H
<1> QED
  BY <1>3, <1>5, <1>6, <1>7, <1>8, CarryOutSeen

\* Every step of vpsmanager is a step of DnsUpdate, or not seen.
LEMMA VpsRefines ==
  ASSUME RInv, vpscp = TRUE, vpscp' = TRUE, Next
  PROVE  [Abstract!Next]_Abstract!vars
<1>1. CASE New
  <2>1. UNCHANGED <<value, late, namespaces, pc, call, next, reply>>
    BY <1>1 DEF New, service, callVars
  <2>2. UNCHANGED <<ZoneSeen, LateSeen, ActiveSeen, DoneSeen>>
    BY <2>1, VpsUnseen DEF ActiveSeen, DoneSeen, DoneOf, NamesOf, Configured
  <2> QED
    BY <2>1, <2>2, Unseen
<1>2. ASSUME NEW t \in Callers, NEW ns \in Asked, NEW ip \in IPs, UpdateDNS(t, ns, ip)
      PROVE  Abstract!Next
  <2>1. BeginCall(t, ns, ip, "infos") /\ UNCHANGED <<value, late, next>>
    BY <1>2 DEF UpdateDNS, service
  <2> QED
    BY <2>1, VpsUnseen, BeginOfEither
<1>3. ASSUME NEW t \in Callers, Step(t) PROVE [Abstract!Next]_Abstract!vars
  BY <1>3, VpsAdvances, VpsSets, VpsFindsNothing, VpsFinishes, VpsFails
  DEF Step, GetDNSInfos
<1>4. ASSUME NEW w \in late, CarryOut(w) PROVE Abstract!Next
  BY <1>4, VpsCarriesOut
<1> QED
  BY <1>1, <1>2, <1>3, <1>4 DEF Next

-----------------------------------------------------------------------------
(* The steps of dnsupdater. *)

\* What a step of dnsupdater does not change is not seen.
LEMMA DnsUnseen ==
  ASSUME vpscp = FALSE, vpscp' = FALSE
  PROVE  /\ UNCHANGED zone => UNCHANGED ZoneSeen
         /\ UNCHANGED dnsLate => UNCHANGED LateSeen
BY DEF ZoneSeen, LateSeen

\* A call that returns is over; it went through no names one by one.
LEMMA DnsEnds ==
  ASSUME RInv, vpscp = FALSE, vpscp' = FALSE, UNCHANGED next, NEW t \in Callers,
         NEW result, Dns!Return(t, result)
  PROVE  EndSeen(t, result) /\ DoneOf(t) = {}
<1>1. pc[t] = "update" /\ EndCall(t, result)
  BY DEF Dns!Return, Dns!EndCall, Dns!Goto, Dns!NoCall, EndCall, Goto, NoCall
<1>2. DoneOf(t) = {}
  BY NothingDone DEF RInv, Inv, Caller
<1> QED
  BY <1>1, <1>2, EndOfEither

\* Without namespaces there are no names to set.
LEMMA DnsNoop ==
  ASSUME RInv, vpscp = FALSE, vpscp' = FALSE, UNCHANGED next, NEW t \in Callers,
         Dns!Noop(t)
  PROVE  Abstract!Next
<1>1. EndSeen(t, "ok") /\ UNCHANGED <<ZoneSeen, LateSeen>>
  BY DnsEnds, DnsUnseen DEF Dns!Noop
<1> DEFINE H == {}
<1>2. NamesSeen(call[t].ns) \subseteq DoneOf(t) \union H
  BY DEF Dns!Noop, Dns!IsNoop, NamesSeen
<1>3. ZoneSeen' = [h \in Known |-> IF h \in H THEN call[t].ip ELSE ZoneSeen[h]]
  BY <1>1, SetsNothing
<1>4. H \in SUBSET Known /\ H \subseteq NamesSeen(call[t].ns)
  OBVIOUS
<1> HIDE DEF H
<1> QED
  BY <1>1, <1>2, <1>3, <1>4, SucceedSeen

\* The configured address does not parse.
LEMMA DnsBadAddress ==
  ASSUME RInv, vpscp = FALSE, vpscp' = FALSE, UNCHANGED next, NEW t \in Callers,
         Dns!BadAddress(t)
  PROVE  Abstract!Next
<1>1. EndSeen(t, "error") /\ UNCHANGED <<ZoneSeen, LateSeen>>
  BY DnsEnds, DnsUnseen DEF Dns!BadAddress
<1> DEFINE H == {}
<1>2. LateSeen' = LateSeen \union {<<h, call[t].ip>> : h \in H}
  BY <1>1
<1>3. H \in SUBSET Known /\ H \subseteq NamesSeen(call[t].ns)
  OBVIOUS
<1> HIDE DEF H
<1> QED
  BY <1>1, <1>2, <1>3, FailSeen

\* A namespace that is not configured.
LEMMA DnsNotConfigured ==
  ASSUME RInv, vpscp = FALSE, vpscp' = FALSE, UNCHANGED next, NEW t \in Callers,
         Dns!NotConfigured(t)
  PROVE  Abstract!Next
BY DnsEnds, DnsUnseen, NotFoundSeen DEF Dns!NotConfigured

\* The service sets all names in one step.
LEMMA DnsUpdates ==
  ASSUME RInv, vpscp = FALSE, vpscp' = FALSE, UNCHANGED next, NEW t \in Callers,
         Dns!UpdateRecord(t)
  PROVE  Abstract!Next
<1> DEFINE H == Dns!Names(t)
<1>1. EndSeen(t, "ok") /\ UNCHANGED LateSeen
  BY DnsEnds, DnsUnseen DEF Dns!UpdateRecord
<1>2. H \in SUBSET Known /\ H = NamesSeen(call[t].ns)
  BY NamesOfCall DEF Dns!Names
<1>3. ZoneSeen' = [h \in Known |-> IF h \in H THEN call[t].ip ELSE ZoneSeen[h]]
  BY DEF Dns!UpdateRecord, Dns!Updated, ZoneSeen
<1> HIDE DEF H
<1> QED
  BY <1>1, <1>2, <1>3, SucceedSeen

\* The request fails, and the service may carry it out all the same.
LEMMA DnsFails ==
  ASSUME RInv, vpscp = FALSE, vpscp' = FALSE, UNCHANGED next, NEW t \in Callers,
         Dns!RequestFails(t)
  PROVE  Abstract!Next
<1> DEFINE H == Dns!Names(t)
           w == [hosts |-> H, ip |-> call[t].ip]
<1>1. EndSeen(t, "error") /\ UNCHANGED ZoneSeen
  BY DnsEnds, DnsUnseen DEF Dns!RequestFails
<1>2. H \in SUBSET Known /\ H = NamesSeen(call[t].ns)
  BY NamesOfCall DEF Dns!Names
<1>3. CASE UNCHANGED dnsLate
  <2>1. LateSeen' = LateSeen \union {<<h, call[t].ip>> : h \in {}}
    BY <1>3, DnsUnseen
  <2> QED
    BY <1>1, <2>1, FailSeen
<1>4. CASE dnsLate' = dnsLate \union {w}
  <2>1. w.hosts = H /\ w.ip = call[t].ip
    OBVIOUS
  <2> HIDE DEF w
  <2>2. LateSeen' = LateSeen \union {<<h, w.ip>> : h \in w.hosts}
    BY <1>4 DEF LateSeen
  <2> HIDE DEF H
  <2> QED
    BY <1>1, <1>2, <2>1, <2>2, FailSeen
<1> QED
  BY <1>3, <1>4 DEF Dns!RequestFails

\* The service carries out a request that was given up.
LEMMA DnsCarriesOut ==
  ASSUME RInv, vpscp = FALSE, vpscp' = FALSE, UNCHANGED next, NEW w \in dnsLate,
         Dns!CarryOut(w)
  PROVE  Abstract!Next
<1>1. w.hosts \in SUBSET Known
  BY DEF RInv, DnsServiceOK
<1>2. \A h \in w.hosts : <<h, w.ip>> \in LateSeen
  BY DEF LateSeen
<1>3. ZoneSeen' = [h \in Known |-> IF h \in w.hosts THEN w.ip ELSE ZoneSeen[h]]
  BY DEF Dns!CarryOut, Dns!Updated, ZoneSeen
<1>4. LateSeen' \subseteq LateSeen
  BY DEF Dns!CarryOut, LateSeen
<1>5. UNCHANGED <<namespaces, ActiveSeen, call, DoneSeen, reply>>
  BY DEF Dns!CarryOut, ActiveSeen, DoneSeen, DoneOf, NamesOf, Configured
<1> QED
  BY <1>1, <1>2, <1>3, <1>4, <1>5, CarryOutSeen

\* Every step of dnsupdater is a step of DnsUpdate.
LEMMA DnsRefines ==
  ASSUME RInv, vpscp = FALSE, vpscp' = FALSE, UNCHANGED next, Dns!Next
  PROVE  Abstract!Next
<1>1. ASSUME NEW t \in Callers, NEW ns \in Asked, NEW ip \in IPs, Dns!UpdateDNS(t, ns, ip)
      PROVE  Abstract!Next
  <2>1. BeginCall(t, ns, ip, "update") /\ UNCHANGED <<zone, dnsLate>>
    BY <1>1 DEF Dns!UpdateDNS, Dns!BeginCall, Dns!Goto, BeginCall, Goto
  <2> QED
    BY <2>1, DnsUnseen, BeginOfEither
<1> QED
  BY <1>1, DnsNoop, DnsBadAddress, DnsNotConfigured, DnsUpdates, DnsFails, DnsCarriesOut
  DEF Dns!Next

-----------------------------------------------------------------------------
\* The promise holds before any call.
LEMMA InitRefines == ASSUME ClientsInit PROVE Abstract!Init
<1>1. /\ namespaces \in Configs /\ vpscp \in BOOLEAN
      /\ pc = [t \in Callers |-> "idle"] /\ call = [t \in Callers |-> NoCall]
      /\ reply = [t \in Callers |-> "none"] /\ next = [t \in Callers |-> 1]
      /\ value = [r \in RecordIds |-> OldIP] /\ late = {}
      /\ zone = [h \in Known |-> OldIP] /\ dnsLate = {}
  BY DEF ClientsInit, Init, CallsInit, Dns!Init
<1>2. ZoneSeen = [h \in Known |-> OldIP]
  <2>1. \A h \in Known : IndexOf(h) \in RecordIds
    BY IndexOfRecord
  <2> QED
    BY <1>1, <2>1 DEF ZoneSeen
<1>3. ZoneSeen \in UNION {[H -> {OldIP}] : H \in SUBSET Known}
  <2>1. ZoneSeen \in [Known -> {OldIP}] /\ Known \in SUBSET Known
    BY <1>2
  <2> QED
    BY <2>1
<1>4. LateSeen = {} /\ ActiveSeen = {}
  BY <1>1 DEF LateSeen, ActiveSeen
<1>5. DoneSeen = [t \in Callers |-> {}]
  <2>1. \A t \in Callers : DoneOf(t) = {}
    BY <1>1, NothingDone
  <2> QED
    BY <2>1 DEF DoneSeen
<1> QED
  BY <1>1, <1>3, <1>4, <1>5
  DEF Abstract!Init, Abstract!NoCall, NoCall, ZoneSeen, LateSeen, ActiveSeen, DoneSeen,
      DoneOf

\* A step of the clients is a step of DnsUpdate, or not seen.
LEMMA StepRefines == RInv /\ [ClientsNext]_allVars => [Abstract!Next]_Abstract!vars
<1> SUFFICES ASSUME RInv, [ClientsNext]_allVars PROVE [Abstract!Next]_Abstract!vars
  OBVIOUS
<1>1. CASE vpscp /\ Next /\ vpscp' = vpscp
  <2>1. vpscp = TRUE /\ vpscp' = TRUE
    BY <1>1 DEF RInv, Inv, CallsOK
  <2> QED
    BY <1>1, <2>1, VpsRefines
<1>2. CASE ~vpscp /\ Dns!Next /\ UNCHANGED next /\ vpscp' = vpscp
  <2>1. vpscp = FALSE /\ vpscp' = FALSE
    BY <1>2 DEF RInv, Inv, CallsOK
  <2> QED
    BY <1>2, <2>1, DnsRefines
<1>3. CASE UNCHANGED allVars
  <2>1. /\ UNCHANGED <<vpscp, value, late, zone, dnsLate, namespaces, pc, call>>
        /\ UNCHANGED <<next, reply>>
    BY <1>3 DEF allVars, vars, service, callVars, dnsVars
  <2>2. UNCHANGED <<ZoneSeen, LateSeen, ActiveSeen, DoneSeen>>
    BY <2>1 DEF ZoneSeen, LateSeen, ActiveSeen, DoneSeen, DoneOf, NamesOf, Configured
  <2> QED
    BY <2>1, <2>2, Unseen
<1> QED
  BY <1>1, <1>2, <1>3 DEF ClientsNext

\* UpdateDNS of either client (vpsmanager/client.go:76-142,
\* dnsupdater/updater.go:57-134) keeps the promise of DnsUpdate: whatever fails, is
\* carried out late or overlaps, a call changes names of its namespace only, "ok"
\* means that each of them the service knows was set by this call, and "not found"
\* that none was.
THEOREM Refinement == ClientsSpec => ImplementsDnsUpdate
<1>1. ClientsInit => Abstract!Init
  BY InitRefines
<1>2. ClientsInit => RInv
  BY InitInv, InitDnsService, InitIndexes DEF RInv
<1>3. RInv /\ [ClientsNext]_allVars => RInv'
  <2>1. RInv /\ [ClientsNext]_allVars => Inv'
    BY StepInv DEF RInv
  <2> QED
    BY <2>1, StepDnsService, StepIndexes DEF RInv
<1> QED
  BY <1>1, <1>2, <1>3, StepRefines, PTL DEF ClientsSpec, ImplementsDnsUpdate, Abstract!Spec

=============================================================================
