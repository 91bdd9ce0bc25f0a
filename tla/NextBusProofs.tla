--------------------------- MODULE NextBusProofs ---------------------------
(* Theorems about /nextbus: for any number of requests, any timetables and any
   withdrawals of tokens. *)
EXTENDS NextBus, TLAPS

\* What the loop has been through.
Passed(r) == IF pc[r] = "done" THEN kept[r] ELSE {i \in kept[r] : i < next[r]}

\* A bus that is still to come today.
Coming(bus) == bus.arrive >= now /\ DayOf[bus.arrive] = DayOf[now]

\* The invariant of the loop of handleNextBus, and of its result.
Choice(r) ==
  /\ pc[r] \notin {"choose", "done"} => next[r] = 1
  /\ pc[r] = "choose" \/ status[r] = 200 =>
       /\ \E i \in kept[r] : first[r] = list[r][i]
       /\ \A i \in kept[r] : /\ list[r][i].arrive >= listedAt[r]
                             /\ list[r][i].name \in query[r].routes
       /\ DayOf[listedAt[r]] = DayOf[now] =>
            \A i \in Passed(r) :
              Coming(list[r][i]) => first[r].arrive <= list[r][i].arrive

ChoiceInv == \A r \in Requests : Choice(r)

\* The token a request finds is the one its last try has left behind, and no other
\* request stores one while it does.
OwnToken(r) ==
  /\ r \notin mixed
  /\ pc[r] = "send" /\ tries[r] # <<>> => token = accepted
  /\ pc[r] = "wait" => carried[r] = token
  /\ pc[r] = "wait" /\ tries[r] # <<>> => token = accepted
  /\ pc[r] = "store" => carried[r] = accepted
  /\ \A i \in DOMAIN tries[r] : tries[r][i] = "refused" => i = 1

\* While nothing disturbs a request it is alone, so that is what it finds.
TokenInv ==
  \A r \in Requests :
    /\ pc[r] = "idle" => tries[r] = <<>>
    /\ ~disturbed[r] => (r \in Active => Active = {r}) /\ OwnToken(r)

\* A request is somewhere in /nextbus, or the world moves.
LEMMA NextCases ==
  ASSUME Next
  PROVE  \/ \E r \in Requests : \E q \in Queries : Ask(r, q)
         \/ \E r \in Requests : Send(r)
         \/ \E r \in Requests : Refused(r)
         \/ \E r \in Requests : StoreToken(r)
         \/ \E r \in Requests : UnknownStop(r)
         \/ \E r \in Requests : Fails(r)
         \/ \E r \in Requests : Panics(r)
         \/ \E r \in Requests : Listed(r)
         \/ \E r \in Requests : Compare(r)
         \/ \E r \in Requests : Show(r)
         \/ Tick
         \/ Expire
  BY DEF Next, Step

-----------------------------------------------------------------------------
(* Types. *)

\* Initially no request is made, and the token is one Yandex accepts or not.
LEMMA InitTypes == Init => TypeOK
<1> SUFFICES ASSUME Init PROVE TypeOK
  OBVIOUS
<1>1. ClockOK /\ TokenOK
  BY CalendarAssumption, ExpiriesAssumption DEF Init, ClockOK, TokenOK, Torn
<1>2. ChoiceOK
  BY DEF Init, ChoiceOK
<1>3. NoQuery \in Query /\ <<>> \in Seq(Outcomes) /\ Len(<<>>) = 0
  BY QueriesAssumption DEF NoQuery, Query
<1>4. RequestOK
  BY <1>3 DEF Init, RequestOK, Places, Codes, Tries
<1> QED BY <1>1, <1>2, <1>4 DEF TypeOK

\* The clock moves on within its bound.
LEMMA TickTypes ==
  ASSUME TypeOK, Tick
  PROVE  TypeOK'
<1>1. ClockOK'
  BY CalendarAssumption DEF TypeOK, ClockOK, Tick, choice
<1>2. TokenOK' /\ ChoiceOK' /\ RequestOK'
  BY DEF TypeOK, TokenOK, ChoiceOK, RequestOK, Tick, client, fetch, choice, Bus, NoBus
<1> QED BY <1>1, <1>2 DEF TypeOK

\* Yandex withdraws a token; the one it accepts then is a newer one.
LEMMA ExpireTypes ==
  ASSUME TypeOK, Expire
  PROVE  TypeOK'
<1>1. TokenOK'
  BY ExpiriesAssumption DEF TypeOK, TokenOK, Expire, client, fetch
<1>2. ClockOK' /\ ChoiceOK'
  BY DEF TypeOK, ClockOK, ChoiceOK, Expire, choice, Bus, NoBus
<1>3. RequestOK'
  BY DEF TypeOK, RequestOK, Expire, fetch
<1> QED BY <1>1, <1>2, <1>3 DEF TypeOK

\* The steps of a request that do not touch its choice.
LEMMA SameChoice ==
  ASSUME TypeOK, UNCHANGED <<now, choice>>, TokenOK', RequestOK'
  PROVE  TypeOK'
  BY DEF TypeOK, ClockOK, ChoiceOK, choice, Bus, NoBus

\* A step of one request keeps the types of requests when it keeps those of that one.
LEMMA OneRequestTypes ==
  ASSUME RequestOK, NEW r \in Requests,
         \E w \in Places : pc' = [pc EXCEPT ![r] = w],
         \E c \in Codes : status' = [status EXCEPT ![r] = c],
         \E t \in Seq(Outcomes) : tries' = [tries EXCEPT ![r] = t],
         pc'[r] = "done" <=> status'[r] # 0,
         Len(tries'[r]) <= Tries,
         pc'[r] \in {"idle", "send", "wait"} => Len(tries'[r]) < Tries,
         query' \in [Requests -> Query], disturbed' \in [Requests -> BOOLEAN]
  PROVE  RequestOK'
<1>1. pc' \in [Requests -> Places] /\ \A s \in Requests : s # r => pc'[s] = pc[s]
  BY DEF RequestOK
<1>2. status' \in [Requests -> Codes] /\ \A s \in Requests : s # r => status'[s] = status[s]
  BY DEF RequestOK
<1>3. /\ tries' \in [Requests -> Seq(Outcomes)]
      /\ \A s \in Requests : s # r => tries'[s] = tries[s]
  BY DEF RequestOK
<1>4. ASSUME NEW s \in Requests
      PROVE  /\ Len(tries'[s]) <= Tries
             /\ pc'[s] \in {"idle", "send", "wait"} => Len(tries'[s]) < Tries
             /\ pc'[s] = "done" <=> status'[s] # 0
  <2>1. CASE s = r
    BY <2>1
  <2>2. CASE s # r
    <3>1. pc'[s] = pc[s] /\ status'[s] = status[s] /\ tries'[s] = tries[s]
      BY <2>2, <1>1, <1>2, <1>3
    <3> QED BY <3>1 DEF RequestOK
  <2> QED BY <2>1, <2>2
<1> QED BY <1>1, <1>2, <1>3, <1>4 DEF RequestOK

\* A request arrives, or is refused for its arguments.
LEMMA AskTypes ==
  ASSUME TypeOK, NEW r \in Requests, NEW q \in Queries, Ask(r, q)
  PROVE  TypeOK'
<1>1. TokenOK'
  BY DEF TypeOK, TokenOK, Ask, client
<1>2. query' \in [Requests -> Query] /\ disturbed' \in [Requests -> BOOLEAN]
  <2>1. q \in Query /\ query' = [query EXCEPT ![r] = q]
    BY QueriesAssumption DEF Ask
  <2>2. query' \in [Requests -> Query]
    BY <2>1 DEF TypeOK, RequestOK
  <2>3. disturbed' \in [Requests -> BOOLEAN]
    <3>1. CASE UNCHANGED disturbed
      BY <3>1 DEF TypeOK, RequestOK
    <3>2. CASE disturbed' = [s \in Requests |-> disturbed[s] \/ s \in Active
                                                          \/ (s = r /\ Active # {})]
      BY <3>2
    <3> QED BY <3>1, <3>2 DEF Ask
  <2> QED BY <2>2, <2>3
<1>3. /\ \E w \in Places : pc' = [pc EXCEPT ![r] = w]
      /\ \E c \in Codes : status' = [status EXCEPT ![r] = c]
      /\ \E t \in Seq(Outcomes) : tries' = [tries EXCEPT ![r] = t]
  BY DEF TypeOK, RequestOK, Ask, Answer, Goto, Places, Codes
<1>4. /\ pc'[r] = "done" <=> status'[r] # 0
      /\ Len(tries'[r]) < Tries /\ Len(tries'[r]) <= Tries
  BY DEF TypeOK, RequestOK, Ask, Answer, Goto
<1>5. RequestOK'
  BY <1>2, <1>3, <1>4, OneRequestTypes DEF TypeOK
<1> QED BY <1>1, <1>5, SameChoice DEF Ask

\* What a request carries is a token that was accepted once, or a mixture.
LEMMA SendTypes ==
  ASSUME TypeOK, NEW r \in Requests, Send(r)
  PROVE  TypeOK'
<1>1. TokenReads \subseteq 0..accepted
  BY DEF TypeOK, TokenOK, TokenReads, Storing, Torn
<1>2. TokenOK'
  BY <1>1 DEF TypeOK, TokenOK, Send, client
<1>3. RequestOK'
  BY DEF TypeOK, RequestOK, Send, Goto, Places, Codes
<1> QED BY <1>2, <1>3, SameChoice DEF Send

\* A token is stored that Yandex has given out.
LEMMA StoreTypes ==
  ASSUME TypeOK, NEW r \in Requests, StoreToken(r)
  PROVE  TypeOK'
<1>1. TokenOK'
  BY DEF TypeOK, TokenOK, StoreToken, Torn, fetch
<1>2. /\ \E w \in Places : pc' = [pc EXCEPT ![r] = w]
      /\ \E c \in Codes : status' = [status EXCEPT ![r] = c]
      /\ \E t \in Seq(Outcomes) : tries' = [tries EXCEPT ![r] = t]
  BY DEF TypeOK, RequestOK, StoreToken, Answer, Goto, Places, Codes, fetch
<1>3. /\ pc'[r] = "done" <=> status'[r] # 0
      /\ pc'[r] \in {"idle", "send", "wait"} => Len(tries'[r]) < Tries
      /\ Len(tries'[r]) <= Tries
      /\ query' \in [Requests -> Query] /\ disturbed' \in [Requests -> BOOLEAN]
  BY DEF TypeOK, RequestOK, StoreToken, Answer, Goto, fetch
<1>4. RequestOK'
  BY <1>2, <1>3, OneRequestTypes DEF TypeOK
<1> QED BY <1>1, <1>4, SameChoice DEF StoreToken

\* client.go:147-158: a try is written down, and asks for no prognosis next time.
LEMMA TriedTypes ==
  ASSUME TypeOK, NEW r \in Requests, NEW what \in Outcomes, Tried(r, what)
  PROVE  /\ query' \in [Requests -> Query]
         /\ tries' \in [Requests -> Seq(Outcomes)]
         /\ \E t \in Seq(Outcomes) : tries' = [tries EXCEPT ![r] = t]
         /\ Len(tries'[r]) = Len(tries[r]) + 1 /\ Len(tries'[r]) <= Tries
         /\ pc[r] = "wait" /\ status[r] = 0
         /\ UNCHANGED <<now, token, disturbed>>
<1>1. query[r] \in Query
  BY DEF TypeOK, RequestOK
<1>2. [stop |-> query[r].stop, routes |-> query[r].routes, prognosis |-> FALSE] \in Query
  BY <1>1 DEF Query
<1>3. query' \in [Requests -> Query]
  BY <1>2 DEF TypeOK, RequestOK, Tried
<1>4. /\ tries[r] \in Seq(Outcomes) /\ pc[r] = "wait" /\ status[r] = 0
      /\ Len(tries[r]) < Tries /\ tries' = [tries EXCEPT ![r] = Append(tries[r], what)]
  BY DEF TypeOK, RequestOK, Tried
<1>5. /\ Append(tries[r], what) \in Seq(Outcomes)
      /\ Len(Append(tries[r], what)) = Len(tries[r]) + 1
  BY <1>4
<1>6. tries' \in [Requests -> Seq(Outcomes)] /\ tries'[r] = Append(tries[r], what)
  BY <1>4, <1>5 DEF TypeOK, RequestOK
<1>7. \E t \in Seq(Outcomes) : tries' = [tries EXCEPT ![r] = t]
  BY <1>4, <1>5
<1>8. Len(tries'[r]) = Len(tries[r]) + 1 /\ Len(tries'[r]) <= Tries
  BY <1>4, <1>5, <1>6 DEF Tries
<1> QED BY <1>3, <1>4, <1>6, <1>7, <1>8 DEF Tried

\* A refused try counts, and brings the token to store.
LEMMA RefusedTypes ==
  ASSUME TypeOK, NEW r \in Requests, Refused(r)
  PROVE  TypeOK'
<1>1. Tried(r, "refused") /\ "refused" \in Outcomes
  BY DEF Refused, Outcomes
<1>2. TokenOK'
  BY <1>1 DEF TypeOK, TokenOK, Refused, Tried, Storing
<1>3. RequestOK'
  BY <1>1, TriedTypes DEF TypeOK, RequestOK, Refused, Goto, Places, Codes
<1> QED BY <1>1, <1>2, <1>3, SameChoice, TriedTypes DEF Refused

\* A stop that Yandex does not know is tried again, up to the last try.
LEMMA UnknownTypes ==
  ASSUME TypeOK, NEW r \in Requests, UnknownStop(r)
  PROVE  TypeOK'
<1>1. Tried(r, "unknown") /\ "unknown" \in Outcomes
  BY DEF UnknownStop, Outcomes
<1>2. TokenOK'
  BY <1>1 DEF TypeOK, TokenOK, UnknownStop, Tried
<1>3. /\ \E w \in Places : pc' = [pc EXCEPT ![r] = w]
      /\ \E c \in Codes : status' = [status EXCEPT ![r] = c]
      /\ disturbed' \in [Requests -> BOOLEAN]
  BY <1>1, TriedTypes DEF TypeOK, RequestOK, UnknownStop, Answer, Goto, Places, Codes
<1>4. /\ pc'[r] = "done" <=> status'[r] # 0
      /\ pc'[r] \in {"idle", "send", "wait"} => Len(tries'[r]) < Tries
  BY <1>1, TriedTypes DEF TypeOK, RequestOK, UnknownStop, Answer, Goto
<1>5. RequestOK'
  BY <1>1, <1>3, <1>4, TriedTypes, OneRequestTypes DEF TypeOK
<1> QED BY <1>1, <1>2, <1>5, SameChoice, TriedTypes DEF UnknownStop

\* Any other failure ends the request.
LEMMA FailsTypes ==
  ASSUME TypeOK, NEW r \in Requests, Fails(r)
  PROVE  TypeOK'
<1>1. Tried(r, "failed") /\ "failed" \in Outcomes
  BY DEF Fails, Outcomes
<1>2. TokenOK'
  BY <1>1 DEF TypeOK, TokenOK, Fails, Tried
<1>3. RequestOK'
  BY <1>1, TriedTypes DEF TypeOK, RequestOK, Fails, Answer, Goto, Places, Codes
<1> QED BY <1>1, <1>2, <1>3, SameChoice, TriedTypes DEF Fails

\* client.go:211-216: a body that breaks the request off ends it without an answer.
LEMMA PanicsTypes ==
  ASSUME TypeOK, NEW r \in Requests, Panics(r)
  PROVE  TypeOK'
<1>1. Tried(r, "broken") /\ "broken" \in Outcomes
  BY DEF Panics, Outcomes
<1>2. TokenOK'
  BY <1>1 DEF TypeOK, TokenOK, Panics, Tried
<1>3. /\ \E w \in Places : pc' = [pc EXCEPT ![r] = w]
      /\ \E c \in Codes : status' = [status EXCEPT ![r] = c]
      /\ disturbed' \in [Requests -> BOOLEAN]
  BY <1>1, TriedTypes DEF TypeOK, RequestOK, Panics, Goto, Places, Codes
<1>4. pc'[r] = "panicked" /\ status'[r] = 0
  BY <1>1, TriedTypes DEF TypeOK, RequestOK, Panics, Goto
<1>5. RequestOK'
  BY <1>1, <1>3, <1>4, TriedTypes, OneRequestTypes DEF TypeOK
<1> QED BY <1>1, <1>2, <1>5, SameChoice, TriedTypes DEF Panics

\* service.go:56-86: what a bus is told to arrive at is an instant of the
\* timetable, or the zero time.
LEMMA BusesTypes ==
  ASSUME TypeOK, NEW tt \in Timetables
  PROVE  /\ Buses(tt) \in Seq(Bus) /\ DOMAIN Buses(tt) = DOMAIN tt
         /\ DOMAIN tt \subseteq Nat \ {0}
         /\ \A i \in DOMAIN tt : Buses(tt)[i] \in Bus
<1>1. tt \in Seq(Transport) /\ \A i \in DOMAIN tt : tt[i].value <= LastTime - MaxTime
  BY TimetableAssumption
<1>2. \A i \in DOMAIN tt : tt[i] \in Transport
  BY <1>1
<1>3. ASSUME NEW tr \in Transport, tr.value <= LastTime - MaxTime
      PROVE  Arrive(tr) \in Instants \union {ZeroTime}
  <2>1. /\ now \in 0..MaxTime /\ tr.value \in Nat /\ LastTime \in Nat /\ MaxTime \in Nat
        /\ MaxTime <= LastTime
    BY CalendarAssumption DEF TypeOK, ClockOK, Transport
  <2>2. now + tr.value \in Instants
    BY <2>1, <1>3 DEF Instants
  <2>3. /\ tr.scheduled \in Instants \union {ZeroTime}
        /\ tr.estimated \in Instants /\ tr.begin \in Instants
    BY DEF Transport
  <2> QED BY <2>2, <2>3 DEF Arrive
<1>4. ASSUME NEW i \in DOMAIN tt
      PROVE  Buses(tt)[i] \in Bus
  <2>1. tt[i] \in Transport /\ tt[i].name \in Names
    BY <1>2 DEF Transport
  <2> QED BY <2>1, <1>1, <1>3 DEF Buses, Bus
<1>5. /\ Buses(tt) = [i \in 1..Len(tt) |-> Buses(tt)[i]] /\ Len(tt) \in Nat
      /\ DOMAIN tt = 1..Len(tt) /\ DOMAIN Buses(tt) = DOMAIN tt
  BY <1>1 DEF Buses
<1> QED BY <1>4, <1>5

\* What Listed does, of which the proofs speak.
LEMMA ListedShape ==
  ASSUME TypeOK, NEW r \in Requests, Listed(r)
  PROVE  \E tt \in Timetables :
           /\ list' = [list EXCEPT ![r] = Buses(tt)]
           /\ kept' = [kept EXCEPT ![r] =
                        {i \in DOMAIN tt : Wanted(Buses(tt)[i], query[r].routes)}]
           /\ \/ Answer(r, 404) /\ UNCHANGED first
              \/ \E i \in kept'[r] :
                   /\ first' = [first EXCEPT ![r] = Buses(tt)[i]]
                   /\ \/ Answer(r, 200) /\ kept'[r] = {i}
                      \/ Goto(r, "choose") /\ UNCHANGED status
<1>1. PICK tt \in Timetables :
        LET buses == Buses(tt)
            keep  == {i \in DOMAIN tt : Wanted(buses[i], query[r].routes)}
        IN /\ list' = [list EXCEPT ![r] = buses]
           /\ kept' = [kept EXCEPT ![r] = keep]
           /\ \/ keep = {} /\ Answer(r, 404) /\ UNCHANGED first
              \/ \E i \in keep :
                   /\ \A j \in keep : i <= j
                   /\ first' = [first EXCEPT ![r] = buses[i]]
                   /\ IF keep = {i} THEN Answer(r, 200)
                                    ELSE Goto(r, "choose") /\ UNCHANGED status
  BY DEF Listed
<1>2. kept'[r] = {i \in DOMAIN tt : Wanted(Buses(tt)[i], query[r].routes)}
  BY <1>1 DEF TypeOK, ChoiceOK
<1> QED BY <1>1, <1>2

\* A timetable becomes buses, of which some are kept.
LEMMA ListedTypes ==
  ASSUME TypeOK, NEW r \in Requests, Listed(r)
  PROVE  TypeOK'
<1>1. PICK tt \in Timetables :
        /\ list' = [list EXCEPT ![r] = Buses(tt)]
        /\ kept' = [kept EXCEPT ![r] =
                     {i \in DOMAIN tt : Wanted(Buses(tt)[i], query[r].routes)}]
        /\ \/ Answer(r, 404) /\ UNCHANGED first
           \/ \E i \in kept'[r] :
                /\ first' = [first EXCEPT ![r] = Buses(tt)[i]]
                /\ \/ Answer(r, 200) /\ kept'[r] = {i}
                   \/ Goto(r, "choose") /\ UNCHANGED status
  BY ListedShape
<1>2. /\ Buses(tt) \in Seq(Bus) /\ DOMAIN Buses(tt) = DOMAIN tt
      /\ DOMAIN tt \subseteq Nat \ {0} /\ \A i \in DOMAIN tt : Buses(tt)[i] \in Bus
  BY BusesTypes
<1>3. Tried(r, "listed") /\ "listed" \in Outcomes
  BY DEF Listed, Outcomes
<1>4. TokenOK' /\ ClockOK'
  BY <1>3 DEF TypeOK, TokenOK, ClockOK, Listed, Tried
<1>5. \A i \in DOMAIN tt :
        Wanted(Buses(tt)[i], query[r].routes) => Buses(tt)[i].arrive \in Instants
  BY <1>2, CalendarAssumption DEF Wanted, Bus, ZeroTime, TypeOK, ClockOK
<1>6. kept'[r] \subseteq DOMAIN tt
  BY <1>1 DEF TypeOK, ChoiceOK
<1>7. list' \in [Requests -> Seq(Bus)] /\ kept' \in [Requests -> SUBSET Nat]
  BY <1>1, <1>2 DEF TypeOK, ChoiceOK
<1>8. first' \in [Requests -> Bus \union {NoBus}]
  BY <1>1, <1>2, <1>6 DEF TypeOK, ChoiceOK
<1>9. \A s \in Requests : \A i \in kept'[s] :
        i \in DOMAIN list'[s] /\ list'[s][i].arrive \in Instants
  BY <1>1, <1>2, <1>5 DEF TypeOK, ChoiceOK
<1>10. ChoiceOK'
  BY <1>7, <1>8, <1>9 DEF ChoiceOK, TypeOK, Listed
<1>11. /\ \E w \in Places : pc' = [pc EXCEPT ![r] = w]
       /\ \E c \in Codes : status' = [status EXCEPT ![r] = c]
       /\ disturbed' \in [Requests -> BOOLEAN]
  BY <1>1, <1>3, TriedTypes DEF TypeOK, RequestOK, Answer, Goto, Places, Codes
<1>12. /\ pc'[r] = "done" <=> status'[r] # 0
       /\ pc'[r] \notin {"idle", "send", "wait"}
  BY <1>1, <1>3, TriedTypes DEF TypeOK, RequestOK, Answer, Goto
<1>13. RequestOK'
  BY <1>3, <1>11, <1>12, TriedTypes, OneRequestTypes DEF TypeOK
<1> QED BY <1>4, <1>10, <1>13 DEF TypeOK

\* The candidate stays, or becomes one of the kept buses.
LEMMA CompareTypes ==
  ASSUME TypeOK, NEW r \in Requests, Compare(r)
  PROVE  TypeOK'
<1>1. PICK i \in kept[r] :
        /\ first' = [first EXCEPT ![r] = IF Better(list[r][i], @) THEN list[r][i] ELSE @]
        /\ next' = [next EXCEPT ![r] = i + 1]
  BY DEF Compare
<1>2. i \in Nat /\ list[r][i] \in Bus /\ first[r] \in Bus \union {NoBus}
  BY DEF TypeOK, ChoiceOK
<1>3. ChoiceOK'
  BY <1>1, <1>2 DEF TypeOK, ChoiceOK, Compare
<1>4. ClockOK' /\ TokenOK' /\ RequestOK'
  BY DEF TypeOK, ClockOK, TokenOK, RequestOK, Compare, client, fetch
<1> QED BY <1>3, <1>4 DEF TypeOK

\* The request is answered with its candidate.
LEMMA ShowTypes ==
  ASSUME TypeOK, NEW r \in Requests, Show(r)
  PROVE  TypeOK'
<1>1. TokenOK'
  BY DEF TypeOK, TokenOK, Show, client, fetch
<1>2. RequestOK'
  BY DEF TypeOK, RequestOK, Show, Answer, Goto, Places, Codes, fetch
<1> QED BY <1>1, <1>2, SameChoice DEF Show

\* Every step keeps the types.
LEMMA StepTypes == TypeOK /\ [Next]_vars => TypeOK'
<1> SUFFICES ASSUME TypeOK, [Next]_vars PROVE TypeOK'
  OBVIOUS
<1>1. CASE Next
  BY <1>1, NextCases, TickTypes, ExpireTypes, AskTypes, SendTypes, StoreTypes, RefusedTypes,
     UnknownTypes, FailsTypes, PanicsTypes, ListedTypes, CompareTypes, ShowTypes
<1>2. CASE UNCHANGED vars
  BY <1>2 DEF TypeOK, ClockOK, TokenOK, ChoiceOK, RequestOK, vars, client, fetch, choice
<1> QED BY <1>1, <1>2

-----------------------------------------------------------------------------
(* The choice. *)

\* Initially nothing is chosen.
LEMMA InitChoice == Init => ChoiceInv
<1> SUFFICES ASSUME Init, NEW r \in Requests PROVE Choice(r)
  BY DEF ChoiceInv
<1>1. pc[r] = "idle" /\ next[r] = 1 /\ status[r] = 0
  BY DEF Init
<1> QED BY <1>1 DEF Choice

\* Nothing that a choice rests on changes, and none is made.
LEMMA ChoiceKept ==
  ASSUME TypeOK, ChoiceInv, UNCHANGED <<now, choice>>,
         \A s \in Requests :
           /\ pc'[s] \notin {"choose", "done"} => pc[s] \notin {"choose", "done"}
           /\ pc'[s] = "choose" \/ status'[s] = 200 =>
                pc'[s] = pc[s] /\ status'[s] = status[s] /\ query'[s] = query[s]
  PROVE  ChoiceInv'
<1> SUFFICES ASSUME NEW s \in Requests PROVE Choice(s)'
  BY DEF ChoiceInv
<1>1. Choice(s) /\ UNCHANGED <<now, list, kept, listedAt, first, next>>
  BY DEF ChoiceInv, choice
<1>2. CASE pc'[s] = "choose" \/ status'[s] = 200
  BY <1>1, <1>2 DEF Choice, Passed, Coming
<1>3. CASE ~(pc'[s] = "choose" \/ status'[s] = 200)
  BY <1>1, <1>3 DEF Choice
<1> QED BY <1>2, <1>3

\* The steps before a timetable is there choose nothing.
LEMMA QuietChoice ==
  ASSUME TypeOK, ChoiceInv, NEW r \in Requests,
         \/ \E q \in Queries : Ask(r, q)
         \/ Send(r) \/ Refused(r) \/ StoreToken(r) \/ UnknownStop(r) \/ Fails(r)
         \/ Panics(r)
  PROVE  ChoiceInv'
<1>1. ASSUME NEW q \in Queries, Ask(r, q) PROVE ChoiceInv'
  BY <1>1, ChoiceKept DEF TypeOK, RequestOK, Ask, Answer, Goto
<1>2. CASE Send(r)
  BY <1>2, ChoiceKept DEF TypeOK, RequestOK, Send, Goto
<1>3. CASE Refused(r)
  BY <1>3, ChoiceKept DEF TypeOK, RequestOK, Refused, Tried, Goto
<1>4. CASE StoreToken(r)
  BY <1>4, ChoiceKept DEF TypeOK, RequestOK, StoreToken, Answer, Goto, fetch
<1>5. CASE UnknownStop(r)
  BY <1>5, ChoiceKept DEF TypeOK, RequestOK, UnknownStop, Tried, Answer, Goto
<1>6. CASE Fails(r)
  BY <1>6, ChoiceKept DEF TypeOK, RequestOK, Fails, Tried, Answer, Goto
<1>7. CASE Panics(r)
  BY <1>7, ChoiceKept DEF TypeOK, RequestOK, Panics, Tried, Goto
<1> QED BY <1>1, <1>2, <1>3, <1>4, <1>5, <1>6, <1>7

\* A day that has not ended at the later instant had not ended before.
LEMMA SameDay ==
  ASSUME NEW s \in Instants, NEW t \in Instants, NEW u \in Instants,
         s <= t, t <= u, DayOf[s] = DayOf[u]
  PROVE  DayOf[t] = DayOf[s]
<1>1. DayOf[s] <= DayOf[t] /\ DayOf[t] <= DayOf[u]
  BY CalendarAssumption
<1>2. DayOf[s] \in Nat /\ DayOf[t] \in Nat
  BY CalendarAssumption
<1> QED BY <1>1, <1>2

\* A later clock passes over more buses: earlier comparisons stay good.
LEMMA TickChoice ==
  ASSUME TypeOK, ChoiceInv, Tick
  PROVE  ChoiceInv'
<1> SUFFICES ASSUME NEW s \in Requests PROVE Choice(s)'
  BY DEF ChoiceInv
<1>1. /\ Choice(s) /\ now' = now + 1 /\ now < MaxTime
      /\ UNCHANGED <<pc, query, list, kept, listedAt, first, next, status>>
  BY DEF ChoiceInv, Tick, choice, fetch
<1>2. /\ now \in Instants /\ now' \in Instants /\ listedAt[s] \in Instants
      /\ listedAt[s] <= now /\ now <= now'
  BY <1>1, CalendarAssumption DEF TypeOK, ClockOK, Instants
<1>3. ASSUME DayOf[listedAt[s]] = DayOf[now'], pc[s] = "choose" \/ status[s] = 200,
             NEW i \in Passed(s), Coming(list[s][i])'
      PROVE  first[s].arrive <= list[s][i].arrive
  <2>1. i \in kept[s] /\ list[s][i].arrive \in Instants
    BY DEF Passed, TypeOK, ChoiceOK
  <2>2. list[s][i].arrive >= now' /\ DayOf[list[s][i].arrive] = DayOf[now']
    BY <1>1, <1>3 DEF Coming
  <2>3. DayOf[listedAt[s]] = DayOf[now] /\ DayOf[now] = DayOf[now']
    BY <1>2, <1>3, SameDay
  <2>4. Coming(list[s][i])
    BY <1>1, <1>2, <2>1, <2>2, <2>3 DEF Coming, Instants
  <2> QED BY <1>1, <1>3, <2>3, <2>4 DEF Choice
<1>4. Passed(s)' = Passed(s)
  BY <1>1 DEF Passed
<1> QED BY <1>1, <1>3, <1>4 DEF Choice

\* The loop begins with the first of the kept buses as its candidate.
LEMMA ListedChoice ==
  ASSUME TypeOK, ChoiceInv, NEW r \in Requests, Listed(r)
  PROVE  ChoiceInv'
<1> SUFFICES ASSUME NEW s \in Requests PROVE Choice(s)'
  BY DEF ChoiceInv
<1>1. PICK tt \in Timetables :
        /\ list' = [list EXCEPT ![r] = Buses(tt)]
        /\ kept' = [kept EXCEPT ![r] =
                     {i \in DOMAIN tt : Wanted(Buses(tt)[i], query[r].routes)}]
        /\ \/ Answer(r, 404) /\ UNCHANGED first
           \/ \E i \in kept'[r] :
                /\ first' = [first EXCEPT ![r] = Buses(tt)[i]]
                /\ \/ Answer(r, 200) /\ kept'[r] = {i}
                   \/ Goto(r, "choose") /\ UNCHANGED status
  BY ListedShape
<1>2. /\ pc[r] = "wait" /\ status[r] = 0 /\ next' = next /\ now' = now
      /\ listedAt' = [listedAt EXCEPT ![r] = now]
      /\ query' = [query EXCEPT ![r] = [stop |-> @.stop, routes |-> @.routes, prognosis |-> FALSE]]
  BY DEF Listed, Tried, TypeOK, RequestOK
<1>3. CASE s # r
  <2>1. /\ UNCHANGED <<pc[s], status[s]>>
        /\ UNCHANGED <<list[s], kept[s], first[s], next[s], listedAt[s], query[s], now>>
    BY <1>1, <1>2, <1>3 DEF TypeOK, ChoiceOK, ClockOK, RequestOK, Answer, Goto
  <2>2. Passed(s)' = Passed(s)
    BY <2>1 DEF Passed
  <2>3. Choice(s)
    BY DEF ChoiceInv
  <2> QED BY <2>1, <2>2, <2>3 DEF Choice, Coming
<1>4. CASE s = r
  <2>1. /\ list'[r] = Buses(tt) /\ listedAt'[r] = now /\ query'[r].routes = query[r].routes
        /\ kept'[r] = {i \in DOMAIN tt : Wanted(Buses(tt)[i], query[r].routes)}
    BY <1>1, <1>2 DEF TypeOK, ChoiceOK, ClockOK, RequestOK
  <2>2. \A i \in kept'[r] : /\ list'[r][i].arrive >= listedAt'[r]
                            /\ list'[r][i].name \in query'[r].routes
    BY <2>1 DEF Wanted
  <2>3. CASE Answer(r, 404) /\ UNCHANGED first
    BY <2>3, <1>2, <1>4 DEF Choice, Answer, Goto, TypeOK, RequestOK
  <2>4. ASSUME NEW i \in kept'[r], first' = [first EXCEPT ![r] = Buses(tt)[i]],
               Answer(r, 200), kept'[r] = {i}
        PROVE  Choice(r)'
    <3>1. pc'[r] = "done" /\ first'[r] = list'[r][i]
      BY <2>1, <2>4 DEF Answer, Goto, TypeOK, RequestOK, ChoiceOK
    <3>2. list'[r][i].arrive \in Instants
      BY ListedTypes DEF TypeOK, ChoiceOK
    <3>3. \A j \in Passed(r)' : first'[r].arrive <= list'[r][j].arrive
      BY <2>4, <3>1, <3>2 DEF Passed, Instants
    <3> QED BY <2>2, <3>1, <3>3 DEF Choice
  <2>5. ASSUME NEW i \in kept'[r], first' = [first EXCEPT ![r] = Buses(tt)[i]],
               Goto(r, "choose"), UNCHANGED status
        PROVE  Choice(r)'
    <3>1. pc'[r] = "choose" /\ first'[r] = list'[r][i]
      BY <2>1, <2>5 DEF Goto, TypeOK, RequestOK, ChoiceOK
    <3>2. next'[r] = 1
      BY <1>2 DEF ChoiceInv, Choice
    <3>3. \A j \in kept'[r] : j \in Nat \ {0}
      BY <2>1, BusesTypes
    <3>4. Passed(r)' = {}
      BY <3>1, <3>2, <3>3 DEF Passed
    <3> QED BY <2>2, <3>1, <3>4 DEF Choice
  <2> QED BY <1>1, <1>4, <2>3, <2>4, <2>5
<1> QED BY <1>3, <1>4

\* handlers.go:105-112: a bus that is still to come today passes the comparison
\* of hours.
LEMMA ComingIsLater ==
  ASSUME TypeOK, NEW bus \in Bus, bus.arrive \in Instants, Coming(bus)
  PROVE  HourOf[bus.arrive] >= HourOf[now]
<1>1. now \in Instants /\ now <= bus.arrive
  BY CalendarAssumption DEF TypeOK, ClockOK, Instants, Coming
<1>2. HourOf[now] <= HourOf[bus.arrive] /\ HourOf[now] \in Nat /\ HourOf[bus.arrive] \in Nat
  BY <1>1, CalendarAssumption DEF Coming
<1> QED BY <1>2

\* After a comparison the candidate is beaten by none up to that bus.
LEMMA CompareChoice ==
  ASSUME TypeOK, ChoiceInv, NEW r \in Requests, Compare(r)
  PROVE  ChoiceInv'
<1> SUFFICES ASSUME NEW s \in Requests PROVE Choice(s)'
  BY DEF ChoiceInv
<1>1. PICK i \in kept[r] :
        /\ i >= next[r] /\ \A j \in kept[r] : j >= next[r] => i <= j
        /\ first' = [first EXCEPT ![r] = IF Better(list[r][i], @) THEN list[r][i] ELSE @]
        /\ next' = [next EXCEPT ![r] = i + 1]
  BY DEF Compare
<1>2. pc[r] = "choose" /\ UNCHANGED <<now, pc, query, list, kept, listedAt, status>>
  BY DEF Compare, fetch
<1>3. CASE s # r
  <2>1. UNCHANGED <<first[s], next[s]>>
    BY <1>1, <1>3 DEF TypeOK, ChoiceOK
  <2>2. Passed(s)' = Passed(s)
    BY <1>2, <2>1 DEF Passed
  <2> QED BY <1>2, <2>1, <2>2 DEF ChoiceInv, Choice, Coming
<1>4. CASE s = r
  <2>1. /\ first'[r] = IF Better(list[r][i], first[r]) THEN list[r][i] ELSE first[r]
        /\ next'[r] = i + 1
    BY <1>1 DEF TypeOK, ChoiceOK
  <2>2. /\ \A j \in kept[r] : /\ j \in Nat /\ j \in DOMAIN list[r]
                              /\ list[r][j] \in Bus /\ list[r][j].arrive \in Instants
        /\ next[r] \in Nat
    BY DEF TypeOK, ChoiceOK
  <2>3. PICK k \in kept[r] : first[r] = list[r][k]
    BY <1>2 DEF ChoiceInv, Choice
  <2>4. \E j \in kept[r] : first'[r] = list[r][j]
    BY <2>1, <2>3
  <2>5. ASSUME DayOf[listedAt[r]] = DayOf[now], NEW j \in kept[r], j < i + 1,
               Coming(list[r][j])
        PROVE  first'[r].arrive <= list[r][j].arrive
    <3>1. /\ list[r][i].arrive \in Instants /\ list[r][j].arrive \in Instants
          /\ first[r].arrive \in Instants
      BY <2>2, <2>3
    <3>2. CASE j = i
      <4>1. HourOf[list[r][i].arrive] >= HourOf[now]
        BY <2>2, <2>5, <3>1, <3>2, ComingIsLater
      <4> QED BY <2>1, <3>1, <3>2, <4>1 DEF Better, Instants
    <3>3. CASE j # i
      <4>1. j < next[r]
        BY <1>1, <2>2, <2>5, <3>3
      <4>2. j \in Passed(r)
        BY <1>2, <4>1 DEF Passed
      <4>3. first[r].arrive <= list[r][j].arrive
        BY <1>2, <2>5, <4>2 DEF ChoiceInv, Choice
      <4> QED BY <2>1, <3>1, <4>3 DEF Better, Instants
    <3> QED BY <3>2, <3>3
  <2>6. Passed(r)' = {j \in kept[r] : j < i + 1}
    BY <1>2, <2>1 DEF Passed
  <2>7. \A j \in kept[r] : /\ list[r][j].arrive >= listedAt[r]
                           /\ list[r][j].name \in query[r].routes
    BY <1>2 DEF ChoiceInv, Choice
  <2> QED BY <1>2, <1>4, <2>4, <2>5, <2>6, <2>7 DEF Choice, Coming
<1> QED BY <1>3, <1>4

\* The candidate that is shown has been compared with all kept buses.
LEMMA ShowChoice ==
  ASSUME TypeOK, ChoiceInv, NEW r \in Requests, Show(r)
  PROVE  ChoiceInv'
<1> SUFFICES ASSUME NEW s \in Requests PROVE Choice(s)'
  BY DEF ChoiceInv
<1>1. /\ pc[r] = "choose" /\ \A i \in kept[r] : i < next[r]
      /\ pc' = [pc EXCEPT ![r] = "done"] /\ status' = [status EXCEPT ![r] = 200]
      /\ UNCHANGED <<now, query, list, kept, listedAt, first, next>>
  BY DEF Show, Answer, Goto, choice, fetch
<1>2. CASE s # r
  <2>1. UNCHANGED <<pc[s], status[s]>>
    BY <1>1, <1>2 DEF TypeOK, RequestOK
  <2>2. Passed(s)' = Passed(s)
    BY <1>1, <2>1 DEF Passed
  <2> QED BY <1>1, <2>1, <2>2 DEF ChoiceInv, Choice, Coming
<1>3. CASE s = r
  <2>1. pc'[r] = "done"
    BY <1>1 DEF TypeOK, RequestOK
  <2>2. Passed(r) = kept[r] /\ Passed(r)' = kept[r]
    BY <1>1, <2>1 DEF Passed
  <2> QED BY <1>1, <1>3, <2>1, <2>2 DEF ChoiceInv, Choice, Coming
<1> QED BY <1>2, <1>3

\* Every step keeps what is said of the choice.
LEMMA StepChoice == TypeOK /\ ChoiceInv /\ [Next]_vars => ChoiceInv'
<1> SUFFICES ASSUME TypeOK, ChoiceInv, [Next]_vars PROVE ChoiceInv'
  OBVIOUS
<1>1. CASE Next
  <2>1. CASE Tick
    BY <2>1, TickChoice
  <2>2. CASE Expire
    BY <2>2, ChoiceKept DEF TypeOK, RequestOK, Expire, fetch
  <2> QED BY <1>1, <2>1, <2>2, NextCases, QuietChoice, ListedChoice, CompareChoice, ShowChoice
<1>2. CASE UNCHANGED vars
  BY <1>2, ChoiceKept DEF vars, fetch
<1> QED BY <1>1, <1>2

-----------------------------------------------------------------------------
(* The token. *)

\* Initially no request is active and none has tried.
LEMMA InitToken == Init => TokenInv
<1> SUFFICES ASSUME Init, NEW r \in Requests
             PROVE  tries[r] = <<>> /\ r \notin Active /\ OwnToken(r)
  BY DEF TokenInv
<1>1. pc[r] = "idle" /\ tries[r] = <<>> /\ mixed = {}
  BY DEF Init
<1> QED BY <1>1 DEF OwnToken, Active

\* A step of a request that is being served: if nothing disturbs it there is no
\* other, and if something disturbs it nothing is claimed.
LEMMA OwnStep ==
  ASSUME TypeOK, TokenInv, NEW r \in Active,
         \E w \in Places \ {"idle"} : pc' = [pc EXCEPT ![r] = w],
         \E t \in Seq(Outcomes) : tries' = [tries EXCEPT ![r] = t],
         disturbed' = disturbed, mixed' \subseteq mixed \union Active,
         ~disturbed[r] => OwnToken(r)'
  PROVE  TokenInv'
<1> SUFFICES ASSUME NEW s \in Requests
             PROVE  /\ pc'[s] = "idle" => tries'[s] = <<>>
                    /\ ~disturbed[s] => (s \in Active' => Active' = {s}) /\ OwnToken(s)'
  BY DEF TokenInv
<1>1. r \in Requests /\ pc[r] \notin {"idle", "done", "panicked"} /\ pc'[r] # "idle"
  BY DEF Active, TypeOK, RequestOK
<1>2. Active' \subseteq Active
  BY <1>1 DEF Active, TypeOK, RequestOK
<1>3. CASE s = r
  BY <1>1, <1>2, <1>3 DEF TokenInv
<1>4. CASE s # r
  <2>1. pc'[s] = pc[s] /\ tries'[s] = tries[s]
    BY <1>4 DEF TypeOK, RequestOK
  <2>2. ~disturbed[s] => s \notin Active
    BY <1>4 DEF TokenInv
  <2>3. ~disturbed[s] => /\ pc[s] \in {"idle", "done", "panicked"}
                         /\ s \notin Active' /\ s \notin mixed'
    BY <2>1, <2>2 DEF Active, TokenInv, OwnToken
  <2>4. ~disturbed[s] => OwnToken(s)'
    BY <2>1, <2>3 DEF TokenInv, OwnToken
  <2> QED BY <2>1, <2>3, <2>4 DEF TokenInv
<1> QED BY <1>3, <1>4

\* A request that arrives disturbs those that are active, and is disturbed by them.
LEMMA AskToken ==
  ASSUME TypeOK, TokenInv, NEW r \in Requests, NEW q \in Queries, Ask(r, q)
  PROVE  TokenInv'
<1> SUFFICES ASSUME NEW s \in Requests
             PROVE  /\ pc'[s] = "idle" => tries'[s] = <<>>
                    /\ ~disturbed'[s] => (s \in Active' => Active' = {s}) /\ OwnToken(s)'
  BY DEF TokenInv
<1>1. pc[r] = "idle" /\ tries[r] = <<>> /\ UNCHANGED <<token, mixed, accepted, carried, tries>>
  BY DEF Ask, TokenInv, client
<1>2. CASE pc' = [pc EXCEPT ![r] = "done"] /\ disturbed' = disturbed
  <2>1. Active' = Active
    BY <1>1, <1>2 DEF Active, TypeOK, RequestOK
  <2>2. CASE s = r
    BY <1>1, <1>2, <2>2 DEF TypeOK, RequestOK, TokenInv, OwnToken, Active
  <2>3. CASE s # r
    BY <1>1, <1>2, <2>1, <2>3 DEF TypeOK, RequestOK, OwnToken, TokenInv
  <2> QED BY <2>2, <2>3
<1>3. CASE /\ pc' = [pc EXCEPT ![r] = "send"]
           /\ disturbed' = [x \in Requests |-> disturbed[x] \/ x \in Active
                                               \/ (x = r /\ Active # {})]
  <2>1. Active' = Active \union {r} /\ r \notin Active
    BY <1>1, <1>3 DEF Active, TypeOK, RequestOK
  <2>2. CASE s = r
    <3>1. ~disturbed'[r] => Active = {} /\ ~disturbed[r]
      BY <1>3
    <3> QED BY <1>1, <1>3, <2>1, <2>2, <3>1 DEF TypeOK, RequestOK, TokenInv, OwnToken
  <2>3. CASE s # r
    <3>1. ~disturbed'[s] => ~disturbed[s] /\ s \notin Active'
      BY <1>3, <2>1, <2>3
    <3>2. pc'[s] = pc[s]
      BY <1>3, <2>3 DEF TypeOK, RequestOK
    <3> QED BY <1>1, <3>1, <3>2 DEF OwnToken, TokenInv
  <2> QED BY <2>2, <2>3
<1> QED BY <1>2, <1>3 DEF Ask, Answer, Goto

\* A token is withdrawn, which disturbs the requests that are active.
LEMMA ExpireToken ==
  ASSUME TypeOK, TokenInv, Expire
  PROVE  TokenInv'
<1> SUFFICES ASSUME NEW s \in Requests
             PROVE  /\ pc'[s] = "idle" => tries'[s] = <<>>
                    /\ ~disturbed'[s] => (s \in Active' => Active' = {s}) /\ OwnToken(s)'
  BY DEF TokenInv
<1>1. /\ UNCHANGED <<pc, tries, mixed>> /\ Active' = Active
      /\ disturbed' = [r \in Requests |-> disturbed[r] \/ r \in Active]
  BY DEF Expire, client, fetch, Active
<1>2. ~disturbed'[s] => ~disturbed[s] /\ s \notin Active
  BY <1>1
<1>3. ~disturbed'[s] => pc[s] \in {"idle", "done", "panicked"}
  BY <1>2 DEF Active
<1> QED BY <1>1, <1>2, <1>3 DEF OwnToken, TokenInv

\* A request that nothing disturbs stores its token alone, and reads it alone.
LEMMA Alone ==
  ASSUME TypeOK, TokenInv, NEW r \in Active, ~disturbed[r]
  PROVE  /\ Active = {r} /\ OwnToken(r) /\ r \in Requests
         /\ pc[r] = "send" => TokenReads = {token}
         /\ pc[r] = "wait" => Storing = {}
<1>1. Active = {r} /\ OwnToken(r) /\ r \in Requests
  BY DEF TokenInv, Active
<1>2. Storing \subseteq Active
  BY DEF Storing, Active
<1> QED BY <1>1, <1>2 DEF TokenReads, Storing

\* A request that nothing disturbs carries the token that is stored.
LEMMA SendToken ==
  ASSUME TypeOK, TokenInv, NEW r \in Requests, Send(r)
  PROVE  TokenInv'
<1>1. r \in Active /\ pc[r] = "send" /\ UNCHANGED <<token, mixed, accepted, tries, disturbed>>
  BY DEF Send, Active, client
<1>2. \E w \in Places \ {"idle"} : pc' = [pc EXCEPT ![r] = w]
  BY DEF Send, Goto, Places
<1>3. \E t \in Seq(Outcomes) : tries' = [tries EXCEPT ![r] = t]
  BY <1>1 DEF TypeOK, RequestOK
<1>4. ASSUME ~disturbed[r] PROVE OwnToken(r)'
  <2>1. OwnToken(r) /\ TokenReads = {token}
    BY <1>1, <1>4, Alone
  <2>2. carried'[r] = token /\ pc'[r] = "wait"
    BY <2>1 DEF Send, Goto, TypeOK, TokenOK, RequestOK
  <2> QED BY <1>1, <2>1, <2>2 DEF OwnToken
<1> QED BY <1>1, <1>2, <1>3, <1>4, OwnStep

\* It stores the token that Yandex accepts.
LEMMA StoreTokenToken ==
  ASSUME TypeOK, TokenInv, NEW r \in Requests, StoreToken(r)
  PROVE  TokenInv'
<1>1. /\ r \in Active /\ pc[r] = "store" /\ mixed' = mixed \ {r}
      /\ UNCHANGED <<carried, accepted, tries, disturbed>>
  BY DEF StoreToken, Active, fetch
<1>2. \E w \in Places \ {"idle"} : pc' = [pc EXCEPT ![r] = w]
  BY DEF StoreToken, Answer, Goto, Places
<1>3. \E t \in Seq(Outcomes) : tries' = [tries EXCEPT ![r] = t]
  BY <1>1 DEF TypeOK, RequestOK
<1>4. ASSUME ~disturbed[r] PROVE OwnToken(r)'
  <2>1. OwnToken(r) /\ r \notin mixed
    BY <1>1, <1>4, Alone DEF OwnToken
  <2>2. token' = carried[r] /\ carried[r] = accepted
    BY <1>1, <2>1 DEF StoreToken, OwnToken
  <2>3. pc'[r] \in {"send", "done"}
    BY DEF StoreToken, Answer, Goto, TypeOK, RequestOK
  <2> QED BY <1>1, <2>1, <2>2, <2>3 DEF OwnToken
<1> QED BY <1>1, <1>2, <1>3, <1>4, OwnStep

\* client.go:147-171: no try but the first finds a token that Yandex refuses.
LEMMA TriedToken ==
  ASSUME TypeOK, TokenInv, NEW r \in Requests, NEW what \in Outcomes, Tried(r, what),
         UNCHANGED accepted,
         mixed' = mixed \/ (Storing # {} /\ mixed' \subseteq mixed \union Active),
         \E w \in Places \ {"idle"} : pc' = [pc EXCEPT ![r] = w],
         \/ /\ what = "refused" /\ carried[r] # accepted
            /\ carried'[r] = accepted /\ pc'[r] = "store"
         \/ /\ what = "unknown" /\ carried[r] = accepted /\ pc'[r] \in {"send", "done"}
         \/ /\ what \in {"failed", "broken", "listed"}
            /\ pc'[r] \in {"choose", "done", "panicked"}
  PROVE  TokenInv'
<1>1. /\ r \in Active /\ pc[r] = "wait" /\ UNCHANGED <<token, disturbed>>
      /\ tries[r] \in Seq(Outcomes)
  BY DEF Tried, Active, TypeOK, RequestOK
<1>2. \E t \in Seq(Outcomes) : tries' = [tries EXCEPT ![r] = t]
  BY TriedTypes
<1>3. tries'[r] = Append(tries[r], what)
  BY DEF Tried, TypeOK, RequestOK
<1>4. ASSUME ~disturbed[r] PROVE OwnToken(r)'
  <2>1. OwnToken(r) /\ mixed' = mixed
    BY <1>1, <1>4, Alone
  <2>2. carried[r] = token /\ (tries[r] # <<>> => token = accepted)
    BY <1>1, <2>1 DEF OwnToken
  <2>3. \A i \in DOMAIN tries'[r] : tries'[r][i] = "refused" => i = 1
    <3>1. \A i \in DOMAIN tries[r] : tries[r][i] = "refused" => i = 1
      BY <2>1 DEF OwnToken
    <3>2. what = "refused" => tries[r] = <<>>
      BY <2>2
    <3>3. CASE tries[r] = <<>>
      BY <1>3, <3>3
    <3>4. CASE what # "refused"
      BY <1>1, <1>3, <3>1, <3>4
    <3> QED BY <3>2, <3>3, <3>4
  <2> QED BY <1>1, <2>1, <2>2, <2>3 DEF OwnToken
<1>5. mixed' \subseteq mixed \union Active
  OBVIOUS
<1> QED BY <1>1, <1>2, <1>4, <1>5, OwnStep

\* Every try of a request keeps what is said of its token.
LEMMA TriesToken ==
  ASSUME TypeOK, TokenInv, NEW r \in Requests,
         Refused(r) \/ UnknownStop(r) \/ Fails(r) \/ Panics(r) \/ Listed(r)
  PROVE  TokenInv'
<1>1. CASE Refused(r)
  <2>1. /\ Tried(r, "refused") /\ UNCHANGED accepted /\ carried[r] # accepted
        /\ carried'[r] = accepted /\ pc' = [pc EXCEPT ![r] = "store"]
    BY <1>1 DEF Refused, Goto, TypeOK, TokenOK
  <2>2. r \in Active /\ Storing \subseteq Active
    BY <2>1 DEF Tried, Active, Storing
  <2>3. mixed' = mixed \/ (Storing # {} /\ mixed' \subseteq mixed \union Active)
    BY <1>1, <2>2 DEF Refused
  <2>4. pc'[r] = "store" /\ "store" \in Places \ {"idle"} /\ "refused" \in Outcomes
    BY <2>1 DEF Places, Outcomes, TypeOK, RequestOK
  <2> QED BY <2>1, <2>3, <2>4, TriedToken
<1>2. CASE UnknownStop(r)
  BY <1>2, TriedToken DEF UnknownStop, Answer, Goto, Places, Outcomes, TypeOK, RequestOK
<1>3. CASE Fails(r)
  BY <1>3, TriedToken DEF Fails, Answer, Goto, Places, Outcomes, TypeOK, RequestOK
<1>4. CASE Listed(r)
  <2>1. Tried(r, "listed") /\ UNCHANGED <<mixed, accepted>>
    BY <1>4 DEF Listed
  <2>2. \E w \in {"choose", "done"} : pc' = [pc EXCEPT ![r] = w]
    BY <1>4 DEF Listed, Answer, Goto
  <2>3. /\ \E w \in Places \ {"idle"} : pc' = [pc EXCEPT ![r] = w]
        /\ pc'[r] \in {"choose", "done"} /\ "listed" \in Outcomes
    BY <2>2 DEF Places, Outcomes, TypeOK, RequestOK
  <2> QED BY <2>1, <2>3, TriedToken
<1>5. CASE Panics(r)
  BY <1>5, TriedToken DEF Panics, Goto, Places, Outcomes, TypeOK, RequestOK
<1> QED BY <1>1, <1>2, <1>3, <1>4, <1>5

\* The choice has nothing to do with the token.
LEMMA ChoosingToken ==
  ASSUME TypeOK, TokenInv, NEW r \in Requests, Compare(r) \/ Show(r)
  PROVE  TokenInv'
<1>1. /\ r \in Active /\ pc[r] = "choose" /\ UNCHANGED <<mixed, tries, disturbed>>
      /\ \E w \in {"choose", "done"} : pc' = [pc EXCEPT ![r] = w]
  BY DEF Compare, Show, Answer, Goto, Active, client, fetch, TypeOK, RequestOK
<1>2. \E w \in Places \ {"idle"} : pc' = [pc EXCEPT ![r] = w]
  BY <1>1 DEF Places
<1>3. \E t \in Seq(Outcomes) : tries' = [tries EXCEPT ![r] = t]
  BY <1>1 DEF TypeOK, RequestOK
<1>4. pc'[r] \in {"choose", "done"}
  BY <1>1 DEF TypeOK, RequestOK
<1>5. ASSUME ~disturbed[r] PROVE OwnToken(r)'
  BY <1>1, <1>4, <1>5, Alone DEF OwnToken
<1> QED BY <1>1, <1>2, <1>3, <1>5, OwnStep

\* Every step keeps what is said of the token.
LEMMA StepToken == TypeOK /\ TokenInv /\ [Next]_vars => TokenInv'
<1> SUFFICES ASSUME TypeOK, TokenInv, [Next]_vars PROVE TokenInv'
  OBVIOUS
<1>1. CASE Tick
  BY <1>1 DEF Tick, TokenInv, OwnToken, Active, client, fetch
<1>2. CASE UNCHANGED vars
  BY <1>2 DEF vars, TokenInv, OwnToken, Active, client, fetch
<1> QED BY <1>1, <1>2, NextCases, AskToken, SendToken, StoreTokenToken, TriesToken,
           ChoosingToken, ExpireToken

-----------------------------------------------------------------------------
(* Theorems. *)

\* The types of the state; no request is tried more than three times.
THEOREM TypeCorrect == Spec => []TypeOK
  BY InitTypes, StepTypes, PTL DEF Spec

\* handlers.go:61-114, yandex/service.go:45-52: the bus that is shown is the first
\* of those still to come today, whatever the clock does between two readings.
THEOREM ShowsTheNextBus == Spec => []NextOfToday
<1>1. TypeOK /\ ChoiceInv => NextOfToday
  <2> SUFFICES ASSUME TypeOK, ChoiceInv, NEW r \in Requests, status[r] = 200
               PROVE  /\ \E i \in kept[r] : first[r] = list[r][i]
                      /\ first[r].name \in query[r].routes
                      /\ first[r].arrive >= listedAt[r]
                      /\ DayOf[listedAt[r]] = DayOf[now] =>
                           \A i \in kept[r] :
                             Coming(list[r][i]) => first[r].arrive <= list[r][i].arrive
    BY DEF NextOfToday, Coming
  <2>1. Passed(r) = kept[r]
    BY DEF Passed, TypeOK, RequestOK
  <2> QED BY <2>1 DEF ChoiceInv, Choice
<1> QED BY <1>1, InitTypes, StepTypes, InitChoice, StepChoice, PTL DEF Spec

\* client.go:147-171, 239-244: a token left behind by others, torn or withdrawn,
\* costs a request that nothing disturbs one try.
THEOREM AtMostOneRefusal == Spec => []OneRefusal
<1>1. TokenInv => OneRefusal
  BY DEF TokenInv, OwnToken, OneRefusal
<1> QED BY <1>1, InitTypes, StepTypes, InitToken, StepToken, PTL DEF Spec

=============================================================================
