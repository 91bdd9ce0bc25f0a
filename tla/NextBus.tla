------------------------------ MODULE NextBus ------------------------------
(***************************************************************************)
(* /nextbus: handleNextBus (internal/api/fcchttp/handlers.go) asks Yandex  *)
(* for the arrivals at a stop through internal/yandex/service.go, and      *)
(* picks one of them.                                                      *)
(*                                                                         *)
(* All requests share one vendored client.  It holds a token that Yandex   *)
(* may stop accepting at any time; Yandex then answers with a new one,     *)
(* which every request that learns of it stores, with no lock.  Of a token *)
(* the model keeps which generation it is of: Yandex accepts the latest.   *)
(***************************************************************************)
EXTENDS Integers, Sequences

CONSTANTS
  Requests,      \* goroutines that serve /nextbus, one request each
  Queries,       \* what may be asked: [stop, routes, prognosis]
  Stops,         \* what stop_id may be
  NoStop,        \* the empty stop_id
  KnownStops,    \* stops Yandex knows
  Names,         \* names of routes
  Timetables,    \* what Yandex may list: sequences of Transport
  HourOf, DayOf, \* hour of the day and day, of each instant
  LastTime,      \* the last instant a timetable speaks of
  MaxTime,       \* bound: the clock stops here
  MaxExpiries    \* bound: how often Yandex withdraws its tokens

Instants == 0..LastTime
ZeroTime == -1     \* the zero time.Time, before every instant
Tries    == 3

\* threads[0], with the first of its events if it has one.  Types of transport,
\* method and the wording of the answer are left out.
Transport == [name : Names, schedule : {"none", "event", "frequency"},
              scheduled : Instants \union {ZeroTime}, estimated : Instants,
              begin : Instants, end : Instants, value : Nat]

Query == [stop : Stops, routes : SUBSET Names, prognosis : BOOLEAN]

ASSUME QueriesAssumption ==
  /\ Queries \subseteq Query
  /\ NoStop \in Stops \ KnownStops /\ KnownStops \subseteq Stops
ASSUME TimetableAssumption ==
  \A tt \in Timetables :
    tt \in Seq(Transport) /\ \A i \in DOMAIN tt : tt[i].value <= LastTime - MaxTime
ASSUME CalendarAssumption ==
  /\ LastTime \in Nat /\ MaxTime \in Nat /\ MaxTime <= LastTime
  /\ HourOf \in [Instants -> Nat] /\ DayOf \in [Instants -> Nat]
  /\ \A s, t \in Instants : s <= t => DayOf[s] <= DayOf[t]
  /\ \A s, t \in Instants : s <= t /\ DayOf[s] = DayOf[t] => HourOf[s] <= HourOf[t]
ASSUME ExpiriesAssumption == MaxExpiries \in Nat

VARIABLES
  now,        \* the clock
  token,      \* csrfToken of the shared client
  mixed,      \* requests whose storing of it has overlapped another's
  accepted,   \* at Yandex: the generation of tokens it accepts
  pc,         \* where each request is
  query,      \* its parameters; prognosis is the local variable of the client
  carried,    \* the token its latest try carried, or was given in answer
  tries,      \* what Yandex answered to each of its tries
  list,       \* what arrives at the stop
  kept,       \* the positions in it that become transports
  listedAt,   \* when that was
  first,      \* the transport picked so far
  next,       \* the position in the loop that picks
  status,     \* the status code of the answer, 0 until there is one
  disturbed   \* another request was served, or tokens withdrawn, meanwhile

fetch   == <<query, carried, tries>>
choice  == <<list, kept, listedAt, first, next>>
client  == <<token, mixed>>
vars    == <<now, client, accepted, pc, fetch, choice, status, disturbed>>

NoBus   == [name |-> NoStop, arrive |-> ZeroTime]
NoQuery == [stop |-> NoStop, routes |-> {}, prognosis |-> FALSE]
Torn    == 0      \* an older token or a mixture of two: Yandex never accepts it

\* yandex.New has got a token.  The requests served since are over; those that
\* stored tokens at once may have left an older one behind, or a mixture.
Init ==
  /\ now = 0
  /\ accepted = 1 /\ token \in {Torn, accepted} /\ mixed = {}
  /\ pc = [r \in Requests |-> "idle"]
  /\ query = [r \in Requests |-> NoQuery]
  /\ carried = [r \in Requests |-> Torn]
  /\ tries = [r \in Requests |-> <<>>]
  /\ list = [r \in Requests |-> <<>>]
  /\ kept = [r \in Requests |-> {}]
  /\ listedAt = [r \in Requests |-> 0]
  /\ first = [r \in Requests |-> NoBus]
  /\ next = [r \in Requests |-> 1]
  /\ status = [r \in Requests |-> 0]
  /\ disturbed = [r \in Requests |-> FALSE]

Goto(r, where) == pc' = [pc EXCEPT ![r] = where]
Answer(r, code) == Goto(r, "done") /\ status' = [status EXCEPT ![r] = code]

Active == {r \in Requests : pc[r] \notin {"idle", "done", "panicked"}}

-----------------------------------------------------------------------------
(* Yandex and the clock. *)

Tick ==
  /\ now < MaxTime
  /\ now' = now + 1
  /\ UNCHANGED <<client, accepted, pc, fetch, choice, status, disturbed>>

Expire ==
  /\ accepted <= MaxExpiries
  /\ accepted' = accepted + 1
  /\ disturbed' = [r \in Requests |-> disturbed[r] \/ r \in Active]
  /\ UNCHANGED <<now, client, pc, fetch, choice, status>>

-----------------------------------------------------------------------------
(* The request up to the client of Yandex. *)

Ask(r, q) ==
  /\ pc[r] = "idle"
  /\ query' = [query EXCEPT ![r] = q]
  /\ IF q.stop = NoStop
       THEN Answer(r, 422) /\ UNCHANGED disturbed
       ELSE /\ Goto(r, "send")
            /\ disturbed' = [s \in Requests |->
                               \/ disturbed[s]
                               \/ s \in Active
                               \/ s = r /\ Active # {}]
            /\ UNCHANGED status
  /\ UNCHANGED <<now, client, accepted, carried, tries, choice>>

\* Requests that are storing a token right now.
Storing == {r \in Requests : pc[r] = "store"}

\* What reading a string may yield while others overwrite it.
TokenReads ==
  IF Storing = {} THEN {token}
                  ELSE {token, Torn} \union {carried[s] : s \in Storing}

\* fetchStopInfo, up to the request.
Send(r) ==
  /\ pc[r] = "send"
  /\ \E t \in TokenReads : carried' = [carried EXCEPT ![r] = t]
  /\ Goto(r, "wait")
  /\ UNCHANGED <<now, client, accepted, query, tries, choice, status, disturbed>>

Tried(r, what) ==
  /\ pc[r] = "wait"
  /\ tries' = [tries EXCEPT ![r] = Append(@, what)]
  /\ query' = [query EXCEPT ![r] = [stop |-> @.stop, routes |-> @.routes, prognosis |-> FALSE]]
  /\ UNCHANGED <<now, token, disturbed>>

\* A token Yandex does not accept is answered with a new one.
Refused(r) ==
  /\ carried[r] # accepted
  /\ Tried(r, "refused")
  /\ carried' = [carried EXCEPT ![r] = accepted]
  /\ mixed' = IF Storing = {} THEN mixed ELSE mixed \union Storing \union {r}
  /\ Goto(r, "store")
  /\ UNCHANGED <<accepted, choice, status>>

\* Mutant: the request is made again with the token it had.
StoreToken_Forgotten(r) ==
  /\ pc[r] = "store"
  /\ IF Len(tries[r]) < Tries THEN Goto(r, "send") /\ UNCHANGED status
                              ELSE Answer(r, 404)
  /\ mixed' = mixed \ {r}
  /\ UNCHANGED <<now, token, accepted, fetch, choice, disturbed>>

\* c.csrfToken = response.CsrfToken.  Of two requests that do so at once the last
\* may leave its own token or a mixture.  After the last try there is nothing to
\* show.
StoreToken(r) ==
  /\ pc[r] = "store"
  /\ token' \in {carried[r]} \union (IF r \in mixed THEN {Torn} ELSE {})
  /\ mixed' = mixed \ {r}
  /\ IF Len(tries[r]) < Tries THEN Goto(r, "send") /\ UNCHANGED status
                              ELSE Answer(r, 404)
  /\ UNCHANGED <<now, accepted, fetch, choice, disturbed>>

\* Mutant: the tries are not counted.
UnknownStop_Forever(r) ==
  /\ pc[r] = "wait"
  /\ query[r].stop \notin KnownStops /\ carried[r] = accepted
  /\ Goto(r, "send")
  /\ UNCHANGED <<now, client, accepted, fetch, choice, status, disturbed>>

\* Yandex answers 404, which counts as a reason to try again.
UnknownStop(r) ==
  /\ query[r].stop \notin KnownStops /\ carried[r] = accepted
  /\ Tried(r, "unknown")
  /\ IF Len(tries'[r]) < Tries THEN Goto(r, "send") /\ UNCHANGED status
                               ELSE Answer(r, 500)
  /\ UNCHANGED <<mixed, accepted, carried, choice>>

\* Any other failure, of which FetchStopInfo tells its caller nothing.
Fails(r) ==
  /\ Tried(r, "failed")
  /\ Answer(r, 404)
  /\ UNCHANGED <<mixed, accepted, carried, choice>>

\* A body that is called gzip and does not begin like it: the error is dropped,
\* and reading from the nil reader panics.  net/http recovers and hangs up.
Panics(r) ==
  /\ Tried(r, "broken")
  /\ Goto(r, "panicked")
  /\ UNCHANGED <<mixed, accepted, carried, choice, status>>

-----------------------------------------------------------------------------
(* The arrivals, and the choice. *)

\* extractTransportInfo.  Without a thread the name is lost as well, but at the
\* zero time the bus is dropped whatever its name.
Arrive(tr) ==
  IF tr.schedule = "none" THEN ZeroTime
  ELSE IF tr.schedule = "event"
    THEN IF tr.scheduled # ZeroTime THEN tr.scheduled ELSE tr.estimated
  ELSE IF now > tr.end THEN tr.begin ELSE now + tr.value

Buses(tt) == [i \in DOMAIN tt |-> [name |-> tt[i].name, arrive |-> Arrive(tt[i])]]

\* Mutant: what has left is kept.
Wanted_Left(bus, routes) == bus.name \in routes

\* Fetch drops what has left; handleNextBus, what is on another route.
Wanted(bus, routes) == bus.arrive >= now /\ bus.name \in routes

\* Of several transports, the first one is what the loop starts with.
Listed(r) ==
  /\ query[r].stop \in KnownStops /\ carried[r] = accepted
  /\ \E tt \in Timetables :
       LET buses == Buses(tt)
           keep  == {i \in DOMAIN tt : Wanted(buses[i], query[r].routes)}
       IN /\ list' = [list EXCEPT ![r] = buses]
          /\ kept' = [kept EXCEPT ![r] = keep]
          /\ \/ keep = {} /\ Answer(r, 404) /\ UNCHANGED first
             \/ \E i \in keep :
                  /\ \A j \in keep : i <= j
                  /\ first' = [first EXCEPT ![r] = buses[i]]
                  /\ IF keep = {i} THEN Answer(r, 200)
                                   ELSE Goto(r, "choose") /\ UNCHANGED status
  /\ Tried(r, "listed")
  /\ listedAt' = [listedAt EXCEPT ![r] = now]
  /\ UNCHANGED <<mixed, accepted, carried, next>>

\* Mutant: the loop takes the last one that comes today.
Better_Later(bus, best) == HourOf[bus.arrive] >= HourOf[now] /\ bus.arrive > best.arrive

\* time.Now is read anew for every transport.
Better(bus, best) == HourOf[bus.arrive] >= HourOf[now] /\ bus.arrive < best.arrive

Compare(r) ==
  /\ pc[r] = "choose"
  /\ \E i \in kept[r] :
       /\ i >= next[r] /\ \A j \in kept[r] : j >= next[r] => i <= j
       /\ first' = [first EXCEPT ![r] = IF Better(list[r][i], @) THEN list[r][i] ELSE @]
       /\ next' = [next EXCEPT ![r] = i + 1]
  /\ UNCHANGED <<now, client, accepted, pc, fetch, list, kept, listedAt, status, disturbed>>

\* The check of the route that follows (handlers.go:118) cannot fail.
Show(r) ==
  /\ pc[r] = "choose" /\ \A i \in kept[r] : i < next[r]
  /\ Answer(r, 200)
  /\ UNCHANGED <<now, client, accepted, fetch, choice, disturbed>>

-----------------------------------------------------------------------------
Step(r) == Send(r) \/ Refused(r) \/ StoreToken(r) \/ UnknownStop(r) \/ Fails(r)
           \/ Panics(r) \/ Listed(r) \/ Compare(r) \/ Show(r)

Next ==
  \/ \E r \in Requests : (\E q \in Queries : Ask(r, q)) \/ Step(r)
  \/ Tick \/ Expire

Spec == Init /\ [][Next]_vars

\* Yandex need not answer in any way; a request to it then fails by the timeout
\* of http.DefaultClient.
FairSpec == Spec /\ \A r \in Requests : WF_vars(Step(r))

-----------------------------------------------------------------------------
(* Properties. *)

Bus      == [name : Names, arrive : Instants \union {ZeroTime}]
Places   == {"idle", "send", "wait", "store", "choose", "done", "panicked"}
Codes    == {0, 200, 404, 422, 500}
Outcomes == {"refused", "unknown", "failed", "broken", "listed"}

ClockOK == now \in 0..MaxTime /\ listedAt \in [Requests -> 0..now]
TokenOK ==
  /\ accepted \in 1..(MaxExpiries + 1) /\ token \in 0..accepted
  /\ mixed \subseteq Requests
  /\ carried \in [Requests -> 0..accepted]
ChoiceOK ==
  /\ list \in [Requests -> Seq(Bus)] /\ kept \in [Requests -> SUBSET Nat]
  /\ first \in [Requests -> Bus \union {NoBus}] /\ next \in [Requests -> Nat \ {0}]
  /\ \A r \in Requests : \A i \in kept[r] :
       i \in DOMAIN list[r] /\ list[r][i].arrive \in Instants
RequestOK ==
  /\ pc \in [Requests -> Places] /\ query \in [Requests -> Query]
  /\ status \in [Requests -> Codes]
  /\ disturbed \in [Requests -> BOOLEAN]
  /\ tries \in [Requests -> Seq(Outcomes)]
  /\ \A r \in Requests :
       /\ Len(tries[r]) <= Tries
       /\ pc[r] \in {"idle", "send", "wait"} => Len(tries[r]) < Tries
       /\ pc[r] = "done" <=> status[r] # 0

\* Types; the client makes at most three tries.
TypeOK == ClockOK /\ TokenOK /\ ChoiceOK /\ RequestOK

\* handlers.go:61-114, yandex/service.go:45-52: the bus that is shown is on a
\* route asked for and had not left when Yandex listed it; and as long as
\* midnight has not passed since, no bus that is still to come today comes
\* before it, although the clock is read once more for every bus.  Nothing is
\* said of buses after midnight: the comparison of hours passes them over.
NextOfToday ==
  \A r \in Requests : status[r] = 200 =>
    /\ \E i \in kept[r] : first[r] = list[r][i]
    /\ first[r].name \in query[r].routes
    /\ first[r].arrive >= listedAt[r]
    /\ DayOf[listedAt[r]] = DayOf[now] =>
         \A i \in kept[r] :
           LET bus == list[r][i]
           IN bus.arrive >= now /\ DayOf[bus.arrive] = DayOf[now]
                => first[r].arrive <= bus.arrive

\* client.go:147-171, 239-244: whatever token earlier requests have left behind
\* in the client, overwritten by an older one or torn, it costs a request one try
\* when nothing disturbs it.
OneRefusal ==
  \A r \in Requests : ~disturbed[r] =>
    \A i \in DOMAIN tries[r] : tries[r][i] = "refused" => i = 1

\* handlers.go:48-139: every request is answered, unless a body of Yandex breaks it
\* off in the middle of a try (client.go:211-216).
AnsweredUnlessBroken ==
  \A r \in Requests :
    pc[r] # "idle" ~> (status[r] # 0 \/ \E i \in DOMAIN tries[r] : tries[r][i] = "broken")

\* "'404': Stop ID not found", "'500': Failure"
\* (assets/swagger/spec.yml:75-82): 500 means that something failed.
FailureIs500 ==
  \A r \in Requests : status[r] = 500 => \E i \in DOMAIN tries[r] : tries[r][i] = "failed"

=============================================================================
