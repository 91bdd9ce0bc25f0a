------------------------------ MODULE HttpApi ------------------------------
(***************************************************************************)
(* The HTTP api (internal/api/fcchttp): routes, middlewares, the checks of *)
(* every handler, and how errors become status codes.  What the handlers   *)
(* call takes time, can fail, and can have its effect although it failed;  *)
(* of that, this module keeps what DeviceStore, DnsClients and NextBus say *)
(* of the outcome.                                                         *)
(***************************************************************************)
EXTENDS Lifecycle

CONSTANTS
  Requests,    \* requests that clients may make of one process
  Inputs       \* what each may ask: a set of [route, method, params]

AllMethods == {"GET", "POST", "PUT", "OPTIONS"}

\* The routes, by the methods they are registered for.
Methods(route) ==
  CASE route \in {"info", "swagger"} -> AllMethods
    [] route = "ping"                -> {"POST"}
    [] route \in {"nextbus", "send_message", "devices", "update_dns"} -> {"GET"}
    [] OTHER                         -> {}

ASSUME InputsAssumption ==
  Inputs \in [Requests -> SUBSET [route : STRING, method : AllMethods, params : STRING]]

VARIABLES
  pc,            \* where each request is
  input,         \* what it asks
  gone,          \* its client has left, or its time for writing is over
  status,        \* the status code of its answer, 0 until there is one
  effect,        \* what it has changed: "none", "done", or "late"
  requestCount,  \* of this process
  counted,       \* the requests that are in it
  earlier,       \* what it was when each request arrived
  own,           \* what it was when each request had been counted
  shown          \* the count that the answer of /info shows

request == <<pc, input, gone, status, effect>>
counter == <<requestCount, counted, earlier, own, shown>>
apiVars == <<request, counter>>

NoInput == [route |-> "none", method |-> "none", params |-> "none"]

ApiInit ==
  /\ pc = [r \in Requests |-> "none"]
  /\ input = [r \in Requests |-> NoInput]
  /\ gone = [r \in Requests |-> FALSE]
  /\ status = [r \in Requests |-> 0]
  /\ effect = [r \in Requests |-> "none"]
  /\ requestCount = 0 /\ counted = {}
  /\ earlier = [r \in Requests |-> 0] /\ own = [r \in Requests |-> 0]
  /\ shown = [r \in Requests |-> 0]

Over   == {"none", "answered", "lost", "panicked", "ended"}
Active == {r \in Requests : pc[r] \notin Over}

Goto(r, where) == pc' = [pc EXCEPT ![r] = where]

\* A status code goes to the client, if it is still there.
Answer(r, code) ==
  /\ Goto(r, IF gone[r] THEN "lost" ELSE "answered")
  /\ status' = [status EXCEPT ![r] = code]

-----------------------------------------------------------------------------
(* Errors. *)

ServiceError(code) == [type |-> "ServiceError", code |-> code, value |-> "none"]
ModelError(value)  == [type |-> "Error", code |-> 0, value |-> value]
OtherError         == [type |-> "other", code |-> 0, value |-> "none"]

\* The status serveError writes; a wrapped model.Error is not one.
StatusOf(e) ==
  CASE e.type = "ServiceError" -> IF e.code = 0 THEN 500 ELSE e.code
    [] e.type = "Error"        -> IF e.value = "not found" THEN 404 ELSE 0
    [] OTHER                   -> 500

\* Mutant: the error is captured, and nothing is written.
ServeError_Captured(r, e) == Goto(r, "answered") /\ UNCHANGED status

\* net/http recovers from a panic, and hangs up.
Panics(r) == Goto(r, "panicked") /\ UNCHANGED status

\* WriteHeader panics on 0.
ServeError(r, e) ==
  IF StatusOf(e) = 0 THEN Panics(r)
                     ELSE Answer(r, StatusOf(e))

-----------------------------------------------------------------------------
(* Arrival and routing. *)

Arrive(r, i) ==
  /\ Up /\ http = "serving" /\ pc[r] = "none"
  /\ Goto(r, "route")
  /\ input' = [input EXCEPT ![r] = i]
  /\ earlier' = [earlier EXCEPT ![r] = requestCount]
  /\ UNCHANGED <<gone, status, effect, requestCount, counted, own, shown>>

Leave(r) ==
  /\ r \in Active /\ ~gone[r]
  /\ gone' = [gone EXCEPT ![r] = TRUE]
  /\ UNCHANGED <<pc, input, status, effect, counter>>

Route(r)   == input[r].route
Matches(r) == input[r].method \in Methods(Route(r))

\* The router answers these itself; no middleware sees them.
NoRoute(r) ==
  /\ pc[r] = "route" /\ ~Matches(r)
  /\ Answer(r, IF Methods(Route(r)) = {} THEN 404 ELSE 405)
  /\ UNCHANGED <<input, gone, effect, counter>>

\* middlewareCORS answers OPTIONS before the middlewares of v1.
Preflight(r) ==
  /\ pc[r] = "route" /\ Matches(r) /\ input[r].method = "OPTIONS"
  /\ Answer(r, 200)
  /\ UNCHANGED <<input, gone, effect, counter>>

Enters(r) == pc[r] = "route" /\ Matches(r) /\ input[r].method # "OPTIONS"

Swagger(r) ==
  /\ Enters(r) /\ Route(r) = "swagger"
  /\ \E code \in {200, 301, 404} : Answer(r, code)
  /\ UNCHANGED <<input, gone, effect, counter>>

\* Mutant: a request that finds another one in its handler is not counted.
Count_Lost(r) ==
  /\ Enters(r) /\ Route(r) # "swagger"
  /\ Goto(r, "handle")
  /\ requestCount' = IF \E s \in Requests : pc[s] = "handle"
                       THEN requestCount ELSE requestCount + 1
  /\ counted' = counted \union {r}
  /\ own' = [own EXCEPT ![r] = requestCount']
  /\ UNCHANGED <<input, gone, status, effect, earlier, shown>>

\* middlewareCounter, and the request id and logger of the context.
Count(r) ==
  /\ Enters(r) /\ Route(r) # "swagger"
  /\ Goto(r, "handle")
  /\ requestCount' = requestCount + 1
  /\ counted' = counted \union {r}
  /\ own' = [own EXCEPT ![r] = requestCount']
  /\ UNCHANGED <<input, gone, status, effect, earlier, shown>>

-----------------------------------------------------------------------------
(* Handlers, up to what they call. *)

Handles(r, route) == pc[r] = "handle" /\ Route(r) = route

\* The counter is read without the atomic operation: what its own increment left
\* there is seen, what others have added since may be missed.
HandleInfo(r) ==
  /\ Handles(r, "info")
  /\ \E count \in own[r]..requestCount : shown' = [shown EXCEPT ![r] = count]
  /\ Answer(r, 200)
  /\ UNCHANGED <<input, gone, effect, requestCount, counted, earlier, own>>

HandleGetDevices(r) ==
  /\ Handles(r, "devices")
  /\ Answer(r, 200)
  /\ UNCHANGED <<input, gone, effect, counter>>

\* The errors found before anything is called.
Rejection(i) ==
  CASE i.route = "nextbus" /\ i.params = "empty"         -> {ServiceError(422)}
    [] i.route = "ping" /\ i.params = "no json"          -> {OtherError}
    [] i.route = "ping" /\ i.params = "short id"         -> {ServiceError(400)}
    [] i.route = "send_message" /\ cfg.telegram # "none" /\ i.params = "no api"
                                                         -> {ServiceError(400)}
    [] i.route = "send_message" /\ cfg.telegram # "none" /\ i.params = "no text"
                                                         -> {ServiceError(0)}
    [] OTHER -> {}

Reject(r) ==
  /\ pc[r] = "handle"
  /\ \E e \in Rejection(input[r]) : ServeError(r, e)
  /\ UNCHANGED <<input, gone, effect, counter>>

\* telegram.Mock takes everything.
MockSends(r) ==
  /\ Handles(r, "send_message") /\ cfg.telegram = "none"
  /\ Answer(r, 200)
  /\ UNCHANGED <<input, gone, effect, counter>>

Call(r) ==
  /\ pc[r] = "handle" /\ Rejection(input[r]) = {}
  /\ \/ Route(r) \in {"ping", "nextbus", "update_dns"}
     \/ Route(r) = "send_message" /\ cfg.telegram # "none"
  /\ Goto(r, "call")
  /\ UNCHANGED <<input, gone, status, effect, counter>>

-----------------------------------------------------------------------------
(* What they call returns. *)

Returns(r, route, what) ==
  /\ pc[r] = "call" /\ Route(r) = route
  /\ effect' = [effect EXCEPT ![r] = what]
  /\ UNCHANGED <<input, gone, counter>>

\* dstore.Ping says nothing of a device it has rejected.
Pinged(r) == \E what \in {"none", "done"} : Returns(r, "ping", what) /\ Answer(r, 200)

\* The device is to be announced with a malformed key: one that registers is
\* stored before that, one that comes back is not.
PingPanics(r) ==
  /\ cfg.telegram = "malformed"
  /\ \E what \in {"none", "done"} : Returns(r, "ping", what) /\ Panics(r)

\* A Fetch that failed, found nothing, or found a bus.
Fetched(r) ==
  /\ Returns(r, "nextbus", "none")
  /\ \/ \E code \in {404, 500} : ServeError(r, ServiceError(code))
     \/ Answer(r, 200)

\* See NextBus!Panics.
FetchPanics(r) == Returns(r, "nextbus", "none") /\ Panics(r)

\* No URL can be parsed with the key the client gives.
BadKey(r) == input[r].params = "bad key"

\* Telegram has taken the message or refused it: any JSON is success.
TelegramAnswers(r) ==
  /\ ~BadKey(r)
  /\ \E what \in {"none", "done"} : Returns(r, "send_message", what) /\ Answer(r, 200)

\* Mutant: what Telegram did not confirm is the client's fault.
TelegramFails_Blames(r) ==
  /\ ~BadKey(r)
  /\ \E what \in {"none", "done", "late"} :
       Returns(r, "send_message", what) /\ ServeError(r, ServiceError(400))

TelegramFails(r) ==
  /\ ~BadKey(r)
  /\ \E what \in {"none", "done", "late"} :
       Returns(r, "send_message", what) /\ ServeError(r, ServiceError(500))

\* The error of NewRequestWithContext is dropped, and the request is nil.
TelegramPanics(r) == BadKey(r) /\ Returns(r, "send_message", "none") /\ Panics(r)

\* Without a domain to update there is nothing to do.
DnsUpdated(r) ==
  \E what \in {"none", "done"} : Returns(r, "update_dns", what) /\ Answer(r, 200)

DnsNotFound(r) ==
  Returns(r, "update_dns", "none") /\ ServeError(r, ModelError("not found"))

\* Mutant: the error of the control panel is passed on as it is.
DnsFails_Bare(r) ==
  \E what \in {"none", "done", "late"} :
    Returns(r, "update_dns", what) /\ ServeError(r, ModelError("wrong status code"))

\* Both clients wrap the errors of requests they have sent.
DnsFails(r) ==
  \E what \in {"none", "done", "late"} :
    Returns(r, "update_dns", what) /\ ServeError(r, OtherError)

\* A request that was given up is carried out after all.
TakesEffect(r) ==
  /\ effect[r] = "late"
  /\ effect' = [effect EXCEPT ![r] = "done"]
  /\ UNCHANGED <<pc, input, gone, status, counter>>

CallEnds(r) ==
  \/ Pinged(r) \/ PingPanics(r) \/ Fetched(r) \/ FetchPanics(r)
  \/ TelegramAnswers(r) \/ TelegramFails(r) \/ TelegramPanics(r)
  \/ DnsUpdated(r) \/ DnsNotFound(r) \/ DnsFails(r)

ApiStep(r) ==
  \/ NoRoute(r) \/ Preflight(r) \/ Swagger(r) \/ Count(r)
  \/ HandleInfo(r) \/ HandleGetDevices(r) \/ Reject(r) \/ MockSends(r)
  \/ Call(r) \/ CallEnds(r)

ApiNext ==
  \E r \in Requests :
    \/ \E i \in Inputs[r] : Arrive(r, i)
    \/ Leave(r) \/ ApiStep(r) \/ TakesEffect(r)

\* The process ends: connections are dropped, requests to others may be under
\* way, and the device store is gone.  main does not call Shutdown.
CutOff ==
  /\ pc' = [r \in Requests |-> IF r \in Active THEN "ended" ELSE pc[r]]
  /\ \E S \in SUBSET {r \in Requests : pc[r] = "call"
                             /\ Route(r) \in {"send_message", "update_dns"}} :
       effect' = [r \in Requests |-> IF r \in S THEN "late" ELSE effect[r]]
  /\ UNCHANGED <<input, gone, status, counter>>

\* A new process counts from 0, and the requests to it are others.
Restarted ==
  /\ pc' = [r \in Requests |-> "none"]
  /\ input' = [r \in Requests |-> NoInput]
  /\ gone' = [r \in Requests |-> FALSE]
  /\ status' = [r \in Requests |-> 0]
  /\ effect' = [r \in Requests |-> "none"]
  /\ requestCount' = 0 /\ counted' = {}
  /\ earlier' = [r \in Requests |-> 0] /\ own' = [r \in Requests |-> 0]
  /\ shown' = [r \in Requests |-> 0]

=============================================================================
