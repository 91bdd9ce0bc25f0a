------------------------ MODULE ControlCenterProofs ------------------------
(***************************************************************************)
(* Proofs about ControlCenter, for any configurations, requests and what   *)
(* they ask: types, the order in which main makes what handlers need, what *)
(* a refused request has changed, the counter, and how the process ends.   *)
(***************************************************************************)
EXTENDS ControlCenter, FiniteSetTheorems, TLAPS

-----------------------------------------------------------------------------
(* The process. *)

\* main before the timeout, the subscriber and the DNS client are there.
NotTimed      == {"config", "yandex"}
NotSubscribed == NotTimed \union {"sentry", "telegram", "store"}
NotDns        == NotSubscribed \union {"gob", "dns"}

MainTypes ==
  /\ cfg \in Configs
  /\ main \in MainSteps
  /\ timed \in BOOLEAN /\ subscribed \in BOOLEAN /\ dns \in BOOLEAN
  /\ gob \in Servers /\ http \in Servers
  /\ greeting \in {"none", "sending", "over"}
  /\ notified \in BOOLEAN /\ pending \in BOOLEAN /\ ctxDone \in BOOLEAN
  /\ asked \in BOOLEAN
  /\ chat \subseteq {"started", "shutting down"}

\* What main has done follows from where it is, or from what runs already.
MadeInOrder ==
  /\ main \notin NotTimed \union {"exited"} => timed
  /\ main \notin NotSubscribed \union {"exited"} => subscribed
  /\ main \notin NotDns \union {"exited"} => dns
  /\ gob # "none" => timed
  /\ http # "none" => timed /\ subscribed /\ dns

\* main has started the message before it waits for a signal.
GreetsFirst ==
  greeting # "none" => main \in {"notify", "receive", "wait", "farewell", "exited"}

\* A signal is there only if somebody sent it.
SignalIsSent == (pending => asked) /\ (main = "farewell" => asked)

MainInv == MainTypes /\ MadeInOrder /\ GreetsFirst /\ SignalIsSent

\* What can happen to main.
MainMoves == MainNext \/ MapFatal \/ UNCHANGED mainVars

\* What the variables of main can be.
LEMMA MainValues ==
  /\ \A m \in {"config", "yandex", "sentry", "telegram", "store", "gob", "dns",
              "http", "greet", "notify", "receive", "wait", "farewell", "exited"} :
       m \in MainSteps
  /\ \A s \in {"none", "starting", "serving", "ended", "failed"} : s \in Servers
BY DEF MainSteps, Servers

\* The initial state satisfies the invariant of main.
LEMMA InitMainInv == MainInit => MainInv
BY ConfigsAssumption, MainValues
DEF MainInit, MainInv, MainTypes, MadeInOrder, GreetsFirst, SignalIsSent,
    NotTimed, NotSubscribed, NotDns

\* Every step of main, of its goroutines and of its environment keeps the types.
LEMMA NextMainTypes == MainTypes /\ MainMoves => MainTypes'
<1> SUFFICES ASSUME MainTypes, MainMoves PROVE MainTypes'
  OBVIOUS
<1> USE MainValues DEF MainTypes, parts, servers, stopping
<1>1. ASSUME Boot PROVE MainTypes'
  BY <1>1 DEF Boot
<1>2. ASSUME Parse \/ NewYandex \/ NewSentry PROVE MainTypes'
  BY <1>2 DEF Parse, NewYandex, NewSentry
<1>3. ASSUME NewTelegram \/ NewStore \/ StartGob PROVE MainTypes'
  BY <1>3 DEF NewTelegram, NewStore, StartGob
<1>4. ASSUME NewDns \/ StartHttp \/ Greet \/ Notify PROVE MainTypes'
  BY <1>4 DEF NewDns, StartHttp, Greet, Notify
<1>5. ASSUME Receive \/ TakeSignal \/ Farewell PROVE MainTypes'
  BY <1>5 DEF Receive, TakeSignal, Farewell
<1>6. ASSUME GobListens \/ GobEnds \/ GobPanics \/ HttpListens \/ HttpEnds PROVE MainTypes'
  BY <1>6 DEF GobListens, GobEnds, GobPanics, HttpListens, HttpEnds
<1>7. ASSUME Greeted \/ GreetPanics PROVE MainTypes'
  BY <1>7 DEF Greeted, GreetPanics
<1>8. ASSUME Signal \/ Kill \/ MapFatal PROVE MainTypes'
  BY <1>8 DEF Signal, Kill, MapFatal
<1>9. ASSUME UNCHANGED mainVars PROVE MainTypes'
  BY <1>9 DEF mainVars
<1> QED
  BY <1>1, <1>2, <1>3, <1>4, <1>5, <1>6, <1>7, <1>8, <1>9
  DEF MainMoves, MainNext, MainStep, Goroutines

\* Nothing is started before what it needs is made.
LEMMA NextMadeInOrder == MainTypes /\ MadeInOrder /\ MainMoves => MadeInOrder'
<1> SUFFICES ASSUME MainTypes, MadeInOrder, MainMoves PROVE MadeInOrder'
  OBVIOUS
<1> USE DEF MainTypes, MadeInOrder, NotTimed, NotSubscribed, NotDns, parts, servers, stopping
<1>1. ASSUME Boot PROVE MadeInOrder'
  BY <1>1 DEF Boot
<1>2. ASSUME Parse \/ NewYandex \/ NewSentry PROVE MadeInOrder'
  <2>1. CASE Parse
    BY <2>1 DEF Parse
  <2>2. CASE NewYandex
    BY <2>2 DEF NewYandex
  <2>3. CASE NewSentry
    BY <2>3 DEF NewSentry
  <2> QED
    BY <1>2, <2>1, <2>2, <2>3
<1>3. ASSUME NewTelegram \/ NewStore \/ StartGob PROVE MadeInOrder'
  <2>1. CASE NewTelegram
    BY <2>1 DEF NewTelegram
  <2>2. CASE NewStore
    BY <2>2 DEF NewStore
  <2>3. CASE StartGob
    BY <2>3 DEF StartGob
  <2> QED
    BY <1>3, <2>1, <2>2, <2>3
<1>4. ASSUME NewDns \/ StartHttp \/ Greet \/ Notify PROVE MadeInOrder'
  BY <1>4 DEF NewDns, StartHttp, Greet, Notify
<1>5. ASSUME Receive \/ TakeSignal \/ Farewell PROVE MadeInOrder'
  BY <1>5 DEF Receive, TakeSignal, Farewell
<1>6. ASSUME GobListens \/ GobEnds \/ GobPanics \/ HttpListens \/ HttpEnds PROVE MadeInOrder'
  BY <1>6 DEF GobListens, GobEnds, GobPanics, HttpListens, HttpEnds
<1>7. ASSUME Greeted \/ GreetPanics PROVE MadeInOrder'
  BY <1>7 DEF Greeted, GreetPanics
<1>8. ASSUME Signal \/ Kill \/ MapFatal PROVE MadeInOrder'
  BY <1>8 DEF Signal, Kill, MapFatal
<1>9. ASSUME UNCHANGED mainVars PROVE MadeInOrder'
  BY <1>9 DEF mainVars
<1> QED
  BY <1>1, <1>2, <1>3, <1>4, <1>5, <1>6, <1>7, <1>8, <1>9
  DEF MainMoves, MainNext, MainStep, Goroutines

\* The start message is not sent before the servers are started.
LEMMA NextGreetsFirst == GreetsFirst /\ MainMoves => GreetsFirst'
<1> SUFFICES ASSUME GreetsFirst, MainMoves PROVE GreetsFirst'
  OBVIOUS
<1> USE DEF GreetsFirst, parts, servers, stopping
<1>1. ASSUME Boot PROVE GreetsFirst'
  BY <1>1 DEF Boot
<1>2. ASSUME Parse \/ NewYandex \/ NewSentry PROVE GreetsFirst'
  BY <1>2 DEF Parse, NewYandex, NewSentry
<1>3. ASSUME NewTelegram \/ NewStore \/ StartGob PROVE GreetsFirst'
  BY <1>3 DEF NewTelegram, NewStore, StartGob
<1>4. ASSUME NewDns \/ StartHttp \/ Greet \/ Notify PROVE GreetsFirst'
  BY <1>4 DEF NewDns, StartHttp, Greet, Notify
<1>5. ASSUME Receive \/ TakeSignal \/ Farewell PROVE GreetsFirst'
  BY <1>5 DEF Receive, TakeSignal, Farewell
<1>6. ASSUME GobListens \/ GobEnds \/ GobPanics \/ HttpListens \/ HttpEnds PROVE GreetsFirst'
  BY <1>6 DEF GobListens, GobEnds, GobPanics, HttpListens, HttpEnds
<1>7. ASSUME Greeted \/ GreetPanics PROVE GreetsFirst'
  BY <1>7 DEF Greeted, GreetPanics
<1>8. ASSUME Signal \/ Kill \/ MapFatal PROVE GreetsFirst'
  BY <1>8 DEF Signal, Kill, MapFatal
<1>9. ASSUME UNCHANGED mainVars PROVE GreetsFirst'
  BY <1>9 DEF mainVars
<1> QED
  BY <1>1, <1>2, <1>3, <1>4, <1>5, <1>6, <1>7, <1>8, <1>9
  DEF MainMoves, MainNext, MainStep, Goroutines

\* No signal is received that was not sent.
LEMMA NextSignalIsSent == SignalIsSent /\ MainMoves => SignalIsSent'
<1> SUFFICES ASSUME SignalIsSent, MainMoves PROVE SignalIsSent'
  OBVIOUS
<1> USE DEF SignalIsSent, parts, servers, stopping
<1>1. ASSUME Boot PROVE SignalIsSent'
  BY <1>1 DEF Boot
<1>2. ASSUME Parse \/ NewYandex \/ NewSentry PROVE SignalIsSent'
  BY <1>2 DEF Parse, NewYandex, NewSentry
<1>3. ASSUME NewTelegram \/ NewStore \/ StartGob PROVE SignalIsSent'
  BY <1>3 DEF NewTelegram, NewStore, StartGob
<1>4. ASSUME NewDns \/ StartHttp \/ Greet \/ Notify PROVE SignalIsSent'
  BY <1>4 DEF NewDns, StartHttp, Greet, Notify
<1>5. ASSUME Receive \/ TakeSignal \/ Farewell PROVE SignalIsSent'
  <2>1. CASE Receive
    BY <2>1 DEF Receive
  <2>2. CASE TakeSignal
    BY <2>2 DEF TakeSignal
  <2>3. CASE Farewell
    BY <2>3 DEF Farewell
  <2> QED
    BY <1>5, <2>1, <2>2, <2>3
<1>6. ASSUME GobListens \/ GobEnds \/ GobPanics \/ HttpListens \/ HttpEnds PROVE SignalIsSent'
  BY <1>6 DEF GobListens, GobEnds, GobPanics, HttpListens, HttpEnds
<1>7. ASSUME Greeted \/ GreetPanics PROVE SignalIsSent'
  BY <1>7 DEF Greeted, GreetPanics
<1>8. ASSUME Signal \/ Kill \/ MapFatal PROVE SignalIsSent'
  BY <1>8 DEF Signal, Kill, MapFatal
<1>9. ASSUME UNCHANGED mainVars PROVE SignalIsSent'
  BY <1>9 DEF mainVars
<1> QED
  BY <1>1, <1>2, <1>3, <1>4, <1>5, <1>6, <1>7, <1>8, <1>9
  DEF MainMoves, MainNext, MainStep, Goroutines

\* Every step of main, of its goroutines and of its environment keeps all of it.
LEMMA NextMainInv == MainInv /\ MainMoves => MainInv'
BY NextMainTypes, NextMadeInOrder, NextGreetsFirst, NextSignalIsSent DEF MainInv

-----------------------------------------------------------------------------
(* The requests. *)

Effects == {"none", "done", "late"}
PCs     == Over \union {"route", "handle", "call"}

ApiTypes ==
  /\ pc \in [Requests -> PCs]
  /\ input \in [Requests -> Asked]
  /\ gone \in [Requests -> BOOLEAN]
  /\ status \in [Requests -> {0} \union Codes]
  /\ effect \in [Requests -> Effects]
  /\ requestCount \in Nat /\ counted \subseteq Requests
  /\ earlier \in [Requests -> Nat] /\ own \in [Requests -> Nat]
  /\ shown \in [Requests -> Nat]
  /\ \A r \in Requests : status[r] # 0 <=> pc[r] \in {"answered", "lost"}

\* A request is served only by a server, and by the handler of its route.
ServedByHttp ==
  \A r \in Requests :
    /\ pc[r] \in {"route", "handle", "call"} => http # "none"
    /\ pc[r] # "none" => input[r] \in Inputs[r]

\* No effect comes before a call.
EffectsOfCalls ==
  \A r \in Requests : pc[r] \in {"none", "route", "handle"} => effect[r] = "none"

\* A request that has arrived is counted later than what it has seen.
CountedOnce ==
  /\ IsFiniteSet(counted)
  /\ \A r \in Requests :
       /\ pc[r] \in {"none", "route"} => r \notin counted
       /\ pc[r] = "route" => earlier[r] <= requestCount
       /\ pc[r] = "handle" => earlier[r] < own[r] /\ own[r] <= requestCount
  /\ CountsEveryRequest

ApiInv ==
  /\ ApiTypes /\ ServedByHttp /\ EffectsOfCalls /\ CountedOnce
  /\ RefusalChangesNothing /\ PanicChangesNothing

\* The routes of the requests, and their methods.
LEMMA InputTypes ==
  ASSUME NEW r \in Requests, input[r] \in Inputs[r]
  PROVE  input[r].method \in AllMethods
BY InputsAssumption DEF InputsAssumption

\* Every error a handler finds has a status code of a refusal, or 500.
LEMMA RejectionCodes ==
  ASSUME NEW i, NEW e \in Rejection(i)
  PROVE  StatusOf(e) \in {400, 422, 500}
<1>1. \/ e = ServiceError(422) \/ e = OtherError \/ e = ServiceError(400)
      \/ e = ServiceError(0)
  BY DEF Rejection
<1> QED
  BY <1>1 DEF StatusOf, ServiceError, OtherError

\* How a request ends: with a status code, after which nothing but a refusal is
\* certain to have changed nothing.
Ends(r) ==
  /\ pc' = [pc EXCEPT ![r] = pc'[r]] /\ pc'[r] \in {"lost", "answered"}
  /\ status' = [status EXCEPT ![r] = status'[r]] /\ status'[r] \in Codes
  /\ effect' = [effect EXCEPT ![r] = effect'[r]] /\ effect'[r] \in Effects
  /\ status'[r] \in 400..499 => effect'[r] = "none"
  /\ UNCHANGED <<input, gone, requestCount, counted, earlier, own>>
  /\ \/ pc[r] = "handle" /\ \E count \in own[r]..requestCount :
                             shown' = [shown EXCEPT ![r] = count]
     \/ UNCHANGED shown /\ (Route(r) # "info" \/ input[r].method = "OPTIONS")

\* Or it panics, and has no status code.
Breaks(r) ==
  /\ pc[r] = "call" /\ pc' = [pc EXCEPT ![r] = "panicked"]
  /\ effect' = [effect EXCEPT ![r] = effect'[r]] /\ effect'[r] \in Effects
  /\ UNCHANGED <<input, gone, status, counter>>
  /\ \/ Route(r) = "send_message" /\ BadKey(r) /\ effect'[r] = "none"
     \/ Route(r) = "nextbus" /\ effect'[r] = "none"
     \/ Route(r) = "ping" /\ cfg.telegram = "malformed" /\ effect'[r] # "late"

\* What an answer changes.
LEMMA AnswerShape ==
  ASSUME ApiTypes, NEW r \in Requests, NEW code, Answer(r, code)
  PROVE  /\ pc' = [pc EXCEPT ![r] = pc'[r]] /\ pc'[r] \in {"lost", "answered"}
         /\ status' = [status EXCEPT ![r] = status'[r]] /\ status'[r] = code
BY DEF ApiTypes, Answer, Goto

\* Answering without a call.
LEMMA AnswerEnds ==
  ASSUME ApiTypes, EffectsOfCalls, NEW r \in Requests, NEW code \in Codes,
         pc[r] \in {"route", "handle"}, Answer(r, code),
         UNCHANGED <<input, gone, effect, counter>>,
         Route(r) # "info" \/ input[r].method = "OPTIONS"
  PROVE  Ends(r)
<1>1. effect' = [effect EXCEPT ![r] = effect'[r]] /\ effect'[r] = "none"
  BY DEF ApiTypes, EffectsOfCalls
<1> QED
  BY <1>1, AnswerShape DEF Ends, Effects, counter

PanicSteps(r) == PingPanics(r) \/ FetchPanics(r) \/ TelegramPanics(r)

\* What a panic leaves behind.
LEMMA PanicShape ==
  ASSUME ApiTypes, NEW r \in Requests, PanicSteps(r)
  PROVE  Breaks(r)
<1> USE DEF ApiTypes, Breaks, Returns, Panics, Goto, Effects
<1>1. CASE PingPanics(r)
  BY <1>1 DEF PingPanics
<1>2. CASE FetchPanics(r)
  BY <1>2 DEF FetchPanics
<1>3. CASE TelegramPanics(r)
  BY <1>3 DEF TelegramPanics
<1> QED
  BY <1>1, <1>2, <1>3 DEF PanicSteps

\* Every other step of a handler is to count the request, to call, or to end it.
LEMMA StepShape ==
  ASSUME ApiTypes, ServedByHttp, EffectsOfCalls, NEW r \in Requests, ApiStep(r),
         ~Count(r), ~Call(r), ~PanicSteps(r)
  PROVE  pc[r] \in {"route", "handle", "call"} /\ Ends(r)
<1>a. /\ 200 \in Codes /\ 301 \in Codes /\ 400 \in Codes /\ 404 \in Codes
      /\ 405 \in Codes /\ 422 \in Codes /\ 500 \in Codes
      /\ 200 \notin 400..499 /\ 500 \notin 400..499
  BY DEF Codes
<1>b. pc[r] \in {"route", "handle", "call"}
  BY DEF ApiStep, NoRoute, Preflight, Swagger, Enters, HandleInfo, HandleGetDevices,
         Handles, Reject, MockSends, PanicSteps, CallEnds, Pinged, Fetched, TelegramAnswers,
         TelegramFails, DnsUpdated, DnsNotFound, DnsFails, Returns
<1> SUFFICES Ends(r)
  BY <1>b
<1>1. CASE NoRoute(r)
  <2>1. input[r].method \in AllMethods /\ pc[r] = "route"
    BY <1>1, InputTypes DEF ServedByHttp, NoRoute
  <2>2. Route(r) # "info"
    BY <1>1, <2>1 DEF NoRoute, Matches, Methods
  <2>3. PICK code \in {404, 405} : Answer(r, code)
    BY <1>1 DEF NoRoute
  <2> QED
    BY <1>a, <1>1, <2>1, <2>2, <2>3, AnswerEnds DEF NoRoute
<1>2. CASE Preflight(r)
  BY <1>a, <1>2, AnswerEnds DEF Preflight
<1>3. CASE Swagger(r)
  BY <1>a, <1>3, AnswerEnds DEF Swagger, Enters
<1>4. CASE HandleInfo(r)
  <2>1. effect' = [effect EXCEPT ![r] = effect'[r]] /\ effect'[r] = "none"
    BY <1>4 DEF HandleInfo, Handles, ApiTypes, EffectsOfCalls, Effects
  <2>2. /\ pc' = [pc EXCEPT ![r] = pc'[r]] /\ pc'[r] \in {"lost", "answered"}
        /\ status' = [status EXCEPT ![r] = status'[r]] /\ status'[r] = 200
    BY <1>4, AnswerShape DEF HandleInfo
  <2>3. /\ pc[r] = "handle"
        /\ \E count \in own[r]..requestCount : shown' = [shown EXCEPT ![r] = count]
        /\ UNCHANGED <<input, gone, requestCount, counted, earlier, own>>
    BY <1>4 DEF HandleInfo, Handles
  <2> QED
    BY <1>a, <1>4, <2>1, <2>2, <2>3 DEF Ends, Effects
<1>5. CASE HandleGetDevices(r)
  BY <1>a, <1>5, AnswerEnds DEF HandleGetDevices, Handles
<1>6. CASE Reject(r)
  <2>1. PICK e \in Rejection(input[r]) : ServeError(r, e)
    BY <1>6 DEF Reject
  <2>2. StatusOf(e) \in {400, 422, 500}
    BY RejectionCodes
  <2>3. Answer(r, StatusOf(e)) /\ StatusOf(e) \in Codes
    BY <1>a, <2>1, <2>2 DEF ServeError
  <2>4. Route(r) # "info"
    BY DEF Rejection, Route
  <2> QED
    BY <1>6, <2>3, <2>4, AnswerEnds DEF Reject
<1>7. CASE MockSends(r)
  BY <1>a, <1>7, AnswerEnds DEF MockSends, Handles
<1>8. CASE CallEnds(r)
  <2> USE DEF ApiTypes, Returns, Answer, Goto, ServeError, StatusOf, ServiceError,
              ModelError, OtherError
  <2> DEFINE Shape ==
        /\ pc' = [pc EXCEPT ![r] = pc'[r]] /\ pc'[r] \in {"lost", "answered"}
        /\ status' = [status EXCEPT ![r] = status'[r]] /\ status'[r] \in {200, 404, 500}
        /\ status'[r] = 404 => effect'[r] = "none"
  <2>1. ASSUME Pinged(r) PROVE Shape
    BY <2>1 DEF Pinged
  <2>2. ASSUME Fetched(r) PROVE Shape
    BY <2>2 DEF Fetched
  <2>3. ASSUME TelegramAnswers(r) PROVE Shape
    BY <2>3 DEF TelegramAnswers
  <2>4. ASSUME TelegramFails(r) PROVE Shape
    BY <2>4 DEF TelegramFails
  <2>5. ASSUME DnsUpdated(r) PROVE Shape
    BY <2>5 DEF DnsUpdated
  <2>6. ASSUME DnsNotFound(r) PROVE Shape
    BY <2>6 DEF DnsNotFound
  <2>7. ASSUME DnsFails(r) PROVE Shape
    BY <2>7 DEF DnsFails
  <2>8. /\ effect' = [effect EXCEPT ![r] = effect'[r]] /\ effect'[r] \in Effects
        /\ UNCHANGED <<input, gone, counter>> /\ Route(r) # "info"
    BY <1>8 DEF CallEnds, Pinged, Fetched, TelegramAnswers, TelegramFails, DnsUpdated,
               DnsNotFound, DnsFails, PanicSteps, Effects
  <2> HIDE DEF Shape
  <2>9. Shape
    BY <1>8, <2>1, <2>2, <2>3, <2>4, <2>5, <2>6, <2>7 DEF CallEnds, PanicSteps
  <2>10. status'[r] \in Codes /\ (status'[r] \in 400..499 => effect'[r] = "none")
    BY <1>a, <2>9 DEF Shape
  <2> QED
    BY <2>8, <2>9, <2>10 DEF Ends, counter, Shape
<1> QED
  BY <1>1, <1>2, <1>3, <1>4, <1>5, <1>6, <1>7, <1>8 DEF ApiStep

\* What can happen to the requests.
Move(r) ==
  \/ (\E i \in Inputs[r] : Arrive(r, i)) \/ Leave(r) \/ Count(r) \/ Call(r)
  \/ pc[r] \in {"route", "handle", "call"} /\ Ends(r)
  \/ Breaks(r) \/ TakesEffect(r)

MovesOn == (\E r \in Requests : Move(r)) \/ CutOff \/ UNCHANGED apiVars
Moves   == MovesOn \/ Restarted

\* Every step keeps the types of the requests.
LEMMA NextApiTypes == ApiTypes /\ Moves => ApiTypes'
<1> SUFFICES ASSUME ApiTypes, Moves PROVE ApiTypes'
  OBVIOUS
<1> USE DEF ApiTypes, PCs, Effects, Active, Over, Goto, counter, request
<1>1. ASSUME NEW r \in Requests, NEW i \in Inputs[r], Arrive(r, i) PROVE ApiTypes'
  BY <1>1 DEF Arrive, Asked
<1>2. ASSUME NEW r \in Requests, Leave(r) PROVE ApiTypes'
  BY <1>2 DEF Leave
<1>3. ASSUME NEW r \in Requests, Count(r) PROVE ApiTypes'
  BY <1>3 DEF Count, Enters
<1>4. ASSUME NEW r \in Requests, Call(r) PROVE ApiTypes'
  BY <1>4 DEF Call
<1>5. ASSUME NEW r \in Requests, pc[r] \in {"route", "handle", "call"}, Ends(r) PROVE ApiTypes'
  <2>1. 0 \notin Codes
    BY DEF Codes
  <2>2. status'[r] # 0 /\ pc'[r] \in {"answered", "lost"}
    BY <1>5, <2>1 DEF Ends
  <2> QED
    BY <1>5, <2>2 DEF Ends
<1>6. ASSUME NEW r \in Requests, TakesEffect(r) PROVE ApiTypes'
  BY <1>6 DEF TakesEffect
<1>7. ASSUME CutOff PROVE ApiTypes'
  BY <1>7 DEF CutOff
<1>8. ASSUME Restarted PROVE ApiTypes'
  BY <1>8 DEF Restarted, Asked
<1>9. ASSUME UNCHANGED apiVars PROVE ApiTypes'
  BY <1>9 DEF apiVars
<1>10. ASSUME NEW r \in Requests, Breaks(r) PROVE ApiTypes'
  BY <1>10 DEF Breaks
<1> QED
  BY <1>1, <1>2, <1>3, <1>4, <1>5, <1>6, <1>7, <1>8, <1>9, <1>10 DEF Moves, MovesOn, Move

\* What a handler does comes after its checks.
LEMMA NextEffectsOfCalls == ApiTypes /\ EffectsOfCalls /\ Moves => EffectsOfCalls'
<1> SUFFICES ASSUME ApiTypes, EffectsOfCalls, Moves PROVE EffectsOfCalls'
  OBVIOUS
<1> USE DEF ApiTypes, EffectsOfCalls, Active, Over, Goto, counter, request
<1>1. ASSUME NEW r \in Requests, NEW i \in Inputs[r], Arrive(r, i) PROVE EffectsOfCalls'
  BY <1>1 DEF Arrive
<1>2. ASSUME NEW r \in Requests, Leave(r) PROVE EffectsOfCalls'
  BY <1>2 DEF Leave
<1>3. ASSUME NEW r \in Requests, Count(r) PROVE EffectsOfCalls'
  BY <1>3 DEF Count, Enters
<1>4. ASSUME NEW r \in Requests, Call(r) PROVE EffectsOfCalls'
  BY <1>4 DEF Call
<1>5. ASSUME NEW r \in Requests, pc[r] \in {"route", "handle", "call"}, Ends(r) PROVE EffectsOfCalls'
  BY <1>5 DEF Ends
<1>6. ASSUME NEW r \in Requests, TakesEffect(r) PROVE EffectsOfCalls'
  BY <1>6 DEF TakesEffect
<1>7. ASSUME CutOff PROVE EffectsOfCalls'
  BY <1>7 DEF CutOff
<1>8. ASSUME Restarted PROVE EffectsOfCalls'
  BY <1>8 DEF Restarted
<1>9. ASSUME UNCHANGED apiVars PROVE EffectsOfCalls'
  BY <1>9 DEF apiVars
<1>10. ASSUME NEW r \in Requests, Breaks(r) PROVE EffectsOfCalls'
  BY <1>10 DEF Breaks
<1> QED
  BY <1>1, <1>2, <1>3, <1>4, <1>5, <1>6, <1>7, <1>8, <1>9, <1>10 DEF Moves, MovesOn, Move

\* A refusal stays without effect.
LEMMA NextRefusal == ApiTypes /\ EffectsOfCalls /\ RefusalChangesNothing /\ Moves => RefusalChangesNothing'
<1> SUFFICES ASSUME ApiTypes, EffectsOfCalls, RefusalChangesNothing, Moves PROVE RefusalChangesNothing'
  OBVIOUS
<1> USE DEF ApiTypes, EffectsOfCalls, RefusalChangesNothing, Active, Over, Goto, counter, request
<1>1. ASSUME NEW r \in Requests, NEW i \in Inputs[r], Arrive(r, i) PROVE RefusalChangesNothing'
  BY <1>1 DEF Arrive
<1>2. ASSUME NEW r \in Requests, Leave(r) PROVE RefusalChangesNothing'
  BY <1>2 DEF Leave
<1>3. ASSUME NEW r \in Requests, Count(r) PROVE RefusalChangesNothing'
  BY <1>3 DEF Count, Enters
<1>4. ASSUME NEW r \in Requests, Call(r) PROVE RefusalChangesNothing'
  BY <1>4 DEF Call
<1>5. ASSUME NEW r \in Requests, pc[r] \in {"route", "handle", "call"}, Ends(r) PROVE RefusalChangesNothing'
  BY <1>5 DEF Ends
<1>6. ASSUME NEW r \in Requests, TakesEffect(r) PROVE RefusalChangesNothing'
  BY <1>6 DEF TakesEffect
<1>7. ASSUME CutOff PROVE RefusalChangesNothing'
  BY <1>7 DEF CutOff
<1>8. ASSUME Restarted PROVE RefusalChangesNothing'
  BY <1>8 DEF Restarted
<1>9. ASSUME UNCHANGED apiVars PROVE RefusalChangesNothing'
  BY <1>9 DEF apiVars
<1>10. ASSUME NEW r \in Requests, Breaks(r) PROVE RefusalChangesNothing'
  BY <1>10 DEF Breaks
<1> QED
  BY <1>1, <1>2, <1>3, <1>4, <1>5, <1>6, <1>7, <1>8, <1>9, <1>10 DEF Moves, MovesOn, Move

\* Nothing comes after a panic.
LEMMA NextPanic ==
  ApiTypes /\ PanicChangesNothing /\ Moves /\ (UNCHANGED cfg \/ Restarted)
    => PanicChangesNothing'
<1>8. ASSUME Restarted PROVE PanicChangesNothing'
  BY <1>8 DEF Restarted, PanicChangesNothing
<1> SUFFICES ASSUME ApiTypes, PanicChangesNothing, Moves, UNCHANGED cfg
             PROVE  PanicChangesNothing'
  BY <1>8
<1> USE DEF ApiTypes, PanicChangesNothing, Route, Active, Over, Goto, counter, request
<1>1. ASSUME NEW r \in Requests, NEW i \in Inputs[r], Arrive(r, i) PROVE PanicChangesNothing'
  BY <1>1 DEF Arrive
<1>2. ASSUME NEW r \in Requests, Leave(r) PROVE PanicChangesNothing'
  BY <1>2 DEF Leave
<1>3. ASSUME NEW r \in Requests, Count(r) PROVE PanicChangesNothing'
  BY <1>3 DEF Count, Enters
<1>4. ASSUME NEW r \in Requests, Call(r) PROVE PanicChangesNothing'
  BY <1>4 DEF Call
<1>5. ASSUME NEW r \in Requests, pc[r] \in {"route", "handle", "call"}, Ends(r) PROVE PanicChangesNothing'
  <2>1. pc'[r] # "panicked" /\ UNCHANGED input
    BY <1>5 DEF Ends
  <2>2. \A s \in Requests : s # r => pc'[s] = pc[s] /\ effect'[s] = effect[s]
    BY <1>5 DEF Ends
  <2> QED
    BY <2>1, <2>2
<1>6. ASSUME NEW r \in Requests, TakesEffect(r) PROVE PanicChangesNothing'
  BY <1>6 DEF TakesEffect
<1>7. ASSUME CutOff PROVE PanicChangesNothing'
  BY <1>7 DEF CutOff
<1>9. ASSUME UNCHANGED apiVars PROVE PanicChangesNothing'
  BY <1>9 DEF apiVars
<1>10. ASSUME NEW r \in Requests, Breaks(r) PROVE PanicChangesNothing'
  BY <1>10 DEF Breaks, BadKey
<1> QED
  BY <1>1, <1>2, <1>3, <1>4, <1>5, <1>6, <1>7, <1>8, <1>9, <1>10 DEF Moves, MovesOn, Move

\* A request is under way only while, or after, the process serves.
LEMMA NextServedByHttp == ApiTypes /\ ServedByHttp /\ UNCHANGED http /\ Moves => ServedByHttp'
<1> SUFFICES ASSUME ApiTypes, ServedByHttp, UNCHANGED http, Moves PROVE ServedByHttp'
  OBVIOUS
<1> USE DEF ServedByHttp, ApiTypes, Active, Over, Goto, counter, request
<1>1. ASSUME NEW r \in Requests, NEW i \in Inputs[r], Arrive(r, i) PROVE ServedByHttp'
  BY <1>1 DEF Arrive
<1>2. ASSUME NEW r \in Requests, Leave(r) PROVE ServedByHttp'
  BY <1>2 DEF Leave
<1>3. ASSUME NEW r \in Requests, Count(r) PROVE ServedByHttp'
  BY <1>3 DEF Count, Enters
<1>4. ASSUME NEW r \in Requests, Call(r) PROVE ServedByHttp'
  BY <1>4 DEF Call
<1>5. ASSUME NEW r \in Requests, pc[r] \in {"route", "handle", "call"}, Ends(r) PROVE ServedByHttp'
  BY <1>5 DEF Ends
<1>6. ASSUME NEW r \in Requests, TakesEffect(r) PROVE ServedByHttp'
  BY <1>6 DEF TakesEffect
<1>7. ASSUME CutOff PROVE ServedByHttp'
  BY <1>7 DEF CutOff
<1>8. ASSUME Restarted PROVE ServedByHttp'
  BY <1>8 DEF Restarted
<1>9. ASSUME UNCHANGED apiVars PROVE ServedByHttp'
  BY <1>9 DEF apiVars
<1>10. ASSUME NEW r \in Requests, Breaks(r) PROVE ServedByHttp'
  BY <1>10 DEF Breaks
<1> QED
  BY <1>1, <1>2, <1>3, <1>4, <1>5, <1>6, <1>7, <1>8, <1>9, <1>10 DEF Moves, MovesOn, Move

\* Every request is counted when it passes the middleware, and only then.
LEMMA NextCountedOnce == ApiTypes /\ CountedOnce /\ Moves => CountedOnce'
<1> SUFFICES ASSUME ApiTypes, CountedOnce, Moves PROVE CountedOnce'
  OBVIOUS
<1> USE DEF ApiTypes, CountedOnce, CountsEveryRequest, Route, Active, Over, Goto, counter, request
<1>1. ASSUME NEW r \in Requests, NEW i \in Inputs[r], Arrive(r, i) PROVE CountedOnce'
  BY <1>1 DEF Arrive
<1>2. ASSUME NEW r \in Requests, Leave(r) PROVE CountedOnce'
  BY <1>2 DEF Leave
<1>3. ASSUME NEW r \in Requests, Count(r) PROVE CountedOnce'
  <2>1. /\ IsFiniteSet(counted \union {r})
        /\ Cardinality(counted \union {r}) = Cardinality(counted) + 1
    BY <1>3, FS_AddElement DEF Count, Enters
  <2>2. /\ requestCount' = Cardinality(counted') /\ IsFiniteSet(counted')
        /\ requestCount' = requestCount + 1 /\ counted' = counted \union {r}
    BY <1>3, <2>1 DEF Count
  <2>3. pc[r] = "route" /\ pc' = [pc EXCEPT ![r] = "handle"]
    BY <1>3 DEF Count, Enters
  <2>4. UNCHANGED <<input, earlier, shown>>
    BY <1>3 DEF Count
  <2>5. own' = [own EXCEPT ![r] = requestCount + 1]
    BY <1>3, <2>2 DEF Count
  <2>6. ASSUME NEW s \in Requests, pc'[s] = "handle"
        PROVE  earlier'[s] < own'[s] /\ own'[s] <= requestCount'
    <3>1. CASE s = r
      BY <2>2, <2>3, <2>4, <2>5, <3>1
    <3>2. CASE s # r
      BY <2>2, <2>3, <2>4, <2>5, <2>6, <3>2
    <3> QED
      BY <3>1, <3>2
  <2>7. \A s \in Requests :
          /\ pc'[s] \in {"none", "route"} => s \notin counted'
          /\ pc'[s] = "route" => earlier'[s] <= requestCount'
    BY <2>2, <2>3, <2>4
  <2>8. CountsEveryRequest'
    BY <2>2, <2>3, <2>4
  <2> QED
    BY <2>2, <2>6, <2>7, <2>8
<1>4. ASSUME NEW r \in Requests, Call(r) PROVE CountedOnce'
  BY <1>4 DEF Call
<1>5. ASSUME NEW r \in Requests, pc[r] \in {"route", "handle", "call"}, Ends(r) PROVE CountedOnce'
  BY <1>5 DEF Ends
<1>6. ASSUME NEW r \in Requests, TakesEffect(r) PROVE CountedOnce'
  BY <1>6 DEF TakesEffect
<1>7. ASSUME CutOff PROVE CountedOnce'
  BY <1>7 DEF CutOff
<1>8. ASSUME Restarted PROVE CountedOnce'
  BY <1>8, FS_EmptySet DEF Restarted
<1>9. ASSUME UNCHANGED apiVars PROVE CountedOnce'
  BY <1>9 DEF apiVars
<1>10. ASSUME NEW r \in Requests, Breaks(r) PROVE CountedOnce'
  BY <1>10 DEF Breaks
<1> QED
  BY <1>1, <1>2, <1>3, <1>4, <1>5, <1>6, <1>7, <1>8, <1>9, <1>10 DEF Moves, MovesOn, Move

-----------------------------------------------------------------------------
(* The process with its requests. *)

Inv == MainInv /\ ApiInv /\ IdleStaysUp

\* A server that has started is not forgotten before the process starts anew, and
\* neither is the configuration.
LEMMA HttpStays ==
  ASSUME MainStep \/ Goroutines \/ MapFatal \/ Signal \/ Kill
  PROVE  (http # "none" => http' # "none") /\ UNCHANGED cfg
<1> USE DEF servers
<1>1. CASE MainStep
  BY <1>1 DEF MainStep, Parse, NewYandex, NewSentry, NewTelegram, NewStore, StartGob,
              NewDns, StartHttp, Greet, Notify, Receive, TakeSignal, Farewell
<1>2. CASE Goroutines
  BY <1>2 DEF Goroutines, GobListens, GobEnds, GobPanics, HttpListens, HttpEnds,
              Greeted, GreetPanics
<1>3. CASE MapFatal \/ Signal \/ Kill
  BY <1>3 DEF MapFatal, Signal, Kill
<1> QED
  BY <1>1, <1>2, <1>3

\* main itself ends only before it greets, or when it has taken a signal.
LEMMA MainEnds ==
  ASSUME GreetsFirst, SignalIsSent, MainStep, main' = "exited"
  PROVE  greeting' = "none" \/ asked'
<1> USE DEF GreetsFirst, SignalIsSent, parts, servers, stopping
<1>1. CASE Parse \/ NewYandex \/ NewSentry \/ NewTelegram \/ NewStore
  BY <1>1 DEF Parse, NewYandex, NewSentry, NewTelegram, NewStore
<1>2. CASE StartGob \/ NewDns \/ StartHttp
  BY <1>2 DEF StartGob, NewDns, StartHttp
<1>3. CASE Greet \/ Notify \/ Receive \/ TakeSignal
  BY <1>3 DEF Greet, Notify, Receive, TakeSignal
<1>4. CASE Farewell
  BY <1>4 DEF Farewell
<1> QED
  BY <1>1, <1>2, <1>3, <1>4 DEF MainStep

\* A goroutine ends the process only by a panic.
LEMMA GoroutineEnds ==
  ASSUME Goroutines, main' = "exited"
  PROVE  gob' \in {"serving", "ended"} \/ cfg'.telegram = "malformed"
<1> USE DEF servers, Up
<1>1. CASE GobListens \/ GobEnds \/ HttpListens \/ HttpEnds \/ Greeted
  BY <1>1 DEF GobListens, GobEnds, HttpListens, HttpEnds, Greeted
<1>2. CASE GobPanics
  BY <1>2 DEF GobPanics
<1>3. CASE GreetPanics
  BY <1>3 DEF GreetPanics
<1> QED
  BY <1>1, <1>2, <1>3 DEF Goroutines

\* While the process runs, it ends for one of the reasons IdleStaysUp names.
LEMMA EndsForAReason ==
  ASSUME MainInv, ApiTypes,
         MainStep \/ Goroutines \/ MapFatal \/ Signal \/ Kill, Ending
  PROVE  IdleStaysUp'
<1> SUFFICES ASSUME main' = "exited", greeting' # "none", ~asked'
             PROVE  \/ gob' \in {"serving", "ended"}
                    \/ \E r \in Requests : pc'[r] = "ended" /\ Route(r)' = "ping"
                    \/ cfg'.telegram = "malformed"
  BY DEF IdleStaysUp
<1>1. CASE MainStep
  BY <1>1, MainEnds DEF MainInv
<1>2. CASE Goroutines
  BY <1>2, GoroutineEnds
<1>3. CASE MapFatal
  <2>1. PICK r \in Requests : pc[r] = "call" /\ Route(r) = "ping"
    BY <1>3 DEF MapFatal
  <2>2. CutOff
    BY DEF Ending
  <2>3. pc'[r] = "ended" /\ Route(r)' = "ping"
    BY <2>1, <2>2 DEF CutOff, Active, Over, Route
  <2> QED
    BY <2>3
<1>4. CASE Signal \/ Kill
  BY <1>4 DEF Signal, Kill
<1> QED
  BY <1>1, <1>2, <1>3, <1>4

\* Requests that ended with the process stay so until the next one.
LEMMA EndedStays ==
  ASSUME ApiTypes, MovesOn, NEW r \in Requests, pc[r] = "ended"
  PROVE  pc'[r] = "ended" /\ UNCHANGED Route(r)
<1> USE DEF ApiTypes, Route, Active, Over, Goto, counter, request
<1>1. CASE CutOff
  BY <1>1 DEF CutOff
<1>2. CASE UNCHANGED apiVars
  BY <1>2 DEF apiVars
<1>3. ASSUME NEW s \in Requests, Move(s) PROVE pc'[r] = "ended" /\ UNCHANGED Route(r)
  <2>1. CASE \E i \in Inputs[s] : Arrive(s, i)
    BY <2>1 DEF Arrive
  <2>2. CASE Leave(s) \/ TakesEffect(s)
    BY <2>2 DEF Leave, TakesEffect
  <2>3. CASE Count(s) \/ Call(s)
    BY <2>3 DEF Count, Call, Enters
  <2>4. CASE pc[s] \in {"route", "handle", "call"} /\ Ends(s)
    BY <2>4 DEF Ends
  <2>5. CASE Breaks(s)
    BY <2>5 DEF Breaks
  <2> QED
    BY <1>3, <2>1, <2>2, <2>3, <2>4, <2>5 DEF Move
<1> QED
  BY <1>1, <1>2, <1>3 DEF MovesOn

\* So does what has been said of the end.
LEMMA EndStays ==
  ASSUME ApiTypes, IdleStaysUp, UNCHANGED mainVars, MovesOn
  PROVE  IdleStaysUp'
BY EndedStays DEF IdleStaysUp, mainVars, servers, stopping

\* Nor do its requests outlive it.
LEMMA ServedWhileMainRuns ==
  ASSUME ApiTypes, ServedByHttp, http # "none" => http' # "none",
         CutOff \/ UNCHANGED apiVars
  PROVE  ServedByHttp'
<1>1. CASE CutOff
  BY <1>1 DEF ApiTypes, ServedByHttp, CutOff, Active, Over
<1>2. CASE UNCHANGED apiVars
  BY <1>2 DEF ServedByHttp, apiVars, request
<1> QED
  BY <1>1, <1>2

\* The initial state satisfies the invariant.
LEMMA InitInv == Init => Inv
<1> SUFFICES ASSUME Init PROVE Inv
  OBVIOUS
<1>1. MainInv
  BY InitMainInv DEF Init
<1>2. ApiTypes
  BY DEF Init, ApiInit, ApiTypes, Asked, PCs, Over, Effects
<1>3. ServedByHttp /\ EffectsOfCalls /\ RefusalChangesNothing /\ PanicChangesNothing
  BY DEF Init, ApiInit, ServedByHttp, EffectsOfCalls, RefusalChangesNothing,
         PanicChangesNothing
<1>4. CountedOnce
  BY FS_EmptySet DEF Init, ApiInit, CountedOnce, CountsEveryRequest
<1>5. IdleStaysUp
  BY DEF Init, MainInit, IdleStaysUp
<1> QED
  BY <1>1, <1>2, <1>3, <1>4, <1>5 DEF Inv, ApiInv

\* What is said of the requests alone is kept by whatever happens to them.
LEMMA MovesKeepApiInv ==
  ASSUME ApiInv, Moves, ServedByHttp', UNCHANGED cfg \/ Restarted
  PROVE  ApiInv'
BY NextApiTypes, NextEffectsOfCalls, NextRefusal, NextPanic, NextCountedOnce
DEF ApiInv

\* Every step keeps the invariant.
LEMMA NextInv == Inv /\ [Next]_vars => Inv'
<1> SUFFICES ASSUME Inv, [Next]_vars PROVE Inv'
  OBVIOUS
<1> USE DEF Inv
<1>1. ASSUME MainStep \/ Goroutines \/ MapFatal \/ Signal \/ Kill, Ending PROVE Inv'
  <2>1. MainInv'
    BY <1>1, NextMainInv DEF MainMoves, MainNext
  <2>2. CutOff \/ UNCHANGED apiVars
    BY <1>1 DEF Ending
  <2>3. (http # "none" => http' # "none") /\ UNCHANGED cfg
    BY <1>1, HttpStays
  <2>4. ServedByHttp'
    BY <2>2, <2>3, ServedWhileMainRuns DEF ApiInv
  <2>5. IdleStaysUp'
    BY <1>1, EndsForAReason DEF ApiInv
  <2> QED
    BY <2>1, <2>2, <2>3, <2>4, <2>5, MovesKeepApiInv DEF Moves, MovesOn
<1>2. ASSUME Boot, Restarted PROVE Inv'
  <2>1. MainInv'
    BY <1>2, NextMainInv DEF MainMoves, MainNext
  <2>2. ServedByHttp'
    BY <1>2 DEF Restarted, ServedByHttp
  <2>3. IdleStaysUp'
    BY <1>2 DEF Boot, IdleStaysUp
  <2> QED
    BY <1>2, <2>1, <2>2, <2>3, MovesKeepApiInv DEF Moves, MovesOn
<1>3. ASSUME MovesOn, UNCHANGED mainVars PROVE Inv'
  <2>1. MainInv'
    BY <1>3, NextMainInv DEF MainMoves
  <2>2. ServedByHttp'
    BY <1>3, NextServedByHttp DEF mainVars, servers, ApiInv, Moves
  <2>3. IdleStaysUp'
    BY <1>3, EndStays DEF ApiInv
  <2> QED
    BY <1>3, <2>1, <2>2, <2>3, MovesKeepApiInv DEF mainVars, Moves
<1>4. ASSUME ApiNext PROVE (\E r \in Requests : Move(r))
  <2>1. PICK r \in Requests : \/ \E i \in Inputs[r] : Arrive(r, i)
                              \/ Leave(r) \/ ApiStep(r) \/ TakesEffect(r)
    BY <1>4 DEF ApiNext
  <2>2. PanicSteps(r) => Breaks(r)
    BY PanicShape DEF ApiInv
  <2>3. Move(r)
    BY <2>1, <2>2, StepShape DEF Move, ApiInv
  <2> QED
    BY <2>3
<1>5. ASSUME UNCHANGED vars PROVE MovesOn /\ UNCHANGED mainVars
  BY <1>5 DEF vars, MovesOn
<1> QED
  BY <1>1, <1>2, <1>3, <1>4, <1>5 DEF Next, MainRuns, MovesOn

\* The invariant holds throughout.
THEOREM Invariance == Spec => []Inv
BY InitInv, NextInv, PTL DEF Spec

\* Types, of the process and of the requests (main.go:35-154, handlers.go:23-293).
THEOREM TypeCorrect == Spec => []TypeOK
<1>1. Inv => TypeOK
  BY DEF Inv, MainInv, MainTypes, ApiInv, ApiTypes, TypeOK, PCs, Effects
<1> QED
  BY <1>1, Invariance, PTL

\* Nothing serves before what its handlers need is made (main.go:66-134).
THEOREM MadeBeforeServed == Spec => []ReadyToServe
<1>1. Inv => ReadyToServe
  BY DEF Inv, MainInv, MadeInOrder, ApiInv, ApiTypes, ServedByHttp, ReadyToServe,
         Active, PCs, Over
<1> QED
  BY <1>1, Invariance, PTL

\* A refused request has no effect, and none is under way (handlers.go:157-240).
THEOREM RefusedUnchanged == Spec => []RefusalChangesNothing
<1>1. Inv => RefusalChangesNothing
  BY DEF Inv, ApiInv
<1> QED
  BY <1>1, Invariance, PTL

\* No error leaves serveError without a status code, and a handler that panics
\* for another reason has changed nothing, a ping excepted (handlers.go:251-269,
\* telegram/client.go:53-55).
THEOREM PanicsLeaveNothing == Spec => []PanicChangesNothing
<1>1. Inv => PanicChangesNothing
  BY DEF Inv, ApiInv
<1> QED
  BY <1>1, Invariance, PTL

\* The counter of /info misses nothing (middleware.go:69-76).
THEOREM CounterIsExact == Spec => []CountsEveryRequest
<1>1. Inv => CountsEveryRequest
  BY DEF Inv, ApiInv, CountedOnce
<1> QED
  BY <1>1, Invariance, PTL

\* What a process that has started can die of unasked (main.go:107-147).
THEOREM EndsUnaskedByUse == Spec => []IdleStaysUp
<1>1. Inv => IdleStaysUp
  BY DEF Inv
<1> QED
  BY <1>1, Invariance, PTL

=============================================================================
