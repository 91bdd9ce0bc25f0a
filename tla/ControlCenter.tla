--------------------------- MODULE ControlCenter ---------------------------
(***************************************************************************)
(* The whole process: main with its servers (Lifecycle) and the requests   *)
(* the HTTP api serves meanwhile (HttpApi), from start to start.           *)
(***************************************************************************)
EXTENDS HttpApi, FiniteSets

vars == <<mainVars, apiVars>>

Init == MainInit /\ ApiInit

\* With the process end the requests it is serving.
Ending == IF main' = "exited" THEN CutOff ELSE UNCHANGED apiVars

MainRuns == MainStep /\ Ending

Serves(r) == ApiStep(r) /\ UNCHANGED mainVars

\* A ping writes to the map of devices while the sweep ranges over it without
\* the lock (see DeviceStore!MapFatal), and the runtime gives up.
MapFatal ==
  /\ Up /\ subscribed
  /\ \E r \in Requests : pc[r] = "call" /\ Route(r) = "ping"
  /\ main' = "exited"
  /\ UNCHANGED <<cfg, parts, servers, greeting, stopping, chat>>

Next ==
  \/ MainRuns
  \/ (Goroutines \/ MapFatal \/ Signal \/ Kill) /\ Ending
  \/ Boot /\ Restarted
  \/ ApiNext /\ UNCHANGED mainVars

Spec == Init /\ [][Next]_vars

\* main and the handlers are goroutines that run when they can.  What a handler
\* calls returns because the clients have a timeout: nothing else ends a request
\* to Yandex, Telegram or a name server that does not answer.
FairSpec ==
  /\ Spec
  /\ WF_vars(MainRuns)
  /\ \A r \in Requests : WF_vars((pc[r] = "call" => timed) /\ Serves(r))

-----------------------------------------------------------------------------
(* Properties. *)

MainSteps == {"config", "yandex", "sentry", "telegram", "store", "gob", "dns",
              "http", "greet", "notify", "receive", "wait", "farewell", "exited"}
Servers == {"none", "starting", "serving", "ended", "failed"}
Codes   == {200, 301, 400, 404, 405, 422, 500}
Asked   == {NoInput} \union UNION {Inputs[r] : r \in Requests}

\* Types; a request has a status code exactly when a handler has written one.
TypeOK ==
  /\ cfg \in Configs
  /\ main \in MainSteps
  /\ timed \in BOOLEAN /\ subscribed \in BOOLEAN /\ dns \in BOOLEAN
  /\ gob \in Servers /\ http \in Servers
  /\ greeting \in {"none", "sending", "over"}
  /\ notified \in BOOLEAN /\ pending \in BOOLEAN /\ ctxDone \in BOOLEAN
  /\ asked \in BOOLEAN
  /\ chat \subseteq {"started", "shutting down"}
  /\ pc \in [Requests -> Over \union {"route", "handle", "call"}]
  /\ input \in [Requests -> Asked]
  /\ gone \in [Requests -> BOOLEAN]
  /\ status \in [Requests -> {0} \union Codes]
  /\ effect \in [Requests -> {"none", "done", "late"}]
  /\ requestCount \in Nat /\ counted \subseteq Requests
  /\ earlier \in [Requests -> Nat] /\ own \in [Requests -> Nat]
  /\ shown \in [Requests -> Nat]
  /\ \A r \in Requests : status[r] # 0 <=> pc[r] \in {"answered", "lost"}

\* main.go:66-134: whatever a handler can reach is made before a handler runs:
\* the device store has its subscriber, there is a client for DNS, and the http
\* client they all share has a timeout (telegram/client.go:28, the vendored
\* client.go), which the DNS clients and the GOB server rely on and never set.
ReadyToServe ==
  /\ http = "serving" \/ Active # {} => timed /\ subscribed /\ dns
  /\ gob = "serving" => timed

\* handlers.go:189-200, dnsupdater/updater.go:65, telegram/client.go:38-48: a
\* client that is told that its request was wrong has changed nothing by it, and
\* nothing of it can still be under way.
RefusalChangesNothing ==
  \A r \in Requests : status[r] \in 400..499 => effect[r] = "none"

\* handlers.go:251-269, telegram/client.go:53-55, the vendored client.go:211-216:
\* a handler that panics, and leaves its client without an answer, is one that
\* passes on a message with a bad key, asks Yandex, or announces a device with a
\* bad key; of these only a ping can have changed anything.  No error that
\* reaches serveError is the reason: it has a status code for all of them.
PanicChangesNothing ==
  \A r \in Requests : pc[r] = "panicked" =>
    \/ Route(r) = "send_message" /\ input[r].params = "bad key" /\ effect[r] = "none"
    \/ Route(r) = "nextbus" /\ effect[r] = "none"
    \/ Route(r) = "ping" /\ cfg.telegram = "malformed" /\ effect[r] # "late"

\* middleware.go:69-76, handlers.go:152: every request of v1 that a handler gets
\* is counted once, whatever others run meanwhile, and the count that /info shows
\* includes itself and everything that was counted before it came.
CountsEveryRequest ==
  /\ requestCount = Cardinality(counted)
  /\ \A r \in Requests :
       pc[r] = "answered" /\ Route(r) = "info" /\ input[r].method # "OPTIONS"
         => shown[r] > earlier[r]

\* main.go:107-147: what a process that has started can die of unless it is sent
\* a signal: a message to its GOB server, a ping that meets the sweep, or a key
\* that is malformed.  Neither a server that cannot listen nor any other request
\* takes it down.
IdleStaysUp ==
  main = "exited" /\ greeting # "none" /\ ~asked =>
    \/ gob \in {"serving", "ended"}
    \/ \E r \in Requests : pc[r] = "ended" /\ Route(r) = "ping"
    \/ cfg.telegram = "malformed"

\* main.go:145-154: a signal ends the process, also one that comes between Notify
\* and the receive, and although requests are being served.
StopsOnSignal == asked ~> main = "exited"

\* A request is answered, unless its client leaves or the process ends.
RequestsEnd == \A r \in Requests : pc[r] # "none" ~> pc[r] \in Over \ {"none"}

=============================================================================
