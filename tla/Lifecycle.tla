----------------------------- MODULE Lifecycle -----------------------------
(***************************************************************************)
(* The process: main (internal/cmd/main.go), what it makes in which order, *)
(* the goroutines it starts and does not wait for, the signal that ends    *)
(* it, and starting it again (scripts/ssh_deploy.sh).                      *)
(***************************************************************************)
EXTENDS Naturals

CONSTANT
  Configs      \* configurations: which parts are set

\* An API key is malformed when no URL can be parsed with it.
Keys == {"none", "good", "malformed"}

ASSUME ConfigsAssumption ==
  Configs \subseteq [telegram : Keys, gob : BOOLEAN, http : BOOLEAN, vps : BOOLEAN]

VARIABLES
  cfg,         \* the configuration
  main,        \* what main does next; "exited" once the process has ended
  timed,       \* http.DefaultClient has a timeout
  subscribed,  \* the device store has its subscriber
  dns,         \* the DNS client is made
  gob, http,   \* the two servers: "none", "starting", "serving", "ended", and
               \* "failed" if it never served
  greeting,    \* the goroutine of the start message: "none", "sending", "over"
  notified,    \* signal.Notify has been called
  pending,     \* the channel s holds a signal
  ctxDone,     \* the context of main is cancelled
  chat,        \* what this process has told the chat
  asked        \* somebody has sent this process a signal

parts    == <<timed, subscribed, dns>>
servers  == <<gob, http>>
stopping == <<notified, pending, ctxDone, asked>>
mainVars == <<cfg, main, parts, servers, greeting, stopping, chat>>

MainInit ==
  /\ cfg \in Configs /\ main = "config"
  /\ timed = FALSE /\ subscribed = FALSE /\ dns = FALSE
  /\ gob = "none" /\ http = "none" /\ greeting = "none"
  /\ notified = FALSE /\ pending = FALSE /\ ctxDone = FALSE
  /\ chat = {} /\ asked = FALSE

\* A deploy starts the next process, with a configuration of its own.
Boot ==
  /\ main = "exited"
  /\ cfg' \in Configs /\ main' = "config"
  /\ timed' = FALSE /\ subscribed' = FALSE /\ dns' = FALSE
  /\ gob' = "none" /\ http' = "none" /\ greeting' = "none"
  /\ notified' = FALSE /\ pending' = FALSE /\ ctxDone' = FALSE
  /\ chat' = {} /\ asked' = FALSE

-----------------------------------------------------------------------------
(* Starting. *)

\* config.Parse, yandex.New and sentry.NewClient end the process if they fail.
Parse ==
  /\ main = "config" /\ main' \in {"yandex", "exited"}
  /\ UNCHANGED <<cfg, parts, servers, greeting, stopping, chat>>

\* Mutant: the client of Yandex has a http.Client of its own.
NewYandex_Apart ==
  /\ main = "yandex" /\ main' \in {"sentry", "exited"}
  /\ UNCHANGED <<cfg, parts, servers, greeting, stopping, chat>>

\* The vendored client sets the timeout before its first request.
NewYandex ==
  /\ main = "yandex" /\ main' \in {"sentry", "exited"}
  /\ timed' = TRUE
  /\ UNCHANGED <<cfg, subscribed, dns, servers, greeting, stopping, chat>>

NewSentry ==
  /\ main = "sentry" /\ main' \in {"telegram", "exited"}
  /\ UNCHANGED <<cfg, parts, servers, greeting, stopping, chat>>

\* telegram.New, or the mock when no Telegram is configured.
NewTelegram ==
  /\ main = "telegram" /\ main' = "store"
  /\ timed' = (timed \/ cfg.telegram # "none")
  /\ UNCHANGED <<cfg, subscribed, dns, servers, greeting, stopping, chat>>

NewStore ==
  /\ main = "store" /\ main' = "gob"
  /\ subscribed' = TRUE
  /\ UNCHANGED <<cfg, timed, dns, servers, greeting, stopping, chat>>

StartGob ==
  /\ main = "gob" /\ main' = "dns"
  /\ gob' = IF cfg.gob THEN "starting" ELSE gob
  /\ UNCHANGED <<cfg, parts, http, greeting, stopping, chat>>

\* vpsmanager.New may fail, and main then returns with status 0.
NewDns ==
  /\ main = "dns"
  /\ \/ main' = "http" /\ dns' = TRUE
     \/ cfg.vps /\ main' = "exited" /\ UNCHANGED dns
  /\ UNCHANGED <<cfg, timed, subscribed, servers, greeting, stopping, chat>>

\* Mutant: the HTTP api is started before the DNS client is made.
StartHttp_Early ==
  /\ main \in {"dns", "http"} /\ http = "none"
  /\ main' = IF main = "http" THEN "greet" ELSE main
  /\ http' = IF cfg.http THEN "starting" ELSE http
  /\ UNCHANGED <<cfg, parts, gob, greeting, stopping, chat>>

StartHttp ==
  /\ main = "http" /\ main' = "greet"
  /\ http' = IF cfg.http THEN "starting" ELSE http
  /\ UNCHANGED <<cfg, parts, gob, greeting, stopping, chat>>

Greet ==
  /\ main = "greet" /\ main' = "notify"
  /\ greeting' = "sending"
  /\ UNCHANGED <<cfg, parts, servers, stopping, chat>>

Notify ==
  /\ main = "notify" /\ main' = "receive"
  /\ notified' = TRUE
  /\ UNCHANGED <<cfg, parts, servers, greeting, pending, ctxDone, asked, chat>>

-----------------------------------------------------------------------------
(* The goroutines. *)

Up == main # "exited"

GobListens ==
  /\ Up /\ gob = "starting" /\ gob' = "serving"
  /\ UNCHANGED <<cfg, main, parts, http, greeting, stopping, chat>>

\* Mutant: a server that cannot listen ends the process.
GobEnds_Fatal ==
  /\ Up /\ gob \in {"starting", "serving"}
  /\ IF gob = "starting" THEN gob' = "failed" /\ main' = "exited"
                         ELSE gob' = "ended" /\ UNCHANGED main
  /\ UNCHANGED <<cfg, parts, http, greeting, stopping, chat>>

\* It cannot listen; or Accept fails (see GobServer), or the context has ended.
GobEnds ==
  /\ Up /\ gob \in {"starting", "serving"}
  /\ gob' = IF gob = "starting" THEN "failed" ELSE "ended"
  /\ UNCHANGED <<cfg, main, parts, http, greeting, stopping, chat>>

\* A handler of GOB panics (see GobServer!HandlerPanics), and nothing recovers.
\* Connections outlive the server.
GobPanics ==
  /\ Up /\ gob \in {"serving", "ended"}
  /\ main' = "exited"
  /\ UNCHANGED <<cfg, parts, servers, greeting, stopping, chat>>

HttpListens ==
  /\ Up /\ http = "starting" /\ http' = "serving"
  /\ UNCHANGED <<cfg, main, parts, gob, greeting, stopping, chat>>

\* Nothing is told of it but the log and Sentry.
HttpEnds ==
  /\ Up /\ http \in {"starting", "serving"}
  /\ http' = IF http = "starting" THEN "failed" ELSE "ended"
  /\ UNCHANGED <<cfg, main, parts, gob, greeting, stopping, chat>>

\* The start message: Telegram may get it even if the call fails.
Greeted ==
  /\ Up /\ greeting = "sending" /\ greeting' = "over"
  /\ cfg.telegram # "malformed"
  /\ chat' \in {chat} \union (IF cfg.telegram = "good" THEN {chat \union {"started"}} ELSE {})
  /\ UNCHANGED <<cfg, main, parts, servers, stopping>>

\* SendMessageViaHTTP uses the request it could not make; main's goroutine does
\* not recover.
GreetPanics ==
  /\ Up /\ greeting = "sending" /\ greeting' = "over"
  /\ cfg.telegram = "malformed"
  /\ main' = "exited"
  /\ UNCHANGED <<cfg, parts, servers, stopping, chat>>

-----------------------------------------------------------------------------
(* Stopping. *)

\* Mutant: the channel has no buffer.
Signal_Unbuffered ==
  /\ Up
  /\ asked' = TRUE
  /\ IF notified THEN pending' = (main = "wait") /\ UNCHANGED main
                 ELSE main' = "exited" /\ UNCHANGED pending
  /\ UNCHANGED <<cfg, parts, servers, greeting, notified, ctxDone, chat>>

\* SIGTERM or SIGQUIT: before signal.Notify it kills, afterwards it waits in
\* the channel, which has room for one.
Signal ==
  /\ Up
  /\ asked' = TRUE
  /\ IF notified THEN pending' = TRUE /\ UNCHANGED main
                 ELSE main' = "exited" /\ UNCHANGED pending
  /\ UNCHANGED <<cfg, parts, servers, greeting, notified, ctxDone, chat>>

\* Any other signal.
Kill ==
  /\ Up /\ main' = "exited" /\ asked' = TRUE
  /\ UNCHANGED <<cfg, parts, servers, greeting, notified, pending, ctxDone, chat>>

Receive ==
  /\ main = "receive" /\ main' = "wait"
  /\ UNCHANGED <<cfg, parts, servers, greeting, stopping, chat>>

TakeSignal ==
  /\ main = "wait" /\ pending
  /\ pending' = FALSE /\ ctxDone' = TRUE
  /\ main' = "farewell"
  /\ UNCHANGED <<cfg, parts, servers, greeting, notified, asked, chat>>

\* "shutting down" goes out with the context of main, if that is not done.
\* Then main returns, whatever its goroutines are doing; with a malformed key it
\* panics instead.
Farewell ==
  /\ main = "farewell" /\ main' = "exited"
  /\ chat' \in {chat} \union (IF cfg.telegram = "good" /\ ~ctxDone
                                THEN {chat \union {"shutting down"}} ELSE {})
  /\ UNCHANGED <<cfg, parts, servers, greeting, stopping>>

-----------------------------------------------------------------------------
MainStep ==
  \/ Parse \/ NewYandex \/ NewSentry \/ NewTelegram \/ NewStore \/ StartGob
  \/ NewDns \/ StartHttp \/ Greet \/ Notify \/ Receive \/ TakeSignal \/ Farewell

Goroutines ==
  \/ GobListens \/ GobEnds \/ GobPanics \/ HttpListens \/ HttpEnds
  \/ Greeted \/ GreetPanics

MainNext == Boot \/ MainStep \/ Goroutines \/ Signal \/ Kill

=============================================================================
