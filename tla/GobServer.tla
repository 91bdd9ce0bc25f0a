----------------------------- MODULE GobServer -----------------------------
(***************************************************************************)
(* The GOB api (internal/api/fccgob): a TCP server that reads Messages from *)
(* each connection, handles one at a time and writes an answer to each.    *)
(*                                                                         *)
(* Goroutines: the accept loop (Serve), one that closes the listener when  *)
(* the context ends, and for every connection the one that serves it and a *)
(* watcher that closes it when the context ends.  Nothing else closes a    *)
(* connection, so the descriptor of a client that has left stays taken.    *)
(* Nothing recovers the panic of a handler either: it ends the process.    *)
(***************************************************************************)
EXTENDS Naturals, Sequences, FiniteSets

CONSTANTS
  Conns,        \* connections clients may make
  Talkers,      \* bound: those on which they may send something
  Wire,         \* messages clients may send: [rid, kind, data]
  NoRID,        \* the empty request id
  NoData,       \* empty data
  Garbage,      \* bytes that are not a Message
  GoodData,     \* data the handlers can decode
  BadLevels,    \* data of a log whose severity is no level of the logger
  BadKeys,      \* data of a notify whose API key fits into no URL
  FDLimit,      \* connections the process may hold before Accept fails
  MaxSent       \* bound: messages sent on one connection

Kinds   == {"unknown", "log", "notify", "ok", "fail"}
Unknown == "unknown"   \* MessageKindUnknown, the zero MessageKind

ASSUME GobAssumption ==
  /\ Talkers \subseteq Conns
  /\ \A m \in Wire \ {Garbage} :
       DOMAIN m = {"rid", "kind", "data"} /\ m.kind \in Kinds \union {"other"}
  /\ NoData \notin GoodData \union BadLevels \union BadKeys
  /\ GoodData \intersect (BadLevels \union BadKeys) = {}
  /\ FDLimit \in Nat /\ MaxSent \in Nat

VARIABLES
  up,          \* the process runs
  ctxDone,     \* the context of main is cancelled
  listening,   \* the listener is open
  serving,     \* Serve is in its loop
  phase,       \* per connection: "none", "dialed", "open" or "closed"
  left,        \* the client has closed its end
  sent,        \* what the client has sent
  taken,       \* how much of it the decoder has consumed
  pc,          \* where handleConnection is
  watcher,     \* the watcher of the connection waits for the context
  msg,         \* its variable `msg`, declared outside the loop
  result,      \* what the handler returned
  answers,     \* what was written to the client: [rid, kind]
  chat         \* data of the messages sent to Telegram for the connection

net  == <<phase, left, sent>>
conn == <<pc, msg, result>>
vars == <<up, ctxDone, listening, serving, net, taken, conn, watcher, answers, chat>>

ZeroMessage == [rid |-> NoRID, kind |-> Unknown, data |-> NoData]

Init ==
  /\ up = TRUE /\ ctxDone = FALSE /\ listening = TRUE /\ serving = TRUE
  /\ phase = [c \in Conns |-> "none"]
  /\ left = [c \in Conns |-> FALSE]
  /\ sent = [c \in Conns |-> <<>>]
  /\ taken = [c \in Conns |-> 0]
  /\ pc = [c \in Conns |-> "none"]
  /\ watcher = [c \in Conns |-> FALSE]
  /\ msg = [c \in Conns |-> ZeroMessage]
  /\ result = [c \in Conns |-> "none"]
  /\ answers = [c \in Conns |-> <<>>]
  /\ chat = [c \in Conns |-> <<>>]

Goto(c, where) == pc' = [pc EXCEPT ![c] = where]

-----------------------------------------------------------------------------
(* Clients. *)

\* The kernel completes connections while the listener is open.
Dial(c) ==
  /\ phase[c] = "none" /\ listening
  /\ phase' = [phase EXCEPT ![c] = "dialed"]
  /\ UNCHANGED <<up, ctxDone, listening, serving, left, sent, taken, conn, watcher,
                 answers, chat>>

Send(c, m) ==
  /\ phase[c] \in {"dialed", "open"} /\ ~left[c]
  /\ c \in Talkers /\ Len(sent[c]) < MaxSent
  /\ sent' = [sent EXCEPT ![c] = Append(@, m)]
  /\ UNCHANGED <<up, ctxDone, listening, serving, phase, left, taken, conn, watcher,
                 answers, chat>>

Leave(c) ==
  /\ phase[c] \in {"dialed", "open"} /\ ~left[c]
  /\ left' = [left EXCEPT ![c] = TRUE]
  /\ UNCHANGED <<up, ctxDone, listening, serving, phase, sent, taken, conn, watcher,
                 answers, chat>>

-----------------------------------------------------------------------------
(* Serve. *)

Descriptors == {c \in Conns : phase[c] = "open"}

\* Mutant: a connection is accepted without its watcher.
Accept_NoWatch(c) ==
  /\ serving /\ listening
  /\ phase[c] = "dialed"
  /\ Cardinality(Descriptors) < FDLimit
  /\ phase' = [phase EXCEPT ![c] = "open"]
  /\ Goto(c, "decode")
  /\ UNCHANGED <<up, ctxDone, listening, serving, left, sent, taken, msg, result,
                 watcher, answers, chat>>

Accept(c) ==
  /\ serving /\ listening
  /\ phase[c] = "dialed"
  /\ Cardinality(Descriptors) < FDLimit
  /\ phase' = [phase EXCEPT ![c] = "open"]
  /\ Goto(c, "decode")
  /\ watcher' = [watcher EXCEPT ![c] = TRUE]
  /\ UNCHANGED <<up, ctxDone, listening, serving, left, sent, taken, msg, result,
                 answers, chat>>

\* Mutant: a client that gave up before it was accepted ends the loop.
AcceptFails_OnAbort ==
  /\ serving
  /\ ~listening \/ \E c \in Conns : phase[c] = "dialed" /\ left[c]
  /\ serving' = FALSE
  /\ UNCHANGED <<up, ctxDone, listening, net, taken, conn, watcher, answers, chat>>

\* Any error ends the loop, one that would pass too.  os.ErrClosed is not the
\* error of a closed listener, so Serve always returns an error.
AcceptFails ==
  /\ serving
  /\ \/ ~listening
     \/ Cardinality(Descriptors) >= FDLimit /\ \E c \in Conns : phase[c] = "dialed"
  /\ serving' = FALSE
  /\ UNCHANGED <<up, ctxDone, listening, net, taken, conn, watcher, answers, chat>>

Cancel ==
  /\ up /\ ~ctxDone
  /\ ctxDone' = TRUE
  /\ UNCHANGED <<up, listening, serving, net, taken, conn, watcher, answers, chat>>

\* Mutant: the connections are closed with the listener.
CloseListener_All ==
  /\ ctxDone /\ listening
  /\ listening' = FALSE
  /\ phase' = [c \in Conns |-> IF phase[c] = "none" THEN "none" ELSE "closed"]
  /\ UNCHANGED <<up, ctxDone, serving, left, sent, taken, conn, watcher, answers, chat>>

\* Clients that were never accepted are cut off with the listener.
CloseListener ==
  /\ ctxDone /\ listening
  /\ listening' = FALSE
  /\ phase' = [c \in Conns |-> IF phase[c] = "dialed" THEN "closed" ELSE phase[c]]
  /\ UNCHANGED <<up, ctxDone, serving, left, sent, taken, conn, watcher, answers, chat>>

-----------------------------------------------------------------------------
(* handleConnection. *)

CloseConn(c) ==
  /\ watcher[c] /\ ctxDone
  /\ phase' = [phase EXCEPT ![c] = "closed"]
  /\ watcher' = [watcher EXCEPT ![c] = FALSE]
  /\ UNCHANGED <<up, ctxDone, listening, serving, left, sent, taken, conn, answers, chat>>

\* gob omits the zero fields of m and leaves those of the target alone.
Decoded(old, m) ==
  [rid  |-> IF m.rid # NoRID THEN m.rid ELSE old.rid,
   kind |-> IF m.kind # Unknown THEN m.kind ELSE old.kind,
   data |-> IF m.data # NoData THEN m.data ELSE old.data]

\* uuid.New: an id no client and no other message has.
NewRID(c, i) == <<c, i>>

Decode(c) ==
  /\ pc[c] = "decode" /\ phase[c] = "open"
  /\ taken[c] < Len(sent[c])
  /\ LET i == taken[c] + 1
         m == Decoded(msg[c], sent[c][i])
     IN /\ sent[c][i] # Garbage
        /\ taken' = [taken EXCEPT ![c] = i]
        /\ msg' = [msg EXCEPT ![c] =
                     [rid  |-> IF m.rid = NoRID THEN NewRID(c, i) ELSE m.rid,
                      kind |-> m.kind, data |-> m.data]]
        /\ Goto(c, IF m.kind \in Kinds THEN "handle" ELSE "reject")
  /\ UNCHANGED <<up, ctxDone, listening, serving, net, result, watcher, answers, chat>>

\* The end of the stream or a reset, a closed connection, or bytes that do not decode: the
\* goroutine returns and leaves the connection as it is.
DecodeFails(c) ==
  /\ pc[c] = "decode"
  /\ \/ phase[c] = "closed" \/ left[c]
     \/ taken[c] < Len(sent[c]) /\ sent[c][taken[c] + 1] = Garbage
  /\ Goto(c, "done")
  /\ UNCHANGED <<up, ctxDone, listening, serving, net, taken, msg, result, watcher,
                 answers, chat>>

HandlerReturns(c, r) ==
  /\ pc[c] = "handle"
  /\ result' = [result EXCEPT ![c] = r]
  /\ Goto(c, "respond")
  /\ UNCHANGED <<up, ctxDone, listening, serving, net, taken, msg, watcher, answers>>

\* WithLevel panics on a severity above its levels, and SendMessageViaHTTP uses
\* the request it has not been given for an API key that does not parse.
Panics(m) == \/ m.kind = "log" /\ m.data \in BadLevels
             \/ m.kind = "notify" /\ m.data \in BadKeys

\* Mutant: the goroutine of the connection recovers, and returns.
HandlerPanics_Swallowed(c) ==
  /\ pc[c] = "handle" /\ Panics(msg[c])
  /\ Goto(c, "done")
  /\ UNCHANGED <<up, ctxDone, listening, serving, net, taken, msg, result, watcher,
                 answers, chat>>

\* No goroutine here recovers, and the process ends with all it serves.
HandlerPanics(c) ==
  /\ pc[c] = "handle" /\ Panics(msg[c])
  /\ up' = FALSE /\ listening' = FALSE /\ serving' = FALSE
  /\ phase' = [d \in Conns |-> IF phase[d] = "none" THEN "none" ELSE "closed"]
  /\ pc' = [d \in Conns |-> IF pc[d] = "none" THEN "none" ELSE "done"]
  /\ watcher' = [d \in Conns |-> FALSE]
  /\ UNCHANGED <<ctxDone, left, sent, taken, msg, result, answers, chat>>

\* nopHandler and okHandler do nothing; logMessageHandler and failureHandler
\* log what they can decode.
Handle(c) ==
  /\ msg[c].kind # "notify" /\ ~Panics(msg[c])
  /\ HandlerReturns(c, IF msg[c].kind \in {"log", "fail"} /\ msg[c].data \notin GoodData
                         THEN "fail" ELSE "ok")
  /\ UNCHANGED chat

\* Mutant: a message that Telegram did not confirm is sent again.
HandleNotify_Retry(c) ==
  /\ msg[c].kind = "notify" /\ ~Panics(msg[c])
  /\ \/ HandlerReturns(c, "fail") /\ UNCHANGED chat
     \/ /\ msg[c].data \in GoodData
        /\ \E r \in {"ok", "fail"} : HandlerReturns(c, r)
        /\ chat' = [chat EXCEPT ![c] = @ \o <<msg[c].data, msg[c].data>>]

\* notifyTelegramHandler: Telegram may get the message even if the call fails,
\* and may refuse it although the call does not, since any JSON is an answer.
\* The mock, without a Telegram configured, takes a bad key too.
HandleNotify(c) ==
  /\ msg[c].kind = "notify"
  /\ \/ HandlerReturns(c, IF Panics(msg[c]) THEN "ok" ELSE "fail") /\ UNCHANGED chat
     \/ /\ msg[c].data \in GoodData
        /\ \E r \in {"ok", "fail"} : HandlerReturns(c, r)
        /\ chat' \in {chat, [chat EXCEPT ![c] = Append(@, msg[c].data)]}

\* A write to a closed connection fails, one to a client that left may.
WriteWorks(c)  == phase[c] = "open"
WriteFails(c)  == phase[c] = "closed" \/ left[c]
Answer(c, rid, kind) ==
  answers' = [answers EXCEPT ![c] = Append(@, [rid |-> rid, kind |-> kind])]

\* Mutant: the handler has answered already.
Respond_Twice(c) ==
  /\ pc[c] = "respond"
  /\ \/ /\ WriteWorks(c)
        /\ LET a == [rid |-> msg[c].rid, kind |-> result[c]]
           IN answers' = [answers EXCEPT ![c] = @ \o <<a, a>>]
     \/ WriteFails(c) /\ UNCHANGED answers
  /\ result' = [result EXCEPT ![c] = "none"]
  /\ Goto(c, "decode")
  /\ UNCHANGED <<up, ctxDone, listening, serving, net, taken, msg, watcher, chat>>

\* respondOk and respondError after a handler; an error is only logged.
Respond(c) ==
  /\ pc[c] = "respond"
  /\ \/ WriteWorks(c) /\ Answer(c, msg[c].rid, result[c])
     \/ WriteFails(c) /\ UNCHANGED answers
  /\ result' = [result EXCEPT ![c] = "none"]
  /\ Goto(c, "decode")
  /\ UNCHANGED <<up, ctxDone, listening, serving, net, taken, msg, watcher, chat>>

\* Mutant: the goroutine returns where it should continue.
Reject_Returns(c) ==
  /\ pc[c] = "reject"
  /\ \/ WriteWorks(c) /\ Answer(c, NoRID, "fail")
     \/ WriteFails(c) /\ UNCHANGED answers
  /\ Goto(c, "done")
  /\ UNCHANGED <<up, ctxDone, listening, serving, net, taken, msg, result, watcher, chat>>

\* respondError for a kind without handler: its context has no request id.
Reject(c) ==
  /\ pc[c] = "reject"
  /\ \/ WriteWorks(c) /\ Answer(c, NoRID, "fail") /\ Goto(c, "decode")
     \/ WriteFails(c) /\ UNCHANGED answers /\ Goto(c, "done")
  /\ UNCHANGED <<up, ctxDone, listening, serving, net, taken, msg, result, watcher, chat>>

-----------------------------------------------------------------------------
ConnStep(c) == Decode(c) \/ DecodeFails(c) \/ Handle(c) \/ HandleNotify(c)
               \/ HandlerPanics(c) \/ Respond(c) \/ Reject(c)

Next ==
  \/ \E c \in Conns : Dial(c) \/ (\E m \in Wire : Send(c, m)) \/ Leave(c)
  \/ \E c \in Conns : Accept(c) \/ CloseConn(c) \/ ConnStep(c)
  \/ AcceptFails \/ Cancel \/ CloseListener

Spec == Init /\ [][Next]_vars

\* Every goroutine runs; whether and when clients act and the process is told to
\* stop is up to them.  A client reads what it is sent, and a call to Telegram
\* ends by the timeout of http.DefaultClient if by nothing else.
FairSpec ==
  /\ Spec
  /\ WF_vars(AcceptFails) /\ WF_vars(CloseListener)
  /\ \A c \in Conns : /\ WF_vars(Accept(c)) /\ WF_vars(CloseConn(c))
                      /\ WF_vars(ConnStep(c))

-----------------------------------------------------------------------------
(* Properties. *)

\* Types; a connection has a watcher as long as it is open (api.go:75), and a
\* goroutine from when it was accepted on.
TypeOK ==
  /\ up \in BOOLEAN /\ ctxDone \in BOOLEAN /\ listening \in BOOLEAN /\ serving \in BOOLEAN
  /\ phase \in [Conns -> {"none", "dialed", "open", "closed"}]
  /\ left \in [Conns -> BOOLEAN] /\ watcher \in [Conns -> BOOLEAN]
  /\ \A c \in Conns : taken[c] \in 0..Len(sent[c])
  /\ pc \in [Conns -> {"none", "decode", "handle", "respond", "reject", "done"}]
  /\ result \in [Conns -> {"none", "ok", "fail"}]
  /\ \A c \in Conns :
       /\ watcher[c] <=> (phase[c] = "open")
       /\ pc[c] # "none" => phase[c] \in {"open", "closed"}

Busy(c) == pc[c] \in {"handle", "respond", "reject"}

\* handleConnection (api.go:92-142): while a client stays, it has exactly one
\* answer to each message taken so far, in the order it sent them; an answer
\* names the request it answers whenever the request has an id, or none at all.
AnswersMatchRequests ==
  \A c \in Conns : phase[c] = "open" /\ ~left[c] =>
    /\ Len(answers[c]) + (IF Busy(c) THEN 1 ELSE 0) = taken[c]
    /\ \A i \in 1..Len(answers[c]) :
         sent[c][i].rid # NoRID => answers[c][i].rid \in {sent[c][i].rid, NoRID}

\* api.go:116-137 and handlers.go:18: Telegram gets nothing a client did not put
\* into one of its own messages, and nothing for a message of another kind.
\* Unknown counts: after a notify, gob makes one of it.
ChatIsAskedFor ==
  \A c \in Conns :
    LET seen == {i \in 1..taken[c] : sent[c][i].kind \in {"notify", Unknown}}
        texts == {sent[c][i].data : i \in 1..taken[c]}
    IN /\ Len(chat[c]) <= Cardinality(seen)
       /\ \A i \in 1..Len(chat[c]) : chat[c][i] \in texts \intersect GoodData

\* Serve (api.go:40-53): while the process runs and before the context ends, the
\* server stops accepting only when it has run out of descriptors; they are held
\* by clients that have left, too, since nothing closes a connection before.
ServesUntilFull ==
  up /\ ~serving /\ ~ctxDone => Cardinality(Descriptors) = FDLimit

\* api.go:31-38, 75-82: once the context ends, every goroutine ends and every
\* connection is closed, those accepted after it ended included.
ShutsDown ==
  ctxDone ~> /\ ~serving /\ ~listening
             /\ \A c \in Conns : /\ phase[c] \in {"none", "closed"}
                                 /\ ~watcher[c] /\ pc[c] \in {"none", "done"}

\* Somebody's message held what a handler panics on.
PanicSent ==
  \E c \in Conns : \E i \in 1..taken[c] : sent[c][i].data \in BadLevels \union BadKeys

\* api.go:93-137: a message on an accepted connection is answered, unless an
\* end of the connection goes away, it follows garbage, or a handler has panicked,
\* on this connection or any other.
EveryMessageAnswered ==
  \A c \in Conns : \A i \in 1..MaxSent :
    (phase[c] = "open" /\ Len(sent[c]) >= i)
      ~> (Len(answers[c]) >= i \/ left[c] \/ ctxDone \/ (~up /\ PanicSent)
          \/ \E j \in 1..i : j <= Len(sent[c]) /\ sent[c][j] = Garbage)

\* "Handler handles incoming request and it's handler's responsobility to answer
\* back to the other side." (fccgob/api.go:68-69): what has been handled, on any
\* connection, is answered if the client is there and nobody stops the server.
HandlersAnswer ==
  \A c \in Conns : pc[c] \in {"decode", "done"} /\ ~left[c] /\ ~ctxDone =>
    Len(answers[c]) = taken[c]

\* "Message is transffered over the wire packet." (fccgob/message.go:31): what is
\* handled is the message that was sent, so only a notify reaches Telegram.
OnlyNotifyIsSentOn ==
  \A c \in Conns :
    Len(chat[c]) <= Cardinality({i \in 1..taken[c] : sent[c][i].kind = "notify"})

=============================================================================
