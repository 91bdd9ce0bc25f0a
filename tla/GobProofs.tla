----------------------------- MODULE GobProofs -----------------------------
(* Theorems about the GOB server: for any number of connections, messages and
   descriptors. *)
EXTENDS GobServer, FiniteSetTheorems, TLAPS

RIDs  == {NoRID} \union {m.rid : m \in Wire \ {Garbage}}
         \union {NewRID(c, i) : c \in Conns, i \in Nat}
Datas == {NoData} \union {m.data : m \in Wire \ {Garbage}}
Msg   == [rid : RIDs, kind : Kinds \union {"other"}, data : Datas]
Ans   == [rid : RIDs, kind : {"ok", "fail"}]

\* The types of everything that TypeOK leaves out.
FlagsOK == up \in BOOLEAN /\ ctxDone \in BOOLEAN /\ listening \in BOOLEAN /\ serving \in BOOLEAN
NetOK ==
  /\ phase \in [Conns -> {"none", "dialed", "open", "closed"}]
  /\ left \in [Conns -> BOOLEAN] /\ watcher \in [Conns -> BOOLEAN]
  /\ sent \in [Conns -> Seq(Wire)] /\ taken \in [Conns -> Nat]
FlowOK ==
  /\ pc \in [Conns -> {"none", "decode", "handle", "respond", "reject", "done"}]
  /\ result \in [Conns -> {"none", "ok", "fail"}]
  /\ \A c \in Conns : pc[c] = "respond" => result[c] # "none"
OutOK ==
  /\ msg \in [Conns -> Msg] /\ answers \in [Conns -> Seq(Ans)]
  /\ chat \in [Conns -> Seq(GoodData)]
Shape == FlagsOK /\ NetOK /\ FlowOK /\ OutOK

\* The goroutine and the watcher of a connection go with its phase.
Linked(c) ==
  /\ taken[c] <= Len(sent[c])
  /\ watcher[c] <=> (phase[c] = "open")
  /\ pc[c] # "none" => phase[c] \in {"open", "closed"}

\* The message in hand is the last one taken, as far as it had fields.
InHand(c) ==
  /\ Busy(c) => taken[c] >= 1
  /\ pc[c] \in {"handle", "respond"} /\ sent[c][taken[c]].rid # NoRID =>
       msg[c].rid = sent[c][taken[c]].rid
  /\ pc[c] = "handle" /\ msg[c].kind = "notify" =>
       sent[c][taken[c]].kind \in {"notify", Unknown}
  /\ msg[c].data # NoData => \E i \in 1..taken[c] : msg[c].data = sent[c][i].data

\* One answer to every message that is not in hand.
Answered(c) ==
  phase[c] # "closed" /\ ~left[c] =>
    /\ Busy(c) => Len(answers[c]) + 1 = taken[c]
    /\ ~Busy(c) => Len(answers[c]) = taken[c]
    /\ \A i \in 1..Len(answers[c]) :
         sent[c][i].rid # NoRID => answers[c][i].rid \in {sent[c][i].rid, NoRID}

\* One message to the chat for every notify that is not in hand.
Asking(c) == {i \in 1..taken[c] : sent[c][i].kind \in {"notify", Unknown}}
Chatted(c) ==
  /\ Len(chat[c]) <= Cardinality(Asking(c))
  /\ pc[c] = "handle" /\ msg[c].kind = "notify" => Len(chat[c]) + 1 <= Cardinality(Asking(c))
  /\ \A i \in 1..Len(chat[c]) : \E j \in 1..taken[c] : chat[c][i] = sent[c][j].data

ConnInv(c) == Linked(c) /\ InHand(c) /\ Answered(c) /\ Chatted(c)

\* The descriptors that are taken, and what it means that the loop has ended.
Capacity ==
  /\ IsFiniteSet(Descriptors) /\ Cardinality(Descriptors) <= FDLimit
  /\ up /\ ~listening => ctxDone
  /\ serving => up
  /\ ServesUntilFull

Inv == Shape /\ (\A c \in Conns : ConnInv(c)) /\ Capacity

-----------------------------------------------------------------------------
(* Types. *)

\* Initially there are no connections.
LEMMA InitShape == Init => Shape
<1> SUFFICES ASSUME Init PROVE Shape
  OBVIOUS
<1>1. FlagsOK /\ FlowOK
  BY DEF Init, FlagsOK, FlowOK
<1>2. NetOK
  BY DEF Init, NetOK
<1>3. ZeroMessage \in Msg
  BY DEF ZeroMessage, Msg, RIDs, Datas, Kinds, Unknown
<1>4. OutOK
  BY <1>3 DEF Init, OutOK
<1> QED BY <1>1, <1>2, <1>4 DEF Shape

\* The steps of the clients.
LEMMA ClientShape ==
  ASSUME Shape, NEW c \in Conns, Dial(c) \/ Leave(c) \/ \E m \in Wire : Send(c, m)
  PROVE  Shape'
<1>1. FlagsOK' /\ FlowOK' /\ OutOK'
  BY DEF Shape, FlagsOK, FlowOK, OutOK, Dial, Leave, Send, conn
<1>2. CASE Dial(c)
  BY <1>1, <1>2 DEF Shape, NetOK, Dial
<1>3. CASE Leave(c)
  BY <1>1, <1>3 DEF Shape, NetOK, Leave
<1>4. ASSUME NEW m \in Wire, Send(c, m) PROVE Shape'
  BY <1>1, <1>4 DEF Shape, NetOK, Send
<1> QED BY <1>2, <1>3, <1>4

\* The steps of the accept loop and of the watchers.
LEMMA ServeShape ==
  ASSUME Shape, AcceptFails \/ Cancel \/ CloseListener \/ \E c \in Conns : Accept(c) \/ CloseConn(c)
  PROVE  Shape'
<1>1. OutOK'
  BY DEF Shape, OutOK, Accept, AcceptFails, Cancel, CloseListener, CloseConn, conn
<1>2. FlagsOK'
  BY DEF Shape, FlagsOK, Accept, AcceptFails, Cancel, CloseListener, CloseConn
<1>3. CASE AcceptFails \/ Cancel
  BY <1>1, <1>2, <1>3 DEF Shape, NetOK, FlowOK, AcceptFails, Cancel, net, conn
<1>4. CASE CloseListener
  BY <1>1, <1>2, <1>4 DEF Shape, NetOK, FlowOK, CloseListener, conn
<1>5. ASSUME NEW c \in Conns, Accept(c) PROVE Shape'
  BY <1>1, <1>2, <1>5 DEF Shape, NetOK, FlowOK, Accept, Goto
<1>6. ASSUME NEW c \in Conns, CloseConn(c) PROVE Shape'
  BY <1>1, <1>2, <1>6 DEF Shape, NetOK, FlowOK, CloseConn, conn
<1> QED BY <1>3, <1>4, <1>5, <1>6

\* What decoding leaves in msg.
Filled(c) ==
  LET i == taken[c] + 1
      m == Decoded(msg[c], sent[c][i])
  IN [rid  |-> IF m.rid = NoRID THEN NewRID(c, i) ELSE m.rid,
      kind |-> m.kind, data |-> m.data]

\* Decode takes the next message, and keeps old values in the fields it does not carry.
LEMMA DecodeDoes ==
  ASSUME Shape, NEW c \in Conns, Decode(c)
  PROVE  LET m == sent[c][taken[c] + 1] IN
         /\ pc[c] = "decode" /\ phase[c] = "open" /\ taken[c] < Len(sent[c])
         /\ m \in Wire \ {Garbage} /\ taken' = [taken EXCEPT ![c] = taken[c] + 1]
         /\ msg' = [msg EXCEPT ![c] = Filled(c)] /\ Filled(c) \in Msg
         /\ m.rid # NoRID => Filled(c).rid = m.rid
         /\ m.kind # Unknown => Filled(c).kind = m.kind
         /\ Filled(c).data \in {m.data, msg[c].data}
         /\ \E w \in {"handle", "reject"} : pc' = [pc EXCEPT ![c] = w]
         /\ UNCHANGED <<up, ctxDone, listening, serving, net, result, watcher, answers, chat>>
<1> DEFINE i == taken[c] + 1
           m == sent[c][i]
           d == Decoded(msg[c], m)
<1>1. /\ pc[c] = "decode" /\ phase[c] = "open" /\ taken[c] < Len(sent[c]) /\ m # Garbage
      /\ taken' = [taken EXCEPT ![c] = i]
      /\ msg' = [msg EXCEPT ![c] = Filled(c)]
      /\ \E w \in {"handle", "reject"} : pc' = [pc EXCEPT ![c] = w]
      /\ UNCHANGED <<up, ctxDone, listening, serving, net, result, watcher, answers, chat>>
  BY DEF Decode, Filled, Goto
<1>2. taken[c] \in Nat /\ sent[c] \in Seq(Wire)
  BY DEF Shape, NetOK
<1>3. m \in Wire \ {Garbage}
  BY <1>1, <1>2
<1>4. /\ m.rid \in RIDs /\ m.data \in Datas /\ m.kind \in Kinds \union {"other"}
      /\ NewRID(c, i) \in RIDs
  BY <1>2, <1>3, GobAssumption DEF RIDs, Datas
<1>5. msg[c].rid \in RIDs /\ msg[c].data \in Datas /\ msg[c].kind \in Kinds \union {"other"}
  BY DEF Shape, OutOK, Msg
<1>6. /\ d.rid = IF m.rid # NoRID THEN m.rid ELSE msg[c].rid
      /\ d.kind = IF m.kind # Unknown THEN m.kind ELSE msg[c].kind
      /\ d.data = IF m.data # NoData THEN m.data ELSE msg[c].data
  BY DEF Decoded
<1>7. /\ Filled(c) = [rid |-> Filled(c).rid, kind |-> Filled(c).kind, data |-> Filled(c).data]
      /\ Filled(c).rid = IF d.rid = NoRID THEN NewRID(c, i) ELSE d.rid
      /\ Filled(c).kind = d.kind /\ Filled(c).data = d.data
  BY DEF Filled
<1> HIDE DEF d, m
<1>8. Filled(c).rid \in RIDs /\ Filled(c).kind \in Kinds \union {"other"} /\ Filled(c).data \in Datas
  BY <1>4, <1>5, <1>6, <1>7
<1>9. Filled(c) \in Msg
  BY <1>7, <1>8 DEF Msg
<1> QED BY <1>1, <1>3, <1>6, <1>7, <1>9 DEF m

\* The steps of the goroutine of a connection.
LEMMA ConnShape ==
  ASSUME Shape, NEW c \in Conns, ConnStep(c)
  PROVE  Shape'
<1>1. \/ Decode(c) \/ DecodeFails(c) \/ Handle(c) \/ HandleNotify(c)
      \/ Respond(c) \/ Reject(c)
      => FlagsOK'
  BY DEF Shape, FlagsOK, Decode, DecodeFails, Handle, HandleNotify, HandlerReturns,
         Respond, Reject
<1>2. CASE Decode(c)
  <2>1. NetOK'
    <3>1. /\ phase' = phase /\ left' = left /\ sent' = sent /\ watcher' = watcher
          /\ taken' = [taken EXCEPT ![c] = taken[c] + 1]
      BY <1>2, DecodeDoes DEF net
    <3> QED BY <3>1 DEF Shape, NetOK
  <2>2. FlowOK'
    BY <1>2, DecodeDoes DEF Shape, FlowOK
  <2>3. OutOK'
    BY <1>2, DecodeDoes DEF Shape, OutOK
  <2> QED BY <1>1, <1>2, <2>1, <2>2, <2>3 DEF Shape
<1>3. CASE DecodeFails(c)
  BY <1>1, <1>3 DEF Shape, NetOK, FlowOK, OutOK, DecodeFails, Goto, net
<1>4. CASE Handle(c) \/ HandleNotify(c)
  <2>1. NetOK'
    BY <1>4 DEF Shape, NetOK, Handle, HandleNotify, HandlerReturns, net
  <2>2. \E r \in {"ok", "fail"} : result' = [result EXCEPT ![c] = r] /\ Goto(c, "respond")
    BY <1>4 DEF Handle, HandleNotify, HandlerReturns
  <2>3. FlowOK'
    BY <2>2 DEF Shape, FlowOK, Goto
  <2>4. chat' = chat \/ (msg[c].data \in GoodData /\ chat' = [chat EXCEPT ![c] = Append(@, msg[c].data)])
    BY <1>4 DEF Handle, HandleNotify
  <2>5. chat' \in [Conns -> Seq(GoodData)]
    <3>1. chat \in [Conns -> Seq(GoodData)] /\ chat[c] \in Seq(GoodData)
      BY DEF Shape, OutOK
    <3>2. msg[c].data \in GoodData => Append(chat[c], msg[c].data) \in Seq(GoodData)
      BY <3>1
    <3> QED BY <2>4, <3>1, <3>2
  <2>6. OutOK'
    BY <1>4, <2>5 DEF Shape, OutOK, Handle, HandleNotify, HandlerReturns
  <2> QED BY <1>1, <1>4, <2>1, <2>3, <2>6 DEF Shape
<1>5. CASE Respond(c) \/ Reject(c)
  <2>1. NetOK'
    BY <1>5 DEF Shape, NetOK, Respond, Reject, net
  <2>2. FlowOK'
    BY <1>5 DEF Shape, FlowOK, Respond, Reject, Goto
  <2>3. /\ msg' = msg /\ chat' = chat
        /\ \/ answers' = answers
           \/ \E a \in Ans : answers' = [answers EXCEPT ![c] = Append(@, a)]
    <3>1. CASE Respond(c)
      <4>1. [rid |-> msg[c].rid, kind |-> result[c]] \in Ans
        BY <3>1 DEF Shape, OutOK, FlowOK, Respond, Msg, Ans
      <4> QED BY <3>1, <4>1 DEF Respond, Answer
    <3>2. CASE Reject(c)
      <4>1. [rid |-> NoRID, kind |-> "fail"] \in Ans
        BY DEF Ans, RIDs
      <4> QED BY <3>2, <4>1 DEF Reject, Answer
    <3> QED BY <1>5, <3>1, <3>2
  <2>4. answers' \in [Conns -> Seq(Ans)]
    <3>1. answers \in [Conns -> Seq(Ans)] /\ answers[c] \in Seq(Ans)
      BY DEF Shape, OutOK
    <3>2. \A a \in Ans : Append(answers[c], a) \in Seq(Ans)
      BY <3>1
    <3> QED BY <2>3, <3>1, <3>2
  <2> QED BY <1>1, <1>5, <2>1, <2>2, <2>3, <2>4 DEF Shape, OutOK
<1>6. CASE HandlerPanics(c)
  <2>1. FlagsOK'
    BY <1>6 DEF Shape, FlagsOK, HandlerPanics
  <2>2. NetOK'
    BY <1>6 DEF Shape, NetOK, HandlerPanics
  <2>3. FlowOK' /\ OutOK'
    BY <1>6 DEF Shape, FlowOK, OutOK, HandlerPanics
  <2> QED BY <2>1, <2>2, <2>3 DEF Shape
<1> QED BY <1>2, <1>3, <1>4, <1>5, <1>6 DEF ConnStep

\* Every step keeps the types.
LEMMA StepShape == Shape /\ [Next]_vars => Shape'
<1> SUFFICES ASSUME Shape, [Next]_vars PROVE Shape'
  OBVIOUS
<1>1. CASE UNCHANGED vars
  BY <1>1 DEF Shape, FlagsOK, NetOK, FlowOK, OutOK, vars, net, conn
<1> QED BY <1>1, ClientShape, ServeShape, ConnShape DEF Next

-----------------------------------------------------------------------------
(* Connections. *)

\* A connection that no step touches keeps what is said of it.
LEMMA Untouched ==
  ASSUME NEW d \in Conns, ConnInv(d),
         phase'[d] = phase[d], left'[d] = left[d], sent'[d] = sent[d], taken'[d] = taken[d],
         pc'[d] = pc[d], watcher'[d] = watcher[d], msg'[d] = msg[d],
         answers'[d] = answers[d], chat'[d] = chat[d]
  PROVE  ConnInv(d)'
<1>1. Asking(d)' = Asking(d)
  BY DEF Asking
<1>2. Cardinality(Asking(d))' = Cardinality(Asking(d))
  BY <1>1
<1>3. Linked(d)' /\ InHand(d)' /\ Answered(d)'
  BY DEF ConnInv, Linked, InHand, Answered, Busy
<1>4. Chatted(d)'
  BY <1>2 DEF ConnInv, Chatted
<1> QED BY <1>3, <1>4 DEF ConnInv

\* Initially nothing is sent, decoded or answered.
LEMMA InitConns == Init => \A c \in Conns : ConnInv(c)
<1> SUFFICES ASSUME Init, NEW c \in Conns PROVE ConnInv(c)
  OBVIOUS
<1>1. /\ phase[c] = "none" /\ sent[c] = <<>> /\ taken[c] = 0 /\ pc[c] = "none"
      /\ watcher[c] = FALSE /\ msg[c] = ZeroMessage /\ answers[c] = <<>> /\ chat[c] = <<>>
  BY DEF Init
<1>2. Asking(c) = {} /\ ~Busy(c)
  BY <1>1 DEF Asking, Busy
<1>3. Linked(c) /\ InHand(c)
  BY <1>1, <1>2 DEF Linked, InHand, ZeroMessage
<1>4. Answered(c)
  BY <1>1, <1>2 DEF Answered
<1>5. Chatted(c)
  BY <1>1, <1>2, FS_EmptySet DEF Chatted
<1> QED BY <1>3, <1>4, <1>5 DEF ConnInv

\* api.go:40-82: connections come and go while nothing is decoded.
LEMMA ServeConns ==
  ASSUME Shape, \A c \in Conns : ConnInv(c),
         \/ AcceptFails \/ Cancel \/ CloseListener
         \/ \E c \in Conns : Dial(c) \/ Leave(c) \/ Accept(c) \/ CloseConn(c) \/ DecodeFails(c)
  PROVE  \A d \in Conns : ConnInv(d)'
<1> SUFFICES ASSUME NEW d \in Conns PROVE ConnInv(d)'
  OBVIOUS
<1>1. /\ sent'[d] = sent[d] /\ taken'[d] = taken[d] /\ msg'[d] = msg[d]
      /\ answers'[d] = answers[d] /\ chat'[d] = chat[d] /\ Asking(d)' = Asking(d)
  BY DEF AcceptFails, Cancel, CloseListener, Dial, Leave, Accept, CloseConn, DecodeFails,
         net, conn, Asking
<1>2. /\ phase'[d] # "closed" => phase[d] # "closed"
      /\ ~left'[d] => ~left[d]
      /\ Busy(d)' <=> Busy(d)
      /\ pc'[d] \in {"handle", "respond"} => pc'[d] = pc[d]
  BY DEF Shape, NetOK, FlowOK, AcceptFails, Cancel, CloseListener, Dial, Leave, Accept,
         CloseConn, DecodeFails, Goto, Busy, net, conn, ConnInv, Linked
<1>3. /\ watcher'[d] <=> (phase'[d] = "open")
      /\ pc'[d] # "none" => phase'[d] \in {"open", "closed"}
  BY DEF Shape, NetOK, FlowOK, AcceptFails, Cancel, CloseListener, Dial, Leave, Accept,
         CloseConn, DecodeFails, Goto, net, conn, ConnInv, Linked
<1>4. Linked(d)' /\ InHand(d)'
  BY <1>1, <1>2, <1>3 DEF ConnInv, Linked, InHand
<1>5. Answered(d)'
  BY <1>1, <1>2 DEF ConnInv, Answered
<1>6. pc'[d] = "handle" <=> pc[d] = "handle"
  BY DEF Shape, FlowOK, AcceptFails, Cancel, CloseListener, Dial, Leave, Accept,
         CloseConn, DecodeFails, Goto, net, conn, ConnInv, Linked
<1>7. Cardinality(Asking(d))' = Cardinality(Asking(d))
  BY <1>1
<1>8. Chatted(d)'
  BY <1>1, <1>6, <1>7 DEF ConnInv, Chatted
<1> QED BY <1>4, <1>5, <1>8 DEF ConnInv

\* What a client sends is behind what has been decoded.
LEMMA SendConns ==
  ASSUME Shape, \A c \in Conns : ConnInv(c), NEW c \in Conns, NEW m \in Wire, Send(c, m)
  PROVE  \A d \in Conns : ConnInv(d)'
<1> SUFFICES ASSUME NEW d \in Conns PROVE ConnInv(d)'
  OBVIOUS
<1>1. /\ UNCHANGED <<phase, left, taken, pc, watcher, msg, answers, chat>>
      /\ sent' = [sent EXCEPT ![c] = Append(sent[c], m)]
  BY DEF Send, conn
<1>2. CASE d # c
  <2>1. sent'[d] = sent[d]
    BY <1>1, <1>2 DEF Shape, NetOK
  <2> QED BY <1>1, <2>1, Untouched
<1>3. CASE d = c
  <2>1. /\ sent[d] \in Seq(Wire) /\ taken[d] \in Nat /\ taken[d] <= Len(sent[d])
        /\ sent'[d] = Append(sent[d], m) /\ taken'[d] = taken[d]
    BY <1>1, <1>3 DEF Shape, NetOK, ConnInv, Linked
  <2>2. /\ \A i \in 1..taken[d] : sent'[d][i] = sent[d][i]
        /\ Len(sent[d]) <= Len(sent'[d]) /\ taken[d] <= Len(sent'[d])
    BY <2>1
  <2>3. Asking(d)' = Asking(d)
    BY <2>1, <2>2 DEF Asking
  <2>4. Cardinality(Asking(d))' = Cardinality(Asking(d))
    BY <2>3
  <2>5. Linked(d)'
    BY <1>1, <2>2 DEF ConnInv, Linked
  <2>6. taken[d] >= 1 => sent'[d][taken[d]] = sent[d][taken[d]]
    BY <2>1, <2>2
  <2>7. InHand(d)'
    BY <1>1, <2>2, <2>6 DEF ConnInv, InHand, Busy
  <2>8. Answered(d)'
    <3>1. ASSUME phase[d] # "closed", ~left[d]
          PROVE  Len(answers[d]) <= taken[d] /\ Len(answers[d]) \in Nat
      BY <2>1, <3>1 DEF ConnInv, Answered, Shape, OutOK
    <3>2. ASSUME phase[d] # "closed", ~left[d], NEW i \in 1..Len(answers[d]),
                 sent'[d][i].rid # NoRID
          PROVE  answers[d][i].rid \in {sent'[d][i].rid, NoRID}
      BY <2>1, <2>2, <3>1, <3>2 DEF ConnInv, Answered
    <3> QED BY <1>1, <3>2 DEF ConnInv, Answered, Busy
  <2>9. Chatted(d)'
    BY <1>1, <2>2, <2>4 DEF ConnInv, Chatted
  <2> QED BY <2>5, <2>7, <2>8, <2>9 DEF ConnInv
<1> QED BY <1>2, <1>3

\* Asking grows by the message taken, if that asks.
LEMMA AskingGrows ==
  ASSUME Shape, NEW c \in Conns, taken'[c] = taken[c] + 1, sent'[c] = sent[c]
  PROVE  /\ IsFiniteSet(Asking(c)) /\ Cardinality(Asking(c)) \in Nat
         /\ Cardinality(Asking(c))' =
              IF sent[c][taken[c] + 1].kind \in {"notify", Unknown}
                THEN Cardinality(Asking(c)) + 1 ELSE Cardinality(Asking(c))
<1>1. taken[c] \in Nat
  BY DEF Shape, NetOK
<1>2. IsFiniteSet(1..taken[c])
  BY <1>1, FS_Interval
<1>3. IsFiniteSet(Asking(c)) /\ Asking(c) \subseteq 1..taken[c]
  BY <1>2, FS_Subset DEF Asking
<1>4. Cardinality(Asking(c)) \in Nat
  BY <1>3, FS_CardinalityType
<1>5. CASE sent[c][taken[c] + 1].kind \in {"notify", Unknown}
  <2>1. Asking(c)' = Asking(c) \union {taken[c] + 1} /\ taken[c] + 1 \notin Asking(c)
    BY <1>1, <1>5 DEF Asking
  <2> QED BY <1>3, <1>4, <1>5, <2>1, FS_AddElement
<1>6. CASE sent[c][taken[c] + 1].kind \notin {"notify", Unknown}
  <2>1. Asking(c)' = Asking(c)
    BY <1>1, <1>6 DEF Asking
  <2> QED BY <1>3, <1>4, <1>6, <2>1
<1> QED BY <1>5, <1>6

\* The message in hand is the one just taken, and asks for what it counts as.
LEMMA DecodeConns ==
  ASSUME Shape, Shape', \A c \in Conns : ConnInv(c), NEW c \in Conns, Decode(c)
  PROVE  \A d \in Conns : ConnInv(d)'
<1> SUFFICES ASSUME NEW d \in Conns PROVE ConnInv(d)'
  OBVIOUS
<1> DEFINE i == taken[c] + 1
           m == sent[c][i]
<1>1. /\ pc[c] = "decode" /\ phase[c] = "open" /\ taken[c] < Len(sent[c])
      /\ taken' = [taken EXCEPT ![c] = i] /\ msg' = [msg EXCEPT ![c] = Filled(c)]
      /\ m.rid # NoRID => Filled(c).rid = m.rid
      /\ m.kind # Unknown => Filled(c).kind = m.kind
      /\ Filled(c).data \in {m.data, msg[c].data}
      /\ \E w \in {"handle", "reject"} : pc' = [pc EXCEPT ![c] = w]
      /\ UNCHANGED <<phase, left, sent, watcher, answers, chat>>
  BY DecodeDoes DEF net
<1>2. CASE d # c
  <2>1. taken'[d] = taken[d] /\ msg'[d] = msg[d] /\ pc'[d] = pc[d]
    BY <1>1, <1>2 DEF Shape, NetOK, OutOK, FlowOK
  <2> QED BY <1>1, <2>1, Untouched
<1>3. CASE d = c
  <2>1. /\ taken[c] \in Nat /\ Len(sent[c]) \in Nat /\ Len(answers[c]) \in Nat /\ Len(chat[c]) \in Nat
        /\ taken'[c] = i /\ msg'[c] = Filled(c) /\ pc'[c] \in {"handle", "reject"}
        /\ ConnInv(c) /\ ~Busy(c) /\ Busy(c)'
    <3>1. /\ taken[c] \in Nat /\ Len(sent[c]) \in Nat
          /\ Len(answers[c]) \in Nat /\ Len(chat[c]) \in Nat
      BY DEF Shape, NetOK, OutOK
    <3>2. taken'[c] = i /\ msg'[c] = Filled(c)
      BY <1>1 DEF Shape, NetOK, OutOK, FlowOK
    <3>3. pc'[c] \in {"handle", "reject"}
      BY <1>1 DEF Shape, FlowOK
    <3>4. ~Busy(c) /\ Busy(c)'
      BY <1>1, <3>3 DEF Busy
    <3> QED BY <3>1, <3>2, <3>3, <3>4
  <2>2. Linked(c)'
    BY <1>1, <2>1 DEF ConnInv, Linked
  <2>3. InHand(c)'
    <3>1. pc'[c] = "handle" /\ msg'[c].kind = "notify" =>
            sent'[c][taken'[c]].kind \in {"notify", Unknown}
      BY <1>1, <2>1
    <3>2. sent'[c][taken'[c]].rid # NoRID => msg'[c].rid = sent'[c][taken'[c]].rid
      BY <1>1, <2>1
    <3>3. msg'[c].data # NoData => \E j \in 1..taken'[c] : msg'[c].data = sent'[c][j].data
      <4>1. CASE Filled(c).data = m.data
        BY <1>1, <2>1, <4>1
      <4>2. CASE Filled(c).data = msg[c].data
        BY <1>1, <2>1, <4>2 DEF ConnInv, InHand
      <4> QED BY <1>1, <4>1, <4>2
    <3> QED BY <2>1, <3>1, <3>2, <3>3 DEF InHand
  <2>4. Answered(c)'
    <3>1. phase[c] # "closed" /\ ~left[c] => Len(answers[c]) + 1 = i
      BY <2>1 DEF ConnInv, Answered
    <3> QED BY <1>1, <2>1, <3>1 DEF ConnInv, Answered
  <2>5. Chatted(c)'
    <3>1. Len(chat[c]) <= Cardinality(Asking(c))
      BY <1>1, <2>1 DEF ConnInv, Chatted
    <3>2. /\ Cardinality(Asking(c)) \in Nat
          /\ Cardinality(Asking(c))' = IF m.kind \in {"notify", Unknown}
               THEN Cardinality(Asking(c)) + 1 ELSE Cardinality(Asking(c))
      BY <1>1, <2>1, AskingGrows
    <3>3. msg'[c].kind = "notify" => m.kind \in {"notify", Unknown}
      BY <1>1, <2>1
    <3>4. /\ Len(chat[c]) <= Cardinality(Asking(c))'
          /\ msg'[c].kind = "notify" => Len(chat[c]) + 1 <= Cardinality(Asking(c))'
      BY <2>1, <3>1, <3>2, <3>3
    <3>5. \A j \in 1..Len(chat[c]) : \E k \in 1..i : chat[c][j] = sent[c][k].data
      BY <2>1 DEF ConnInv, Chatted
    <3> QED BY <1>1, <2>1, <3>4, <3>5 DEF Chatted
  <2> QED BY <1>3, <2>2, <2>3, <2>4, <2>5 DEF ConnInv
<1> QED BY <1>2, <1>3

\* What a notify sends to the chat is counted by the message that asked for it.
LEMMA HandleConns ==
  ASSUME Shape, Shape', \A c \in Conns : ConnInv(c), NEW c \in Conns,
         Handle(c) \/ HandleNotify(c)
  PROVE  \A d \in Conns : ConnInv(d)'
<1> SUFFICES ASSUME NEW d \in Conns PROVE ConnInv(d)'
  OBVIOUS
<1>1. /\ pc[c] = "handle" /\ pc' = [pc EXCEPT ![c] = "respond"]
      /\ UNCHANGED <<phase, left, sent, taken, watcher, msg, answers>>
      /\ \/ chat' = chat
         \/ /\ msg[c].kind = "notify" /\ msg[c].data \in GoodData
            /\ chat' = [chat EXCEPT ![c] = Append(chat[c], msg[c].data)]
  BY DEF Handle, HandleNotify, HandlerReturns, Goto, net
<1>2. CASE d # c
  <2>1. chat'[d] = chat[d] /\ pc'[d] = pc[d]
    BY <1>1, <1>2 DEF Shape, OutOK, FlowOK
  <2> QED BY <1>1, <2>1, Untouched
<1>3. CASE d = c
  <2>1. /\ pc'[c] = "respond" /\ Busy(c) /\ Busy(c)' /\ ConnInv(c)
        /\ chat[c] \in Seq(GoodData) /\ Asking(c)' = Asking(c)
        /\ taken[c] \in Nat
    BY <1>1 DEF Shape, OutOK, FlowOK, NetOK, Busy, Asking
  <2>2. Linked(c)' /\ InHand(c)'
    BY <1>1, <2>1 DEF ConnInv, Linked, InHand
  <2>3. Answered(c)'
    BY <1>1, <2>1 DEF ConnInv, Answered
  <2>4. Cardinality(Asking(c))' = Cardinality(Asking(c)) /\ Cardinality(Asking(c)) \in Nat
    <3>0. 1 \in Int /\ taken[c] \in Int
      BY <2>1
    <3>1. IsFiniteSet(1..taken[c])
      BY ONLY <3>0, FS_Interval
    <3>2. IsFiniteSet(Asking(c))
      BY <3>1, FS_Subset DEF Asking
    <3> QED BY <2>1, <3>2, FS_CardinalityType
  <2>5. CASE chat' = chat
    <3>1. Len(chat[c]) <= Cardinality(Asking(c))
      BY <2>1, <2>4 DEF ConnInv, Chatted
    <3> QED BY <1>1, <1>3, <2>1, <2>2, <2>3, <2>4, <2>5, <3>1 DEF ConnInv, Chatted
  <2>6. CASE /\ msg[c].kind = "notify" /\ msg[c].data \in GoodData
             /\ chat' = [chat EXCEPT ![c] = Append(chat[c], msg[c].data)]
    <3>1. chat'[c] = Append(chat[c], msg[c].data)
      BY <2>6 DEF Shape, OutOK
    <3>2. Len(chat'[c]) <= Cardinality(Asking(c))
      BY <1>1, <2>1, <2>4, <2>6, <3>1 DEF ConnInv, Chatted
    <3>3. \E j \in 1..taken[c] : msg[c].data = sent[c][j].data
      BY <2>1, <2>6, GobAssumption DEF ConnInv, InHand
    <3>4. \A j \in 1..Len(chat'[c]) : \E k \in 1..taken[c] : chat'[c][j] = sent[c][k].data
      <4>1. /\ Len(chat[c]) \in Nat /\ Len(chat'[c]) = Len(chat[c]) + 1
            /\ chat'[c][Len(chat[c]) + 1] = msg[c].data
            /\ \A j \in 1..Len(chat[c]) : chat'[c][j] = chat[c][j]
        BY <2>1, <2>6, <3>1
      <4>2. \A j \in 1..Len(chat[c]) : \E k \in 1..taken[c] : chat[c][j] = sent[c][k].data
        BY <2>1 DEF ConnInv, Chatted
      <4>3. \A j \in 1..Len(chat'[c]) : j \in 1..Len(chat[c]) \/ j = Len(chat[c]) + 1
        BY <4>1
      <4> QED BY <3>3, <4>1, <4>2, <4>3
    <3>5. Len(chat'[c]) \in Nat
      BY <2>1, <2>6, <3>1
    <3> QED BY <1>1, <1>3, <2>1, <2>2, <2>3, <2>4, <3>2, <3>4, <3>5 DEF ConnInv, Chatted
  <2> QED BY <1>1, <2>5, <2>6
<1> QED BY <1>2, <1>3

\* The answer has the id of the message in hand, which is the next to be answered.
LEMMA AnswerConns ==
  ASSUME Shape, Shape', \A c \in Conns : ConnInv(c), NEW c \in Conns,
         Respond(c) \/ Reject(c)
  PROVE  \A d \in Conns : ConnInv(d)'
<1> SUFFICES ASSUME NEW d \in Conns PROVE ConnInv(d)'
  OBVIOUS
<1>1. PICK a \in Ans :
        /\ \/ /\ answers' = [answers EXCEPT ![c] = Append(answers[c], a)]
              /\ pc' = [pc EXCEPT ![c] = "decode"]
           \/ /\ answers' = answers /\ (phase[c] = "closed" \/ left[c])
              /\ \E w \in {"decode", "done"} : pc' = [pc EXCEPT ![c] = w]
        /\ a.rid = NoRID \/ (pc[c] = "respond" /\ a.rid = msg[c].rid)
  <2>1. CASE Respond(c)
    <3>1. [rid |-> msg[c].rid, kind |-> result[c]] \in Ans
      BY <2>1 DEF Shape, OutOK, FlowOK, Respond, Msg, Ans
    <3> QED BY <2>1, <3>1 DEF Respond, Answer, Goto, WriteFails
  <2>2. CASE Reject(c)
    <3>1. [rid |-> NoRID, kind |-> "fail"] \in Ans
      BY DEF Ans, RIDs
    <3> QED BY <2>2, <3>1 DEF Reject, Answer, Goto, WriteFails
  <2> QED BY <2>1, <2>2
<1>2. /\ pc[c] \in {"respond", "reject"}
      /\ UNCHANGED <<phase, left, sent, taken, watcher, msg, chat>>
  BY DEF Respond, Reject, net
<1>3. CASE d # c
  <2>1. answers'[d] = answers[d] /\ pc'[d] = pc[d]
    BY <1>1, <1>3 DEF Shape, OutOK, FlowOK
  <2> QED BY <1>2, <2>1, Untouched
<1>4. CASE d = c
  <2>1. /\ pc'[c] \in {"decode", "done"} /\ Busy(c) /\ ~Busy(c)' /\ ConnInv(c)
        /\ answers[c] \in Seq(Ans) /\ taken[c] \in Nat /\ Asking(c)' = Asking(c)
    BY <1>1, <1>2 DEF Shape, OutOK, FlowOK, NetOK, Busy, Asking
  <2>2. Cardinality(Asking(c))' = Cardinality(Asking(c))
    BY <2>1
  <2>3. Linked(c)' /\ InHand(c)'
    BY <1>2, <2>1 DEF ConnInv, Linked, InHand
  <2>4. Chatted(c)'
    <3>1. pc[c] # "handle" /\ pc'[c] # "handle"
      BY <1>2, <2>1
    <3> QED BY <1>2, <2>1, <2>2, <3>1 DEF ConnInv, Chatted
  <2>5. ASSUME phase[c] # "closed", ~left[c] PROVE Answered(c)'
    <3>1. answers'[c] = Append(answers[c], a)
      BY <1>1, <2>5 DEF Shape, OutOK
    <3>2. Len(answers[c]) + 1 = taken[c]
      BY <2>1, <2>5 DEF ConnInv, Answered
    <3>3. sent[c][taken[c]].rid # NoRID => a.rid \in {sent[c][taken[c]].rid, NoRID}
      BY <1>1, <2>1 DEF ConnInv, InHand
    <3>4. \A j \in 1..Len(answers[c]) :
            sent[c][j].rid # NoRID => answers[c][j].rid \in {sent[c][j].rid, NoRID}
      BY <2>1, <2>5 DEF ConnInv, Answered
    <3>5. \A j \in 1..Len(answers'[c]) :
            sent[c][j].rid # NoRID => answers'[c][j].rid \in {sent[c][j].rid, NoRID}
      BY <2>1, <3>1, <3>2, <3>3, <3>4
    <3>6. Len(answers'[c]) = taken[c]
      BY <2>1, <3>1, <3>2
    <3> QED BY <1>2, <2>1, <3>5, <3>6 DEF Answered
  <2>6. Answered(c)'
    BY <1>2, <2>5 DEF Answered
  <2> QED BY <1>4, <2>3, <2>4, <2>6 DEF ConnInv
<1> QED BY <1>3, <1>4

\* With the process, every connection ends, and nothing is under way on it.
LEMMA PanicConns ==
  ASSUME Shape, \A c \in Conns : ConnInv(c), NEW c \in Conns, HandlerPanics(c)
  PROVE  \A d \in Conns : ConnInv(d)'
<1> SUFFICES ASSUME NEW d \in Conns PROVE ConnInv(d)'
  OBVIOUS
<1>1. /\ left'[d] = left[d] /\ sent'[d] = sent[d] /\ taken'[d] = taken[d]
      /\ msg'[d] = msg[d] /\ answers'[d] = answers[d] /\ chat'[d] = chat[d]
      /\ watcher'[d] = FALSE
      /\ phase'[d] = IF phase[d] = "none" THEN "none" ELSE "closed"
      /\ pc'[d] = IF pc[d] = "none" THEN "none" ELSE "done"
  BY DEF HandlerPanics
<1>2. CASE phase[d] = "none"
  <2>1. pc[d] = "none" /\ watcher[d] = FALSE
    BY <1>2 DEF Shape, NetOK, ConnInv, Linked
  <2> QED BY <1>1, <1>2, <2>1, Untouched
<1>3. CASE phase[d] # "none"
  <2>1. ~Busy(d)' /\ pc'[d] \in {"none", "done"} /\ phase'[d] = "closed"
    BY <1>1, <1>3 DEF Busy
  <2>2. Linked(d)' /\ InHand(d)' /\ Answered(d)'
    BY <1>1, <2>1 DEF ConnInv, Linked, InHand, Answered
  <2>3. Asking(d)' = Asking(d)
    BY <1>1 DEF Asking
  <2>4. Cardinality(Asking(d))' = Cardinality(Asking(d))
    BY <2>3
  <2>5. Chatted(d)'
    BY <1>1, <2>1, <2>4 DEF ConnInv, Chatted
  <2> QED BY <2>2, <2>5 DEF ConnInv
<1> QED BY <1>2, <1>3

\* Every step keeps what is said of the connections.
LEMMA StepConns ==
  ASSUME Shape, Shape', \A c \in Conns : ConnInv(c), [Next]_vars
  PROVE  \A c \in Conns : ConnInv(c)'
<1>1. CASE UNCHANGED vars
  BY <1>1, Untouched DEF vars, net, conn
<1>2. CASE Next
  <2>1. ASSUME NEW c \in Conns, NEW m \in Wire, Send(c, m) PROVE \A d \in Conns : ConnInv(d)'
    BY <2>1, SendConns
  <2>2. ASSUME NEW c \in Conns, ConnStep(c) PROVE \A d \in Conns : ConnInv(d)'
    BY <2>2, ServeConns, DecodeConns, HandleConns, AnswerConns, PanicConns DEF ConnStep
  <2> QED BY <1>2, <2>1, <2>2, ServeConns DEF Next
<1> QED BY <1>1, <1>2

-----------------------------------------------------------------------------
(* Descriptors. *)

\* Initially no descriptor is in use.
LEMMA InitCapacity == Init => Capacity
<1> SUFFICES ASSUME Init PROVE Capacity
  OBVIOUS
<1>1. Descriptors = {} /\ listening /\ serving /\ up
  BY DEF Init, Descriptors
<1> QED BY <1>1, FS_EmptySet, GobAssumption DEF Capacity, ServesUntilFull

\* No descriptor is taken, and none is given back before the context ends.
LEMMA FewerDescriptors ==
  ASSUME Capacity, Descriptors' \subseteq Descriptors, up' /\ ~listening' => ctxDone',
         serving' = serving, up' = up, ctxDone => ctxDone',
         ~ctxDone' => Descriptors' = Descriptors
  PROVE  Capacity'
<1>1. /\ IsFiniteSet(Descriptors') /\ Cardinality(Descriptors') <= Cardinality(Descriptors)
      /\ Cardinality(Descriptors') \in Nat /\ Cardinality(Descriptors) \in Nat
  BY FS_Subset, FS_CardinalityType DEF Capacity
<1>2. Cardinality(Descriptors') <= FDLimit
  BY <1>1, GobAssumption DEF Capacity
<1>3. ServesUntilFull'
  BY DEF Capacity, ServesUntilFull
<1> QED BY <1>1, <1>2, <1>3 DEF Capacity

\* A connection is accepted only while a descriptor is left.
LEMMA AcceptCapacity ==
  ASSUME Shape, Capacity, NEW c \in Conns, Accept(c)
  PROVE  Capacity'
<1>1. /\ Descriptors' = Descriptors \union {c} /\ c \notin Descriptors
      /\ Cardinality(Descriptors) < FDLimit /\ serving' /\ listening' /\ serving /\ up' = up
  BY DEF Accept, Shape, NetOK, FlagsOK, Descriptors
<1>2. /\ IsFiniteSet(Descriptors') /\ Cardinality(Descriptors') = Cardinality(Descriptors) + 1
      /\ Cardinality(Descriptors) \in Nat
  BY <1>1, FS_AddElement, FS_CardinalityType DEF Capacity
<1>3. Cardinality(Descriptors') <= FDLimit
  BY <1>1, <1>2, GobAssumption
<1> QED BY <1>1, <1>2, <1>3 DEF Capacity, ServesUntilFull

\* api.go:40-53: the loop ends by an error, so the table of descriptors is full.
LEMMA FailCapacity ==
  ASSUME Capacity, AcceptFails
  PROVE  Capacity'
<1>1. /\ Descriptors' = Descriptors /\ listening' = listening /\ ctxDone' = ctxDone
      /\ up' = up /\ ~serving' /\ up
  BY DEF Capacity, AcceptFails, Descriptors, net
<1>2. ~ctxDone => Cardinality(Descriptors) >= FDLimit
  BY DEF AcceptFails, Capacity
<1>3. Cardinality(Descriptors) \in Nat
  BY FS_CardinalityType DEF Capacity
<1>4. ~ctxDone => Cardinality(Descriptors) = FDLimit
  BY <1>2, <1>3, GobAssumption DEF Capacity
<1> QED BY <1>1, <1>4 DEF Capacity, ServesUntilFull

\* Every step keeps the number of descriptors within the limit.
LEMMA StepCapacity ==
  ASSUME Shape, \A c \in Conns : ConnInv(c), Capacity, [Next]_vars
  PROVE  Capacity'
<1>1. CASE UNCHANGED vars
  BY <1>1, FewerDescriptors DEF vars, net, Descriptors, Capacity
<1>2. ASSUME NEW c \in Conns, Dial(c) PROVE Capacity'
  BY <1>2, FewerDescriptors DEF Dial, Descriptors, Capacity, Shape, NetOK
<1>3. ASSUME NEW c \in Conns, Leave(c) \/ \E m \in Wire : Send(c, m) PROVE Capacity'
  BY <1>3, FewerDescriptors DEF Leave, Send, Descriptors, Capacity
<1>4. ASSUME NEW c \in Conns, CloseConn(c) PROVE Capacity'
  BY <1>4, FewerDescriptors DEF CloseConn, Descriptors, Capacity, Shape, NetOK
<1>5. ASSUME NEW c \in Conns, ConnStep(c) PROVE Capacity'
  <2>1. CASE HandlerPanics(c)
    <3>1. Descriptors' = {} /\ ~up' /\ ~serving'
      BY <2>1 DEF HandlerPanics, Descriptors
    <3>2. IsFiniteSet(Descriptors') /\ Cardinality(Descriptors') = 0
      BY <3>1, FS_EmptySet
    <3> QED BY <3>1, <3>2, GobAssumption DEF Capacity, ServesUntilFull
  <2>2. CASE ~HandlerPanics(c)
    <3>1. UNCHANGED <<up, ctxDone, listening, serving, net>>
      BY <1>5, <2>2 DEF ConnStep, Decode, DecodeFails, Handle, HandleNotify, HandlerReturns,
         Respond, Reject
    <3> QED BY <3>1, FewerDescriptors DEF net, Descriptors, Capacity
  <2> QED BY <2>1, <2>2
<1>6. CASE Cancel
  BY <1>6, FewerDescriptors DEF Cancel, net, Descriptors, Capacity
<1>7. CASE CloseListener
  BY <1>7, FewerDescriptors DEF CloseListener, Descriptors, Capacity, Shape, NetOK
<1> QED BY <1>1, <1>2, <1>3, <1>4, <1>5, <1>6, <1>7, AcceptCapacity, FailCapacity DEF Next

-----------------------------------------------------------------------------
(* Theorems. *)

\* The whole invariant, from which the theorems below are read off.
THEOREM Invariance == Spec => []Inv
<1>1. Init => Inv
  BY InitShape, InitConns, InitCapacity DEF Inv
<1>2. Inv /\ [Next]_vars => Inv'
  <2> SUFFICES ASSUME Inv, [Next]_vars PROVE Inv'
    OBVIOUS
  <2>1. Shape'
    BY StepShape DEF Inv
  <2>2. \A c \in Conns : ConnInv(c)'
    BY <2>1, StepConns DEF Inv
  <2>3. Capacity'
    BY StepCapacity DEF Inv
  <2> QED BY <2>1, <2>2, <2>3 DEF Inv
<1> QED BY <1>1, <1>2, PTL DEF Spec

\* The types of the state; a connection has a watcher as long as it is open.
THEOREM TypeCorrect == Spec => []TypeOK
<1>1. Inv => TypeOK
  <2> SUFFICES ASSUME Inv PROVE TypeOK
    OBVIOUS
  <2>1. \A c \in Conns : taken[c] \in 0..Len(sent[c])
    BY DEF Inv, Shape, NetOK, ConnInv, Linked
  <2> QED BY <2>1 DEF Inv, Shape, FlagsOK, NetOK, FlowOK, ConnInv, Linked, TypeOK
<1> QED BY <1>1, Invariance, PTL

\* api.go:92-142: a client has exactly one answer to each message taken so far, in
\* the order it sent them, however the connections interleave.
THEOREM AnswersInOrder == Spec => []AnswersMatchRequests
<1>1. Inv => AnswersMatchRequests
  <2> SUFFICES ASSUME Inv, NEW c \in Conns, phase[c] = "open", ~left[c]
               PROVE  /\ Len(answers[c]) + (IF Busy(c) THEN 1 ELSE 0) = taken[c]
                      /\ \A i \in 1..Len(answers[c]) :
                           sent[c][i].rid # NoRID =>
                             answers[c][i].rid \in {sent[c][i].rid, NoRID}
    BY DEF AnswersMatchRequests
  <2>1. Answered(c) /\ Len(answers[c]) \in Nat
    BY DEF Inv, ConnInv, Shape, OutOK
  <2>2. CASE Busy(c)
    BY <2>1, <2>2 DEF Answered
  <2>3. CASE ~Busy(c)
    BY <2>1, <2>3 DEF Answered
  <2> QED BY <2>2, <2>3
<1> QED BY <1>1, Invariance, PTL

\* api.go:116-137, handlers.go:18: what reaches the chat was in a message of the
\* client, and there is no more of it than messages that may ask for it.
THEOREM ChatOnRequest == Spec => []ChatIsAskedFor
<1>1. Inv => ChatIsAskedFor
  <2> SUFFICES ASSUME Inv, NEW c \in Conns
               PROVE  /\ Len(chat[c]) <= Cardinality(Asking(c))
                      /\ \A i \in 1..Len(chat[c]) :
                           chat[c][i] \in {sent[c][j].data : j \in 1..taken[c]} \intersect GoodData
    BY DEF ChatIsAskedFor, Asking
  <2>1. Chatted(c) /\ chat[c] \in Seq(GoodData)
    BY DEF Inv, ConnInv, Shape, OutOK
  <2> QED BY <2>1 DEF Chatted
<1> QED BY <1>1, Invariance, PTL

\* api.go:40-53: before the context ends, only a full table of descriptors ends
\* the loop that accepts.
THEOREM ServesOn == Spec => []ServesUntilFull
<1>1. Inv => ServesUntilFull
  BY DEF Inv, Capacity
<1> QED BY <1>1, Invariance, PTL

=============================================================================
