------------------------- MODULE SmppSessionProofs -------------------------
(***************************************************************************)
(* What TLAPS proves of SmppLink besides SmppLinkProofs, for every set of  *)
(* descriptors, both kinds of server and every bound: the types, and what  *)
(* the session flag g_bIsConnected of sms112_smpp.cpp is worth.            *)
(***************************************************************************)
EXTENDS SmppLinkProofs

\* The types of what the session depends on.
SessionTypes ==
  /\ smppConnected \in BOOLEAN /\ g_iStop \in BOOLEAN
  /\ bound \in [Socks -> BOOLEAN]
  /\ toSrv \in [Socks -> Seq(ToServer)]
  /\ toCli \in [Socks -> Seq(ToClient)]
  /\ faults \in 0 .. MaxFaults
  /\ unbindHeard \in BOOLEAN /\ misrouted \in BOOLEAN

\* A descriptor that is not connected has no session, and none that is closed has
\* anything on its way.
RestInv ==
  /\ call.pc = "await" => g_iSock # NoSock
  /\ \A s \in Socks :
       /\ sock[s] # "up" => ~bound[s] /\ toSrv[s] = <<>>
       /\ sock[s] = "closed" => toCli[s] = <<>>

\* The request under way is on its way to the server, its answer on the way back, or
\* neither: there is one of them at most, on the socket in use, and only while the
\* thread waits, or was ended in its wait.
Pending(q) == {i \in DOMAIN q : q[i].now}
UnderWay == call.pc \in {"await", "exit"} /\ call.ans = "none"
NowInv ==
  /\ call.ans # "none" => call.pc = "await"
  /\ \A s \in Socks :
       /\ \A i \in Pending(toSrv[s]) :
            s = g_iSock /\ UnderWay /\ toSrv[s][i].cmd = call.op
       /\ \A i \in Pending(toCli[s]) :
            s = g_iSock /\ UnderWay /\ toCli[s][i].cmd = call.op
       /\ \A i, j \in Pending(toSrv[s]) : i = j
       /\ \A i, j \in Pending(toCli[s]) : i = j
       /\ Pending(toSrv[s]) = {} \/ Pending(toCli[s]) = {}

\* Where the session flag is FALSE.
FlagPlace ==
  /\ call.who = "last" => call.op = "UNBIND" /\ call.pc \in {"send", "await", "close", "exit"}
  /\ smppConnected =>
       /\ call.who # "main" /\ call.pc # "close"
       /\ ~(call.pc = "await" /\ call.op = "UNBIND")
       /\ ~sendFailed => g_iSock # NoSock /\ call.pc \notin {"socket", "connect"}

\* An UNBIND on its way on the socket in use is followed by the end of the connection.
LastUnbind ==
  g_iSock # NoSock =>
    \A i \in DOMAIN toSrv[g_iSock] : toSrv[g_iSock][i].cmd = "UNBIND" =>
      ~smppConnected /\ call.op = "UNBIND" /\ call.pc \in {"await", "close", "exit"}

\* The session is bound, or the program has still to learn that it is not, by an UNBIND
\* behind the i-th PDU.
Known(i) ==
  \/ bound[g_iSock]
  \/ sock[g_iSock] = "down"
  \/ \E j \in DOMAIN toCli[g_iSock] : i < j /\ toCli[g_iSock][j].cmd = "CLOSE"

\* From the moment the server accepts BIND that holds: of the answer on its way, of the
\* answer taken, and of the flag.
AnswerBound ==
  g_iSock # NoSock =>
    \A i \in Pending(toCli[g_iSock]) :
      toCli[g_iSock][i].cmd = "BIND" /\ toCli[g_iSock][i].ok => Known(i)
FlagBound ==
  ~sendFailed /\ ~unbindHeard =>
    /\ call.pc = "await" /\ call.op = "BIND" /\ call.ans = "ok" => Known(0)
    /\ smppConnected => Known(0)

SessionInv ==
  SessionTypes /\ RestInv /\ NowInv /\ FlagPlace /\ LastUnbind /\ AnswerBound /\ FlagBound

-----------------------------------------------------------------------------
\* A sequence of PDUs without its head ...
LEMMA TailFacts ==
  ASSUME NEW S, NEW q \in Seq(S), q # <<>>
  PROVE  /\ 1 \in DOMAIN q /\ Head(q) = q[1] /\ Head(q) \in S
         /\ Tail(q) \in Seq(S)
         /\ \A i : i \in DOMAIN Tail(q) <=> i \in Nat \ {0} /\ i + 1 \in DOMAIN q
         /\ \A i \in DOMAIN Tail(q) : Tail(q)[i] = q[i + 1]
OBVIOUS

\* ... with one more at the end ...
LEMMA AppendFacts ==
  ASSUME NEW S, NEW q \in Seq(S), NEW e \in S
  PROVE  /\ Append(q, e) \in Seq(S)
         /\ Len(q) + 1 \in DOMAIN Append(q, e) /\ Append(q, e)[Len(q) + 1] = e
         /\ \A i \in DOMAIN q : i \in Nat /\ i < Len(q) + 1 /\ i \in DOMAIN Append(q, e)
                                /\ Append(q, e)[i] = q[i]
         /\ \A i \in DOMAIN Append(q, e) : i \in DOMAIN q \/ i = Len(q) + 1
OBVIOUS

\* ... and given up.
LEMMA AgedFacts ==
  ASSUME NEW S, NEW q \in Seq(S), \A e \in S : [e EXCEPT !.now = FALSE] \in S
  PROVE  /\ Aged(q) \in Seq(S)
         /\ DOMAIN Aged(q) = DOMAIN q
         /\ \A i \in DOMAIN q : Aged(q)[i] = [q[i] EXCEPT !.now = FALSE]
BY DEF Aged

\* A PDU that is late stays one of its kind.
LEMMA AgedPdus ==
  /\ \A e \in ToServer : [e EXCEPT !.now = FALSE] \in ToServer
  /\ \A e \in ToClient : [e EXCEPT !.now = FALSE] \in ToClient
BY DEF ToServer, ToClient

-----------------------------------------------------------------------------
\* The head of SendRequest, Respond and RespondFails: what send can do.
LEMMA SendEffect ==
  ASSUME LinkTypes, SessionTypes, NEW p \in ToServer,
         Sent(p) \/ SentInVain \/ NotSent(TRUE) \/ NotSent(FALSE)
  PROVE  /\ toSrv' \in [Socks -> Seq(ToServer)]
         /\ faults' \in 0 .. MaxFaults
         /\ UNCHANGED toSrv \/ Sent(p)
<1>1. CASE Sent(p)
  <2>1. g_iSock \in Socks /\ Append(toSrv[g_iSock], p) \in Seq(ToServer)
    BY <1>1, AppendFacts DEF Sent, LinkTypes, SessionTypes
  <2> QED
    BY <1>1, <2>1 DEF Sent, NoFault, SessionTypes
<1>2. CASE SentInVain
  BY <1>2, LinkAssumption DEF SentInVain, Fault, SessionTypes
<1>3. CASE NotSent(TRUE) \/ NotSent(FALSE)
  <2>1. UNCHANGED toSrv /\ (Fault \/ NoFault)
    BY <1>3 DEF NotSent
  <2> QED
    BY <2>1, LinkAssumption DEF Fault, NoFault, SessionTypes
<1> QED
  BY <1>1, <1>2, <1>3

\* What the environment does keeps the types.
LEMMA EnvironmentTypes ==
  ASSUME LinkTypes, SessionTypes, NEW s \in Socks,
         Serve(s) \/ Deliver(s) \/ ServerUnbinds(s) \/ ConnectionLost(s)
  PROVE  SessionTypes'
<1>0. /\ UNCHANGED <<smppConnected, g_iStop, unbindHeard, misrouted>>
      /\ Fault \/ NoFault
  BY DEF Serve, Deliver, ServerUnbinds, ConnectionLost, program, history, NoFault
<1>1. faults' \in 0 .. MaxFaults
  BY <1>0, LinkAssumption DEF Fault, NoFault, SessionTypes
<1>2. CASE Serve(s)
  <2>1. Head(toSrv[s]) \in ToServer /\ Tail(toSrv[s]) \in Seq(ToServer)
    BY <1>2, TailFacts DEF Serve, SessionTypes
  <2> DEFINE r == Head(toSrv[s])
  <2>2. toSrv' \in [Socks -> Seq(ToServer)]
    BY <1>2, <2>1 DEF Serve, SessionTypes
  <2>3. bound' \in [Socks -> BOOLEAN]
    BY <1>2 DEF Serve, SessionTypes
  <2>4. toCli' = toCli \/ \E ok \in BOOLEAN : r.cmd \in Requests
                           /\ toCli' = [toCli EXCEPT ![s] = Append(@, Reply(r, ok))]
    BY <1>2 DEF Serve, Requests
  <2>5. \A ok \in BOOLEAN : r.cmd \in Requests => Reply(r, ok) \in ToClient
    BY <2>1 DEF Reply, ToServer, ToClient
  <2>6. toCli' \in [Socks -> Seq(ToClient)]
    <3>1. CASE toCli' = toCli
      BY <3>1 DEF SessionTypes
    <3>2. ASSUME NEW ok \in BOOLEAN, r.cmd \in Requests,
                 toCli' = [toCli EXCEPT ![s] = Append(@, Reply(r, ok))]
          PROVE  toCli' \in [Socks -> Seq(ToClient)]
      <4>1. toCli[s] \in Seq(ToClient) /\ Reply(r, ok) \in ToClient
        BY <2>5, <3>2 DEF SessionTypes
      <4>2. Append(toCli[s], Reply(r, ok)) \in Seq(ToClient)
        BY <4>1, AppendFacts
      <4> QED
        BY <3>2, <4>2 DEF SessionTypes
    <3> QED
      BY <2>4, <3>1, <3>2
  <2> QED
    BY <1>0, <1>1, <2>2, <2>3, <2>6 DEF SessionTypes
<1>3. CASE Deliver(s) \/ ServerUnbinds(s)
  <2>1. \A c \in {"DELIVER", "CLOSE"} :
          Append(toCli[s], [cmd |-> c, now |-> FALSE, ok |-> TRUE]) \in Seq(ToClient)
    <3>1. \A c \in {"DELIVER", "CLOSE"} : [cmd |-> c, now |-> FALSE, ok |-> TRUE] \in ToClient
      BY DEF ToClient
    <3> QED
      <4>1. toCli[s] \in Seq(ToClient)
        BY DEF SessionTypes
      <4>2. \A e \in ToClient : Append(toCli[s], e) \in Seq(ToClient)
        BY <4>1
      <4> QED
        BY <3>1, <4>2
  <2>2. toCli' \in [Socks -> Seq(ToClient)]
    BY <1>3, <2>1 DEF Deliver, ServerUnbinds, SessionTypes
  <2> QED
    BY <1>0, <1>1, <1>3, <2>2 DEF Deliver, ServerUnbinds, SessionTypes
<1>4. CASE ConnectionLost(s)
  <2>1. <<>> \in Seq(ToServer) /\ <<>> \in Seq(ToClient)
    OBVIOUS
  <2> QED
    BY <1>0, <1>1, <1>4, <2>1 DEF ConnectionLost, SessionTypes
<1> QED
  BY <1>2, <1>3, <1>4

\* No step breaks the types.
LEMMA SessionTypesStep ==
  ASSUME LinkTypes, SessionTypes, [Next]_vars
  PROVE  SessionTypes'
<1> USE DEF SessionTypes, program, history
<1>1. CASE OpenSocket \/ ConnectSocket
  <2>1. Fault \/ NoFault
    BY <1>1 DEF OpenSocket, ConnectSocket
  <2> QED
    BY <1>1, <2>1, LinkAssumption DEF OpenSocket, ConnectSocket, Fault, NoFault
<1>2. CASE SendRequest
  <2>1. [cmd |-> call.op, now |-> TRUE] \in ToServer
    BY DEF LinkTypes, ToServer
  <2>2. toSrv' \in [Socks -> Seq(ToServer)] /\ faults' \in 0 .. MaxFaults
    BY <1>2, <2>1, SendEffect DEF SendRequest
  <2> QED
    BY <1>2, <2>2 DEF SendRequest, ConnectedAtSend
<1>3. CASE TakeAnswer
  BY <1>3 DEF TakeAnswer
<1>4. CASE GiveUp
  <2>1. faults' \in 0 .. MaxFaults
    BY <1>4, LinkAssumption DEF GiveUp, Fault, NoFault
  <2>2. toSrv' \in [Socks -> Seq(ToServer)] /\ toCli' \in [Socks -> Seq(ToClient)]
    <3>1. \A s \in Socks : Aged(toSrv[s]) \in Seq(ToServer) /\ Aged(toCli[s]) \in Seq(ToClient)
      BY AgedFacts, AgedPdus
    <3> QED
      BY <1>4, <3>1 DEF GiveUp
  <2> QED
    BY <1>4, <2>1, <2>2 DEF GiveUp
<1>5. CASE \/ Tick \/ Probe \/ Quit \/ Exited \/ Stop \/ BrokenPipe \/ NoResponse
           \/ ClearConnected \/ ReceiverEnds \/ UNCHANGED vars
  BY <1>5 DEF Tick, Probe, Quit, Exited, Stop, BrokenPipe, NoResponse, ClearConnected,
              ReceiverEnds, vars
<1>6. CASE Disconnect
  <2>1. <<>> \in Seq(ToServer) /\ <<>> \in Seq(ToClient)
    OBVIOUS
  <2>2. CASE g_iSock = NoSock
    BY <1>6, <2>2 DEF Disconnect, CloseSock
  <2>3. CASE g_iSock # NoSock
    <3>1. bound' \in [Socks -> BOOLEAN]
      BY <1>6, <2>3 DEF Disconnect, CloseSock
    <3>2. toSrv' \in [Socks -> Seq(ToServer)] /\ toCli' \in [Socks -> Seq(ToClient)]
      BY <1>6, <2>1, <2>3 DEF Disconnect, CloseSock
    <3> QED
      BY <1>6, <3>1, <3>2 DEF Disconnect
  <2> QED
    BY <2>2, <2>3
<1>7. CASE OperResp \/ OperReq
  <2>1. g_iSock \in Socks /\ Tail(toCli[g_iSock]) \in Seq(ToClient)
    BY <1>7, TailFacts DEF OperResp, OperReq, LinkTypes
  <2>2. toCli' \in [Socks -> Seq(ToClient)]
    BY <1>7, <2>1 DEF OperResp, OperReq
  <2>3. smppConnected' \in BOOLEAN /\ unbindHeard' \in BOOLEAN
    BY <1>7 DEF OperResp, OperReq
  <2> QED
    BY <1>7, <2>2, <2>3 DEF OperResp, OperReq
<1>8. CASE Respond \/ RespondFails
  <2>1. [cmd |-> "RESP", now |-> FALSE] \in ToServer
    BY DEF ToServer
  <2>2. toSrv' \in [Socks -> Seq(ToServer)] /\ faults' \in 0 .. MaxFaults
    <3>1. \/ Sent([cmd |-> "RESP", now |-> FALSE]) \/ SentInVain
          \/ NotSent(TRUE) \/ NotSent(FALSE)
      BY <1>8 DEF Respond, RespondFails, NotSent
    <3> QED
      BY <2>1, <3>1, SendEffect
  <2>3. misrouted' \in BOOLEAN
    BY <1>8 DEF Respond, RespondFails
  <2> QED
    BY <1>8, <2>2, <2>3 DEF Respond, RespondFails
<1>9. CASE Environment
  BY <1>9, EnvironmentTypes DEF Environment
<1> QED
  BY <1>1, <1>2, <1>3, <1>4, <1>5, <1>6, <1>7, <1>8, <1>9 DEF Next, Caller, Receiver

-----------------------------------------------------------------------------
\* No step breaks RestInv.
LEMMA RestStep ==
  ASSUME LinkTypes, SessionTypes, RestInv, [Next]_vars
  PROVE  RestInv'
<1> USE DEF program, history
<1>1. CASE OpenSocket \/ ConnectSocket
  <2>1. call'.pc # "await" /\ UNCHANGED <<bound, toSrv, toCli>>
    BY <1>1 DEF OpenSocket, ConnectSocket, LinkTypes
  <2>2. \A s \in Socks : /\ sock'[s] # "up" => sock[s] # "up"
                         /\ sock'[s] = "closed" => sock[s] = "closed"
    BY <1>1 DEF OpenSocket, ConnectSocket, LinkTypes
  <2> QED
    BY <2>1, <2>2 DEF RestInv
<1>2. CASE SendRequest \/ Respond \/ RespondFails
  <2>1. UNCHANGED <<g_iSock, sock, bound, toCli>>
    BY <1>2 DEF SendRequest, Respond, RespondFails
  <2>2. call'.pc = "await" => g_iSock # NoSock
    <3>1. CASE SendRequest
      BY <3>1, FailedType DEF SendRequest, Sent, SentInVain, LinkTypes
    <3>2. CASE Respond \/ RespondFails
      BY <3>2 DEF Respond, RespondFails, RestInv
    <3> QED
      BY <1>2, <3>1, <3>2
  <2>3. \A s \in Socks : sock[s] # "up" => toSrv'[s] = toSrv[s]
    BY <1>2 DEF SendRequest, Respond, RespondFails, Sent, SentInVain, NotSent, SessionTypes
  <2> QED
    BY <2>1, <2>2, <2>3 DEF RestInv
<1>3. CASE TakeAnswer
  <2>1. call'.pc # "await"
    BY <1>3, FailedType, SucceededType DEF TakeAnswer
  <2> QED
    BY <1>3, <2>1 DEF TakeAnswer, RestInv
<1>4. CASE GiveUp
  <2>1. call'.pc # "await"
    BY <1>4, FailedType DEF GiveUp
  <2>2. Aged(<<>>) = <<>>
    BY DEF Aged
  <2> QED
    BY <1>4, <2>1, <2>2 DEF GiveUp, RestInv
<1>5. CASE \/ Tick \/ Probe \/ Quit \/ Exited \/ Stop \/ BrokenPipe \/ NoResponse
           \/ ClearConnected \/ ReceiverEnds \/ UNCHANGED vars
  <2>1. UNCHANGED <<g_iSock, sock, bound, toSrv, toCli>>
    BY <1>5 DEF Tick, Probe, Quit, Exited, Stop, BrokenPipe, NoResponse, ClearConnected,
                ReceiverEnds, vars
  <2>2. call'.pc = "await" => call.pc = "await"
    BY <1>5 DEF Tick, Probe, Quit, Exited, Stop, BrokenPipe, NoResponse, ClearConnected,
                ReceiverEnds, vars, LinkTypes
  <2> QED
    BY <2>1, <2>2 DEF RestInv
<1>6. CASE Disconnect
  <2>1. call'.pc # "await"
    BY <1>6 DEF Disconnect, AfterDisconnect, LinkTypes
  <2>2. CASE g_iSock = NoSock
    BY <1>6, <2>1, <2>2 DEF Disconnect, RestInv
  <2>3. CASE g_iSock # NoSock
    BY <1>6, <2>1, <2>3 DEF Disconnect, CloseSock, RestInv, LinkTypes, SessionTypes
  <2> QED
    BY <2>2, <2>3
<1>7. CASE OperResp \/ OperReq
  <2>1. /\ g_iSock \in Socks /\ toCli[g_iSock] # <<>>
        /\ toCli' = [toCli EXCEPT ![g_iSock] = Tail(@)]
        /\ UNCHANGED <<g_iSock, sock, bound, toSrv>>
        /\ call'.pc = call.pc
    BY <1>7 DEF OperResp, OperReq, LinkTypes
  <2> QED
    BY <2>1 DEF RestInv, SessionTypes
<1>8. CASE Environment
  <2>1. PICK s \in Socks :
          Serve(s) \/ Deliver(s) \/ ServerUnbinds(s) \/ ConnectionLost(s)
    BY <1>8 DEF Environment
  <2>2. UNCHANGED <<call, g_iSock>> /\ sock[s] = "up"
    BY <2>1 DEF Serve, Deliver, ServerUnbinds, ConnectionLost
  <2>3. CASE Serve(s) \/ Deliver(s) \/ ServerUnbinds(s)
    <3>1. /\ sock' = sock
          /\ \A t \in Socks \ {s} : bound'[t] = bound[t] /\ toSrv'[t] = toSrv[t]
                                    /\ toCli'[t] = toCli[t]
      BY <2>3 DEF Serve, Deliver, ServerUnbinds, SessionTypes
    <3> QED
      BY <2>2, <3>1 DEF RestInv
  <2>4. CASE ConnectionLost(s)
    BY <2>2, <2>4 DEF ConnectionLost, RestInv, LinkTypes, SessionTypes
  <2> QED
    BY <2>1, <2>3, <2>4
<1> QED
  BY <1>1, <1>2, <1>3, <1>4, <1>5, <1>6, <1>7, <1>8 DEF Next, Caller, Receiver

-----------------------------------------------------------------------------
\* Where the PDUs of the request under way are when one is taken or added.
LEMMA PendingTail ==
  ASSUME NEW S, NEW q \in Seq(S), q # <<>>
  PROVE  /\ \A i \in Pending(Tail(q)) : i + 1 \in Pending(q) /\ Tail(q)[i] = q[i + 1]
         /\ \A i \in Pending(Tail(q)) : i \in Nat
         /\ \A i, j \in Pending(Tail(q)) : i + 1 = j + 1 => i = j
         /\ Head(q).now => 1 \in Pending(q)
         /\ \A i \in Pending(Tail(q)) : i + 1 # 1
BY TailFacts DEF Pending

\* The same when one is added.
LEMMA PendingAppend ==
  ASSUME NEW S, NEW q \in Seq(S), NEW e \in S
  PROVE  /\ \A i \in Pending(Append(q, e)) :
              \/ i \in Pending(q) /\ Append(q, e)[i] = q[i]
              \/ i = Len(q) + 1 /\ e.now /\ Append(q, e)[i] = e
BY AppendFacts DEF Pending

\* No request is under way.
Idle ==
  /\ call.ans = "none"
  /\ \A s \in Socks : Pending(toSrv[s]) = {} /\ Pending(toCli[s]) = {}

\* A thread that does not wait has none under way.
LEMMA IdleUnlessWaiting ==
  ASSUME NowInv, call.pc \notin {"await", "exit"} \/ (call.ans # "none")
  PROVE  /\ \A s \in Socks : Pending(toSrv[s]) = {} /\ Pending(toCli[s]) = {}
         /\ call.pc \notin {"await", "exit"} => Idle
BY DEF NowInv, Idle, UnderWay

\* A step that leaves the call and the queues alone leaves the invariant.
LEMMA NowFrame ==
  ASSUME NowInv, UNCHANGED <<call, g_iSock, toSrv, toCli>>
  PROVE  NowInv'
<1>1. UnderWay' = UnderWay
  BY DEF UnderWay
<1> QED
  BY <1>1 DEF NowInv

\* A request that is over has no answer any more.
LEMMA OverType ==
  ASSUME LinkTypes
  PROVE  Failed(call.op).ans = "none" /\ Succeeded(call.op).ans = "none"
BY DEF LinkTypes, Failed, Succeeded

\* The steps of the thread that is at work leave nothing under way, except that the
\* request it sends is.
LEMMA NowStepSend ==
  ASSUME LinkTypes, SessionTypes, NowInv, SendRequest
  PROVE  NowInv'
<1>0. Idle /\ call.pc = "send" /\ UNCHANGED <<g_iSock, toCli>>
  BY IdleUnlessWaiting DEF SendRequest
<1>1. CASE call' = [call EXCEPT !.pc = "await"] /\ Sent([cmd |-> call.op, now |-> TRUE])
  <2> DEFINE p == [cmd |-> call.op, now |-> TRUE]
  <2>1. g_iSock \in Socks /\ p \in ToServer
    BY <1>1 DEF Sent, LinkTypes, ToServer
  <2>2. call'.pc = "await" /\ call'.op = call.op /\ call'.ans = "none"
    BY <1>0, <1>1 DEF Idle, LinkTypes
  <2>3. /\ toSrv'[g_iSock] = Append(toSrv[g_iSock], p)
        /\ \A s \in Socks \ {g_iSock} : toSrv'[s] = toSrv[s]
    BY <1>1, <2>1 DEF Sent, SessionTypes
  <2>4. \A i \in Pending(toSrv'[g_iSock]) :
           i = Len(toSrv[g_iSock]) + 1 /\ toSrv'[g_iSock][i] = p
    <3>1. toSrv[g_iSock] \in Seq(ToServer)
      BY <2>1 DEF SessionTypes
    <3> HIDE DEF p
    <3>2. \A i \in Pending(Append(toSrv[g_iSock], p)) :
            \/ i \in Pending(toSrv[g_iSock])
            \/ i = Len(toSrv[g_iSock]) + 1 /\ Append(toSrv[g_iSock], p)[i] = p
      BY <2>1, <3>1, PendingAppend
    <3> QED
      BY <1>0, <2>1, <2>3, <3>2 DEF Idle
  <2>5. p.cmd = call'.op
    BY <2>2
  <2> HIDE DEF p
  <2>6. \A s \in Socks : /\ Pending(toCli'[s]) = {}
                         /\ s # g_iSock => Pending(toSrv'[s]) = {}
    BY <1>0, <2>3 DEF Idle
  <2>7. UnderWay'
    BY <2>2 DEF UnderWay
  <2> QED
    <3>1. \A s \in Socks : \A i \in Pending(toSrv'[s]) :
            s = g_iSock' /\ UnderWay' /\ toSrv'[s][i].cmd = call'.op
      BY <1>0, <2>4, <2>5, <2>6, <2>7
    <3>2. \A s \in Socks : \A i, j \in Pending(toSrv'[s]) : i = j
      BY <2>4, <2>6
    <3> QED
      BY <2>2, <2>6, <3>1, <3>2 DEF NowInv
<1>2. CASE UNCHANGED toSrv
  <2>1. call'.ans = "none"
    BY <1>0, FailedType DEF SendRequest, Idle, LinkTypes, Failed
  <2> QED
    BY <1>0, <1>2, <2>1 DEF Idle, NowInv
<1> QED
  BY <1>1, <1>2 DEF SendRequest, SentInVain, NotSent

\* The other steps of the thread at work leave nothing under way.
LEMMA NowStepCaller ==
  ASSUME LinkTypes, SessionTypes, NowInv, Caller, ~SendRequest
  PROVE  NowInv'
<1>1. CASE OpenSocket \/ ConnectSocket \/ Tick \/ Probe \/ Quit
  <2>1. Idle
    BY <1>1, IdleUnlessWaiting DEF OpenSocket, ConnectSocket, Tick, Probe, Quit
  <2>2. call'.ans = call.ans /\ UNCHANGED <<toSrv, toCli>>
    BY <1>1 DEF OpenSocket, ConnectSocket, Tick, Probe, Quit, LinkTypes
  <2> QED
    BY <2>1, <2>2 DEF Idle, NowInv
<1>2. CASE TakeAnswer
  <2>1. \A s \in Socks : Pending(toSrv[s]) = {} /\ Pending(toCli[s]) = {}
    BY <1>2, IdleUnlessWaiting DEF TakeAnswer
  <2>2. call'.ans = "none" /\ UNCHANGED <<toSrv, toCli>>
    BY <1>2, OverType DEF TakeAnswer
  <2> QED
    BY <2>1, <2>2 DEF NowInv
<1>3. CASE GiveUp
  <2>1. call'.ans = "none"
    BY <1>3, OverType DEF GiveUp
  <2>2. \A s \in Socks : Pending(toSrv'[s]) = {} /\ Pending(toCli'[s]) = {}
    <3> SUFFICES ASSUME NEW s \in Socks
                 PROVE  Pending(Aged(toSrv[s])) = {} /\ Pending(Aged(toCli[s])) = {}
      BY <1>3 DEF GiveUp
    <3>1. toSrv[s] \in Seq(ToServer) /\ toCli[s] \in Seq(ToClient)
      BY DEF SessionTypes
    <3>2. \A i \in DOMAIN Aged(toSrv[s]) : ~Aged(toSrv[s])[i].now
      <4>1. DOMAIN Aged(toSrv[s]) = DOMAIN toSrv[s]
        BY DEF Aged
      <4> QED
        BY <3>1, <4>1 DEF Aged, ToServer
    <3>3. \A i \in DOMAIN Aged(toCli[s]) : ~Aged(toCli[s])[i].now
      <4>1. DOMAIN Aged(toCli[s]) = DOMAIN toCli[s]
        BY DEF Aged
      <4> QED
        BY <3>1, <4>1 DEF Aged, ToClient
    <3> QED
      BY <3>2, <3>3 DEF Pending
  <2> QED
    BY <2>1, <2>2 DEF NowInv
<1>4. CASE Disconnect
  <2>1. Idle
    BY <1>4, IdleUnlessWaiting DEF Disconnect
  <2>2. call'.ans = call.ans
    BY <1>4 DEF Disconnect, LinkTypes
  <2>3. Pending(<<>>) = {}
    BY DEF Pending
  <2>4. \A s \in Socks : /\ toSrv'[s] = toSrv[s] \/ toSrv'[s] = <<>>
                         /\ toCli'[s] = toCli[s] \/ toCli'[s] = <<>>
    BY <1>4 DEF Disconnect, CloseSock, SessionTypes
  <2> QED
    BY <2>1, <2>2, <2>3, <2>4 DEF Idle, NowInv
<1> QED
  BY <1>1, <1>2, <1>3, <1>4 DEF Caller

\* The receiver takes the answer: nothing is under way then.
LEMMA NowStepReceiver ==
  ASSUME LinkTypes, SessionTypes, NowInv, Receiver
  PROVE  NowInv'
<1>1. CASE OperResp \/ OperReq
  <2> DEFINE q == toCli[g_iSock]
             p == Head(q)
  <2>1. /\ g_iSock \in Socks /\ q \in Seq(ToClient) /\ q # <<>>
        /\ UNCHANGED <<g_iSock, toSrv>>
        /\ toCli'[g_iSock] = Tail(q)
        /\ \A s \in Socks \ {g_iSock} : toCli'[s] = toCli[s]
        /\ call.pc # "exit"
    <3>1. /\ g_iSock \in Socks /\ q # <<>> /\ call.pc # "exit"
          /\ UNCHANGED <<g_iSock, toSrv>>
          /\ toCli' = [toCli EXCEPT ![g_iSock] = Tail(@)]
      BY <1>1 DEF OperResp, OperReq, LinkTypes, Running
    <3> QED
      BY <3>1 DEF SessionTypes
  <2>2. /\ \A i \in Pending(Tail(q)) : i + 1 \in Pending(q) /\ Tail(q)[i] = q[i + 1]
        /\ \A i, j \in Pending(Tail(q)) : i + 1 = j + 1 => i = j
        /\ p.now => 1 \in Pending(q)
        /\ \A i \in Pending(Tail(q)) : i + 1 # 1
    BY <2>1, PendingTail
  <2> HIDE DEF q, p
  <2>3. CASE call' = call
    <3>1. /\ \A i \in Pending(Tail(q)) : UnderWay /\ Tail(q)[i].cmd = call.op
          /\ \A i, j \in Pending(Tail(q)) : i = j
          /\ Pending(toSrv[g_iSock]) = {} \/ Pending(Tail(q)) = {}
      <4>1. /\ \A i \in Pending(q) : UnderWay /\ q[i].cmd = call.op
            /\ \A i, j \in Pending(q) : i = j
            /\ Pending(toSrv[g_iSock]) = {} \/ Pending(q) = {}
        BY <2>1 DEF NowInv, q
      <4> QED
        BY <2>2, <4>1
    <3>2. UnderWay' = UnderWay
      BY <2>3 DEF UnderWay
    <3>3. /\ \A i \in Pending(toCli'[g_iSock]) : UnderWay' /\ toCli'[g_iSock][i].cmd = call'.op
          /\ \A i, j \in Pending(toCli'[g_iSock]) : i = j
          /\ Pending(toSrv'[g_iSock]) = {} \/ Pending(toCli'[g_iSock]) = {}
      BY <2>1, <2>3, <3>1, <3>2
    <3>4. \A s \in Socks \ {g_iSock} : Pending(toSrv'[s]) = {} /\ Pending(toCli'[s]) = {}
      BY <2>1 DEF NowInv
    <3>5. \A i \in Pending(toSrv'[g_iSock]) : UnderWay' /\ toSrv'[g_iSock][i].cmd = call'.op
      BY <2>1, <2>3, <3>2 DEF NowInv
    <3>6. \A i, j \in Pending(toSrv'[g_iSock]) : i = j
      BY <2>1 DEF NowInv
    <3>7. call'.ans # "none" => call'.pc = "await"
      BY <2>3 DEF NowInv
    <3> QED
      BY <2>1, <3>3, <3>4, <3>5, <3>6, <3>7 DEF NowInv
  <2>4. CASE p.now /\ call'.pc = call.pc
    <3>1. UnderWay /\ Pending(Tail(q)) = {} /\ Pending(toSrv[g_iSock]) = {}
      <4>1. /\ \A i \in Pending(q) : UnderWay
            /\ \A i, j \in Pending(q) : i = j
            /\ Pending(toSrv[g_iSock]) = {} \/ Pending(q) = {}
        BY <2>1 DEF NowInv, q
      <4> QED
        BY <2>2, <2>4, <4>1
    <3>2. \A s \in Socks : Pending(toSrv[s]) = {}
      BY <2>1, <3>1 DEF NowInv
    <3>3. \A s \in Socks : Pending(toCli'[s]) = {}
      BY <2>1, <3>1 DEF NowInv
    <3> QED
      BY <2>1, <2>4, <3>1, <3>2, <3>3 DEF NowInv, UnderWay
  <2>5. call' = call \/ (p.now /\ call'.pc = call.pc)
    BY <1>1 DEF OperResp, OperReq, LinkTypes, q, p
  <2> QED
    BY <2>3, <2>4, <2>5
<1>2. CASE Respond
  <2> DEFINE p == [cmd |-> "RESP", now |-> FALSE]
  <2>1. p \in ToServer /\ UNCHANGED <<call, g_iSock, toCli>>
    BY <1>2 DEF Respond, ToServer
  <2>2. CASE toSrv' = toSrv
    BY <2>1, <2>2 DEF NowInv, UnderWay
  <2>3. CASE Sent(p)
    <3>1. /\ g_iSock \in Socks /\ toSrv[g_iSock] \in Seq(ToServer)
          /\ toSrv'[g_iSock] = Append(toSrv[g_iSock], p)
          /\ \A s \in Socks \ {g_iSock} : toSrv'[s] = toSrv[s]
      BY <2>3 DEF Sent, LinkTypes, SessionTypes
    <3>2. \A i \in Pending(toSrv'[g_iSock]) :
            i \in Pending(toSrv[g_iSock]) /\ toSrv'[g_iSock][i] = toSrv[g_iSock][i]
      <4>1. ~p.now
        OBVIOUS
      <4> HIDE DEF p
      <4> QED
        <5>1. \A i \in Pending(Append(toSrv[g_iSock], p)) :
                /\ i \in Pending(toSrv[g_iSock])
                /\ Append(toSrv[g_iSock], p)[i] = toSrv[g_iSock][i]
          BY <2>1, <3>1, <4>1, PendingAppend
        <5> QED
          BY <3>1, <5>1
    <3>3. UnderWay' = UnderWay
      BY <2>1 DEF UnderWay
    <3> HIDE DEF p
    <3>4. \A s \in Socks :
            \A i \in Pending(toSrv'[s]) : i \in Pending(toSrv[s]) /\ toSrv'[s][i] = toSrv[s][i]
      BY <3>1, <3>2
    <3> QED
      <4>1. \A s \in Socks : \A i \in Pending(toSrv'[s]) :
              s = g_iSock' /\ UnderWay' /\ toSrv'[s][i].cmd = call'.op
        BY <2>1, <3>3, <3>4 DEF NowInv
      <4>2. \A s \in Socks : \A i, j \in Pending(toSrv'[s]) : i = j
        BY <3>4 DEF NowInv
      <4>3. \A s \in Socks : Pending(toSrv'[s]) = {} \/ Pending(toCli'[s]) = {}
        BY <2>1, <3>4 DEF NowInv
      <4> QED
        BY <2>1, <3>3, <4>1, <4>2, <4>3 DEF NowInv
  <2> QED
    BY <1>2, <2>2, <2>3 DEF Respond, SentInVain
<1>3. CASE NoResponse \/ RespondFails \/ ClearConnected \/ ReceiverEnds
  <2>1. UNCHANGED <<call, g_iSock, toSrv, toCli>>
    BY <1>3 DEF NoResponse, RespondFails, ClearConnected, ReceiverEnds, NotSent
  <2> QED
    BY <2>1, NowFrame
<1> QED
  BY <1>1, <1>2, <1>3 DEF Receiver

\* What the server does to the queues: it takes a request and may answer it.
LEMMA ServeEffect ==
  ASSUME SessionTypes, NEW s \in Socks, Serve(s)
  PROVE  /\ toSrv[s] \in Seq(ToServer) /\ toSrv[s] # <<>>
         /\ toSrv' = [toSrv EXCEPT ![s] = Tail(@)]
         /\ \/ toCli' = toCli
            \/ \E ok \in BOOLEAN :
                 /\ Reply(Head(toSrv[s]), ok) \in ToClient
                 /\ toCli' = [toCli EXCEPT ![s] = Append(@, Reply(Head(toSrv[s]), ok))]
<1> DEFINE r == Head(toSrv[s])
<1>1. toSrv[s] \in Seq(ToServer) /\ toSrv[s] # <<>> /\ r \in ToServer
  BY TailFacts DEF Serve, SessionTypes
<1>2. toCli' = toCli \/ \E ok \in BOOLEAN : r.cmd \in Requests
                         /\ toCli' = [toCli EXCEPT ![s] = Append(@, Reply(r, ok))]
  BY DEF Serve, Requests
<1>3. \A ok \in BOOLEAN : r.cmd \in Requests => Reply(r, ok) \in ToClient
  BY <1>1 DEF Reply, ToServer, ToClient
<1>4. toSrv' = [toSrv EXCEPT ![s] = Tail(@)]
  BY DEF Serve
<1> QED
  BY <1>1, <1>2, <1>3, <1>4

\* The answer is under way when the request no longer is.
LEMMA NowStepServe ==
  ASSUME SessionTypes, NowInv, NEW s \in Socks, Serve(s)
  PROVE  NowInv'
<1> DEFINE r == Head(toSrv[s])
<1>0. UNCHANGED <<call, g_iSock>>
  BY DEF Serve, program
<1>1. toSrv[s] \in Seq(ToServer) /\ toSrv[s] # <<>> /\ toCli[s] \in Seq(ToClient)
  BY ServeEffect DEF SessionTypes
<1>2. /\ \A i \in Pending(Tail(toSrv[s])) :
           i + 1 \in Pending(toSrv[s]) /\ Tail(toSrv[s])[i] = toSrv[s][i + 1]
      /\ \A i, j \in Pending(Tail(toSrv[s])) : i \in Nat /\ j \in Nat /\ (i + 1 = j + 1 => i = j)
      /\ r.now => 1 \in Pending(toSrv[s])
      /\ \A i \in Pending(Tail(toSrv[s])) : i + 1 # 1
  BY <1>1, PendingTail
<1>3. r = toSrv[s][1]
  BY <1>1
<1> HIDE DEF r
<1>4. /\ toSrv'[s] = Tail(toSrv[s])
      /\ \A t \in Socks \ {s} : toSrv'[t] = toSrv[t] /\ toCli'[t] = toCli[t]
      /\ UnderWay' = UnderWay
  BY <1>0, ServeEffect DEF SessionTypes, UnderWay
<1>5. /\ \A i \in Pending(toSrv[s]) : s = g_iSock /\ UnderWay /\ toSrv[s][i].cmd = call.op
      /\ \A i \in Pending(toCli[s]) : s = g_iSock /\ UnderWay /\ toCli[s][i].cmd = call.op
      /\ \A i, j \in Pending(toSrv[s]) : i = j
      /\ \A i, j \in Pending(toCli[s]) : i = j
      /\ Pending(toSrv[s]) = {} \/ Pending(toCli[s]) = {}
  BY DEF NowInv
<1>6. /\ \A i \in Pending(toSrv'[s]) : s = g_iSock /\ UnderWay /\ toSrv'[s][i].cmd = call.op
      /\ \A i, j \in Pending(toSrv'[s]) : i = j
      /\ r.now => /\ Pending(toSrv'[s]) = {} /\ Pending(toCli[s]) = {}
                  /\ s = g_iSock /\ UnderWay /\ r.cmd = call.op
      /\ Pending(toSrv'[s]) # {} => Pending(toSrv[s]) # {}
  <2>1. ASSUME NEW i \in Pending(toSrv'[s])
        PROVE  s = g_iSock /\ UnderWay /\ toSrv'[s][i].cmd = call.op
    <3>1. i + 1 \in Pending(toSrv[s]) /\ toSrv'[s][i] = toSrv[s][i + 1]
      BY <1>2, <1>4
    <3> QED
      BY <1>5, <3>1
  <2>2. ASSUME NEW i \in Pending(toSrv'[s]), NEW j \in Pending(toSrv'[s]) PROVE i = j
    <3>1. i + 1 = j + 1
      BY <1>2, <1>4, <1>5
    <3> QED
      BY <1>2, <1>4, <3>1
  <2>3. Pending(toSrv'[s]) # {} => Pending(toSrv[s]) # {}
    BY <1>2, <1>4
  <2>4. ASSUME r.now
        PROVE  /\ Pending(toSrv'[s]) = {} /\ Pending(toCli[s]) = {}
               /\ s = g_iSock /\ UnderWay /\ r.cmd = call.op
    <3>1. 1 \in Pending(toSrv[s])
      BY <1>2, <2>4
    <3>2. \A i \in Pending(toSrv'[s]) : FALSE
      BY <1>2, <1>4, <1>5, <3>1
    <3> QED
      BY <1>3, <1>5, <3>1, <3>2
  <2> QED
    BY <2>1, <2>2, <2>3, <2>4
<1>7. \/ toCli'[s] = toCli[s]
      \/ \E a \in ToClient : /\ a.cmd = r.cmd /\ a.now = r.now
                             /\ toCli'[s] = Append(toCli[s], a)
  <2>1. \A ok \in BOOLEAN : Reply(r, ok).cmd = r.cmd /\ Reply(r, ok).now = r.now
    BY DEF Reply
  <2> QED
    BY <2>1, ServeEffect DEF SessionTypes, r
<1> DEFINE Moved ==
      /\ \A i \in Pending(toCli'[s]) : s = g_iSock /\ UnderWay /\ toCli'[s][i].cmd = call.op
      /\ \A i, j \in Pending(toCli'[s]) : i = j
      /\ Pending(toSrv'[s]) = {} \/ Pending(toCli'[s]) = {}
<1>8. Moved
  <2>1. CASE toCli'[s] = toCli[s]
    BY <1>5, <1>6, <2>1
  <2>2. ASSUME NEW a \in ToClient, a.cmd = r.cmd, a.now = r.now,
               toCli'[s] = Append(toCli[s], a)
        PROVE  Moved
    <3>1. \A i \in Pending(toCli'[s]) :
            \/ i \in Pending(toCli[s]) /\ toCli'[s][i] = toCli[s][i]
            \/ i = Len(toCli[s]) + 1 /\ a.now /\ toCli'[s][i] = a
      <4>1. \A i \in Pending(Append(toCli[s], a)) :
              \/ i \in Pending(toCli[s]) /\ Append(toCli[s], a)[i] = toCli[s][i]
              \/ i = Len(toCli[s]) + 1 /\ a.now /\ Append(toCli[s], a)[i] = a
        BY <1>1, <2>2 DEF Pending
      <4> QED
        BY <2>2, <4>1
    <3>2. CASE r.now
      BY <1>6, <2>2, <3>1, <3>2
    <3>3. CASE ~r.now
      BY <1>5, <1>6, <2>2, <3>1, <3>3
    <3> QED
      BY <3>2, <3>3
  <2> QED
    BY <1>7, <2>1, <2>2
<1> QED
  <2>1. ASSUME NEW t \in Socks
        PROVE  /\ \A i \in Pending(toSrv'[t]) : t = g_iSock /\ UnderWay /\ toSrv'[t][i].cmd = call.op
               /\ \A i \in Pending(toCli'[t]) : t = g_iSock /\ UnderWay /\ toCli'[t][i].cmd = call.op
               /\ \A i, j \in Pending(toSrv'[t]) : i = j
               /\ \A i, j \in Pending(toCli'[t]) : i = j
               /\ Pending(toSrv'[t]) = {} \/ Pending(toCli'[t]) = {}
    <3>1. CASE t = s
      BY <1>6, <1>8, <3>1
    <3>2. CASE t # s
      <4>1. toSrv'[t] = toSrv[t] /\ toCli'[t] = toCli[t]
        BY <1>4, <3>2
      <4>2. /\ \A i \in Pending(toSrv[t]) : t = g_iSock /\ UnderWay /\ toSrv[t][i].cmd = call.op
            /\ \A i \in Pending(toCli[t]) : t = g_iSock /\ UnderWay /\ toCli[t][i].cmd = call.op
            /\ \A i, j \in Pending(toSrv[t]) : i = j
            /\ \A i, j \in Pending(toCli[t]) : i = j
            /\ Pending(toSrv[t]) = {} \/ Pending(toCli[t]) = {}
        BY DEF NowInv
      <4> QED
        BY <4>1, <4>2
    <3> QED
      BY <3>1, <3>2
  <2>2. UnderWay' = UnderWay /\ call' = call /\ g_iSock' = g_iSock
    BY <1>0 DEF UnderWay
  <2>3. call'.ans # "none" => call'.pc = "await"
    BY <2>2 DEF NowInv
  <2> QED
    BY <2>1, <2>2, <2>3 DEF NowInv

\* The rest of the environment, signals and the end of the process.
LEMMA NowStepOther ==
  ASSUME LinkTypes, SessionTypes, NowInv,
         Exited \/ Stop \/ BrokenPipe \/ Environment \/ UNCHANGED vars
  PROVE  NowInv'
<1>1. CASE Exited \/ Stop \/ UNCHANGED vars
  <2>1. UNCHANGED <<call, g_iSock, toSrv, toCli>>
    BY <1>1 DEF Exited, Stop, vars, program
  <2> QED
    BY <2>1, NowFrame
<1>2. CASE BrokenPipe
  <2>1. /\ call'.pc = "exit" /\ call'.ans = "none" /\ call'.op = call.op
        /\ UNCHANGED <<g_iSock, toSrv, toCli>>
    BY <1>2 DEF BrokenPipe, LinkTypes
  <2>2. UnderWay'
    BY <2>1 DEF UnderWay
  <2> QED
    BY <2>1, <2>2 DEF NowInv
<1>3. ASSUME NEW s \in Socks, Deliver(s) \/ ServerUnbinds(s) \/ ConnectionLost(s)
      PROVE  NowInv'
  <2>1. UNCHANGED <<call, g_iSock>> /\ UnderWay' = UnderWay
    BY <1>3 DEF Deliver, ServerUnbinds, ConnectionLost, program, UnderWay
  <2>2. \A t \in Socks : \A i \in Pending(toSrv'[t]) :
          i \in Pending(toSrv[t]) /\ toSrv'[t] = toSrv[t]
    BY <1>3 DEF Deliver, ServerUnbinds, ConnectionLost, SessionTypes, Pending
  <2>3. \A t \in Socks : \A i \in Pending(toCli'[t]) :
          i \in Pending(toCli[t]) /\ toCli'[t][i] = toCli[t][i]
    <3>1. CASE ConnectionLost(s)
      <4>1. Pending(<<>>) = {}
        BY DEF Pending
      <4>2. \A t \in Socks : toCli'[t] = toCli[t] \/ toCli'[t] = <<>>
        BY <3>1 DEF ConnectionLost, SessionTypes
      <4> QED
        BY <4>1, <4>2
    <3>2. CASE Deliver(s) \/ ServerUnbinds(s)
      <4>1. PICK c \in {"DELIVER", "CLOSE"} :
              toCli' = [toCli EXCEPT ![s] = Append(@, [cmd |-> c, now |-> FALSE, ok |-> TRUE])]
        BY <3>2 DEF Deliver, ServerUnbinds
      <4> DEFINE p == [cmd |-> c, now |-> FALSE, ok |-> TRUE]
      <4>2. p \in ToClient /\ ~p.now
        BY DEF ToClient
      <4>3. toCli'[s] = Append(toCli[s], p) /\ toCli[s] \in Seq(ToClient)
            /\ \A t \in Socks \ {s} : toCli'[t] = toCli[t]
        BY <4>1 DEF SessionTypes
      <4> HIDE DEF p
      <4>4. \A i \in Pending(Append(toCli[s], p)) :
              i \in Pending(toCli[s]) /\ Append(toCli[s], p)[i] = toCli[s][i]
        BY <4>2, <4>3, PendingAppend
      <4> QED
        BY <4>3, <4>4
    <3> QED
      BY <1>3, <3>1, <3>2
  <2>4. \A t \in Socks :
          /\ \A i \in Pending(toSrv'[t]) : t = g_iSock /\ UnderWay /\ toSrv'[t][i].cmd = call.op
          /\ \A i \in Pending(toCli'[t]) : t = g_iSock /\ UnderWay /\ toCli'[t][i].cmd = call.op
          /\ \A i, j \in Pending(toSrv'[t]) : i = j
          /\ \A i, j \in Pending(toCli'[t]) : i = j
          /\ Pending(toSrv'[t]) = {} \/ Pending(toCli'[t]) = {}
    <3> SUFFICES ASSUME NEW t \in Socks
                 PROVE  /\ \A i \in Pending(toSrv'[t]) :
                             t = g_iSock /\ UnderWay /\ toSrv'[t][i].cmd = call.op
                        /\ \A i \in Pending(toCli'[t]) :
                             t = g_iSock /\ UnderWay /\ toCli'[t][i].cmd = call.op
                        /\ \A i, j \in Pending(toSrv'[t]) : i = j
                        /\ \A i, j \in Pending(toCli'[t]) : i = j
                        /\ Pending(toSrv'[t]) = {} \/ Pending(toCli'[t]) = {}
      OBVIOUS
    <3>1. /\ \A i \in Pending(toSrv'[t]) : t = g_iSock /\ UnderWay /\ toSrv'[t][i].cmd = call.op
          /\ \A i, j \in Pending(toSrv'[t]) : i = j
      BY <2>2 DEF NowInv
    <3>2. /\ \A i \in Pending(toCli'[t]) : t = g_iSock /\ UnderWay /\ toCli'[t][i].cmd = call.op
          /\ \A i, j \in Pending(toCli'[t]) : i = j
      BY <2>3 DEF NowInv
    <3>3. Pending(toSrv'[t]) = {} \/ Pending(toCli'[t]) = {}
      BY <2>2, <2>3 DEF NowInv
    <3> QED
      BY <3>1, <3>2, <3>3
  <2> QED
    BY <2>1, <2>4 DEF NowInv
<1> QED
  BY <1>1, <1>2, <1>3, NowStepServe DEF Environment

\* There is one request under way at most, in every step.
LEMMA NowStep ==
  ASSUME LinkTypes, SessionTypes, NowInv, [Next]_vars
  PROVE  NowInv'
BY NowStepSend, NowStepCaller, NowStepReceiver, NowStepOther DEF Next

-----------------------------------------------------------------------------
\* Where a failed or answered request of each kind leads.
LEMMA FailedWhere ==
  ASSUME LinkTypes
  PROVE  /\ Failed(call.op).who = call.who
         /\ call.op = "ENQUIRE" => Failed(call.op).pc = "send" /\ Failed(call.op).op = "UNBIND"
         /\ call.op # "ENQUIRE" => Failed(call.op).op = call.op
         /\ call.op = "UNBIND" => Failed(call.op).pc = "close"
         /\ call.op = "BIND" => Failed(call.op).pc = IF call.who = "ping" THEN "tick" ELSE "close"
BY DEF LinkTypes, Failed, Callers, Requests

\* The same when it was answered with success.
LEMMA SucceededWhere ==
  ASSUME LinkTypes
  PROVE  /\ call.op = "UNBIND" => /\ Succeeded(call.op).pc = "close"
                                  /\ Succeeded(call.op).who = call.who
         /\ call.op # "UNBIND" => /\ Succeeded(call.op).pc = "tick"
                                  /\ Succeeded(call.op).who = "ping"
         /\ Succeeded(call.op).op = call.op
BY DEF LinkTypes, Succeeded, Callers, Requests

\* The session flag is FALSE wherever the connection is opened or closed.
LEMMA FlagPlaceStep ==
  ASSUME LinkTypes, SessionTypes, SockInv, RestInv, FlagPlace, [Next]_vars
  PROVE  FlagPlace'
<1> USE DEF program, history
<1>0. call.op \in Requests /\ call.who \in Callers
  BY DEF LinkTypes
<1>1. CASE OpenSocket \/ ConnectSocket
  <2>1. /\ call.pc \in {"socket", "connect"} /\ call'.who = call.who
        /\ call'.pc \in {"connect", "exit", "tick", "send"}
        /\ UNCHANGED <<smppConnected, sendFailed>>
    BY <1>1 DEF OpenSocket, ConnectSocket, LinkTypes
  <2> QED
    BY <2>1 DEF FlagPlace
<1>2. CASE SendRequest
  <2>1. CASE call' = [call EXCEPT !.pc = "await"] /\ sendFailed' = sendFailed
    BY <1>0, <1>2, <2>1 DEF SendRequest, ConnectedAtSend, FlagPlace, LinkTypes, Requests
  <2>2. CASE call' = Failed(call.op) /\ sendFailed' = TRUE
    BY <1>0, <1>2, <2>2, FailedWhere
       DEF SendRequest, ConnectedAtSend, FlagPlace, Requests, Callers
  <2> QED
    BY <1>2, <2>1, <2>2 DEF SendRequest
<1>3. CASE TakeAnswer
  <2>1. CASE call' = Succeeded(call.op) /\ smppConnected' = IF call.op = "BIND" THEN TRUE ELSE smppConnected
    BY <1>0, <1>3, <2>1, SucceededWhere DEF TakeAnswer, FlagPlace, RestInv, Requests, Callers
  <2>2. CASE call' = Failed(call.op) /\ smppConnected' = smppConnected
    BY <1>0, <1>3, <2>2, FailedWhere DEF TakeAnswer, FlagPlace, RestInv, Requests, Callers
  <2> QED
    BY <1>3, <2>1, <2>2 DEF TakeAnswer
<1>4. CASE GiveUp
  BY <1>0, <1>4, FailedWhere DEF GiveUp, FlagPlace, RestInv, Requests, Callers
<1>5. CASE Tick
  <2>1. call'.who = call.who /\ call'.op = call.op /\ call.pc = "tick"
        /\ call'.pc = (IF tcpConnected THEN "probe" ELSE "socket")
        /\ UNCHANGED <<smppConnected, sendFailed, g_iSock>>
    BY <1>5 DEF Tick, LinkTypes
  <2> QED
    BY <2>1 DEF SockInv, FlagPlace
<1>6. CASE Probe \/ Quit
  <2>1. /\ call.pc \in {"tick", "probe"} /\ call'.pc = "send"
        /\ UNCHANGED <<g_iSock, smppConnected, sendFailed>>
        /\ call'.who = call.who \/ (call'.who = "last" /\ call'.op = "UNBIND")
    BY <1>6 DEF Probe, Quit, LinkTypes
  <2> QED
    BY <2>1 DEF FlagPlace
<1>7. CASE Disconnect
  <2>1. call.pc = "close" /\ smppConnected' = smppConnected /\ call'.who = call.who
        /\ call'.op = call.op /\ call'.pc = AfterDisconnect
    BY <1>7 DEF Disconnect, LinkTypes
  <2> QED
    BY <2>1 DEF FlagPlace, AfterDisconnect
<1>8. CASE BrokenPipe
  BY <1>8 DEF BrokenPipe, FlagPlace, LinkTypes
<1>9. CASE OperResp \/ OperReq
  <2>1. /\ call'.who = call.who /\ call'.pc = call.pc /\ call'.op = call.op
        /\ smppConnected' => smppConnected
        /\ UNCHANGED <<g_iSock, sendFailed>>
    BY <1>9 DEF OperResp, OperReq, LinkTypes
  <2> QED
    BY <2>1 DEF FlagPlace
<1>10. CASE \/ Exited \/ Stop \/ Respond \/ NoResponse \/ RespondFails \/ ClearConnected
            \/ ReceiverEnds \/ UNCHANGED vars
  <2>1. UNCHANGED <<call, smppConnected, g_iSock>> /\ (sendFailed => sendFailed')
    BY <1>10 DEF Exited, Stop, Respond, NoResponse, RespondFails, ClearConnected,
                 ReceiverEnds, vars
  <2> QED
    BY <2>1 DEF FlagPlace
<1>11. CASE Environment
  <2>1. UNCHANGED <<program, history>>
    BY <1>11, EnvironmentEffect DEF Environment
  <2> QED
    BY <2>1 DEF FlagPlace
<1> QED
  BY <1>1, <1>2, <1>3, <1>4, <1>5, <1>6, <1>7, <1>8, <1>9, <1>10, <1>11
     DEF Next, Caller, Receiver

\* An UNBIND on its way on the socket in use is the program's last word there.
LEMMA LastUnbindStep ==
  ASSUME LinkTypes, SessionTypes, RestInv, FlagPlace, LastUnbind, [Next]_vars
  PROVE  LastUnbind'
<1> USE DEF program, history
<1>0. call.op \in Requests /\ call.who \in Callers
  BY DEF LinkTypes
<1>1. CASE OpenSocket
  <2>1. g_iSock' # NoSock => toSrv'[g_iSock'] = <<>>
    BY <1>1 DEF OpenSocket, RestInv
  <2> QED
    BY <2>1 DEF LastUnbind
<1>2. CASE ConnectSocket \/ Tick \/ Probe \/ Quit
  <2>1. call.pc \in {"connect", "tick", "probe"} /\ UNCHANGED <<g_iSock, toSrv>>
    BY <1>2 DEF ConnectSocket, Tick, Probe, Quit
  <2> QED
    BY <2>1 DEF LastUnbind
<1>3. CASE SendRequest
  <2>1. g_iSock # NoSock => \A i \in DOMAIN toSrv[g_iSock] : toSrv[g_iSock][i].cmd # "UNBIND"
    BY <1>3 DEF SendRequest, LastUnbind
  <2>2. CASE toSrv' = toSrv
    BY <1>3, <2>1, <2>2 DEF SendRequest, LastUnbind
  <2>3. CASE Sent([cmd |-> call.op, now |-> TRUE]) /\ call' = [call EXCEPT !.pc = "await"]
    <3> DEFINE p == [cmd |-> call.op, now |-> TRUE]
    <3>1. /\ g_iSock \in Socks /\ toSrv[g_iSock] \in Seq(ToServer) /\ p \in ToServer
          /\ toSrv'[g_iSock] = Append(toSrv[g_iSock], p)
      BY <2>3 DEF Sent, LinkTypes, SessionTypes, ToServer
    <3>2. \A i \in DOMAIN toSrv'[g_iSock] : toSrv'[g_iSock][i].cmd = "UNBIND" => call.op = "UNBIND"
      <4>1. p.cmd = call.op
        OBVIOUS
      <4> HIDE DEF p
      <4> QED
        BY <2>1, <3>1, <4>1, AppendFacts, LinkAssumption
    <3>3. call'.op = call.op /\ call'.pc = "await" /\ g_iSock' = g_iSock
          /\ (call.op = "UNBIND" => smppConnected' = FALSE)
      BY <1>3, <2>3 DEF SendRequest, ConnectedAtSend, LinkTypes
    <3> QED
      BY <3>2, <3>3 DEF LastUnbind
  <2> QED
    BY <1>3, <2>2, <2>3 DEF SendRequest, SentInVain, NotSent
<1>4. CASE TakeAnswer
  BY <1>0, <1>4, FailedWhere, SucceededWhere DEF TakeAnswer, LastUnbind
<1>5. CASE GiveUp
  <2>1. g_iSock # NoSock =>
          /\ DOMAIN toSrv'[g_iSock] = DOMAIN toSrv[g_iSock]
          /\ \A i \in DOMAIN toSrv[g_iSock] : toSrv'[g_iSock][i].cmd = toSrv[g_iSock][i].cmd
    <3> SUFFICES ASSUME g_iSock \in Socks
                 PROVE  /\ DOMAIN toSrv'[g_iSock] = DOMAIN toSrv[g_iSock]
                        /\ \A i \in DOMAIN toSrv[g_iSock] :
                             toSrv'[g_iSock][i].cmd = toSrv[g_iSock][i].cmd
      BY DEF LinkTypes
    <3>1. toSrv[g_iSock] \in Seq(ToServer) /\ toSrv'[g_iSock] = Aged(toSrv[g_iSock])
      BY <1>5 DEF GiveUp, SessionTypes
    <3>2. \A i \in DOMAIN toSrv[g_iSock] : toSrv[g_iSock][i] \in ToServer
      BY <3>1
    <3> QED
      BY <3>1, <3>2 DEF Aged, ToServer
  <2>2. /\ call.pc = "await" /\ UNCHANGED <<g_iSock, smppConnected>>
        /\ call' = Failed(call.op)
    BY <1>5 DEF GiveUp
  <2> QED
    BY <1>0, <2>1, <2>2, FailedWhere DEF LastUnbind
<1>6. CASE Disconnect
  BY <1>6 DEF Disconnect, LastUnbind
<1>7. CASE BrokenPipe
  BY <1>7 DEF BrokenPipe, LastUnbind, LinkTypes
<1>8. CASE OperResp \/ OperReq
  <2>1. /\ call'.pc = call.pc /\ call'.op = call.op
        /\ smppConnected' => smppConnected
        /\ UNCHANGED <<g_iSock, toSrv>>
    BY <1>8 DEF OperResp, OperReq, LinkTypes
  <2> QED
    BY <2>1 DEF LastUnbind
<1>9. CASE \/ Exited \/ Stop \/ NoResponse \/ RespondFails \/ ClearConnected
           \/ ReceiverEnds \/ UNCHANGED vars
  BY <1>9 DEF Exited, Stop, NoResponse, RespondFails, NotSent, ClearConnected,
              ReceiverEnds, vars, LastUnbind
<1>10. CASE Respond
  <2> DEFINE p == [cmd |-> "RESP", now |-> FALSE]
  <2>1. UNCHANGED <<call, smppConnected, g_iSock>>
    BY <1>10 DEF Respond
  <2>2. CASE toSrv' = toSrv
    BY <2>1, <2>2 DEF LastUnbind
  <2>3. CASE Sent(p)
    <3>1. /\ g_iSock \in Socks /\ toSrv[g_iSock] \in Seq(ToServer) /\ p \in ToServer
          /\ toSrv'[g_iSock] = Append(toSrv[g_iSock], p)
      BY <2>3 DEF Sent, LinkTypes, SessionTypes, ToServer
    <3>2. \A i \in DOMAIN toSrv'[g_iSock] : toSrv'[g_iSock][i].cmd = "UNBIND" =>
            i \in DOMAIN toSrv[g_iSock] /\ toSrv[g_iSock][i].cmd = "UNBIND"
      BY <3>1, AppendFacts
    <3> QED
      BY <2>1, <3>2 DEF LastUnbind
  <2> QED
    BY <1>10, <2>2, <2>3 DEF Respond, SentInVain
<1>11. CASE Environment
  <2>1. PICK s \in Socks :
          Serve(s) \/ Deliver(s) \/ ServerUnbinds(s) \/ ConnectionLost(s)
    BY <1>11 DEF Environment
  <2>2. UNCHANGED <<call, smppConnected, g_iSock>>
    BY <2>1, EnvironmentEffect
  <2>3. CASE Serve(s)
    <3>1. /\ toSrv[s] \in Seq(ToServer) /\ toSrv[s] # <<>>
          /\ toSrv' = [toSrv EXCEPT ![s] = Tail(@)]
      BY <2>3, ServeEffect
    <3>2. \A i \in DOMAIN Tail(toSrv[s]) : i + 1 \in DOMAIN toSrv[s]
                                           /\ Tail(toSrv[s])[i] = toSrv[s][i + 1]
      BY <3>1, TailFacts
    <3>3. CASE s = g_iSock
      BY <2>2, <3>1, <3>2, <3>3, LinkAssumption DEF LastUnbind, SessionTypes
    <3>4. CASE s # g_iSock
      BY <2>2, <3>1, <3>4 DEF LastUnbind, SessionTypes, LinkTypes
    <3> QED
      BY <3>3, <3>4
  <2>4. CASE Deliver(s) \/ ServerUnbinds(s) \/ ConnectionLost(s)
    <3>1. \A t \in Socks : toSrv'[t] = toSrv[t] \/ toSrv'[t] = <<>>
      BY <2>4 DEF Deliver, ServerUnbinds, ConnectionLost, SessionTypes
    <3> QED
      BY <2>2, <3>1 DEF LastUnbind, LinkTypes
  <2> QED
    BY <2>1, <2>3, <2>4
<1> QED
  BY <1>1, <1>2, <1>3, <1>4, <1>5, <1>6, <1>7, <1>8, <1>9, <1>10, <1>11
     DEF Next, Caller, Receiver

-----------------------------------------------------------------------------
\* What a PDU more at the end, or the head gone, means for Known.
LEMMA KnownAppend ==
  ASSUME SessionTypes, g_iSock \in Socks, UNCHANGED g_iSock,
         NEW e \in ToClient, toCli'[g_iSock] = Append(toCli[g_iSock], e),
         bound[g_iSock] => bound'[g_iSock] \/ e.cmd = "CLOSE",
         sock[g_iSock] = "down" => sock'[g_iSock] = "down",
         NEW i \in Nat, i <= Len(toCli[g_iSock]), Known(i)
  PROVE  Known(i)'
<1> DEFINE q == toCli[g_iSock]
<1>0. q \in Seq(ToClient)
  BY DEF SessionTypes
<1>1. CASE bound'[g_iSock] \/ sock[g_iSock] = "down"
  BY <1>1 DEF Known
<1>2. CASE e.cmd = "CLOSE"
  <2>1. Len(q) + 1 \in DOMAIN Append(q, e) /\ Append(q, e)[Len(q) + 1] = e /\ i < Len(q) + 1
    BY <1>0
  <2> QED
    BY <1>2, <2>1 DEF Known
<1>3. ASSUME NEW j \in DOMAIN q, i < j, q[j].cmd = "CLOSE" PROVE Known(i)'
  <2>1. j \in DOMAIN Append(q, e) /\ Append(q, e)[j] = q[j]
    BY <1>0
  <2> QED
    BY <1>3, <2>1 DEF Known
<1> QED
  BY <1>1, <1>2, <1>3 DEF Known

\* The same when the head is taken.
LEMMA KnownTail ==
  ASSUME SessionTypes, g_iSock \in Socks, UNCHANGED <<g_iSock, sock, bound>>,
         toCli[g_iSock] # <<>>, toCli'[g_iSock] = Tail(toCli[g_iSock]),
         NEW i \in Nat, Known(i + 1)
  PROVE  Known(i)'
<1> DEFINE q == toCli[g_iSock]
<1>0. q \in Seq(ToClient)
  BY DEF SessionTypes
<1>1. CASE bound[g_iSock] \/ sock[g_iSock] = "down"
  BY <1>1 DEF Known
<1>2. ASSUME NEW j \in DOMAIN q, i + 1 < j, q[j].cmd = "CLOSE" PROVE Known(i)'
  <2>1. j - 1 \in DOMAIN Tail(q) /\ Tail(q)[j - 1] = q[j] /\ i < j - 1
    BY <1>0, <1>2
  <2> QED
    BY <1>2, <2>1 DEF Known
<1> QED
  BY <1>1, <1>2 DEF Known

\* Of the server's answers only the one to UNBIND says that the session is over.
LEMMA ServeBound ==
  ASSUME LinkTypes, SessionTypes, NEW s \in Socks, Serve(s)
  PROVE  /\ UNCHANGED <<program, sock, history>>
         /\ \/ bound'[s]
            \/ /\ bound'[s] = bound[s]
               /\ \/ toCli' = toCli
                  \/ \E e \in ToClient : /\ ~(e.cmd = "BIND" /\ e.ok)
                                         /\ toCli' = [toCli EXCEPT ![s] = Append(@, e)]
            \/ Head(toSrv[s]).cmd = "UNBIND"
<1> DEFINE r == Head(toSrv[s])
<1>1. UNCHANGED <<program, sock, history>>
  BY DEF Serve
<1>2. r \in ToServer /\ \A ok \in BOOLEAN : r.cmd # "RESP" => Reply(r, ok) \in ToClient
  <2>1. r \in ToServer
    BY TailFacts DEF Serve, SessionTypes
  <2> QED
    BY <2>1 DEF Reply, ToServer, ToClient
<1>3. CASE r.cmd = "BIND" /\ bound' = [bound EXCEPT ![s] = TRUE]
  BY <1>1, <1>3 DEF SessionTypes
<1>4. CASE r.cmd = "BIND" /\ bound' = bound /\ toCli' = [toCli EXCEPT ![s] = Append(@, Reply(r, FALSE))]
  BY <1>1, <1>2, <1>4 DEF Reply
<1>5. CASE r.cmd = "ENQUIRE" /\ bound' = bound
  BY <1>1, <1>2, <1>5 DEF Serve, Reply
<1>6. CASE r.cmd = "RESP"
  BY <1>1, <1>6 DEF Serve
<1> QED
  BY <1>1, <1>3, <1>4, <1>5, <1>6 DEF Serve

\* On the other descriptors the server and the network change nothing.
LEMMA ElsewhereSame ==
  ASSUME LinkTypes, SessionTypes, NEW s \in Socks, NEW t \in Socks \ {s},
         Serve(s) \/ Deliver(s) \/ ServerUnbinds(s) \/ ConnectionLost(s)
  PROVE  toCli'[t] = toCli[t] /\ bound'[t] = bound[t] /\ sock'[t] = sock[t]
<1>1. CASE Serve(s)
  <2>1. toCli'[t] = toCli[t]
    BY <1>1, ServeEffect DEF SessionTypes
  <2>2. bound'[t] = bound[t] /\ sock'[t] = sock[t]
    BY <1>1 DEF Serve, SessionTypes
  <2> QED
    BY <2>1, <2>2
<1>2. CASE Deliver(s) \/ ServerUnbinds(s) \/ ConnectionLost(s)
  BY <1>2 DEF Deliver, ServerUnbinds, ConnectionLost, SessionTypes, LinkTypes
<1> QED
  BY <1>1, <1>2

\* When the server says that BIND succeeded, it has, and what ends the session comes
\* behind its answer.
LEMMA AnswerBoundStep ==
  ASSUME LinkTypes, LinkTypes', SessionTypes, RestInv, NowInv, NowInv', LastUnbind, AnswerBound,
         [Next]_vars
  PROVE  AnswerBound'
<1> USE DEF program, history
<1> SUFFICES ASSUME g_iSock' \in Socks,
                    NEW i \in Pending(toCli'[g_iSock']),
                    toCli'[g_iSock'][i].cmd = "BIND", toCli'[g_iSock'][i].ok
             PROVE  Known(i)'
  BY DEF AnswerBound, LinkTypes
<1>0. UnderWay' /\ call'.op = "BIND" /\ i \in DOMAIN toCli'[g_iSock']
  BY DEF NowInv, Pending
<1>1. ~(OpenSocket \/ ConnectSocket \/ Tick \/ Probe \/ Quit \/ SendRequest)
  <2>1. SUFFICES ASSUME OpenSocket \/ ConnectSocket \/ Tick \/ Probe \/ Quit \/ SendRequest
                 PROVE  FALSE
    OBVIOUS
  <2>2. Idle
    BY <2>1, IdleUnlessWaiting DEF OpenSocket, ConnectSocket, Tick, Probe, Quit, SendRequest
  <2>3. toCli' = toCli
    BY <2>1 DEF OpenSocket, ConnectSocket, Tick, Probe, Quit, SendRequest
  <2> QED
    BY <2>2, <2>3 DEF Idle
<1>2. ~(TakeAnswer \/ GiveUp)
  <2>1. TakeAnswer \/ GiveUp => call'.pc \notin {"await", "exit"}
    BY FailedType, SucceededType DEF TakeAnswer, GiveUp
  <2> QED
    BY <1>0, <2>1 DEF UnderWay
<1>3. ~Disconnect
  BY LinkAssumption DEF Disconnect
<1>4. CASE OperResp \/ OperReq
  <2> DEFINE q == toCli[g_iSock]
  <2>1. /\ g_iSock \in Socks /\ q # <<>> /\ q \in Seq(ToClient)
        /\ UNCHANGED <<g_iSock, sock, bound>>
        /\ toCli'[g_iSock] = Tail(q)
    BY <1>4 DEF OperResp, OperReq, LinkTypes, SessionTypes
  <2>2. i + 1 \in Pending(q) /\ Tail(q)[i] = q[i + 1] /\ i \in Nat
    <3>1. i \in Pending(Tail(q))
      BY <2>1
    <3>2. /\ \A k \in Pending(Tail(q)) : k + 1 \in Pending(q) /\ Tail(q)[k] = q[k + 1]
          /\ \A k \in Pending(Tail(q)) : k \in Nat
      <4>1. q \in Seq(ToClient) /\ q # <<>>
        BY <2>1
      <4> HIDE DEF q
      <4> QED
        BY <4>1, PendingTail
    <3> QED
      BY <3>1, <3>2
  <2>3. Known(i + 1)
    BY <2>1, <2>2, LinkAssumption DEF AnswerBound
  <2> QED
    BY <2>1, <2>2, <2>3, KnownTail
<1>5. CASE \/ Exited \/ Stop \/ BrokenPipe \/ Respond \/ NoResponse \/ RespondFails
           \/ ClearConnected \/ ReceiverEnds \/ UNCHANGED vars
  <2>1. UNCHANGED <<g_iSock, sock, bound, toCli>>
    BY <1>5 DEF Exited, Stop, BrokenPipe, Respond, NoResponse, RespondFails, ClearConnected,
                ReceiverEnds, vars
  <2> QED
    BY <2>1, LinkAssumption DEF AnswerBound, Known
<1>6. ASSUME NEW s \in Socks, Serve(s) \/ Deliver(s) \/ ServerUnbinds(s) \/ ConnectionLost(s)
      PROVE  Known(i)'
  <2>0. UNCHANGED <<call, g_iSock>> /\ g_iSock \in Socks
    BY <1>6, EnvironmentEffect
  <2>1. CASE s # g_iSock
    <3>1. toCli'[g_iSock] = toCli[g_iSock] /\ bound'[g_iSock] = bound[g_iSock]
          /\ sock'[g_iSock] = sock[g_iSock]
      BY <1>6, <2>0, <2>1, ElsewhereSame
    <3> QED
      BY <2>0, <3>1, LinkAssumption DEF AnswerBound, Known
  <2>2. CASE s = g_iSock /\ ConnectionLost(s)
    BY <2>0, <2>2 DEF ConnectionLost, Known, LinkTypes
  \* One more PDU, and the session goes on or this is what ends it.
  <2>3. ASSUME NEW e \in ToClient, toCli'[g_iSock] = Append(toCli[g_iSock], e),
               ~(e.cmd = "BIND" /\ e.ok),
               bound[g_iSock] => bound'[g_iSock] \/ e.cmd = "CLOSE", sock' = sock
        PROVE  Known(i)'
    <3>1. toCli[g_iSock] \in Seq(ToClient)
      BY <2>0 DEF SessionTypes
    <3>2. i \in Pending(toCli[g_iSock]) /\ toCli'[g_iSock][i] = toCli[g_iSock][i]
      <4>1. \A k \in Pending(Append(toCli[g_iSock], e)) :
              \/ k \in Pending(toCli[g_iSock]) /\ Append(toCli[g_iSock], e)[k] = toCli[g_iSock][k]
              \/ k = Len(toCli[g_iSock]) + 1 /\ Append(toCli[g_iSock], e)[k] = e
        BY <3>1, <2>3 DEF Pending
      <4> QED
        BY <2>0, <2>3, <4>1
    <3>3. Known(i)
      BY <2>0, <3>2, LinkAssumption DEF AnswerBound
    <3>4. i \in Nat /\ i <= Len(toCli[g_iSock])
      BY <3>1, <3>2 DEF Pending
    <3> QED
      BY <2>0, <2>3, <3>3, <3>4, KnownAppend
  <2>4. CASE s = g_iSock /\ Serve(s)
    <3>1. CASE bound'[s]
      BY <2>0, <2>4, <3>1 DEF Known
    <3>2. CASE bound'[s] = bound[s] /\ toCli' = toCli
      BY <2>0, <2>4, <3>2, ServeBound, LinkAssumption DEF AnswerBound, Known
    <3>3. ASSUME bound'[s] = bound[s],
                 NEW e \in ToClient, ~(e.cmd = "BIND" /\ e.ok),
                 toCli' = [toCli EXCEPT ![s] = Append(@, e)]
          PROVE  Known(i)'
      <4>1. toCli'[g_iSock] = Append(toCli[g_iSock], e) /\ sock' = sock
        BY <2>4, <3>3, ServeBound DEF SessionTypes
      <4> QED
        BY <2>3, <2>4, <3>3, <4>1
    <3>4. Head(toSrv[s]).cmd # "UNBIND"
      <4>1. toSrv[s] \in Seq(ToServer) /\ toSrv[s] # <<>>
        BY <2>4, ServeEffect
      <4>2. 1 \in DOMAIN toSrv[s] /\ Head(toSrv[s]) = toSrv[s][1]
        BY <4>1
      <4>3. call.op = "BIND"
        BY <1>0, <2>0
      <4> QED
        BY <2>4, <4>2, <4>3, LinkAssumption DEF LastUnbind
    <3> QED
      BY <2>4, <3>1, <3>2, <3>3, <3>4, ServeBound
  <2>5. CASE s = g_iSock /\ (Deliver(s) \/ ServerUnbinds(s))
    <3>1. PICK c \in {"DELIVER", "CLOSE"} :
            /\ toCli' = [toCli EXCEPT ![s] = Append(@, [cmd |-> c, now |-> FALSE, ok |-> TRUE])]
            /\ bound' = bound \/ c = "CLOSE"
      BY <2>5 DEF Deliver, ServerUnbinds
    <3> DEFINE e == [cmd |-> c, now |-> FALSE, ok |-> TRUE]
    <3>2. e \in ToClient /\ e.cmd # "BIND" /\ (bound' = bound \/ e.cmd = "CLOSE")
      BY <3>1 DEF ToClient
    <3>3. toCli'[g_iSock] = Append(toCli[g_iSock], e) /\ sock' = sock
      BY <2>5, <3>1 DEF Deliver, ServerUnbinds, SessionTypes
    <3> HIDE DEF e
    <3> QED
      BY <2>3, <3>2, <3>3
  <2> QED
    BY <1>6, <2>1, <2>2, <2>4, <2>5
<1> QED
  BY <1>1, <1>2, <1>3, <1>4, <1>5, <1>6 DEF Next, Caller, Receiver, Environment

\* What the server and the network do leaves Known as it is, unless the UNBIND served is
\* the program's own.
LEMMA KnownEnvironment ==
  ASSUME LinkTypes, SessionTypes, g_iSock \in Socks, Known(0), NEW s \in Socks,
         Serve(s) \/ Deliver(s) \/ ServerUnbinds(s) \/ ConnectionLost(s),
         s = g_iSock /\ Serve(s) => Head(toSrv[s]).cmd # "UNBIND"
  PROVE  Known(0)'
<1>0. UNCHANGED g_iSock /\ toCli[g_iSock] \in Seq(ToClient) /\ 0 <= Len(toCli[g_iSock])
  BY EnvironmentEffect DEF SessionTypes, program
<1>1. CASE s # g_iSock
  <2>1. toCli'[g_iSock] = toCli[g_iSock] /\ bound'[g_iSock] = bound[g_iSock]
        /\ sock'[g_iSock] = sock[g_iSock]
    BY <1>1, ElsewhereSame
  <2> QED
    BY <1>0, <2>1 DEF Known
<1>2. CASE s = g_iSock /\ ConnectionLost(s)
  BY <1>0, <1>2 DEF ConnectionLost, Known, LinkTypes
<1>3. CASE s = g_iSock /\ Serve(s)
  <2>1. CASE bound'[s]
    BY <1>0, <1>3, <2>1 DEF Known
  <2>2. CASE bound'[s] = bound[s] /\ toCli' = toCli
    BY <1>0, <1>3, <2>2, ServeBound DEF Known
  <2>3. ASSUME bound'[s] = bound[s], NEW e \in ToClient,
               toCli' = [toCli EXCEPT ![s] = Append(@, e)]
        PROVE  Known(0)'
    <3>1. toCli'[g_iSock] = Append(toCli[g_iSock], e) /\ sock' = sock
      BY <1>3, <2>3, ServeBound DEF SessionTypes
    <3> QED
      BY <1>0, <1>3, <2>3, <3>1, KnownAppend
  <2> QED
    BY <1>3, <2>1, <2>2, <2>3, ServeBound
<1>4. CASE s = g_iSock /\ (Deliver(s) \/ ServerUnbinds(s))
  <2>1. PICK c \in {"DELIVER", "CLOSE"} :
          /\ toCli' = [toCli EXCEPT ![s] = Append(@, [cmd |-> c, now |-> FALSE, ok |-> TRUE])]
          /\ bound' = bound \/ c = "CLOSE"
    BY <1>4 DEF Deliver, ServerUnbinds
  <2> DEFINE e == [cmd |-> c, now |-> FALSE, ok |-> TRUE]
  <2>2. e \in ToClient /\ (bound' = bound \/ e.cmd = "CLOSE")
    BY <2>1 DEF ToClient
  <2>3. toCli'[g_iSock] = Append(toCli[g_iSock], e) /\ sock' = sock
    BY <1>4, <2>1 DEF Deliver, ServerUnbinds, SessionTypes
  <2> HIDE DEF e
  <2> QED
    BY <1>0, <2>2, <2>3, KnownAppend
<1> QED
  BY <1>1, <1>2, <1>3, <1>4

\* The answer to BIND, taken or still in the thread's hands, and then the flag, speak of
\* a session that is bound or whose end is still to be heard of.
LEMMA FlagBoundStep ==
  ASSUME LinkTypes, SessionTypes, RestInv, NowInv, FlagPlace, LastUnbind, AnswerBound, FlagBound,
         [Next]_vars
  PROVE  FlagBound'
<1> USE DEF program, history
<1> DEFINE Told == call.pc = "await" /\ call.op = "BIND" /\ call.ans = "ok"
           q == toCli[g_iSock]
<1>0. call.ans # "none" => call.pc = "await"
  BY DEF NowInv
\* Where the premises are no weaker after the step, and the session is as it was.
<1>1. ASSUME UNCHANGED <<g_iSock, sock, bound>>,
             sendFailed => sendFailed', unbindHeard => unbindHeard',
             smppConnected' => smppConnected \/ Told, Told' => Told,
             Known(0) => Known(0)'
      PROVE  FlagBound'
  BY <1>1 DEF FlagBound
<1>2. CASE OpenSocket \/ ConnectSocket \/ Disconnect
  <2>1. call'.pc # "await" /\ UNCHANGED <<smppConnected, sendFailed>>
        /\ call.pc \in {"socket", "connect", "close"}
    BY <1>2 DEF OpenSocket, ConnectSocket, Disconnect, AfterDisconnect, LinkTypes
  <2> QED
    BY <2>1 DEF FlagPlace, FlagBound
<1>3. CASE SendRequest
  <2>1. UNCHANGED <<g_iSock, sock, bound, toCli, unbindHeard>>
        /\ (smppConnected' => smppConnected) /\ call.pc = "send"
    BY <1>3 DEF SendRequest, ConnectedAtSend
  <2>2. CASE call' = [call EXCEPT !.pc = "await"] /\ sendFailed' = sendFailed
    <3>1. ~Told'
      BY <1>0, <2>1, <2>2 DEF LinkTypes
    <3> HIDE DEF Told
    <3> QED
      BY <1>1, <2>1, <2>2, <3>1 DEF Known
  <2>3. CASE sendFailed'
    BY <2>3 DEF FlagBound
  <2> QED
    BY <1>3, <2>2, <2>3 DEF SendRequest
<1>4. CASE TakeAnswer
  <2>1. UNCHANGED <<g_iSock, sock, bound, toCli, sendFailed, unbindHeard>>
    BY <1>4 DEF TakeAnswer
  <2>2. ~Told'
    BY <1>4, FailedType, SucceededType DEF TakeAnswer
  <2>3. smppConnected' => smppConnected \/ Told
    <3>1. smppConnected' = smppConnected \/ (call.op = "BIND" /\ call.ans = "ok")
      BY <1>4 DEF TakeAnswer
    <3> QED
      BY <1>4, <3>1 DEF TakeAnswer
  <2> HIDE DEF Told
  <2> QED
    BY <1>1, <2>1, <2>2, <2>3 DEF Known
<1>5. CASE GiveUp
  <2>1. UNCHANGED <<g_iSock, sock, bound, smppConnected, sendFailed, unbindHeard>>
    BY <1>5 DEF GiveUp
  <2>2. ~Told'
    BY <1>5, FailedType DEF GiveUp
  <2>3. Known(0) => Known(0)'
    <3>1. g_iSock \in Socks
      BY <1>5, LinkAssumption DEF GiveUp, RestInv, LinkTypes
    <3>2. q \in Seq(ToClient) /\ toCli'[g_iSock] = Aged(q)
      BY <1>5, <3>1 DEF GiveUp, SessionTypes
    <3>3. DOMAIN Aged(q) = DOMAIN q /\ \A i \in DOMAIN q : Aged(q)[i].cmd = q[i].cmd
      <4>1. \A i \in DOMAIN q : q[i] \in ToClient
        BY <3>2
      <4> QED
        BY <4>1 DEF Aged, ToClient
    <3> QED
      BY <2>1, <3>2, <3>3 DEF Known
  <2> HIDE DEF Told
  <2> QED
    BY <1>1, <2>1, <2>2, <2>3
<1>6. CASE Tick \/ Probe \/ Quit \/ BrokenPipe
  <2>1. UNCHANGED <<g_iSock, sock, bound, toCli, smppConnected, sendFailed, unbindHeard>>
    BY <1>6 DEF Tick, Probe, Quit, BrokenPipe
  <2>2. ~Told'
    BY <1>6 DEF Tick, Probe, Quit, BrokenPipe, LinkTypes
  <2> HIDE DEF Told
  <2> QED
    BY <1>1, <2>1, <2>2 DEF Known
<1>7. CASE \/ Exited \/ Stop \/ Respond \/ NoResponse \/ ClearConnected \/ ReceiverEnds
           \/ UNCHANGED vars
  <2>1. UNCHANGED <<call, g_iSock, sock, bound, toCli, smppConnected, sendFailed, unbindHeard>>
    BY <1>7 DEF Exited, Stop, Respond, NoResponse, ClearConnected, ReceiverEnds, vars
  <2> QED
    BY <1>1, <2>1 DEF Known
<1>8. CASE RespondFails
  BY <1>8 DEF RespondFails, FlagBound
\* The receiver takes the head of the queue.
<1>9. CASE OperResp \/ OperReq
  <2>1. /\ g_iSock \in Socks /\ q # <<>> /\ q \in Seq(ToClient)
        /\ UNCHANGED <<g_iSock, sock, bound, sendFailed>>
        /\ toCli'[g_iSock] = Tail(q)
    BY <1>9 DEF OperResp, OperReq, LinkTypes, SessionTypes
  <2>2. 1 \in DOMAIN q /\ Head(q) = q[1]
    BY <2>1, TailFacts
  <2>3. Known(1) => Known(0)'
    BY <2>1, KnownTail
  <2>4. Known(0) /\ Head(q).cmd # "CLOSE" => Known(1)
    <3>1. \A j \in DOMAIN q : 0 < j /\ j # 1 => 1 < j
      BY <2>1
    <3> QED
      BY <2>2, <3>1 DEF Known
  <2>5. CASE OperResp
    <3> DEFINE p == Head(q)
    <3>1. /\ p.cmd \in Requests
          /\ call' = IF p.now THEN [call EXCEPT !.ans = IF p.ok THEN "ok" ELSE "err"] ELSE call
          /\ unbindHeard' = (unbindHeard /\ ~(p.now /\ p.ok /\ p.cmd = "BIND"))
          /\ smppConnected' = smppConnected
      BY <2>5 DEF OperResp
    <3>2. p.now => p.cmd = call.op /\ call'.op = call.op
      <4>1. p.now => 1 \in Pending(q)
        BY <2>2 DEF Pending
      <4> QED
        BY <2>1, <2>2, <3>1, <4>1 DEF NowInv, LinkTypes
    <3>3. CASE p.now /\ p.ok /\ p.cmd = "BIND"
      <4>1. 1 \in Pending(q)
        BY <2>2, <3>3 DEF Pending
      <4>2. Known(1)
        BY <2>1, <2>2, <3>3, <4>1, LinkAssumption DEF AnswerBound
      <4> QED
        BY <2>3, <4>2 DEF FlagBound
    <3>4. CASE ~(p.now /\ p.ok /\ p.cmd = "BIND")
      <4>1. Told' => Told
        BY <3>1, <3>2, <3>4 DEF LinkTypes
      <4>2. Known(0) => Known(0)'
        BY <2>3, <2>4, <3>1 DEF Requests
      <4>3. unbindHeard' = unbindHeard
        BY <3>1, <3>4 DEF SessionTypes
      <4> HIDE DEF Told
      <4> QED
        BY <1>1, <2>1, <3>1, <4>1, <4>2, <4>3
    <3> QED
      BY <3>3, <3>4
  <2>6. CASE OperReq /\ q[1].cmd = "DELIVER"
    <3>1. UNCHANGED <<call, smppConnected, unbindHeard>>
      BY <2>2, <2>6 DEF OperReq
    <3> QED
      BY <1>1, <2>1, <2>2, <2>3, <2>4, <2>6, <3>1
  <2>7. CASE OperReq /\ q[1].cmd = "CLOSE"
    BY <2>2, <2>7 DEF OperReq, FlagBound
  <2> QED
    BY <1>9, <2>2, <2>5, <2>6, <2>7 DEF OperReq
<1>10. ASSUME NEW s \in Socks, Serve(s) \/ Deliver(s) \/ ServerUnbinds(s) \/ ConnectionLost(s)
       PROVE  FlagBound'
  <2>1. UNCHANGED <<program, history>>
    BY <1>10, EnvironmentEffect
  <2>2. ASSUME ~sendFailed, ~unbindHeard, Told \/ smppConnected PROVE Known(0)'
    <3>1. g_iSock \in Socks
      BY <2>2, LinkAssumption DEF RestInv, FlagPlace, LinkTypes
    <3>2. Known(0)
      BY <2>2 DEF FlagBound
    <3>3. s = g_iSock /\ Serve(s) => Head(toSrv[s]).cmd # "UNBIND"
      <4>1. Serve(s) => toSrv[s] \in Seq(ToServer) /\ toSrv[s] # <<>>
        BY ServeEffect
      <4>2. Serve(s) => 1 \in DOMAIN toSrv[s] /\ Head(toSrv[s]) = toSrv[s][1]
        BY <4>1
      <4> QED
        BY <2>2, <3>1, <4>2, LinkAssumption DEF LastUnbind
    <3> QED
      BY <1>10, <3>1, <3>2, <3>3, KnownEnvironment
  <2> QED
    BY <2>1, <2>2 DEF FlagBound
<1> QED
  BY <1>2, <1>3, <1>4, <1>5, <1>6, <1>7, <1>8, <1>9, <1>10 DEF Next, Caller, Receiver, Environment

-----------------------------------------------------------------------------
\* The invariant holds before main opens the first socket.
LEMMA InitSessionInv == Init => SessionInv
<1> SUFFICES ASSUME Init PROVE SessionInv
  OBVIOUS
<1>1. SessionTypes
  <2>1. toSrv \in [Socks -> Seq(ToServer)] /\ toCli \in [Socks -> Seq(ToClient)]
    <3>1. <<>> \in Seq(ToServer) /\ <<>> \in Seq(ToClient)
      OBVIOUS
    <3> QED
      BY <3>1 DEF Init
  <2>2. faults \in 0 .. MaxFaults
    BY LinkAssumption DEF Init
  <2> QED
    BY <2>1, <2>2 DEF Init, SessionTypes
<1>2. RestInv /\ FlagPlace /\ LastUnbind /\ AnswerBound /\ FlagBound
  BY DEF Init, RestInv, FlagPlace, LastUnbind, AnswerBound, FlagBound
<1>3. NowInv
  BY DEF Init, NowInv, Pending
<1> QED
  BY <1>1, <1>2, <1>3 DEF SessionInv

\* No step breaks the invariant.
LEMMA SessionInvStep == LinkInv /\ LinkInv' /\ SessionInv /\ [Next]_vars => SessionInv'
<1> SUFFICES ASSUME LinkTypes, LinkTypes', SockInv, SessionInv, [Next]_vars
             PROVE  SessionInv'
  BY DEF LinkInv
<1> USE DEF SessionInv
<1>1. SessionTypes' /\ RestInv' /\ NowInv'
  BY SessionTypesStep, RestStep, NowStep
<1>2. FlagPlace' /\ LastUnbind'
  BY FlagPlaceStep, LastUnbindStep
<1>3. AnswerBound'
  BY <1>1, AnswerBoundStep
<1>4. FlagBound'
  BY FlagBoundStep
<1> QED
  BY <1>1, <1>2, <1>3, <1>4

\* SessionInv holds in every state of every behaviour.
THEOREM InvariantSessionInv == Spec => []SessionInv
<1> QED
  BY InitSessionInv, SessionInvStep, InvariantLinkInv, PTL DEF Spec

\* Every variable keeps its type, whatever the descriptors, the server and the bounds.
THEOREM TypeCorrect == Spec => []TypeOK
<1>1. LinkInv /\ SessionInv => TypeOK
  BY DEF LinkInv, LinkTypes, SessionInv, SessionTypes, NowInv, TypeOK
<1> QED
  BY <1>1, InvariantLinkInv, InvariantSessionInv, PTL

\* The program takes the session for bound only if it is, or has still to learn that it
\* is not, unless a send failed or the server's UNBIND came first.
THEOREM BeliefIsSound == Spec => []BeliefSound
<1>1. SessionInv => BeliefSound
  BY DEF SessionInv, FlagPlace, FlagBound, Known, BeliefSound
<1> QED
  BY <1>1, InvariantSessionInv, PTL

=============================================================================
