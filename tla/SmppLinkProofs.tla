--------------------------- MODULE SmppLinkProofs ---------------------------
(***************************************************************************)
(* What TLAPS proves of SmppLink, for every set of descriptors, both kinds *)
(* of server and every bound: no descriptor is lost and no answer leaves   *)
(* on a foreign connection unless a send failed or a request was given up. *)
(***************************************************************************)
EXTENDS SmppLink, TLAPS

\* The types the two results rest on; the queues play no part in them.
LinkTypes ==
  /\ g_iSock \in Socks \cup {NoSock}
  /\ sock \in [Socks -> {"closed", "down", "up"}]
  /\ tcpConnected \in BOOLEAN
  /\ call \in [who : Callers, pc : callPc, op : Requests, ans : {"none", "ok", "err"}]
  /\ recv \in [pc : recvPc, moved : BOOLEAN]
  /\ sendFailed \in BOOLEAN /\ gaveUp \in BOOLEAN

\* As long as no send has failed: a socket is opened only when none is open, for
\* the TCP flag is set whenever there is a socket that is not being opened.
SockInv ==
  /\ recv.pc = "failed" => sendFailed
  /\ ~sendFailed =>
       /\ \A s \in Socks : sock[s] # "closed" => s = g_iSock
       /\ call.pc = "socket" => g_iSock = NoSock
       /\ g_iSock # NoSock /\ call.pc \notin {"connect", "exit"} => tcpConnected

Fine == ~gaveUp /\ ~sendFailed
Ending == {"send", "await", "close"}

\* As long as nothing has gone wrong the connection is closed only at the program's
\* end: ping sends UNBIND and closes only after an ENQUIRE_LINK that failed.
PathInv ==
  /\ misrouted => ~Fine
  /\ Fine =>
       /\ call.pc \in Ending /\ call.op = "UNBIND" => call.who = "last"
       /\ call.pc = "close" => call.who = "last"
       /\ call.pc = "socket" => call.who = "main" /\ recv.pc = "off"
       /\ call.pc \notin {"socket", "exit"} => g_iSock # NoSock
       /\ recv.moved => call.pc = "exit"

LinkInv == LinkTypes /\ SockInv /\ PathInv

-----------------------------------------------------------------------------
\* The invariant holds before main opens the first socket.
LEMMA InitLinkInv == Init => LinkInv
<1> SUFFICES ASSUME Init PROVE LinkInv
  OBVIOUS
<1>1. LinkTypes
  BY DEF Init, LinkTypes, Callers, callPc, Requests, recvPc
<1>2. SockInv /\ PathInv
  BY DEF Init, SockInv, PathInv, Fine, Ending
<1> QED
  BY <1>1, <1>2 DEF LinkInv

\* What the environment leaves alone, and what it does to the descriptors.
LEMMA EnvironmentEffect ==
  ASSUME LinkTypes, NEW s \in Socks,
         Serve(s) \/ Deliver(s) \/ ServerUnbinds(s) \/ ConnectionLost(s)
  PROVE  /\ UNCHANGED <<program, history>>
         /\ sock' \in [Socks -> {"closed", "down", "up"}]
         /\ \A t \in Socks : sock'[t] # "closed" => sock[t] # "closed"
<1>1. CASE Serve(s) \/ Deliver(s) \/ ServerUnbinds(s)
  BY <1>1 DEF LinkTypes, Serve, Deliver, ServerUnbinds
<1>2. CASE ConnectionLost(s)
  <2>1. sock' = [sock EXCEPT ![s] = "down"] /\ sock[s] = "up" /\ UNCHANGED <<program, history>>
    BY <1>2 DEF ConnectionLost
  <2> QED
    BY <2>1 DEF LinkTypes
<1> QED
  BY <1>1, <1>2

\* A failed request leaves its thread in one of three places, and who it is unchanged.
LEMMA FailedType ==
  ASSUME LinkTypes
  PROVE  /\ Failed(call.op) \in [who : Callers, pc : callPc, op : Requests,
                                ans : {"none", "ok", "err"}]
         /\ Failed(call.op).pc \in {"send", "tick", "close"}
         /\ Failed(call.op).who = call.who
BY DEF LinkTypes, Failed, Callers, callPc, Requests

\* An answered UNBIND leads to closing the connection, any other answer to the timer.
LEMMA SucceededType ==
  ASSUME LinkTypes
  PROVE  /\ Succeeded(call.op) \in [who : Callers, pc : callPc, op : Requests,
                                   ans : {"none", "ok", "err"}]
         /\ call.op = "UNBIND" => /\ Succeeded(call.op).pc = "close"
                                  /\ Succeeded(call.op).who = call.who
         /\ call.op # "UNBIND" => Succeeded(call.op).pc = "tick"
BY DEF LinkTypes, Succeeded, Callers, callPc, Requests

\* The head of the receiver's loop has no PDU in hand.
LEMMA PollingType ==
  Polling \in [pc : recvPc, moved : BOOLEAN] /\ Polling.pc \in {"off", "poll"} /\ ~Polling.moved
BY DEF Polling, recvPc

\* A change of g_iSock marks a PDU in hand and leaves the receiver where it is.
LEMMA SockChangesEffect ==
  ASSUME LinkTypes, SockChanges
  PROVE  /\ recv' \in [pc : recvPc, moved : BOOLEAN]
         /\ recv'.pc = recv.pc
         /\ recv'.moved => recv.pc \in {"deliver", "unbind"}
<1> DEFINE m == recv.pc \in {"deliver", "unbind"}
<1>1. recv' = [recv EXCEPT !.moved = m]
  BY DEF SockChanges
<1>2. m \in BOOLEAN
  OBVIOUS
<1>3. recv'.moved = m
  BY <1>1 DEF LinkTypes
<1> HIDE DEF m
<1>4. recv' \in [pc : recvPc, moved : BOOLEAN] /\ recv'.pc = recv.pc
  BY <1>1, <1>2 DEF LinkTypes
<1> QED
  BY <1>3, <1>4 DEF m

-----------------------------------------------------------------------------
\* No step of either thread, of the signal handler or of the environment breaks it.
LEMMA LinkInvStep == LinkInv /\ [Next]_vars => LinkInv'
<1> SUFFICES ASSUME LinkInv, [Next]_vars PROVE LinkInv'
  OBVIOUS
<1>0. LinkTypes /\ SockInv /\ PathInv
  BY DEF LinkInv
<1> USE <1>0 DEF history, program
<1>1. CASE OpenSocket
  <2>1. /\ call.pc = "socket" /\ call'.who = call.who /\ recv'.pc = recv.pc
        /\ recv'.moved => recv.pc \in {"deliver", "unbind"}
        /\ recv' \in [pc : recvPc, moved : BOOLEAN]
        /\ UNCHANGED <<tcpConnected, sendFailed, gaveUp, misrouted>>
    BY <1>1, SockChangesEffect DEF OpenSocket, LinkTypes
  <2>2. CASE \E s \in Socks :
               /\ sock' = [sock EXCEPT ![s] = "down"]
               /\ g_iSock' = s
               /\ call' = [call EXCEPT !.pc = "connect"]
    <3>1. PICK s \in Socks : /\ sock' = [sock EXCEPT ![s] = "down"] /\ g_iSock' = s
                             /\ call' = [call EXCEPT !.pc = "connect"]
      BY <2>2
    <3>2. LinkTypes'
      BY <2>1, <3>1 DEF LinkTypes, callPc
    <3>3. SockInv'
      BY <2>1, <3>1, LinkAssumption DEF SockInv, LinkTypes
    <3>4. PathInv'
      BY <2>1, <3>1, LinkAssumption DEF PathInv, LinkTypes, Fine, Ending
    <3> QED
      BY <3>2, <3>3, <3>4 DEF LinkInv
  <2>3. CASE /\ g_iSock' = NoSock /\ sock' = sock
             /\ call' = [call EXCEPT !.pc = IF call.who = "main" THEN "exit" ELSE "tick"]
    <3>1. call' \in [who : Callers, pc : callPc, op : Requests, ans : {"none", "ok", "err"}]
      BY <2>3 DEF LinkTypes, callPc
    <3>2. call'.pc = (IF call.who = "main" THEN "exit" ELSE "tick")
      BY <2>3 DEF LinkTypes
    <3>3. LinkTypes' /\ SockInv'
      BY <2>1, <2>3, <3>1, <3>2 DEF LinkTypes, SockInv
    <3>4. PathInv'
      BY <2>1, <2>3, <3>2 DEF PathInv, LinkTypes, Fine, Ending
    <3> QED
      BY <3>3, <3>4 DEF LinkInv
  <2> QED
    BY <1>1, <2>2, <2>3 DEF OpenSocket
<1>2. CASE ConnectSocket
  <2>1. recv' = recv \/ recv' = Polling
    BY <1>2 DEF ConnectSocket
  <2>2. LinkTypes'
    BY <1>2, <2>1, PollingType DEF ConnectSocket, LinkTypes, callPc, Requests
  <2>3. SockInv'
    BY <1>2, <2>1, PollingType DEF ConnectSocket, LinkTypes, SockInv
  <2>4. PathInv'
    BY <1>2, <2>1, PollingType DEF ConnectSocket, LinkTypes, PathInv, Fine, Ending
  <2> QED
    BY <2>2, <2>3, <2>4 DEF LinkInv
<1>3. CASE SendRequest
  <2>1. CASE /\ call' = [call EXCEPT !.pc = "await"]
             /\ UNCHANGED <<tcpConnected, sendFailed, gaveUp>>
    BY <1>3, <2>1
       DEF SendRequest, LinkInv, LinkTypes, SockInv, PathInv, Fine, Ending, callPc
  <2>2. CASE /\ call' = Failed(call.op) /\ tcpConnected' = FALSE
             /\ sendFailed' = TRUE /\ gaveUp' = TRUE
    BY <1>3, <2>2, FailedType
       DEF SendRequest, LinkInv, LinkTypes, SockInv, PathInv, Fine
  <2> QED
    BY <1>3, <2>1, <2>2 DEF SendRequest
<1>4. CASE TakeAnswer
  <2>1. /\ call.pc = "await"
        /\ UNCHANGED <<g_iSock, tcpConnected, recv, sock, sendFailed, misrouted>>
    BY <1>4 DEF TakeAnswer
  <2>2. CASE call' = Succeeded(call.op) /\ gaveUp' = gaveUp
    <3>1. LinkTypes' /\ SockInv'
      BY <2>1, <2>2, SucceededType DEF LinkTypes, SockInv
    <3>2. PathInv'
      BY <2>1, <2>2, SucceededType DEF LinkTypes, PathInv, Fine, Ending
    <3> QED
      BY <3>1, <3>2 DEF LinkInv
  <2>3. CASE call' = Failed(call.op) /\ gaveUp' = TRUE
    BY <2>1, <2>3, FailedType DEF LinkInv, LinkTypes, SockInv, PathInv, Fine
  <2> QED
    BY <1>4, <2>2, <2>3 DEF TakeAnswer
<1>5. CASE GiveUp
  BY <1>5, FailedType DEF GiveUp, LinkInv, LinkTypes, SockInv, PathInv, Fine
<1>6. CASE Tick
  <2>1. LinkTypes'
    BY <1>6 DEF Tick, LinkTypes, callPc, Requests
  <2>2. SockInv'
    BY <1>6 DEF Tick, LinkTypes, SockInv
  <2>3. PathInv'
    BY <1>6 DEF Tick, LinkTypes, SockInv, PathInv, Fine, Ending
  <2> QED
    BY <2>1, <2>2, <2>3 DEF LinkInv
<1>7. CASE Probe
  <2>1. /\ call.pc = "probe" /\ call'.pc = "send" /\ call'.who = call.who
        /\ call'.op \in {"ENQUIRE", "BIND"}
        /\ UNCHANGED <<g_iSock, tcpConnected, recv, sock, sendFailed, gaveUp, misrouted>>
    BY <1>7 DEF Probe, LinkTypes
  <2>2. LinkTypes'
    BY <1>7 DEF Probe, LinkTypes, callPc, Requests
  <2>3. SockInv' /\ PathInv'
    BY <2>1 DEF SockInv, PathInv, Fine, Ending
  <2> QED
    BY <2>2, <2>3 DEF LinkInv
<1>8. CASE Quit
  <2>1. /\ call.pc = "tick"
        /\ call'.who = "last" /\ call'.pc = "send"
        /\ UNCHANGED <<g_iSock, tcpConnected, recv, sock, sendFailed, gaveUp, misrouted>>
    BY <1>8 DEF Quit, LinkTypes
  <2>2. LinkTypes'
    BY <1>8 DEF Quit, LinkTypes, Callers, callPc, Requests
  <2>3. SockInv' /\ PathInv'
    BY <2>1 DEF SockInv, PathInv, Fine, Ending
  <2> QED
    BY <2>2, <2>3 DEF LinkInv
<1>9. CASE Disconnect
  <2>1. /\ call.pc = "close" /\ g_iSock' = NoSock
        /\ call'.pc = (IF call.who = "ping" THEN "socket" ELSE "exit")
        /\ call'.who = call.who /\ recv'.pc = recv.pc
        /\ UNCHANGED <<sendFailed, gaveUp, misrouted>>
    BY <1>9, SockChangesEffect DEF Disconnect, AfterDisconnect, LinkTypes
  <2>2. \A t \in Socks : sock'[t] # "closed" => sock[t] # "closed" /\ t # g_iSock
    <3>1. CASE g_iSock = NoSock
      BY <1>9, <3>1, LinkAssumption DEF Disconnect
    <3>2. CASE g_iSock # NoSock
      BY <1>9, <3>2 DEF Disconnect, CloseSock, LinkTypes
    <3> QED
      BY <3>1, <3>2
  <2>3. LinkTypes'
    <3>1. call' \in [who : Callers, pc : callPc, op : Requests, ans : {"none", "ok", "err"}]
      BY <1>9 DEF Disconnect, AfterDisconnect, LinkTypes, callPc
    <3>2. recv' \in [pc : recvPc, moved : BOOLEAN]
      BY <1>9, SockChangesEffect DEF Disconnect
    <3>3. sock' \in [Socks -> {"closed", "down", "up"}] /\ tcpConnected' \in BOOLEAN
      BY <1>9 DEF Disconnect, CloseSock, LinkTypes
    <3> QED
      BY <2>1, <3>1, <3>2, <3>3 DEF LinkTypes
  <2>4. SockInv'
    BY <2>1, <2>2 DEF SockInv
  <2>5. PathInv'
    BY <2>1 DEF PathInv, Fine, Ending
  <2> QED
    BY <2>3, <2>4, <2>5 DEF LinkInv
<1>10. CASE Exited \/ UNCHANGED vars
  BY <1>10 DEF Exited, vars, LinkInv, LinkTypes, SockInv, PathInv, Fine
<1>11. CASE Stop
  BY <1>11 DEF Stop, LinkInv, LinkTypes, SockInv, PathInv, Fine
<1>12. CASE OperResp
  <2>1. /\ call'.who = call.who /\ call'.pc = call.pc /\ call'.op = call.op
        /\ recv' = Polling
        /\ UNCHANGED <<g_iSock, tcpConnected, sock, sendFailed, gaveUp, misrouted>>
    BY <1>12 DEF OperResp, LinkTypes
  <2>2. call' \in [who : Callers, pc : callPc, op : Requests, ans : {"none", "ok", "err"}]
    BY <1>12 DEF OperResp, LinkTypes
  <2>3. recv.pc = "poll"
    BY <1>12 DEF OperResp
  <2>4. LinkTypes'
    BY <2>1, <2>2, PollingType DEF LinkTypes
  <2>5. SockInv' /\ PathInv'
    BY <2>1, <2>3, PollingType DEF SockInv, PathInv, Fine
  <2> QED
    BY <2>4, <2>5 DEF LinkInv
<1>13. CASE OperReq
  <2>1. /\ recv.pc = "poll" /\ recv'.pc \in {"deliver", "unbind"} /\ ~recv'.moved
        /\ recv' \in [pc : recvPc, moved : BOOLEAN]
        /\ UNCHANGED <<g_iSock, tcpConnected, sock, call, sendFailed, gaveUp, misrouted>>
    <3>1. CASE recv' = [pc |-> "deliver", moved |-> FALSE]
      BY <1>13, <3>1 DEF OperReq, recvPc
    <3>2. CASE recv' = [pc |-> "unbind", moved |-> FALSE]
      BY <1>13, <3>2 DEF OperReq, recvPc
    <3> QED
      BY <1>13, <3>1, <3>2 DEF OperReq
  <2> QED
    BY <2>1 DEF LinkInv, LinkTypes, SockInv, PathInv, Fine
<1>14. CASE Respond \/ NoResponse \/ ClearConnected
  <2>1. /\ recv' = Polling /\ recv.pc # "off" /\ call.pc # "exit"
        /\ UNCHANGED <<g_iSock, sock, call, sendFailed, gaveUp>>
        /\ \/ tcpConnected' = FALSE /\ recv.pc = "failed"
           \/ UNCHANGED tcpConnected
    BY <1>14 DEF Respond, NoResponse, ClearConnected, Running
  <2>2. misrouted' => misrouted \/ recv.moved
    BY <1>14 DEF Respond, NoResponse, ClearConnected
  <2>3. LinkTypes' /\ SockInv'
    <3>1. tcpConnected' \in BOOLEAN
      BY <2>1 DEF LinkTypes
    <3>2. LinkTypes'
      BY <2>1, <3>1, PollingType DEF LinkTypes
    <3>3. SockInv'
      BY <2>1, PollingType DEF SockInv
    <3> QED
      BY <3>2, <3>3
  <2>4. PathInv'
    BY <2>1, <2>2, PollingType DEF PathInv, Fine
  <2> QED
    BY <2>3, <2>4 DEF LinkInv
<1>15. CASE RespondFails
  BY <1>15 DEF RespondFails, LinkInv, LinkTypes, SockInv, PathInv, Fine, recvPc
<1>16. CASE ReceiverEnds
  BY <1>16 DEF ReceiverEnds, LinkInv, LinkTypes, SockInv, PathInv, Fine, recvPc
<1>17. CASE Environment
  <2>1. PICK s \in Socks :
          Serve(s) \/ Deliver(s) \/ ServerUnbinds(s) \/ ConnectionLost(s)
    BY <1>17 DEF Environment
  <2>2. /\ UNCHANGED <<program, history>>
        /\ sock' \in [Socks -> {"closed", "down", "up"}]
        /\ \A t \in Socks : sock'[t] # "closed" => sock[t] # "closed"
    BY <2>1, EnvironmentEffect
  <2> QED
    BY <2>2 DEF LinkInv, LinkTypes, SockInv, PathInv, Fine
<1>18. CASE BrokenPipe
  <2>1. /\ call'.pc = "exit" /\ call' \in [who : Callers, pc : callPc, op : Requests,
                                          ans : {"none", "ok", "err"}]
        /\ UNCHANGED <<g_iSock, tcpConnected, recv, sock, sendFailed, gaveUp, misrouted>>
        /\ call.pc # "exit"
    BY <1>18 DEF BrokenPipe, Running, LinkTypes, callPc
  <2> QED
    BY <2>1 DEF LinkInv, LinkTypes, SockInv, PathInv, Fine, Ending
<1> QED
  BY <1>1, <1>2, <1>3, <1>4, <1>5, <1>6, <1>7, <1>8, <1>9, <1>10, <1>11, <1>12,
     <1>13, <1>14, <1>15, <1>16, <1>17, <1>18 DEF Next, Caller, Receiver

\* The flag, the descriptors and the path to closing stay as LinkInv says, in every
\* behaviour of sms112_tcp.cpp and do_smpp_ping.
THEOREM InvariantLinkInv == Spec => []LinkInv
BY InitLinkInv, LinkInvStep, PTL DEF Spec

\* Unless a send has failed the socket in use is the only one open.
THEOREM SocketsAreKept == Spec => []NoSocketLost
<1>1. LinkInv => NoSocketLost
  BY DEF LinkInv, SockInv, NoSocketLost
<1> QED
  BY <1>1, InvariantLinkInv, PTL

\* Unless a request was given up or a send has failed, the receiver answers on the
\* connection its request came from.
THEOREM AnswersStay == Spec => []AnswersOwnSession
<1>1. LinkInv => AnswersOwnSession
  BY DEF LinkInv, PathInv, Fine, AnswersOwnSession
<1> QED
  BY <1>1, InvariantLinkInv, PTL

-----------------------------------------------------------------------------
\* main goes on from pthread_join only after a signal.
EndInv == call.who = "last" => g_iStop

\* Every step keeps EndInv, and only two can end the program: the closing of the
\* connection, by main, and SIGPIPE.
LEMMA EndInvStep ==
  ASSUME LinkTypes, EndInv, [Next]_vars
  PROVE  EndInv' /\ (Running /\ call'.pc = "exit" => g_iStop \/ call.who = "main" \/ BrokenPipe)
<1> USE DEF program, history
<1>1. CASE OpenSocket \/ ConnectSocket \/ Tick \/ Probe
  BY <1>1 DEF OpenSocket, ConnectSocket, Tick, Probe, LinkTypes, EndInv
<1>2. CASE SendRequest \/ GiveUp
  <2>1. /\ g_iStop' = g_iStop
        /\ call' = [call EXCEPT !.pc = "await"] \/ call' = Failed(call.op)
    BY <1>2 DEF SendRequest, GiveUp
  <2> QED
    BY <2>1, FailedType DEF LinkTypes, EndInv
<1>3. CASE TakeAnswer
  <2>1. /\ g_iStop' = g_iStop
        /\ call' = Succeeded(call.op) \/ call' = Failed(call.op)
    BY <1>3 DEF TakeAnswer
  <2>2. CASE call' = Failed(call.op)
    BY <2>1, <2>2, FailedType DEF LinkTypes, EndInv
  <2>3. CASE call' = Succeeded(call.op)
    <3>1. call'.pc # "exit" /\ (call'.who = "last" => call.who = "last")
      BY <2>3 DEF Succeeded, LinkTypes
    <3> QED
      BY <2>1, <3>1 DEF EndInv
  <2> QED
    BY <2>1, <2>2, <2>3
<1>4. CASE Quit
  BY <1>4 DEF Quit, LinkTypes, EndInv
<1>5. CASE Disconnect
  <2>1. /\ g_iStop' = g_iStop /\ call'.who = call.who
        /\ call'.pc = (IF call.who = "ping" THEN "socket" ELSE "exit")
    BY <1>5 DEF Disconnect, AfterDisconnect, LinkTypes
  <2>2. call.who \in {"main", "ping", "last"}
    BY DEF LinkTypes, Callers
  <2> QED
    BY <2>1, <2>2 DEF EndInv
<1>6. CASE Stop
  BY <1>6 DEF Stop, EndInv, Running
<1>7. CASE OperResp
  <2>1. call'.pc = call.pc /\ call'.who = call.who /\ g_iStop' = g_iStop
    BY <1>7 DEF OperResp, LinkTypes
  <2> QED
    BY <2>1 DEF EndInv, Running
<1>8. CASE \/ Exited \/ OperReq \/ Respond \/ NoResponse \/ RespondFails
           \/ ClearConnected \/ ReceiverEnds \/ UNCHANGED vars
  BY <1>8 DEF Exited, OperReq, Respond, NoResponse, RespondFails, ClearConnected,
              ReceiverEnds, vars, EndInv, Running
<1>9. CASE Environment
  <2>1. UNCHANGED <<program, history>>
    BY <1>9, EnvironmentEffect DEF Environment
  <2> QED
    BY <2>1 DEF EndInv, Running
<1>10. CASE BrokenPipe
  BY <1>10 DEF BrokenPipe, LinkTypes, EndInv
<1> QED
  BY <1>1, <1>2, <1>3, <1>4, <1>5, <1>6, <1>7, <1>8, <1>9, <1>10 DEF Next, Caller, Receiver

\* Once ping runs, only a signal ends the program: SIGTERM, SIGINT or SIGPIPE.
THEOREM OnlySignalsEndIt == Spec => OnlySignalsEnd
<1> DEFINE Ends == Running /\ call'.pc = "exit" => g_iStop \/ call.who = "main" \/ BrokenPipe
<1>1. Init => EndInv
  BY DEF Init, EndInv
<1>2. LinkInv /\ EndInv /\ [Next]_vars => EndInv' /\ [Ends]_vars
  BY EndInvStep DEF LinkInv
<1>3. OnlySignalsEnd <=> [][Ends]_vars
  BY DEF OnlySignalsEnd
<1> HIDE DEF Ends
<1> QED
  BY <1>1, <1>2, <1>3, InvariantLinkInv, PTL DEF Spec

=============================================================================
