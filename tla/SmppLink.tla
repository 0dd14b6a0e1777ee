------------------------------ MODULE SmppLink ------------------------------
(***************************************************************************)
(* The life of the link to the SMPP server: main and do_smpp_ping, which   *)
(* open, probe, close and reopen the TCP connection and the SMPP session   *)
(* (sms112_main.cpp, sms112_smpp_thread.cpp, sms112_tcp.cpp and the        *)
(* commands of sms112_smpp_cmd.cpp), the receiver thread, which shares     *)
(* with them the socket and the two flags g_bIsConnected, and the server.  *)
(*                                                                         *)
(* How a request meets its answer is the subject of SmppRequest.  Here a   *)
(* request is answered, fails to be sent or is given up; its sequence      *)
(* number is reduced to whether it is that of the request under way (now), *)
(* and an answer that comes late changes nothing.  PDUs are read whole.    *)
(* Nothing in the program handles SIGPIPE, so a send may end it.           *)
(***************************************************************************)
EXTENDS Integers, Sequences

CONSTANTS
  Socks,      \* the descriptors the process may have open
  NoSock,     \* -1
  Lenient,    \* the server answers ENQUIRE_LINK on a session that is not bound
  MaxQ,       \* bound: PDUs from the server waiting unread on a connection
  MaxFaults   \* bound: faults of the network, the server and the timing

ASSUME LinkAssumption ==
  /\ Socks # {}
  /\ NoSock \notin Socks
  /\ Lenient \in BOOLEAN
  /\ MaxQ \in Nat \ {0}
  /\ MaxFaults \in Nat

Requests == {"BIND", "ENQUIRE", "UNBIND"}  \* BIND is BIND_TRANSCEIVER

\* What goes to the server (requests and RESP, the answer to a request of the
\* server), and what comes from it (answers to requests, DELIVER, and CLOSE, its
\* own UNBIND).
ToServer == [cmd : Requests \cup {"RESP"}, now : BOOLEAN]
ToClient == [cmd : Requests \cup {"DELIVER", "CLOSE"}, now : BOOLEAN, ok : BOOLEAN]

VARIABLES
  g_iSock,        \* the socket in use
  tcpConnected,   \* g_bIsConnected of sms112_tcp.cpp
  smppConnected,  \* g_bIsConnected of sms112_smpp.cpp
  g_iStop,        \* set by SIGTERM and SIGINT
  call,           \* the thread that opens, probes and closes: main or ping
  recv,           \* the receiver thread
  sock,           \* descriptor -> no socket there, without or with a connection
  bound,          \* descriptor -> the server has this session bound
  toSrv, toCli,   \* descriptor -> PDUs on their way
  faults,         \* faults so far
  \* history variables, no part of the program
  sendFailed,     \* some send has failed
  gaveUp,         \* some request was not answered with success
  unbindHeard,    \* the server's UNBIND was handled and no BIND accepted since
  misrouted       \* an answer went out on another connection than its request

program == <<g_iSock, tcpConnected, smppConnected, g_iStop, call, recv>>
history == <<sendFailed, gaveUp, unbindHeard, misrouted>>
vars == <<program, sock, bound, toSrv, toCli, faults, history>>

\* main waits in pthread_join while the ping thread runs, so the two are one
\* thread here: main until the session is bound, then ping, then main once more.
Callers == {"main", "ping", "last"}
callPc == {"socket", "connect", "send", "await", "tick", "probe", "close", "exit"}

\* "off" before pthread_create and after the loop has ended.  moved, a history
\* variable, tells that g_iSock changed since the PDU in hand was read.
recvPc == {"off", "poll", "deliver", "unbind", "failed"}

TypeOK ==
  /\ g_iSock \in Socks \cup {NoSock}
  /\ tcpConnected \in BOOLEAN /\ smppConnected \in BOOLEAN /\ g_iStop \in BOOLEAN
  /\ call \in [who : Callers, pc : callPc, op : Requests, ans : {"none", "ok", "err"}]
  /\ call.ans # "none" => call.pc = "await"
  /\ recv \in [pc : recvPc, moved : BOOLEAN]
  /\ sock \in [Socks -> {"closed", "down", "up"}]
  /\ bound \in [Socks -> BOOLEAN]
  /\ toSrv \in [Socks -> Seq(ToServer)]
  /\ toCli \in [Socks -> Seq(ToClient)]
  /\ faults \in 0 .. MaxFaults
  /\ sendFailed \in BOOLEAN /\ gaveUp \in BOOLEAN
  /\ unbindHeard \in BOOLEAN /\ misrouted \in BOOLEAN

-----------------------------------------------------------------------------
\* The small pieces.

Fault == faults < MaxFaults /\ faults' = faults + 1
NoFault == UNCHANGED faults

\* The request has been given up: what is still on its way for it is late.
NotAged(q) == q
Aged(q) == [i \in DOMAIN q |-> [q[i] EXCEPT !.now = FALSE]]

\* send takes a PDU that leaves for the server.
Sent(p) ==
  /\ g_iSock # NoSock /\ sock[g_iSock] = "up"
  /\ toSrv' = [toSrv EXCEPT ![g_iSock] = Append(@, p)]
  /\ NoFault

\* send takes a PDU although the peer is gone.
SentInVain == g_iSock # NoSock /\ sock[g_iSock] = "down" /\ Fault /\ UNCHANGED toSrv

\* send returns less than it was given: on an established connection a fault, on
\* any other it may do so every time.  For the receiver to send while another
\* connection is being opened is bad luck, and counts as a fault.
NotSent(unlucky) ==
  /\ IF unlucky \/ (g_iSock # NoSock /\ sock[g_iSock] = "up") THEN Fault ELSE NoFault
  /\ UNCHANGED toSrv

\* sms112_smpp_disconn clears the flag before it sends anything.
ConnectedKept(op) == smppConnected
ConnectedAtSend(op) == IF op = "UNBIND" THEN FALSE ELSE smppConnected

\* Where the thread goes when op has been answered with success.
SucceededSwapped(op) ==
  IF op = "BIND" THEN [who |-> "ping", pc |-> "tick", op |-> op, ans |-> "none"]
  ELSE [call EXCEPT !.pc = "close", !.ans = "none"]
Succeeded(op) ==
  IF op = "UNBIND" THEN [call EXCEPT !.pc = "close", !.ans = "none"]
  ELSE [who |-> "ping", pc |-> "tick", op |-> op, ans |-> "none"]

\* Where the thread goes when op has failed.  At startup a BIND that fails ends
\* the program, later it is tried again at the next tick; an ENQUIRE that fails is
\* followed by an UNBIND, whatever its outcome by closing the connection.
FailedIgnored(op) ==
  IF op = "UNBIND" THEN [call EXCEPT !.pc = "close", !.ans = "none"]
  ELSE [call EXCEPT !.pc = "tick", !.ans = "none"]
Failed(op) ==
  IF op = "ENQUIRE" THEN [call EXCEPT !.pc = "send", !.op = "UNBIND", !.ans = "none"]
  ELSE IF op = "BIND" /\ call.who = "ping"
    THEN [call EXCEPT !.pc = "tick", !.ans = "none"]
    ELSE [call EXCEPT !.pc = "close", !.ans = "none"]

\* The descriptor is closed and all that was on its way is gone.
LeftOpen(s) == UNCHANGED <<sock, bound, toSrv, toCli>>
CloseSock(s) ==
  /\ sock' = [sock EXCEPT ![s] = "closed"]
  /\ bound' = [bound EXCEPT ![s] = FALSE]
  /\ toSrv' = [toSrv EXCEPT ![s] = <<>>]
  /\ toCli' = [toCli EXCEPT ![s] = <<>>]

\* The head of the receiver's loop, entered first and whenever the handler returns.
Polling == [pc |-> IF g_iStop THEN "off" ELSE "poll", moved |-> FALSE]

\* The receiver has a PDU in hand while the socket in use changes.
SockChanges == recv' = [recv EXCEPT !.moved = recv.pc \in {"deliver", "unbind"}]

-----------------------------------------------------------------------------
\* main and do_smpp_ping.

\* sms112_tcp_connect: socket().  A socket that g_iSock still names is not closed.
\* A failure ends the program at startup; later the loop goes on at once.
OpenSocket ==
  /\ call.pc = "socket"
  /\ \/ \E s \in Socks :
          /\ sock[s] = "closed"
          /\ sock' = [sock EXCEPT ![s] = "down"]
          /\ g_iSock' = s
          /\ call' = [call EXCEPT !.pc = "connect"]
          /\ NoFault
     \/ /\ IF \E s \in Socks : sock[s] = "closed" THEN Fault ELSE NoFault
        /\ g_iSock' = NoSock
        /\ call' = [call EXCEPT !.pc = IF call.who = "main" THEN "exit" ELSE "tick"]
        /\ UNCHANGED sock
  /\ SockChanges
  /\ UNCHANGED <<tcpConnected, smppConnected, g_iStop, bound, toSrv, toCli, history>>

\* The rest of sms112_tcp_connect.  Whether connect succeeded is not looked at: the
\* connection counts as established and BIND follows.  main starts the receiver in
\* between.
ConnectSocket ==
  /\ call.pc = "connect"
  /\ \/ sock' = [sock EXCEPT ![g_iSock] = "up"] /\ NoFault
     \/ UNCHANGED sock /\ Fault
  /\ tcpConnected' = TRUE
  /\ call' = [call EXCEPT !.pc = "send", !.op = "BIND"]
  /\ recv' = IF call.who = "main" THEN Polling ELSE recv
  /\ UNCHANGED <<g_iSock, smppConnected, g_iStop, bound, toSrv, toCli, history>>

\* sms112_smpp_connect, sms112_smpp_disconn or sms112_smpp_enq_link sends its request.
SendRequest ==
  /\ call.pc = "send"
  /\ smppConnected' = ConnectedAtSend(call.op)
  /\ \/ /\ Sent([cmd |-> call.op, now |-> TRUE]) \/ SentInVain
        /\ call' = [call EXCEPT !.pc = "await"]
        /\ UNCHANGED <<tcpConnected, sendFailed, gaveUp>>
     \/ /\ NotSent(FALSE)
        /\ call' = Failed(call.op)
        /\ tcpConnected' = FALSE
        /\ sendFailed' = TRUE /\ gaveUp' = TRUE
  /\ UNCHANGED <<g_iSock, g_iStop, recv, sock, bound, toCli, unbindHeard, misrouted>>

\* The receiver has handed over the answer.  sms112_smpp_connect sets the flag now.
TakeAnswer ==
  /\ call.pc = "await"
  /\ \/ /\ call.ans = "ok"
        /\ call' = Succeeded(call.op)
        /\ smppConnected' = IF call.op = "BIND" THEN TRUE ELSE smppConnected
        /\ UNCHANGED gaveUp
     \/ /\ call.ans = "err"
        /\ call' = Failed(call.op)
        /\ gaveUp' = TRUE
        /\ UNCHANGED smppConnected
  /\ UNCHANGED <<g_iSock, tcpConnected, g_iStop, recv, sock, bound, toSrv, toCli, faults,
                 sendFailed, unbindHeard, misrouted>>

\* The answer can still come: to be given up earlier than that is bad luck, and
\* counts as a fault.
AnswerComing ==
  /\ g_iSock # NoSock
  /\ recv.pc # "off"
  /\ \/ \E i \in DOMAIN toSrv[g_iSock] :
          /\ toSrv[g_iSock][i].now
          /\ call.op = "ENQUIRE" => Lenient \/ bound[g_iSock]
     \/ \E i \in DOMAIN toCli[g_iSock] : toCli[g_iSock][i].now

\* pthread_mutex_timedlock gives up after a second.
GiveUp ==
  /\ call.pc = "await" /\ call.ans = "none"
  /\ IF AnswerComing THEN Fault ELSE NoFault
  /\ call' = Failed(call.op)
  /\ gaveUp' = TRUE
  /\ toSrv' = [s \in Socks |-> Aged(toSrv[s])]
  /\ toCli' = [s \in Socks |-> Aged(toCli[s])]
  /\ UNCHANGED <<g_iSock, tcpConnected, smppConnected, g_iStop, recv, sock, bound,
                 sendFailed, unbindHeard, misrouted>>

\* The ping thread's timer: it looks at the one flag ...
Tick ==
  /\ call.pc = "tick" /\ ~g_iStop
  /\ call' = [call EXCEPT !.pc = IF tcpConnected THEN "probe" ELSE "socket"]
  /\ UNCHANGED <<g_iSock, tcpConnected, smppConnected, g_iStop, recv, sock, bound,
                 toSrv, toCli, faults, history>>

\* ... and then at the other.
Probe ==
  /\ call.pc = "probe"
  /\ call' = [call EXCEPT !.pc = "send", !.op = IF smppConnected THEN "ENQUIRE" ELSE "BIND"]
  /\ UNCHANGED <<g_iSock, tcpConnected, smppConnected, g_iStop, recv, sock, bound,
                 toSrv, toCli, faults, history>>

\* The ping thread's loop ends, main goes on and sends UNBIND.
Quit ==
  /\ call.pc = "tick" /\ g_iStop
  /\ call' = [call EXCEPT !.who = "last", !.pc = "send", !.op = "UNBIND"]
  /\ UNCHANGED <<g_iSock, tcpConnected, smppConnected, g_iStop, recv, sock, bound,
                 toSrv, toCli, faults, history>>

\* After the connection was closed ping goes on with a new socket, main ends.
EndAlways == "exit"
ReconnectAfterUnbind == IF call.who = "main" THEN "exit" ELSE "socket"
AfterDisconnect == IF call.who = "ping" THEN "socket" ELSE "exit"

\* sms112_tcp_disconn.
Disconnect ==
  /\ call.pc = "close"
  /\ \/ g_iSock # NoSock /\ CloseSock(g_iSock) /\ tcpConnected' = FALSE
     \/ g_iSock = NoSock /\ UNCHANGED <<sock, bound, toSrv, toCli, tcpConnected>>
  /\ g_iSock' = NoSock
  /\ call' = [call EXCEPT !.pc = AfterDisconnect]
  /\ SockChanges
  /\ UNCHANGED <<smppConnected, g_iStop, faults, history>>

\* The process is gone, or about to go.
Exited ==
  /\ call.pc = "exit"
  /\ UNCHANGED vars

\* stop_smpp_receiver_thread, from the signal handler.
Stop ==
  /\ call.pc # "exit" /\ ~g_iStop
  /\ g_iStop' = TRUE
  /\ UNCHANGED <<g_iSock, tcpConnected, smppConnected, call, recv, sock, bound, toSrv,
                 toCli, faults, history>>

Running == call.pc # "exit"

\* Either thread sends on a connection that is gone, or was never there: the send of
\* sms112_tcp_send raises SIGPIPE, whose default action ends the process.
BrokenPipe ==
  /\ Running
  /\ call.pc = "send" \/ recv.pc \in {"deliver", "unbind"}
  /\ g_iSock # NoSock /\ sock[g_iSock] = "down"
  /\ call' = [call EXCEPT !.pc = "exit", !.ans = "none"]
  /\ UNCHANGED <<g_iSock, tcpConnected, smppConnected, g_iStop, recv, sock, bound, toSrv,
                 toCli, faults, history>>

-----------------------------------------------------------------------------
\* The receiver thread.

\* sms112_oper_resp: an answer.  Only that of the request under way matters.
OperResp ==
  /\ Running /\ recv.pc = "poll" /\ g_iSock # NoSock /\ toCli[g_iSock] # <<>>
  /\ LET p == Head(toCli[g_iSock])
     IN  /\ p.cmd \in Requests
         /\ call' = IF p.now THEN [call EXCEPT !.ans = IF p.ok THEN "ok" ELSE "err"]
                             ELSE call
         /\ unbindHeard' = (unbindHeard /\ ~(p.now /\ p.ok /\ p.cmd = "BIND"))
  /\ toCli' = [toCli EXCEPT ![g_iSock] = Tail(@)]
  /\ recv' = Polling
  /\ UNCHANGED <<g_iSock, tcpConnected, smppConnected, g_iStop, sock, bound, toSrv,
                 faults, sendFailed, gaveUp, misrouted>>

\* sms112_smpp_oper_req reads a DELIVER_SM or an UNBIND; of the latter the flag is
\* the first effect.
OperReq ==
  /\ Running /\ recv.pc = "poll" /\ g_iSock # NoSock /\ toCli[g_iSock] # <<>>
  /\ LET p == Head(toCli[g_iSock])
     IN  \/ /\ p.cmd = "DELIVER"
            /\ recv' = [pc |-> "deliver", moved |-> FALSE]
            /\ UNCHANGED <<smppConnected, unbindHeard>>
         \/ /\ p.cmd = "CLOSE"
            /\ recv' = [pc |-> "unbind", moved |-> FALSE]
            /\ smppConnected' = FALSE
            /\ unbindHeard' = TRUE
  /\ toCli' = [toCli EXCEPT ![g_iSock] = Tail(@)]
  /\ UNCHANGED <<g_iSock, tcpConnected, g_iStop, call, sock, bound, toSrv, faults,
                 sendFailed, gaveUp, misrouted>>

\* sms112_smpp_deliver_sm_oper and sms112_smpp_unbind_oper answer, the former once
\* the geodata and SIP requests are over, on the socket in use by then.
Respond ==
  /\ Running /\ recv.pc \in {"deliver", "unbind"}
  /\ Sent([cmd |-> "RESP", now |-> FALSE]) \/ SentInVain
  /\ misrouted' = (misrouted \/ recv.moved)
  /\ recv' = Polling
  /\ UNCHANGED <<g_iSock, tcpConnected, smppConnected, g_iStop, call, sock, bound,
                 toCli, sendFailed, gaveUp, unbindHeard>>

\* A message that cannot be decoded or is in an unknown coding is not answered.
NoResponse ==
  /\ Running /\ recv.pc = "deliver"
  /\ recv' = Polling
  /\ UNCHANGED <<g_iSock, tcpConnected, smppConnected, g_iStop, call, sock, bound,
                 toSrv, toCli, faults, history>>

\* The answer cannot be sent: sms112_tcp_send finds out first ...
RespondFails ==
  /\ Running /\ recv.pc \in {"deliver", "unbind"}
  /\ NotSent(call.pc \in {"socket", "connect"})
  /\ sendFailed' = TRUE
  /\ recv' = [recv EXCEPT !.pc = "failed"]
  /\ UNCHANGED <<g_iSock, tcpConnected, smppConnected, g_iStop, call, sock, bound,
                 toCli, gaveUp, unbindHeard, misrouted>>

\* ... and then clears the flag, whatever socket it stands for meanwhile.
ClearConnected ==
  /\ Running /\ recv.pc = "failed"
  /\ tcpConnected' = FALSE
  /\ recv' = Polling
  /\ UNCHANGED <<g_iSock, smppConnected, g_iStop, call, sock, bound, toSrv, toCli,
                 faults, history>>

\* poll times out and the loop of msg_receiver ends.
ReceiverEnds ==
  /\ Running /\ recv.pc = "poll" /\ g_iStop
  /\ recv' = [recv EXCEPT !.pc = "off"]
  /\ UNCHANGED <<g_iSock, tcpConnected, smppConnected, g_iStop, call, sock, bound,
                 toSrv, toCli, faults, history>>

-----------------------------------------------------------------------------
\* The server and the network.

\* The server's answer to a request, as a PDU; refusing a first BIND is a fault.
Reply(r, ok) == [cmd |-> r.cmd, now |-> r.now, ok |-> ok]

Serve(s) ==
  /\ sock[s] = "up" /\ toSrv[s] # <<>> /\ Len(toCli[s]) < MaxQ
  /\ toSrv' = [toSrv EXCEPT ![s] = Tail(@)]
  /\ LET r == Head(toSrv[s])
     IN  \/ /\ r.cmd = "BIND" /\ ~bound[s] /\ NoFault
            /\ bound' = [bound EXCEPT ![s] = TRUE]
            /\ toCli' = [toCli EXCEPT ![s] = Append(@, Reply(r, TRUE))]
         \/ /\ r.cmd = "BIND"
            /\ IF bound[s] THEN NoFault ELSE Fault
            /\ toCli' = [toCli EXCEPT ![s] = Append(@, Reply(r, FALSE))]
            /\ UNCHANGED bound
         \/ /\ r.cmd = "ENQUIRE" /\ NoFault
            /\ toCli' = IF bound[s] \/ Lenient
                        THEN [toCli EXCEPT ![s] = Append(@, Reply(r, TRUE))] ELSE toCli
            /\ UNCHANGED bound
         \/ /\ r.cmd = "UNBIND" /\ NoFault
            /\ bound' = [bound EXCEPT ![s] = FALSE]
            /\ toCli' = [toCli EXCEPT ![s] = Append(@, Reply(r, TRUE))]
         \/ /\ r.cmd = "RESP" /\ NoFault
            /\ UNCHANGED <<bound, toCli>>
  /\ UNCHANGED <<program, sock, history>>

\* A message for the service, when none is known to be unanswered.
Deliver(s) ==
  /\ sock[s] = "up" /\ bound[s] /\ Len(toCli[s]) < MaxQ
  /\ \A i \in DOMAIN toCli[s] : toCli[s][i].cmd # "DELIVER"
  /\ \A i \in DOMAIN toSrv[s] : toSrv[s][i].cmd # "RESP"
  /\ toCli' = [toCli EXCEPT ![s] = Append(@, [cmd |-> "DELIVER", now |-> FALSE, ok |-> TRUE])]
  /\ UNCHANGED <<program, sock, bound, toSrv, faults, history>>

\* The server ends the session.
ServerUnbinds(s) ==
  /\ sock[s] = "up" /\ bound[s] /\ Len(toCli[s]) < MaxQ
  /\ Fault
  /\ bound' = [bound EXCEPT ![s] = FALSE]
  /\ toCli' = [toCli EXCEPT ![s] = Append(@, [cmd |-> "CLOSE", now |-> FALSE, ok |-> TRUE])]
  /\ UNCHANGED <<program, sock, toSrv, history>>

\* The connection is gone; what has arrived can still be there.
ConnectionLost(s) ==
  /\ sock[s] = "up"
  /\ Fault
  /\ sock' = [sock EXCEPT ![s] = "down"]
  /\ bound' = [bound EXCEPT ![s] = FALSE]
  /\ toSrv' = [toSrv EXCEPT ![s] = <<>>]
  /\ \/ UNCHANGED toCli
     \/ toCli' = [toCli EXCEPT ![s] = <<>>]
  /\ UNCHANGED <<program, history>>

-----------------------------------------------------------------------------
Init ==
  /\ g_iSock = NoSock
  /\ tcpConnected = FALSE /\ smppConnected = FALSE /\ g_iStop = FALSE
  /\ call = [who |-> "main", pc |-> "socket", op |-> "BIND", ans |-> "none"]
  /\ recv = [pc |-> "off", moved |-> FALSE]
  /\ sock = [s \in Socks |-> "closed"]
  /\ bound = [s \in Socks |-> FALSE]
  /\ toSrv = [s \in Socks |-> <<>>]
  /\ toCli = [s \in Socks |-> <<>>]
  /\ faults = 0
  /\ sendFailed = FALSE /\ gaveUp = FALSE /\ unbindHeard = FALSE /\ misrouted = FALSE

Caller ==
  OpenSocket \/ ConnectSocket \/ SendRequest \/ TakeAnswer \/ GiveUp \/ Tick \/ Probe \/ Quit \/ Disconnect

Receiver ==
  OperResp \/ OperReq \/ Respond \/ NoResponse \/ RespondFails \/ ClearConnected \/ ReceiverEnds

Environment ==
  \E s \in Socks : Serve(s) \/ Deliver(s) \/ ServerUnbinds(s) \/ ConnectionLost(s)

Next == Caller \/ Exited \/ Stop \/ BrokenPipe \/ Receiver \/ Environment

Spec == Init /\ [][Next]_vars

\* The threads are scheduled and the server serves what it receives.  Signals,
\* messages and faults are not obliged to happen; faults are finitely many.
FairSpec ==
  /\ Spec
  /\ WF_vars(Caller)
  /\ WF_vars(Receiver)
  /\ \A s \in Socks : WF_vars(Serve(s))

-----------------------------------------------------------------------------
\* Properties.

\* No descriptor is lost unless a send has failed: with no such failure the socket
\* in use is the only one open, however often the link was given up and reopened
\* (sms112_tcp_connect overwrites g_iSock).
NoSocketLost ==
  ~sendFailed => \A s \in Socks : sock[s] # "closed" => s = g_iSock

\* The program takes the session for bound only if it is, apart from four causes:
\* the server's UNBIND is on its way, or raced with the answer to BIND; the
\* connection broke; a send failed, which leaves the flag of the old session set
\* (sms112_smpp_connect, sms112_smpp_disconn and sms112_smpp_unbind_oper all write it).
BeliefSound ==
  smppConnected /\ ~sendFailed /\ ~unbindHeard =>
    /\ g_iSock # NoSock
    /\ \/ bound[g_iSock]
       \/ sock[g_iSock] = "down"
       \/ \E i \in DOMAIN toCli[g_iSock] : toCli[g_iSock][i].cmd = "CLOSE"

\* An answer to DELIVER_SM or UNBIND leaves on the connection its request came
\* from, unless a request of the program's own had been given up or a send had
\* failed while the receiver was at work (sms112_smpp_deliver_sm_oper).
AnswersOwnSession == misrouted => gaveUp \/ sendFailed

\* Once the faults are over the server has the session bound on the socket in use
\* again and again, unless the program ends, for which one send on a broken
\* connection is enough (do_smpp_ping).
Available ==
  []<>(g_iStop \/ call.pc = "exit" \/ (g_iSock # NoSock /\ bound[g_iSock]))

\* After SIGTERM the program ends, whatever it is waiting for (do_smpp_ping, main).
StopExits == g_iStop ~> call.pc = "exit"

\* Once the ping thread runs, only SIGTERM and SIGINT end the program: a connection
\* that breaks is closed and made again, as the comments in do_smpp_ping say.
KeepsRunning == call.pc = "exit" => g_iStop \/ call.who = "main"

\* What the program itself decides never ends it once the ping thread runs: no
\* failure that socket, send or an answer reports, in any order, leads past the
\* loop of do_smpp_ping.  It ends at startup, after SIGTERM or SIGINT, or by the
\* SIGPIPE that sms112_tcp_send leaves to the system.
OnlySignalsEnd ==
  [][Running /\ call'.pc = "exit" => g_iStop \/ call.who = "main" \/ BrokenPipe]_vars

\* sms112_tcp_connect reports success only for an established connection, as its
\* description in the header and its own log line say.
ConnectedWhenReported ==
  [][call.pc = "connect" /\ tcpConnected' => sock'[g_iSock] = "up"]_vars

=============================================================================
