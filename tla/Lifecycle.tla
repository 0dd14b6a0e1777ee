----------------------------- MODULE Lifecycle -----------------------------
(***************************************************************************)
(* The life of the process: what main initialises and ends and in which    *)
(* order, which threads it starts, which of them it waits for, and who     *)
(* uses curl and SIP meanwhile: the receiver, which handles messages until *)
(* it is told to stop and which nobody waits for, the worker of pjsip, and *)
(* the handler of the debug signals, which the Makefile always builds in   *)
(* and which runs in main, the thread Linux prefers for a signal to the    *)
(* process.  Handlers that nest are left out.                              *)
(*                                                                         *)
(* What the threads do is the subject of the other modules; here each does *)
(* its work in steps that use one component.  A use of a component that is *)
(* not initialised yet, or no longer, is recorded in strays.               *)
(***************************************************************************)
EXTENDS Naturals, Sequences

VARIABLES
  main,         \* where main is
  handler,      \* where the handler of SIGUSR1 or SIGUSR2 is, in main
  receiver,     \* msg_receiver
  worker,       \* worker_thread of sms112_sip.cpp
  ping,         \* do_smpp_ping
  life,         \* component -> whether it is initialised
  registered,   \* the signals that have a handler
  g_iStop, g_bQuitFlag,
  \* history variables, no part of the program
  strays,       \* uses of a component outside its life
  wrongEnds     \* components ended that were not initialised

threads == <<handler, receiver, worker, ping>>
history == <<strays, wrongEnds>>
vars == <<main, threads, life, registered, g_iStop, g_bQuitFlag, history>>

\* "auth" is g_soAuthSess, which is filled when the worker already runs.
Components == {"curl", "sip", "auth", "socket"}

\* The signals in the order of their registration.
Signals == <<"TERM", "INT", "USR1", "USR2">>

\* The way of main through an execution in which nothing fails.
SignalsFirst ==
  <<"load_conf", "log", "curl_init", "reg_sig", "sip_init", "init_auth", "tcp_connect",
    "create_recvr", "smpp_connect", "create_ping", "join", "disconnect_smpp",
    "disconnect_tcp", "cleanup_sip", "join_worker", "cleanup_curl", "exit", "returned">>
Way ==
  <<"load_conf", "log", "curl_init", "sip_init", "init_auth", "reg_sig", "tcp_connect",
    "create_recvr", "smpp_connect", "create_ping", "join", "disconnect_smpp",
    "disconnect_tcp", "cleanup_sip", "join_worker", "cleanup_curl", "exit", "returned">>

TypeOK ==
  /\ main \in {Way[i] : i \in DOMAIN Way} \cup {"killed"}
  /\ handler \in {"none", "geodata", "geodata only", "sip"}
  /\ receiver \in {"none", "poll", "geodata", "sip", "report", "ended"}
  /\ worker \in {"none", "runs", "ended"}
  /\ ping \in {"none", "runs", "ended"}
  /\ life \in [Components -> {"none", "ready", "ended"}]
  /\ registered \subseteq {Signals[i] : i \in DOMAIN Signals}
  /\ g_iStop \in {0, 1} /\ g_bQuitFlag \in BOOLEAN
  /\ strays \subseteq [by : {"receiver", "worker", "handler"}, what : Components,
                       was : {"none", "ended"}]
  /\ wrongEnds \subseteq Components

-----------------------------------------------------------------------------
\* The small pieces.

Running == main \notin {"returned", "killed"}
At(pc) == main = pc /\ handler = "none"

Following(at) == Way[1 + CHOOSE i \in DOMAIN Way : Way[i] = at]

\* Where main goes when an initialisation has failed.  What it has done by then of its
\* own work stays as it is.
SkipsSip(at) == IF at \in {"reg_sig", "tcp_connect"} THEN "cleanup_curl" ELSE "exit"
AfterFailure(at) ==
  CASE at \in {"load_conf", "log"} -> "returned"
    [] at = "curl_init" -> "exit"
    [] at = "sip_init" -> "cleanup_curl"
    [] at \in {"reg_sig", "tcp_connect"} -> "cleanup_sip"
    [] at \in {"create_recvr", "smpp_connect"} -> "disconnect_tcp"
    [] at = "create_ping" -> "disconnect_smpp"

Initialised(c) == life' = [life EXCEPT ![c] = "ready"]

EndOf(c) ==
  /\ wrongEnds' = IF life[c] = "ready" THEN wrongEnds ELSE wrongEnds \cup {c}
  /\ life' = [life EXCEPT ![c] = "ended"]

Use(who, cs) ==
  strays' = strays \cup {[by |-> who, what |-> c, was |-> life[c]] :
                          c \in {x \in cs : life[x] # "ready"}}

\* sms112_sip_fini
NotTold == g_bQuitFlag
ToldToQuit == TRUE

-----------------------------------------------------------------------------
\* main: each initialisation succeeds or fails.

Fail(at) ==
  /\ At(at) /\ main' = AfterFailure(at)
  /\ UNCHANGED <<threads, life, registered, g_iStop, g_bQuitFlag, history>>

\* sms112_load_conf and the log.  A number that is none is an exception nobody catches.
Configure ==
  \/ \E at \in {"load_conf", "log"} :
       /\ At(at) /\ main' \in {Following(at), AfterFailure(at)}
       /\ UNCHANGED <<threads, life, registered, g_iStop, g_bQuitFlag, history>>
  \/ /\ At("load_conf") /\ main' = "killed"
     /\ UNCHANGED <<threads, life, registered, g_iStop, g_bQuitFlag, history>>

CurlInit ==
  \/ /\ At("curl_init") /\ main' = Following(main)
     /\ Initialised("curl")
     /\ UNCHANGED <<threads, registered, g_iStop, g_bQuitFlag, history>>
  \/ Fail("curl_init")

\* sms112_sip_init up to the worker, which is the last that can fail.
SipInit ==
  \/ /\ At("sip_init") /\ main' = Following(main)
     /\ Initialised("sip")
     /\ worker' = "runs"
     /\ UNCHANGED <<handler, receiver, ping, registered, g_iStop, g_bQuitFlag, history>>
  \/ Fail("sip_init")

InitAuth ==
  /\ At("init_auth") /\ main' = Following(main)
  /\ Initialised("auth")
  /\ UNCHANGED <<threads, registered, g_iStop, g_bQuitFlag, history>>

\* sms112_reg_sig stops at the first signal that cannot be registered.
RegSig ==
  /\ At("reg_sig")
  /\ \E n \in 0 .. Len(Signals) :
       /\ registered' = {Signals[i] : i \in 1 .. n}
       /\ main' = IF n = Len(Signals) THEN Following(main) ELSE AfterFailure(main)
  /\ UNCHANGED <<threads, life, g_iStop, g_bQuitFlag, history>>

TcpConnect ==
  \/ /\ At("tcp_connect") /\ main' = Following(main)
     /\ Initialised("socket")
     /\ UNCHANGED <<threads, registered, g_iStop, g_bQuitFlag, history>>
  \/ Fail("tcp_connect")

CreateReceiver ==
  \/ /\ At("create_recvr") /\ main' = Following(main)
     /\ receiver' = "poll"
     /\ UNCHANGED <<handler, worker, ping, life, registered, g_iStop, g_bQuitFlag, history>>
  \/ Fail("create_recvr")

SmppConnect ==
  \/ /\ At("smpp_connect") /\ main' = Following(main)
     /\ UNCHANGED <<threads, life, registered, g_iStop, g_bQuitFlag, history>>
  \/ Fail("smpp_connect")

CreatePing ==
  \/ /\ At("create_ping") /\ main' = Following(main)
     /\ ping' = "runs"
     /\ UNCHANGED <<handler, receiver, worker, life, registered, g_iStop, g_bQuitFlag, history>>
  \/ Fail("create_ping")

JoinPing ==
  /\ At("join") /\ ping = "ended"
  /\ main' = Following(main)
  /\ UNCHANGED <<threads, life, registered, g_iStop, g_bQuitFlag, history>>

\* sms112_smpp_disconn, whatever comes of it.
DisconnectSmpp ==
  /\ At("disconnect_smpp") /\ main' = Following(main)
  /\ UNCHANGED <<threads, life, registered, g_iStop, g_bQuitFlag, history>>

DisconnectTcp ==
  /\ At("disconnect_tcp") /\ main' = Following(main)
  /\ EndOf("socket")
  /\ UNCHANGED <<threads, registered, g_iStop, g_bQuitFlag, strays>>

SipFini ==
  /\ At("cleanup_sip") /\ main' = Following(main)
  /\ g_bQuitFlag' = ToldToQuit
  /\ UNCHANGED <<threads, life, registered, g_iStop, history>>

\* pj_thread_join
JoinWorker ==
  /\ At("join_worker") /\ worker = "ended"
  /\ main' = Following(main)
  /\ EndOf("sip")
  /\ UNCHANGED <<threads, registered, g_iStop, g_bQuitFlag, strays>>

CurlFini ==
  /\ At("cleanup_curl") /\ main' = Following(main)
  /\ EndOf("curl")
  /\ UNCHANGED <<threads, registered, g_iStop, g_bQuitFlag, strays>>

\* Flush, and return 0 whatever has happened.
Exit ==
  /\ At("exit") /\ main' = Following(main)
  /\ UNCHANGED <<threads, life, registered, g_iStop, g_bQuitFlag, history>>

-----------------------------------------------------------------------------
\* The other threads.

\* msg_receiver: a message, if one is there, and then the next look at g_iStop.
ReceiverPoll ==
  /\ Running /\ receiver = "poll"
  /\ receiver' = IF g_iStop = 0 THEN "geodata" ELSE "ended"
  /\ UNCHANGED <<main, handler, worker, ping, life, registered, g_iStop, g_bQuitFlag, history>>

\* Handling DELIVER_SM.
ReceiverWorks ==
  /\ Running
  /\ \/ receiver = "geodata" /\ Use("receiver", {"curl"}) /\ receiver' \in {"sip", "report"}
     \/ receiver = "sip" /\ Use("receiver", {"sip"}) /\ receiver' = "report"
     \/ receiver = "report" /\ Use("receiver", {"curl"}) /\ receiver' = "poll"
  /\ UNCHANGED <<main, handler, worker, ping, life, registered, g_iStop, g_bQuitFlag, wrongEnds>>

\* The worker handles a message of a call that is under way, maybe a challenge.
WorkerHandles ==
  /\ Running /\ worker = "runs"
  /\ receiver = "sip" \/ handler = "sip"
  /\ Use("worker", {"sip", "auth"})
  /\ UNCHANGED <<main, threads, life, registered, g_iStop, g_bQuitFlag, wrongEnds>>

WorkerEnds ==
  /\ Running /\ worker = "runs" /\ g_bQuitFlag
  /\ worker' = "ended"
  /\ UNCHANGED <<main, handler, receiver, ping, life, registered, g_iStop, g_bQuitFlag, history>>

\* The ping thread ends for a signal; a mutex that cannot be initialised or locked ends it
\* at once.
PingEnds ==
  /\ Running /\ ping = "runs"
  /\ ping' = "ended"
  /\ UNCHANGED <<main, handler, receiver, worker, life, registered, g_iStop, g_bQuitFlag, history>>

-----------------------------------------------------------------------------
\* Signals: sig_oper, or the end of the process if the signal is not registered.

Counted == g_iStop + 1
Flagged == 1
Stop(s) ==
  /\ Running /\ s \in registered \cap {"TERM", "INT"}
  /\ g_iStop' = Flagged
  /\ UNCHANGED <<main, threads, life, registered, g_bQuitFlag, history>>

Debug(s) ==
  /\ Running /\ s \in registered \cap {"USR1", "USR2"} /\ handler = "none"
  /\ handler' = IF s = "USR1" THEN "geodata only" ELSE "geodata"
  /\ UNCHANGED <<main, receiver, worker, ping, life, registered, g_iStop, g_bQuitFlag, history>>

Kill(s) ==
  /\ Running /\ s \notin registered
  /\ main' = "killed"
  /\ UNCHANGED <<threads, life, registered, g_iStop, g_bQuitFlag, history>>

\* The request for the location, for which main waits without a timeout ...
HandlerAsks ==
  /\ Running
  /\ \/ handler = "geodata only" /\ handler' = "none"
     \/ handler = "geodata" /\ handler' = "sip"
  /\ Use("handler", {"curl"})
  /\ UNCHANGED <<main, receiver, worker, ping, life, registered, g_iStop, g_bQuitFlag, wrongEnds>>

\* ... and for SIGUSR2 a call, whatever came of it.
HandlerCalls ==
  /\ Running /\ handler = "sip"
  /\ Use("handler", {"sip"})
  /\ handler' = "none"
  /\ UNCHANGED <<main, receiver, worker, ping, life, registered, g_iStop, g_bQuitFlag, wrongEnds>>

-----------------------------------------------------------------------------
Init ==
  /\ main = "load_conf"
  /\ handler = "none" /\ receiver = "none" /\ worker = "none" /\ ping = "none"
  /\ life = [c \in Components |-> "none"]
  /\ registered = {}
  /\ g_iStop = 0 /\ g_bQuitFlag = FALSE
  /\ strays = {} /\ wrongEnds = {}

Main ==
  \/ Configure \/ CurlInit \/ SipInit \/ InitAuth \/ RegSig \/ TcpConnect \/ CreateReceiver
  \/ SmppConnect \/ CreatePing \/ JoinPing \/ DisconnectSmpp \/ DisconnectTcp \/ SipFini
  \/ JoinWorker \/ CurlFini \/ Exit

Receiver == ReceiverPoll \/ ReceiverWorks

Signal == \E i \in DOMAIN Signals : Stop(Signals[i]) \/ Debug(Signals[i]) \/ Kill(Signals[i])

HandlerWorks == HandlerAsks \/ HandlerCalls

Next == Main \/ Receiver \/ WorkerHandles \/ WorkerEnds \/ PingEnds \/ HandlerWorks \/ Signal

Spec == Init /\ [][Next]_vars

\* The threads are scheduled, a debug call ends (SipCall) and so does ping after a signal
\* (PingTimer); however many debug signals come, they leave main time to go on.  A request
\* for a location need not end: sms112_curl_perf_request sets no timeout.
FairSpec ==
  /\ Spec
  /\ SF_vars(Main) /\ WF_vars(WorkerEnds) /\ WF_vars(HandlerCalls)
  /\ WF_vars(g_iStop = 1 /\ PingEnds)

-----------------------------------------------------------------------------
\* Properties.

\* Nothing is used before it is initialised, by none of the threads and by no signal at
\* any time; and the worker, which main waits for, uses nothing after its end.  The
\* receiver and a debug signal do: curl and SIP can be gone while they use them (main,
\* msg_receiver, sig_oper).
StraysAreLate ==
  \A u \in strays : u.was = "ended" /\ u.by \in {"receiver", "handler"}

\* Wherever an initialisation fails, what was initialised before it is ended, once, and
\* nothing else is (main).
EndsWhatItBegan ==
  /\ wrongEnds = {}
  /\ main = "returned" => \A c \in Components \ {"auth"} : life[c] # "ready"

\* Once a signal asked for it, or main has begun to clean up, the process ends, whatever
\* the receiver is doing, unless a debug signal leaves main waiting for the location server
\* for ever (main, sig_oper, sms112_sip_fini).
CleansUp ==
  main \in {"disconnect_smpp", "disconnect_tcp", "cleanup_sip", "join_worker", "cleanup_curl"}
HandlerHangs == handler \in {"geodata", "geodata only"}
ProcessEnds == ((g_iStop = 1 \/ CleansUp) ~> ~Running) \/ <>[]HandlerHangs
=============================================================================
