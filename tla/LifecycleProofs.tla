-------------------------- MODULE LifecycleProofs --------------------------
(***************************************************************************)
(* Lifecycle: nothing is used before its beginning, only the receiver and  *)
(* a debug signal use something after its end, and what was begun is ended *)
(* wherever an initialisation fails.                                       *)
(*                                                                         *)
(* The inductive invariant says which components are ready at each place   *)
(* of main, and what a thread or a handler that exists can rely on.        *)
(***************************************************************************)
EXTENDS Lifecycle, TLAPS

\* The places of main at which a component is not initialised yet, and is ready.
BeforeCurl == {"load_conf", "log", "curl_init"}
BeforeSip == BeforeCurl \cup {"sip_init"}
BeforeAuth == BeforeSip \cup {"init_auth"}
BeforeSocket == BeforeAuth \cup {"reg_sig", "tcp_connect"}
DuringSocket == {"create_recvr", "smpp_connect", "create_ping", "join", "disconnect_smpp",
                 "disconnect_tcp"}
DuringAuth == DuringSocket \cup {"reg_sig", "tcp_connect", "cleanup_sip", "join_worker"}
DuringSip == DuringAuth \cup {"init_auth"}
DuringCurl == DuringSip \cup {"sip_init", "cleanup_curl"}

\* What main has initialised and not ended, by the place where it is.
LifeInv ==
  main # "killed" =>
    /\ main \in BeforeCurl => life["curl"] = "none"
    /\ main \in BeforeSip => life["sip"] = "none"
    /\ main \in BeforeAuth => life["auth"] = "none"
    /\ main \in BeforeSocket => life["socket"] = "none"
    /\ main \in DuringAuth => life["auth"] = "ready"
    /\ life["curl"] = "ready" <=> main \in DuringCurl
    /\ life["sip"] = "ready" <=> main \in DuringSip
    /\ life["socket"] = "ready" <=> main \in DuringSocket

\* What a handler that is registered and a receiver that runs find.
UsersInv ==
  /\ registered # {} \/ handler # "none" \/ receiver # "none" =>
       life["curl"] # "none" /\ life["sip"] # "none" /\ life["auth"] = "ready"
  /\ worker = "runs" => life["sip"] = "ready"
  /\ life["auth"] # "ended"

IInv == TypeOK /\ LifeInv /\ UsersInv /\ StraysAreLate /\ wrongEnds = {}

-----------------------------------------------------------------------------
\* The way of main.

Place == {Way[i] : i \in DOMAIN Way}

LEMMA WayIsLong == DOMAIN Way = 1 .. 18
  BY SMT DEF Way

\* No place comes twice.
LEMMA PlacesDiffer == \A i, j \in DOMAIN Way : Way[i] = Way[j] => i = j
  BY SMT DEF Way

LEMMA FollowingIsNext ==
  ASSUME NEW i \in DOMAIN Way
  PROVE  Following(Way[i]) = Way[1 + i]
<1>1. (CHOOSE j \in DOMAIN Way : Way[j] = Way[i]) = i
  BY PlacesDiffer, Zenon
<1> QED
  BY <1>1, Zenon DEF Following

LEMMA TheWay ==
  /\ Following("load_conf") = "log"           /\ Following("log") = "curl_init"
  /\ Following("curl_init") = "sip_init"      /\ Following("sip_init") = "init_auth"
  /\ Following("init_auth") = "reg_sig"       /\ Following("reg_sig") = "tcp_connect"
  /\ Following("tcp_connect") = "create_recvr"
  /\ Following("create_recvr") = "smpp_connect"
  /\ Following("smpp_connect") = "create_ping"
  /\ Following("create_ping") = "join"        /\ Following("join") = "disconnect_smpp"
  /\ Following("disconnect_smpp") = "disconnect_tcp"
  /\ Following("disconnect_tcp") = "cleanup_sip"
  /\ Following("cleanup_sip") = "join_worker" /\ Following("join_worker") = "cleanup_curl"
  /\ Following("cleanup_curl") = "exit"       /\ Following("exit") = "returned"
<1>1. \A i \in 1 .. 17 : Following(Way[i]) = Way[1 + i]
  BY FollowingIsNext, WayIsLong, SMT
<1> QED
  BY <1>1, SMT DEF Way

LEMMA Places ==
  {Way[i] : i \in DOMAIN Way} =
    {"load_conf", "log", "curl_init", "sip_init", "init_auth", "reg_sig", "tcp_connect",
     "create_recvr", "smpp_connect", "create_ping", "join", "disconnect_smpp",
     "disconnect_tcp", "cleanup_sip", "join_worker", "cleanup_curl", "exit", "returned"}
<1>1. \A i \in 1 .. 18 : i = 1 \/ i = 2 \/ i = 3 \/ i = 4 \/ i = 5 \/ i = 6 \/ i = 7 \/ i = 8
        \/ i = 9 \/ i = 10 \/ i = 11 \/ i = 12 \/ i = 13 \/ i = 14 \/ i = 15 \/ i = 16
        \/ i = 17 \/ i = 18
  BY SMT
<1> QED
  BY <1>1, WayIsLong, SMT DEF Way

-----------------------------------------------------------------------------
\* What a use of components leaves in strays: nothing, if they are ready, and otherwise
\* only what the receiver or the handler uses after its end.
LEMMA UseOfReady ==
  ASSUME NEW who, NEW cs, Use(who, cs), \A c \in cs : life[c] = "ready"
  PROVE  strays' = strays
  BY SMT DEF Use

LEMMA UseRecords ==
  ASSUME NEW who, NEW cs, Use(who, cs), NEW u \in strays', u \notin strays
  PROVE  \E c \in cs : life[c] # "ready" /\ u = [by |-> who, what |-> c, was |-> life[c]]
  BY Zenon DEF Use

Stray == [by : {"receiver", "worker", "handler"}, what : Components, was : {"none", "ended"}]

LEMMA LateUse ==
  ASSUME life \in [Components -> {"none", "ready", "ended"}],
         strays \subseteq Stray, StraysAreLate,
         NEW who \in {"receiver", "handler"}, NEW c \in Components,
         Use(who, {c}), life[c] # "none"
  PROVE  strays' \subseteq Stray /\ StraysAreLate'
<1>1. ASSUME NEW u \in strays', u \notin strays
      PROVE  u \in Stray /\ u.was = "ended" /\ u.by \in {"receiver", "handler"}
  <2>1. \E d \in {c} : life[d] # "ready" /\ u = [by |-> who, what |-> d, was |-> life[d]]
    BY <1>1, UseRecords
  <2>2. life[c] # "ready" /\ u = [by |-> who, what |-> c, was |-> life[c]]
    BY <2>1, SMT
  <2>3. life[c] = "ended"
    BY <2>2, SMT DEF Components
  <2> QED
    BY <2>2, <2>3, SMT DEF Stray
<1> QED
  BY <1>1, Zenon DEF StraysAreLate

\* What an initialisation or an end makes of the components.
LEMMA LifeSet ==
  ASSUME life \in [Components -> {"none", "ready", "ended"}],
         NEW c \in Components, NEW v \in {"none", "ready", "ended"},
         life' = [life EXCEPT ![c] = v]
  PROVE  /\ life' \in [Components -> {"none", "ready", "ended"}]
         /\ life'[c] = v
         /\ \A d \in Components \ {c} : life'[d] = life[d]
  BY Zenon

-----------------------------------------------------------------------------
\* The kinds of steps.

\* main goes on, and maybe tells the worker to quit.
LEMMA MainGoesOn ==
  ASSUME IInv, main' \in Place \cup {"killed"}, LifeInv', g_bQuitFlag' \in BOOLEAN,
         UNCHANGED <<threads, life, registered, g_iStop, history>>
  PROVE  IInv'
<1>0. /\ handler' = handler /\ receiver' = receiver /\ worker' = worker /\ ping' = ping
      /\ life' = life /\ registered' = registered /\ g_iStop' = g_iStop
      /\ strays' = strays /\ wrongEnds' = wrongEnds
  BY SMT DEF threads, history
<1>1. TypeOK'
  BY <1>0, Zenon DEF IInv, TypeOK, Place
<1>2. UsersInv' /\ StraysAreLate' /\ wrongEnds' = {}
  BY <1>0, Zenon DEF IInv, UsersInv, StraysAreLate
<1> QED
  BY <1>1, <1>2, Zenon DEF IInv

\* main initialises a component; with SIP it starts the worker.
LEMMA MainBegins ==
  ASSUME IInv, main' \in Place, LifeInv', NEW c \in Components, Initialised(c),
         UNCHANGED <<handler, receiver, ping, registered, g_iStop, g_bQuitFlag, history>>,
         worker' = worker \/ (c = "sip" /\ worker' = "runs")
  PROVE  IInv'
<1>0. /\ handler' = handler /\ receiver' = receiver /\ ping' = ping
      /\ registered' = registered /\ g_iStop' = g_iStop /\ g_bQuitFlag' = g_bQuitFlag
      /\ strays' = strays /\ wrongEnds' = wrongEnds
  BY SMT DEF history
<1>1. life \in [Components -> {"none", "ready", "ended"}]
  BY Zenon DEF IInv, TypeOK
<1>2. /\ life' \in [Components -> {"none", "ready", "ended"}]
      /\ life'[c] = "ready"
      /\ \A d \in Components \ {c} : life'[d] = life[d]
  BY <1>1, LifeSet, Zenon DEF Initialised
<1>3. worker' \in {"none", "runs", "ended"}
  BY Zenon DEF IInv, TypeOK
<1>4. TypeOK'
  BY <1>0, <1>2, <1>3, Zenon DEF IInv, TypeOK, Place
<1>5. UsersInv'
  <2>1. \A d \in Components : life'[d] = life[d] \/ (d = c /\ life'[d] = "ready")
    BY <1>2, Zenon
  <2>2. UsersInv
    BY Zenon DEF IInv
  <2>3. worker' = "runs" => worker = "runs" \/ life'["sip"] = "ready"
    BY <1>2, Zenon
  <2> QED
    BY <1>0, <2>1, <2>2, <2>3, SMT DEF UsersInv, Components
<1>6. StraysAreLate' /\ wrongEnds' = {}
  BY <1>0, Zenon DEF IInv, StraysAreLate
<1> QED
  BY <1>4, <1>5, <1>6, Zenon DEF IInv

\* main ends a component that is ready, SIP only after the worker.
LEMMA MainEnds ==
  ASSUME IInv, main' \in Place, LifeInv', NEW c \in Components \ {"auth"}, EndOf(c),
         life[c] = "ready", c = "sip" => worker = "ended",
         UNCHANGED <<threads, registered, g_iStop, g_bQuitFlag, strays>>
  PROVE  IInv'
<1>0. /\ handler' = handler /\ receiver' = receiver /\ worker' = worker /\ ping' = ping
      /\ registered' = registered /\ g_iStop' = g_iStop /\ g_bQuitFlag' = g_bQuitFlag
      /\ strays' = strays /\ wrongEnds' = wrongEnds
  BY Zenon DEF threads, EndOf
<1>1. life \in [Components -> {"none", "ready", "ended"}]
  BY Zenon DEF IInv, TypeOK
<1>2. /\ life' \in [Components -> {"none", "ready", "ended"}]
      /\ life'[c] = "ended"
      /\ \A d \in Components \ {c} : life'[d] = life[d]
  BY <1>1, LifeSet, Zenon DEF EndOf
<1>3. TypeOK'
  BY <1>0, <1>2, Zenon DEF IInv, TypeOK, Place
<1>4. UsersInv'
  <2>1. \A d \in Components : life'[d] = life[d] \/ (d = c /\ life'[d] = "ended")
    BY <1>2, Zenon
  <2>2. UsersInv
    BY Zenon DEF IInv
  <2> QED
    BY <1>0, <2>1, <2>2, SMT DEF UsersInv, Components
<1>5. StraysAreLate' /\ wrongEnds' = {}
  BY <1>0, Zenon DEF IInv, StraysAreLate
<1> QED
  BY <1>3, <1>4, <1>5, Zenon DEF IInv

\* A thread or a signal does something, and main and what it has initialised stays.
LEMMA OthersGoOn ==
  ASSUME IInv, UNCHANGED <<main, life, registered, wrongEnds>>,
         handler' \in {"none", "geodata", "geodata only", "sip"},
         handler' = "none" \/ handler # "none" \/ registered # {},
         receiver' \in {"none", "poll", "geodata", "sip", "report", "ended"},
         receiver' = receiver \/ receiver # "none",
         worker' = worker \/ worker' = "ended",
         ping' = ping \/ ping' = "ended",
         g_iStop' \in {0, 1}, g_bQuitFlag' = g_bQuitFlag,
         strays' \subseteq Stray, StraysAreLate'
  PROVE  IInv'
<1>1. TypeOK'
  BY Zenon DEF IInv, TypeOK, Stray
<1>2. LifeInv'
  BY Zenon DEF IInv, LifeInv
<1>3. UsersInv'
  <2>1. UsersInv
    BY Zenon DEF IInv
  <2>2. registered # {} \/ handler # "none" \/ receiver # "none" =>
          life["curl"] # "none" /\ life["sip"] # "none" /\ life["auth"] = "ready"
    BY <2>1, Zenon DEF UsersInv
  <2>3. worker = "runs" => life["sip"] = "ready"
    BY <2>1, Zenon DEF UsersInv
  <2>4. life["auth"] # "ended"
    BY <2>1, Zenon DEF UsersInv
  <2>5. registered' # {} \/ handler' # "none" \/ receiver' # "none" =>
          registered # {} \/ handler # "none" \/ receiver # "none"
    BY Zenon
  <2>6. worker' = "runs" => worker = "runs"
    BY Zenon
  <2>7. life' = life
    OBVIOUS
  <2> QED
    BY <2>2, <2>3, <2>4, <2>5, <2>6, <2>7, Zenon DEF UsersInv
<1>4. wrongEnds' = {}
  BY Zenon DEF IInv
<1> QED
  BY <1>1, <1>2, <1>3, <1>4, Zenon DEF IInv

-----------------------------------------------------------------------------
\* The steps of main.

LEMMA IsPlace ==
  \A p \in {"load_conf", "log", "curl_init", "sip_init", "init_auth", "reg_sig", "tcp_connect",
            "create_recvr", "smpp_connect", "create_ping", "join", "disconnect_smpp",
            "disconnect_tcp", "cleanup_sip", "join_worker", "cleanup_curl", "exit", "returned"} :
     p \in Place
  BY Places, Zenon DEF Place

LEMMA Types ==
  ASSUME IInv
  PROVE  /\ life \in [Components -> {"none", "ready", "ended"}]
         /\ strays \subseteq Stray /\ StraysAreLate
         /\ g_bQuitFlag \in BOOLEAN /\ g_iStop \in {0, 1}
         /\ handler \in {"none", "geodata", "geodata only", "sip"}
         /\ receiver \in {"none", "poll", "geodata", "sip", "report", "ended"}
         /\ worker \in {"none", "runs", "ended"} /\ ping \in {"none", "runs", "ended"}
  BY Zenon DEF IInv, TypeOK, Stray

\* The steps of main that leave the components as they are.
Passage ==
  {<<"load_conf", "log">>, <<"load_conf", "returned">>, <<"log", "curl_init">>,
   <<"log", "returned">>, <<"curl_init", "exit">>, <<"sip_init", "cleanup_curl">>,
   <<"reg_sig", "tcp_connect">>, <<"reg_sig", "cleanup_sip">>, <<"tcp_connect", "cleanup_sip">>,
   <<"create_recvr", "smpp_connect">>, <<"create_recvr", "disconnect_tcp">>,
   <<"smpp_connect", "create_ping">>, <<"smpp_connect", "disconnect_tcp">>,
   <<"create_ping", "join">>, <<"create_ping", "disconnect_smpp">>,
   <<"join", "disconnect_smpp">>, <<"disconnect_smpp", "disconnect_tcp">>,
   <<"cleanup_sip", "join_worker">>, <<"exit", "returned">>}

LEMMA MainPasses ==
  ASSUME IInv, <<main, main'>> \in Passage, life' = life
  PROVE  main' \in Place /\ LifeInv'
<1>1. main' \in Place
  <2>1. main' \in {"log", "curl_init", "returned", "exit", "cleanup_curl", "tcp_connect",
                   "cleanup_sip", "smpp_connect", "disconnect_tcp", "create_ping", "join",
                   "disconnect_smpp", "join_worker"}
    BY SMT DEF Passage
  <2> QED
    BY <2>1, IsPlace, Zenon
<1>2. LifeInv'
  BY SMT DEF IInv, LifeInv, Passage, BeforeCurl, BeforeSip, BeforeAuth, BeforeSocket,
             DuringCurl, DuringSip, DuringAuth, DuringSocket
<1> QED
  BY <1>1, <1>2

LEMMA PassageStep ==
  ASSUME IInv, <<main, main'>> \in Passage, g_bQuitFlag' \in BOOLEAN,
         UNCHANGED <<threads, life, registered, g_iStop, history>>
  PROVE  IInv'
<1>1. main' \in Place /\ LifeInv'
  BY MainPasses, Zenon
<1> QED
  BY <1>1, MainGoesOn, Zenon

LEMMA FailStep ==
  ASSUME IInv, NEW at \in {"curl_init", "sip_init", "tcp_connect", "create_recvr",
                           "smpp_connect", "create_ping"}, Fail(at)
  PROVE  IInv'
<1>1. main = at /\ main' = AfterFailure(at)
  BY Zenon DEF Fail, At
<1>2. <<main, main'>> \in Passage
  BY <1>1, SMT DEF AfterFailure, Passage
<1>3. g_bQuitFlag' \in BOOLEAN /\ UNCHANGED <<threads, life, registered, g_iStop, history>>
  BY Types, Zenon DEF Fail
<1> QED
  BY <1>2, <1>3, PassageStep, Zenon

LEMMA ConfigureStep == ASSUME IInv, Configure PROVE IInv'
<1>1. CASE main' = "killed"
  <2>1. LifeInv'
    BY <1>1, Zenon DEF LifeInv
  <2>2. UNCHANGED <<threads, life, registered, g_iStop, history>> /\ g_bQuitFlag' \in BOOLEAN
    BY Types, Zenon DEF Configure
  <2> QED
    BY <1>1, <2>1, <2>2, MainGoesOn, Zenon
<1>2. CASE main' # "killed"
  <2>1. PICK at \in {"load_conf", "log"} :
          /\ At(at) /\ main' \in {Following(at), AfterFailure(at)}
          /\ UNCHANGED <<threads, life, registered, g_iStop, g_bQuitFlag, history>>
    BY <1>2, Zenon DEF Configure
  <2>2. <<main, main'>> \in Passage
    BY <2>1, TheWay, SMT DEF At, AfterFailure, Passage
  <2>3. UNCHANGED <<threads, life, registered, g_iStop, history>> /\ g_bQuitFlag' \in BOOLEAN
    BY <2>1, Types, Zenon
  <2> QED
    BY <2>2, <2>3, PassageStep, Zenon
<1> QED
  BY <1>1, <1>2

LEMMA KillStep == ASSUME IInv, NEW s, Kill(s) PROVE IInv'
<1>1. LifeInv'
  BY Zenon DEF LifeInv, Kill
<1>2. /\ UNCHANGED <<threads, life, registered, g_iStop, history>> /\ g_bQuitFlag' \in BOOLEAN
      /\ main' = "killed"
  BY Types, Zenon DEF Kill
<1> QED
  BY <1>1, <1>2, MainGoesOn, Zenon

LEMMA JoinPingStep == ASSUME IInv, JoinPing PROVE IInv'
<1>1. <<main, main'>> \in Passage
  BY TheWay, SMT DEF JoinPing, At, Passage
<1>2. UNCHANGED <<threads, life, registered, g_iStop, history>> /\ g_bQuitFlag' \in BOOLEAN
  BY Types, Zenon DEF JoinPing
<1> QED
  BY <1>1, <1>2, PassageStep, Zenon

LEMMA DisconnectSmppStep == ASSUME IInv, DisconnectSmpp PROVE IInv'
<1>1. <<main, main'>> \in Passage
  BY TheWay, SMT DEF DisconnectSmpp, At, Passage
<1>2. UNCHANGED <<threads, life, registered, g_iStop, history>> /\ g_bQuitFlag' \in BOOLEAN
  BY Types, Zenon DEF DisconnectSmpp
<1> QED
  BY <1>1, <1>2, PassageStep, Zenon

LEMMA SipFiniStep == ASSUME IInv, SipFini PROVE IInv'
<1>1. <<main, main'>> \in Passage
  BY TheWay, SMT DEF SipFini, At, Passage
<1>2. UNCHANGED <<threads, life, registered, g_iStop, history>> /\ g_bQuitFlag' \in BOOLEAN
  BY Types, Zenon DEF SipFini, ToldToQuit
<1> QED
  BY <1>1, <1>2, PassageStep, Zenon

LEMMA ExitStep == ASSUME IInv, Exit PROVE IInv'
<1>1. <<main, main'>> \in Passage
  BY TheWay, SMT DEF Exit, At, Passage
<1>2. UNCHANGED <<threads, life, registered, g_iStop, history>> /\ g_bQuitFlag' \in BOOLEAN
  BY Types, Zenon DEF Exit
<1> QED
  BY <1>1, <1>2, PassageStep, Zenon

LEMMA SmppConnectStep == ASSUME IInv, SmppConnect PROVE IInv'
<1>1. CASE Fail("smpp_connect")
  BY <1>1, FailStep, Zenon
<1>2. CASE ~Fail("smpp_connect")
  <2>1. <<main, main'>> \in Passage
    BY <1>2, TheWay, SMT DEF SmppConnect, At, Passage
  <2>2. UNCHANGED <<threads, life, registered, g_iStop, history>> /\ g_bQuitFlag' \in BOOLEAN
    BY <1>2, Types, Zenon DEF SmppConnect
  <2> QED
    BY <2>1, <2>2, PassageStep, Zenon
<1> QED
  BY <1>1, <1>2

\* main registers the signals, or creates a thread, when all is ready that they use.
LEMMA MainStarts ==
  ASSUME IInv, <<main, main'>> \in Passage, main \in {"reg_sig", "create_recvr", "create_ping"},
         registered' \subseteq {Signals[i] : i \in DOMAIN Signals},
         receiver' \in {receiver, "poll"}, ping' \in {ping, "runs"},
         UNCHANGED <<handler, worker, life, g_iStop, g_bQuitFlag, history>>
  PROVE  IInv'
<1>0. /\ handler' = handler /\ worker' = worker /\ life' = life /\ g_iStop' = g_iStop
      /\ g_bQuitFlag' = g_bQuitFlag /\ strays' = strays /\ wrongEnds' = wrongEnds
  BY Zenon DEF history
<1>1. main' \in Place /\ LifeInv'
  BY <1>0, MainPasses, Zenon
<1>2. TypeOK'
  <2>1. receiver' \in {"none", "poll", "geodata", "sip", "report", "ended"}
    BY Types, Zenon
  <2>2. ping' \in {"none", "runs", "ended"}
    BY Types, Zenon
  <2> QED
    BY <1>0, <1>1, <2>1, <2>2, Zenon DEF IInv, TypeOK, Place
<1>3. UsersInv'
  <2>1. LifeInv /\ UsersInv
    BY Zenon DEF IInv
  <2>2. life["curl"] = "ready" /\ life["sip"] = "ready" /\ life["auth"] = "ready"
    BY <2>1, SMT DEF LifeInv, DuringCurl, DuringSip, DuringAuth, DuringSocket
  <2> QED
    BY <1>0, <2>1, <2>2, SMT DEF UsersInv
<1>4. StraysAreLate' /\ wrongEnds' = {}
  BY <1>0, Zenon DEF IInv, StraysAreLate
<1> QED
  BY <1>1, <1>2, <1>3, <1>4, Zenon DEF IInv

LEMMA RegSigStep == ASSUME IInv, RegSig PROVE IInv'
<1>1. main = "reg_sig" /\ <<main, main'>> \in Passage
  BY TheWay, SMT DEF RegSig, At, AfterFailure, Passage
<1>2. registered' \subseteq {Signals[i] : i \in DOMAIN Signals}
  BY SMT DEF RegSig, Signals
<1>3. UNCHANGED <<handler, receiver, worker, ping, life, g_iStop, g_bQuitFlag, history>>
  BY Zenon DEF RegSig, threads
<1> QED
  BY <1>1, <1>2, <1>3, MainStarts, Zenon

LEMMA CreateReceiverStep == ASSUME IInv, CreateReceiver PROVE IInv'
<1>1. CASE Fail("create_recvr")
  BY <1>1, FailStep, Zenon
<1>2. CASE ~Fail("create_recvr")
  <2>1. main = "create_recvr" /\ <<main, main'>> \in Passage
    BY <1>2, TheWay, SMT DEF CreateReceiver, At, Passage
  <2>2. /\ receiver' \in {receiver, "poll"} /\ ping' \in {ping, "runs"}
        /\ registered' \subseteq {Signals[i] : i \in DOMAIN Signals}
        /\ UNCHANGED <<handler, worker, life, g_iStop, g_bQuitFlag, history>>
    BY <1>2, Zenon DEF CreateReceiver, IInv, TypeOK
  <2> QED
    BY <2>1, <2>2, MainStarts, Zenon
<1> QED
  BY <1>1, <1>2

LEMMA CreatePingStep == ASSUME IInv, CreatePing PROVE IInv'
<1>1. CASE Fail("create_ping")
  BY <1>1, FailStep, Zenon
<1>2. CASE ~Fail("create_ping")
  <2>1. main = "create_ping" /\ <<main, main'>> \in Passage
    BY <1>2, TheWay, SMT DEF CreatePing, At, Passage
  <2>2. /\ receiver' \in {receiver, "poll"} /\ ping' \in {ping, "runs"}
        /\ registered' \subseteq {Signals[i] : i \in DOMAIN Signals}
        /\ UNCHANGED <<handler, worker, life, g_iStop, g_bQuitFlag, history>>
    BY <1>2, Zenon DEF CreatePing, IInv, TypeOK
  <2> QED
    BY <2>1, <2>2, MainStarts, Zenon
<1> QED
  BY <1>1, <1>2

\* What a component becomes, and that the others stay.
LEMMA LifeAt ==
  ASSUME IInv, NEW c \in Components, NEW v \in {"none", "ready", "ended"},
         life' = [life EXCEPT ![c] = v]
  PROVE  life'[c] = v /\ \A d \in Components \ {c} : life'[d] = life[d]
  BY Types, LifeSet, Zenon

LEMMA CurlInitStep == ASSUME IInv, CurlInit PROVE IInv'
<1>1. CASE Fail("curl_init")
  BY <1>1, FailStep, Zenon
<1>2. CASE ~Fail("curl_init")
  <2>1. main = "curl_init" /\ main' = "sip_init"
    BY <1>2, TheWay, SMT DEF CurlInit, At
  <2>2. /\ Initialised("curl") /\ worker' \in {worker}
      /\ UNCHANGED <<handler, receiver, ping, registered, g_iStop, g_bQuitFlag, history>>
    BY <1>2, Zenon DEF CurlInit, threads
  <2>3. life'["curl"] = "ready" /\ \A d \in Components \ {"curl"} : life'[d] = life[d]
    BY <2>2, LifeAt, SMT DEF Initialised, Components
  <2>4. LifeInv'
    BY <2>1, <2>3, SMT DEF IInv, LifeInv, Components, BeforeCurl, BeforeSip, BeforeAuth,
       BeforeSocket, DuringCurl, DuringSip, DuringAuth, DuringSocket
  <2>5. main' \in Place
    BY <2>1, IsPlace, Zenon
  <2> QED
    BY <2>2, <2>4, <2>5, MainBegins, SMT DEF Components
<1> QED
  BY <1>1, <1>2

LEMMA SipInitStep == ASSUME IInv, SipInit PROVE IInv'
<1>1. CASE Fail("sip_init")
  BY <1>1, FailStep, Zenon
<1>2. CASE ~Fail("sip_init")
  <2>1. main = "sip_init" /\ main' = "init_auth"
    BY <1>2, TheWay, SMT DEF SipInit, At
  <2>2. /\ Initialised("sip") /\ worker' \in {"runs"}
      /\ UNCHANGED <<handler, receiver, ping, registered, g_iStop, g_bQuitFlag, history>>
    BY <1>2, Zenon DEF SipInit, threads
  <2>3. life'["sip"] = "ready" /\ \A d \in Components \ {"sip"} : life'[d] = life[d]
    BY <2>2, LifeAt, SMT DEF Initialised, Components
  <2>4. LifeInv'
    BY <2>1, <2>3, SMT DEF IInv, LifeInv, Components, BeforeCurl, BeforeSip, BeforeAuth,
       BeforeSocket, DuringCurl, DuringSip, DuringAuth, DuringSocket
  <2>5. main' \in Place
    BY <2>1, IsPlace, Zenon
  <2> QED
    BY <2>2, <2>4, <2>5, MainBegins, SMT DEF Components
<1> QED
  BY <1>1, <1>2

LEMMA InitAuthStep == ASSUME IInv, InitAuth PROVE IInv'
<1>1. main = "init_auth" /\ main' = "reg_sig"
  BY TheWay, SMT DEF InitAuth, At
<1>2. /\ Initialised("auth") /\ worker' \in {worker}
    /\ UNCHANGED <<handler, receiver, ping, registered, g_iStop, g_bQuitFlag, history>>
  BY Zenon DEF InitAuth, threads
<1>3. life'["auth"] = "ready" /\ \A d \in Components \ {"auth"} : life'[d] = life[d]
  BY <1>2, LifeAt, SMT DEF Initialised, Components
<1>4. LifeInv'
  BY <1>1, <1>3, SMT DEF IInv, LifeInv, Components, BeforeCurl, BeforeSip, BeforeAuth,
     BeforeSocket, DuringCurl, DuringSip, DuringAuth, DuringSocket
<1>5. main' \in Place
  BY <1>1, IsPlace, Zenon
<1> QED
  BY <1>2, <1>4, <1>5, MainBegins, SMT DEF Components

LEMMA TcpConnectStep == ASSUME IInv, TcpConnect PROVE IInv'
<1>1. CASE Fail("tcp_connect")
  BY <1>1, FailStep, Zenon
<1>2. CASE ~Fail("tcp_connect")
  <2>1. main = "tcp_connect" /\ main' = "create_recvr"
    BY <1>2, TheWay, SMT DEF TcpConnect, At
  <2>2. /\ Initialised("socket") /\ worker' \in {worker}
      /\ UNCHANGED <<handler, receiver, ping, registered, g_iStop, g_bQuitFlag, history>>
    BY <1>2, Zenon DEF TcpConnect, threads
  <2>3. life'["socket"] = "ready" /\ \A d \in Components \ {"socket"} : life'[d] = life[d]
    BY <2>2, LifeAt, SMT DEF Initialised, Components
  <2>4. LifeInv'
    BY <2>1, <2>3, SMT DEF IInv, LifeInv, Components, BeforeCurl, BeforeSip, BeforeAuth,
       BeforeSocket, DuringCurl, DuringSip, DuringAuth, DuringSocket
  <2>5. main' \in Place
    BY <2>1, IsPlace, Zenon
  <2> QED
    BY <2>2, <2>4, <2>5, MainBegins, SMT DEF Components
<1> QED
  BY <1>1, <1>2

LEMMA DisconnectTcpStep == ASSUME IInv, DisconnectTcp PROVE IInv'
<1>1. main = "disconnect_tcp" /\ main' = "cleanup_sip"
  BY TheWay, SMT DEF DisconnectTcp, At
<1>2. EndOf("socket") /\ UNCHANGED <<threads, registered, g_iStop, g_bQuitFlag, strays>>
  BY Zenon DEF DisconnectTcp
<1>3. life["socket"] = "ready"
  BY <1>1, SMT DEF IInv, LifeInv, DuringCurl, DuringSip, DuringAuth, DuringSocket
<1>4. life'["socket"] = "ended" /\ \A d \in Components \ {"socket"} : life'[d] = life[d]
  BY <1>2, LifeAt, SMT DEF EndOf, Components
<1>5. LifeInv'
  BY <1>1, <1>4, SMT DEF IInv, LifeInv, Components, BeforeCurl, BeforeSip, BeforeAuth,
     BeforeSocket, DuringCurl, DuringSip, DuringAuth, DuringSocket
<1>6. main' \in Place
  BY <1>1, IsPlace, Zenon
<1> QED
  BY <1>2, <1>3, <1>5, <1>6, MainEnds, SMT DEF Components

LEMMA JoinWorkerStep == ASSUME IInv, JoinWorker PROVE IInv'
<1>1. main = "join_worker" /\ main' = "cleanup_curl"
  BY TheWay, SMT DEF JoinWorker, At
<1>2. /\ EndOf("sip") /\ UNCHANGED <<threads, registered, g_iStop, g_bQuitFlag, strays>>
      /\ worker = "ended"
  BY Zenon DEF JoinWorker
<1>3. life["sip"] = "ready"
  BY <1>1, SMT DEF IInv, LifeInv, DuringCurl, DuringSip, DuringAuth, DuringSocket
<1>4. life'["sip"] = "ended" /\ \A d \in Components \ {"sip"} : life'[d] = life[d]
  BY <1>2, LifeAt, SMT DEF EndOf, Components
<1>5. LifeInv'
  BY <1>1, <1>4, SMT DEF IInv, LifeInv, Components, BeforeCurl, BeforeSip, BeforeAuth,
     BeforeSocket, DuringCurl, DuringSip, DuringAuth, DuringSocket
<1>6. main' \in Place
  BY <1>1, IsPlace, Zenon
<1> QED
  BY <1>2, <1>3, <1>5, <1>6, MainEnds, SMT DEF Components

LEMMA CurlFiniStep == ASSUME IInv, CurlFini PROVE IInv'
<1>1. main = "cleanup_curl" /\ main' = "exit"
  BY TheWay, SMT DEF CurlFini, At
<1>2. EndOf("curl") /\ UNCHANGED <<threads, registered, g_iStop, g_bQuitFlag, strays>>
  BY Zenon DEF CurlFini
<1>3. life["curl"] = "ready"
  BY <1>1, SMT DEF IInv, LifeInv, DuringCurl, DuringSip, DuringAuth, DuringSocket
<1>4. life'["curl"] = "ended" /\ \A d \in Components \ {"curl"} : life'[d] = life[d]
  BY <1>2, LifeAt, SMT DEF EndOf, Components
<1>5. LifeInv'
  BY <1>1, <1>4, SMT DEF IInv, LifeInv, Components, BeforeCurl, BeforeSip, BeforeAuth,
     BeforeSocket, DuringCurl, DuringSip, DuringAuth, DuringSocket
<1>6. main' \in Place
  BY <1>1, IsPlace, Zenon
<1> QED
  BY <1>2, <1>3, <1>5, <1>6, MainEnds, SMT DEF Components

-----------------------------------------------------------------------------
\* The other threads and the signals.

LEMMA ReceiverPollStep == ASSUME IInv, ReceiverPoll PROVE IInv'
<1>1. UNCHANGED <<main, life, registered, wrongEnds>> /\ strays' \subseteq Stray /\ StraysAreLate'
  BY Types, Zenon DEF ReceiverPoll, history, StraysAreLate
<1>2. /\ receiver # "none" /\ receiver' \in {"none", "poll", "geodata", "sip", "report", "ended"}
      /\ UNCHANGED <<handler, worker, ping, g_iStop, g_bQuitFlag>>
  BY SMT DEF ReceiverPoll
<1> QED
  BY <1>1, <1>2, Types, OthersGoOn, Zenon

LEMMA WorkerEndsStep == ASSUME IInv, WorkerEnds PROVE IInv'
<1>1. UNCHANGED <<main, life, registered, wrongEnds>> /\ strays' \subseteq Stray /\ StraysAreLate'
  BY Types, Zenon DEF WorkerEnds, history, StraysAreLate
<1>2. worker' = "ended" /\ UNCHANGED <<handler, receiver, ping, g_iStop, g_bQuitFlag>>
  BY Zenon DEF WorkerEnds
<1> QED
  BY <1>1, <1>2, Types, OthersGoOn, Zenon

LEMMA PingEndsStep == ASSUME IInv, PingEnds PROVE IInv'
<1>1. UNCHANGED <<main, life, registered, wrongEnds>> /\ strays' \subseteq Stray /\ StraysAreLate'
  BY Types, Zenon DEF PingEnds, history, StraysAreLate
<1>2. ping' = "ended" /\ UNCHANGED <<handler, receiver, worker, g_iStop, g_bQuitFlag>>
  BY Zenon DEF PingEnds
<1> QED
  BY <1>1, <1>2, Types, OthersGoOn, Zenon

LEMMA StopStep == ASSUME IInv, NEW s, Stop(s) PROVE IInv'
<1>1. UNCHANGED <<main, life, registered, wrongEnds>> /\ strays' \subseteq Stray /\ StraysAreLate'
  BY Types, Zenon DEF Stop, history, StraysAreLate
<1>2. g_iStop' \in {0, 1} /\ UNCHANGED <<handler, receiver, worker, ping, g_bQuitFlag>>
  BY SMT DEF Stop, Flagged, threads
<1> QED
  BY <1>1, <1>2, Types, OthersGoOn, Zenon

LEMMA DebugStep == ASSUME IInv, NEW s, Debug(s) PROVE IInv'
<1>1. UNCHANGED <<main, life, registered, wrongEnds>> /\ strays' \subseteq Stray /\ StraysAreLate'
  BY Types, Zenon DEF Debug, history, StraysAreLate
<1>2. /\ registered # {} /\ handler' \in {"none", "geodata", "geodata only", "sip"}
      /\ UNCHANGED <<receiver, worker, ping, g_iStop, g_bQuitFlag>>
  <2>1. registered # {}
    BY Zenon DEF Debug
  <2>2. handler' \in {"none", "geodata", "geodata only", "sip"}
    BY Zenon DEF Debug
  <2> QED
    BY <2>1, <2>2, Zenon DEF Debug
<1> QED
  BY <1>1, <1>2, Types, OthersGoOn, Zenon

\* The worker finds both components ready while a call is under way.
LEMMA WorkerHandlesStep == ASSUME IInv, WorkerHandles PROVE IInv'
<1>1. \A c \in {"sip", "auth"} : life[c] = "ready"
  BY SMT DEF IInv, UsersInv, WorkerHandles
<1>2. strays' = strays
  BY <1>1, UseOfReady, Zenon DEF WorkerHandles
<1>3. strays' \subseteq Stray /\ StraysAreLate'
  BY <1>2, Types, Zenon DEF StraysAreLate
<1>4. UNCHANGED <<main, handler, receiver, worker, ping, life, registered, g_iStop, g_bQuitFlag,
                  wrongEnds>>
  BY Zenon DEF WorkerHandles, threads
<1> QED
  BY <1>3, <1>4, Types, OthersGoOn, Zenon

LEMMA ReceiverWorksStep == ASSUME IInv, ReceiverWorks PROVE IInv'
<1>1. PICK c \in {"curl", "sip"} :
        /\ Use("receiver", {c}) /\ receiver # "none"
        /\ receiver' \in {"none", "poll", "geodata", "sip", "report", "ended"}
  BY SMT DEF ReceiverWorks
<1>2. life[c] # "none"
  BY <1>1, SMT DEF IInv, UsersInv
<1>3. strays' \subseteq Stray /\ StraysAreLate'
  <2>1. c \in Components /\ "receiver" \in {"receiver", "handler"}
    BY Zenon DEF Components
  <2> QED
    BY <1>1, <1>2, <2>1, Types, LateUse, Zenon
<1>4. UNCHANGED <<main, handler, worker, ping, life, registered, g_iStop, g_bQuitFlag, wrongEnds>>
  BY Zenon DEF ReceiverWorks
<1> QED
  BY <1>1, <1>3, <1>4, Types, OthersGoOn, Zenon

LEMMA HandlerWorksStep == ASSUME IInv, HandlerWorks PROVE IInv'
<1>0. HandlerAsks \/ HandlerCalls
  BY Zenon DEF HandlerWorks
<1>1. PICK c \in {"curl", "sip"} :
        /\ Use("handler", {c}) /\ handler # "none"
        /\ handler' \in {"none", "geodata", "geodata only", "sip"}
  <2>1. CASE HandlerAsks
    BY <2>1, Zenon DEF HandlerAsks
  <2>2. CASE HandlerCalls
    <3>1. Use("handler", {"sip"}) /\ handler = "sip" /\ handler' = "none"
      BY <2>2, Zenon DEF HandlerCalls
    <3>2. handler # "none"
      BY <3>1, SMT
    <3> QED
      BY <3>1, <3>2, Zenon
  <2> QED
    BY <1>0, <2>1, <2>2, Zenon
<1>2. life[c] # "none"
  <2>1. life["curl"] # "none" /\ life["sip"] # "none"
    BY <1>1, Zenon DEF IInv, UsersInv
  <2> QED
    BY <1>1, <2>1, Zenon
<1>3. strays' \subseteq Stray /\ StraysAreLate'
  <2>1. c \in Components /\ "handler" \in {"receiver", "handler"}
    BY Zenon DEF Components
  <2> QED
    BY <1>1, <1>2, <2>1, Types, LateUse, Zenon
<1>4. UNCHANGED <<main, receiver, worker, ping, life, registered, g_iStop, g_bQuitFlag, wrongEnds>>
  BY <1>0, Zenon DEF HandlerAsks, HandlerCalls
<1> QED
  BY <1>1, <1>3, <1>4, Types, OthersGoOn, Zenon

-----------------------------------------------------------------------------
\* The invariant and what follows from it.

LEMMA Initially == Init => IInv
<1> SUFFICES ASSUME Init PROVE IInv
  OBVIOUS
<1>1. TypeOK
  <2>1. main \in Place
    BY IsPlace, Zenon DEF Init
  <2>2. life \in [Components -> {"none", "ready", "ended"}]
    BY SMT DEF Init
  <2>3. g_iStop \in {0, 1} /\ g_bQuitFlag \in BOOLEAN
    BY Zenon DEF Init
  <2>4. /\ handler = "none" /\ receiver = "none" /\ worker = "none" /\ ping = "none"
        /\ registered = {} /\ strays = {} /\ wrongEnds = {}
    BY Zenon DEF Init
  <2> QED
    BY <2>1, <2>2, <2>3, <2>4, Zenon DEF TypeOK, Place
<1>2. LifeInv
  BY SMT DEF Init, LifeInv, Components, BeforeCurl, BeforeSip, BeforeAuth, BeforeSocket,
     DuringCurl, DuringSip, DuringAuth, DuringSocket
<1>3. UsersInv
  BY SMT DEF Init, UsersInv, Components
<1>4. StraysAreLate /\ wrongEnds = {}
  BY Zenon DEF Init, StraysAreLate
<1> QED
  BY <1>1, <1>2, <1>3, <1>4, Zenon DEF IInv

LEMMA Unchanged == ASSUME IInv, UNCHANGED vars PROVE IInv'
<1>1. LifeInv'
  BY Zenon DEF IInv, LifeInv, vars
<1>2. TypeOK' /\ UsersInv' /\ StraysAreLate' /\ wrongEnds' = {}
  <2>1. TypeOK'
    BY Zenon DEF IInv, TypeOK, vars, threads, history
  <2>2. UsersInv'
    BY Zenon DEF IInv, UsersInv, vars, threads
  <2>3. StraysAreLate' /\ wrongEnds' = {}
    BY Zenon DEF IInv, StraysAreLate, vars, history
  <2> QED
    BY <2>1, <2>2, <2>3
<1> QED
  BY <1>1, <1>2, Zenon DEF IInv

LEMMA Invariance == Spec => []IInv
<1>1. IInv /\ [Next]_vars => IInv'
  <2> SUFFICES ASSUME IInv, [Next]_vars PROVE IInv'
    OBVIOUS
  <2>1. CASE Main
    BY <2>1, ConfigureStep, CurlInitStep, SipInitStep, InitAuthStep, RegSigStep, TcpConnectStep,
       CreateReceiverStep, SmppConnectStep, CreatePingStep, JoinPingStep, DisconnectSmppStep,
       DisconnectTcpStep, SipFiniStep, JoinWorkerStep, CurlFiniStep, ExitStep, Zenon DEF Main
  <2>2. CASE Receiver
    BY <2>2, ReceiverPollStep, ReceiverWorksStep, Zenon DEF Receiver
  <2>3. CASE WorkerHandles \/ WorkerEnds
    BY <2>3, WorkerHandlesStep, WorkerEndsStep, Zenon
  <2>4. CASE PingEnds \/ HandlerWorks
    BY <2>4, PingEndsStep, HandlerWorksStep, Zenon
  <2>5. CASE Signal
    BY <2>5, StopStep, DebugStep, KillStep, Zenon DEF Signal
  <2>6. CASE UNCHANGED vars
    BY <2>6, Unchanged
  <2> QED
    BY <2>1, <2>2, <2>3, <2>4, <2>5, <2>6, Zenon DEF Next
<1> QED
  BY Initially, <1>1, PTL DEF Spec

\* The places of main, the life of the components and all else stay what they can be
\* (main and the threads that it starts).
THEOREM TypeCorrect == Spec => []TypeOK
<1>1. IInv => TypeOK
  BY Zenon DEF IInv
<1> QED
  BY Invariance, <1>1, PTL

\* However an initialisation, a thread and a signal come together, nothing is used before
\* it is initialised, and the worker, which sms112_sip_fini waits for, never uses SIP after
\* its end (main, sms112_sip_init, sms112_sip_fini).
THEOREM NothingUsedEarly == Spec => []StraysAreLate
<1>1. IInv => StraysAreLate
  BY Zenon DEF IInv
<1> QED
  BY Invariance, <1>1, PTL

\* Whatever fails on the way, main ends what it has initialised and nothing else, nothing
\* twice (the labels cleanup of main).
THEOREM EndsWhatBegan == Spec => []EndsWhatItBegan
<1>1. IInv => EndsWhatItBegan
  <2> SUFFICES ASSUME IInv PROVE EndsWhatItBegan
    OBVIOUS
  <2>1. wrongEnds = {} /\ LifeInv
    BY Zenon DEF IInv
  <2>2. main = "returned" =>
          life["curl"] # "ready" /\ life["sip"] # "ready" /\ life["socket"] # "ready"
    BY <2>1, SMT DEF LifeInv, DuringCurl, DuringSip, DuringAuth, DuringSocket
  <2> QED
    BY <2>1, <2>2, SMT DEF EndsWhatItBegan, Components
<1> QED
  BY Invariance, <1>1, PTL
=============================================================================
