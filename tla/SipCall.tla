------------------------------ MODULE SipCall ------------------------------
(***************************************************************************)
(* The SIP calls of sms112_sip.cpp: threads that place a call with         *)
(* sms112_sip_send_req and sleep on the mutex stored in g_mapReqLock under *)
(* its Call-ID, and the worker thread of pjsip, whose callbacks store the  *)
(* result there, unlock the mutex and end the call.  The callers are the   *)
(* receiver thread, which delivers messages, and main, the thread Linux    *)
(* prefers for a signal to the process, inside its handler of SIGUSR2      *)
(* (sms112_sig.cpp).  After sms112_sip_fini main ends the process, without *)
(* a look at the receiver.                                                 *)
(*                                                                         *)
(* Nothing guards g_mapReqLock, and both the entries with their mutexes    *)
(* and the dialogs, which hold the Call-ID, are freed while the other side *)
(* may still use them: every such use is recorded in misused.  pjsip calls *)
(* back with the dialog locked, so not before the caller has left it; it   *)
(* frees a dialog that has no session and no transaction left.  The        *)
(* transport is UDP: answers are lost or come twice.  Time is not          *)
(* modelled: the timed lock and a transaction may end at any moment.       *)
(***************************************************************************)
EXTENDS Integers, FiniteSets

CONSTANTS
  Callers,    \* the threads that place calls
  Main,       \* main, one of them by its signal handler
  Calls,      \* the Call-IDs, each created for one call
  NoCall,     \* no Call-ID
  MaxRepeats  \* bound: 2xx that arrive again

ASSUME CallAssumption ==
  /\ NoCall \notin Calls
  /\ MaxRepeats \in Nat

VARIABLES
  caller,        \* thread -> where it is, its call and the result so far
  worker,        \* the worker thread: where it is, the call and what has come;
                 \* once it is joined the process has ended
  g_bQuitFlag,   \* set by sms112_sip_fini
  g_mapReqLock,  \* Call-ID -> m_iResult of the SSync stored under it
  mutex,         \* Call-ID -> the mutex of that SSync
  dialog,        \* Call-ID -> the dialog of pjsip
  invite,        \* Call-ID -> what became of the INVITE
  bye,           \* Call-ID -> the BYEs sent and those answered
  repeats,       \* 2xx that have come again so far
  \* history variables, no part of the program
  told,          \* Call-ID -> what sms112_sip_send_req returned
  misused        \* uses of an SSync, a mutex or a dialog that was gone

vars == <<caller, worker, g_bQuitFlag, g_mapReqLock, mutex, dialog, invite, bye,
          repeats, told, misused>>

callerPc == {"idle", "init", "send", "lock", "wait", "read", "del"}
workerPc == {"idle", "find", "set", "unlock", "bye", "joined"}

\* What the worker handles: the first 2xx, one that comes again, 3xx-6xx, the
\* answer to a BYE.
Events == {"accepted", "repeated", "refused", "bye"}

\* m_iResult is 0 or the status of the refusal once it is set, and what
\* sms112_sip_send_req returns is one of these, -1 or the error of the timed lock.
Results == {"-1", "0", "status", "errno"}

\* "silent": challenged with 401 or 407, and the request was not repeated.
Invites == {"none", "calling", "silent", "accepted", "refused"}

TypeOK ==
  /\ caller \in [Callers -> [pc : callerPc, id : Calls \cup {NoCall}, res : Results]]
  /\ worker \in [pc : workerPc, id : Calls \cup {NoCall}, ev : Events]
  /\ g_bQuitFlag \in BOOLEAN
  /\ g_mapReqLock \in [Calls -> {"none", "-1", "0", "status"}]
  /\ mutex \in [Calls -> {"none", "locked", "free", "gone"}]
  /\ dialog \in [Calls -> {"none", "locked", "live", "freed"}]
  /\ invite \in [Calls -> Invites]
  /\ bye \in [Calls -> [sent : Nat, answered : Nat]]
  /\ \A c \in Calls : bye[c].answered <= bye[c].sent
  /\ repeats \in 0 .. MaxRepeats
  /\ told \in [Calls -> Results \cup {"nothing"}]
  /\ misused \subseteq [id : Calls, by : Events \cup {"lock", "del"}]

-----------------------------------------------------------------------------
\* The small pieces.

IdleCaller == [pc |-> "idle", id |-> NoCall, res |-> "-1"]
IdleWorker == [pc |-> "idle", id |-> NoCall, ev |-> "bye"]

\* sync_init locks the mutex it creates.
CreatedUnlocked == "free"
Created == "locked"

\* pthread_mutex_unlock( iter->second.m_ptMutex )
StillLocked(m) == m
Unlocked(m) == "free"

\* The result on_rx_response passes to sync_ulck.
AlwaysZero(ev) == "0"
ResultOf(ev) == IF ev = "refused" THEN "status" ELSE "0"

\* iter->second.m_iResult = p_iResult
ResultKept(r, ev) == r
ResultStored(r, ev) == ResultOf(ev)

\* g_mapReqLock.erase( iter )
NotErased(r) == r
Erased(r) == "none"

\* What on_rx_response does after sync_ulck: send_bye for every 2xx.
HangUpIfFound(ev) ==
  IF ev \in {"accepted", "repeated"} /\ g_mapReqLock[worker.id] # "none" THEN "bye" ELSE "idle"
AfterUlck(ev) == IF ev \in {"accepted", "repeated"} THEN "bye" ELSE "idle"
WorkerAfter(ev) == IF AfterUlck(ev) = "idle" THEN IdleWorker
                                             ELSE [worker EXCEPT !.pc = AfterUlck(ev)]

\* The answer to a BYE that was sent and not answered.
AnyAnswer(b) == b.sent > 0
Outstanding(b) == b.answered < b.sent

\* A session that pjsip_dlg_dec_session has ended; 2xx leave it open for ever.
SessionEnded(c) == invite[c] = "refused"

\* The process has not ended.
Running == worker.pc # "joined"

\* main is not inside its signal handler.
MainIdle == \A t \in Callers : t = Main => caller[t].pc = "idle"

Use(c, by, gone) == misused' = IF gone THEN misused \cup {[id |-> c, by |-> by]} ELSE misused

-----------------------------------------------------------------------------
\* sms112_sip_send_req.  A name that does not fit its buffer ends it with -1 before
\* anything has happened.

\* The dialog is created and locked, with one session.
CreateDialog(t, c) ==
  /\ Running /\ caller[t].pc = "idle" /\ dialog[c] = "none"
  /\ dialog' = [dialog EXCEPT ![c] = "locked"]
  /\ caller' = [caller EXCEPT ![t] = [pc |-> "init", id |-> c, res |-> "-1"]]
  /\ UNCHANGED <<worker, g_bQuitFlag, g_mapReqLock, mutex, invite, bye, repeats, told, misused>>

\* sync_init
SyncInit(t) ==
  /\ Running /\ caller[t].pc = "init"
  /\ g_mapReqLock' = [g_mapReqLock EXCEPT ![caller[t].id] = "-1"]
  /\ mutex' = [mutex EXCEPT ![caller[t].id] = Created]
  /\ caller' = [caller EXCEPT ![t].pc = "send"]
  /\ UNCHANGED <<worker, g_bQuitFlag, dialog, invite, bye, repeats, told, misused>>

\* send_request, and the dialog is left to the worker.
SendRequest(t) ==
  /\ Running /\ caller[t].pc = "send"
  /\ invite' = [invite EXCEPT ![caller[t].id] = "calling"]
  /\ dialog' = [dialog EXCEPT ![caller[t].id] = "live"]
  /\ caller' = [caller EXCEPT ![t].pc = "lock"]
  /\ UNCHANGED <<worker, g_bQuitFlag, g_mapReqLock, mutex, bye, repeats, told, misused>>

\* sync_lock looks the mutex up.  The Call-ID is that in the dialog: once it is freed,
\* what is found there may be another.
SyncLock(t) ==
  /\ Running /\ caller[t].pc = "lock"
  /\ LET c == caller[t].id
         gone == dialog[c] = "freed"
     IN  /\ Use(c, "lock", gone)
         /\ \/ caller' = [caller EXCEPT ![t].pc = "wait"]
            \/ gone /\ caller' = [caller EXCEPT ![t].pc = "del"]
  /\ UNCHANGED <<worker, g_bQuitFlag, g_mapReqLock, mutex, dialog, invite, bye, repeats, told>>

\* pthread_mutex_timedlock obtains the mutex ...
Acquire(t) ==
  /\ Running /\ caller[t].pc = "wait" /\ mutex[caller[t].id] = "free"
  /\ mutex' = [mutex EXCEPT ![caller[t].id] = "locked"]
  /\ caller' = [caller EXCEPT ![t].pc = "read"]
  /\ UNCHANGED <<worker, g_bQuitFlag, g_mapReqLock, dialog, invite, bye, repeats, told, misused>>

\* ... or gives up.  The call is neither cancelled nor ended.
TimedOutAndWaits(t) ==
  /\ Running /\ caller[t].pc = "wait"
  /\ caller' = [caller EXCEPT ![t].res = "errno"]
  /\ UNCHANGED <<worker, g_bQuitFlag, g_mapReqLock, mutex, dialog, invite, bye, repeats,
                 told, misused>>
TimedOut(t) ==
  /\ Running /\ caller[t].pc = "wait"
  /\ caller' = [caller EXCEPT ![t].pc = "del", ![t].res = "errno"]
  /\ UNCHANGED <<worker, g_bQuitFlag, g_mapReqLock, mutex, dialog, invite, bye, repeats,
                 told, misused>>

\* iRetVal = iter->second.m_iResult
ReadResult(t) ==
  /\ Running /\ caller[t].pc = "read"
  /\ caller' = [caller EXCEPT ![t].pc = "del", ![t].res = g_mapReqLock[caller[t].id]]
  /\ UNCHANGED <<worker, g_bQuitFlag, g_mapReqLock, mutex, dialog, invite, bye, repeats,
                 told, misused>>

\* sync_del, and sms112_sip_send_req returns.
SyncDel(t) ==
  /\ Running /\ caller[t].pc = "del"
  /\ LET c == caller[t].id
         gone == dialog[c] = "freed"
     IN  /\ Use(c, "del", gone)
         /\ \/ /\ g_mapReqLock' = [g_mapReqLock EXCEPT ![c] = Erased(@)]
               /\ mutex' = [mutex EXCEPT ![c] = "gone"]
            \/ gone /\ UNCHANGED <<g_mapReqLock, mutex>>
         /\ told' = [told EXCEPT ![c] = caller[t].res]
  /\ caller' = [caller EXCEPT ![t] = IdleCaller]
  /\ UNCHANGED <<worker, g_bQuitFlag, dialog, invite, bye, repeats>>

-----------------------------------------------------------------------------
\* The worker thread.  It takes the next message unless it is told to quit.

Ready(c) == worker.pc = "idle" /\ ~g_bQuitFlag /\ dialog[c] = "live"

Handle(c, ev) == worker' = [pc |-> "find", id |-> c, ev |-> ev]

\* The first 2xx, which may come when the INVITE transaction is over: send_ack.
RxAccepted(c) ==
  /\ Ready(c) /\ invite[c] = "calling"
  /\ invite' = [invite EXCEPT ![c] = "accepted"]
  /\ Handle(c, "accepted")
  /\ UNCHANGED <<caller, g_bQuitFlag, g_mapReqLock, mutex, dialog, bye, repeats, told, misused>>

\* The 2xx again, the server has not seen the ACK.
RxRepeated(c) ==
  /\ Ready(c) /\ invite[c] = "accepted"
  /\ repeats < MaxRepeats /\ repeats' = repeats + 1
  /\ Handle(c, "repeated")
  /\ UNCHANGED <<caller, g_bQuitFlag, g_mapReqLock, mutex, dialog, invite, bye, told, misused>>

\* 3xx-6xx other than a challenge: pjsip_dlg_dec_session.
RxRefused(c) ==
  /\ Ready(c) /\ invite[c] = "calling"
  /\ invite' = [invite EXCEPT ![c] = "refused"]
  /\ Handle(c, "refused")
  /\ UNCHANGED <<caller, g_bQuitFlag, g_mapReqLock, mutex, dialog, bye, repeats, told, misused>>

\* 401 or 407: on_rx_response does nothing, on_tsx_state repeats the request with
\* credentials, outside the dialog, or fails to; nobody is told.
RxChallenged(c) ==
  /\ Ready(c) /\ invite[c] = "calling"
  /\ invite' \in {invite, [invite EXCEPT ![c] = "silent"]}
  /\ UNCHANGED <<caller, worker, g_bQuitFlag, g_mapReqLock, mutex, dialog, bye, repeats,
                 told, misused>>

\* The answer to a BYE.
RxByeAnswered(c) ==
  /\ Ready(c) /\ Outstanding(bye[c])
  /\ bye' = [bye EXCEPT ![c].answered = @ + 1]
  /\ Handle(c, "bye")
  /\ UNCHANGED <<caller, g_bQuitFlag, g_mapReqLock, mutex, dialog, invite, repeats, told, misused>>

\* sync_ulck looks the entry up ...
SyncUlckFind ==
  /\ worker.pc = "find"
  /\ worker' = IF g_mapReqLock[worker.id] # "none" THEN [worker EXCEPT !.pc = "set"]
                                                   ELSE WorkerAfter(worker.ev)
  /\ UNCHANGED <<caller, g_bQuitFlag, g_mapReqLock, mutex, dialog, invite, bye, repeats,
                 told, misused>>

\* ... writes the result through the iterator, which may have been erased since ...
SyncUlckSet ==
  /\ worker.pc = "set"
  /\ LET c == worker.id
         gone == g_mapReqLock[c] = "none"
     IN  /\ Use(c, worker.ev, gone)
         /\ g_mapReqLock' = IF gone THEN g_mapReqLock
                            ELSE [g_mapReqLock EXCEPT ![c] = ResultStored(@, worker.ev)]
  /\ worker' = [worker EXCEPT !.pc = "unlock"]
  /\ UNCHANGED <<caller, g_bQuitFlag, mutex, dialog, invite, bye, repeats, told>>

\* ... and unlocks the mutex, which may have been deleted.
SyncUlckUnlock ==
  /\ worker.pc = "unlock"
  /\ LET c == worker.id
         gone == mutex[c] = "gone"
     IN  /\ Use(c, worker.ev, gone)
         /\ mutex' = IF gone THEN mutex ELSE [mutex EXCEPT ![c] = Unlocked(@)]
  /\ worker' = WorkerAfter(worker.ev)
  /\ UNCHANGED <<caller, g_bQuitFlag, g_mapReqLock, dialog, invite, bye, repeats, told>>

\* send_bye, with the CSeq of the INVITE.
SendBye ==
  /\ worker.pc = "bye"
  /\ bye' = [bye EXCEPT ![worker.id].sent = @ + 1]
  /\ worker' = IdleWorker
  /\ UNCHANGED <<caller, g_bQuitFlag, g_mapReqLock, mutex, dialog, invite, repeats, told, misused>>

\* The last transaction of a dialog without session is over: pjsip frees it.
DialogFreed(c) ==
  /\ Ready(c) /\ SessionEnded(c)
  /\ dialog' = [dialog EXCEPT ![c] = "freed"]
  /\ UNCHANGED <<caller, worker, g_bQuitFlag, g_mapReqLock, mutex, invite, bye, repeats,
                 told, misused>>

\* main calls sms112_sip_fini, and the worker finishes the message in hand.
SipFini ==
  /\ ~g_bQuitFlag /\ g_bQuitFlag' = TRUE
  /\ MainIdle
  /\ UNCHANGED <<caller, worker, g_mapReqLock, mutex, dialog, invite, bye, repeats, told, misused>>

\* pj_thread_join has returned and main ends, and the process with it.  A receiver that
\* still waits for its call is not waited for.
ProcessEnds ==
  /\ g_bQuitFlag /\ worker.pc = "idle"
  /\ MainIdle
  /\ worker' = [worker EXCEPT !.pc = "joined"]
  /\ UNCHANGED <<caller, g_bQuitFlag, g_mapReqLock, mutex, dialog, invite, bye, repeats,
                 told, misused>>

-----------------------------------------------------------------------------
Init ==
  /\ caller = [t \in Callers |-> IdleCaller]
  /\ worker = IdleWorker
  /\ g_bQuitFlag = FALSE
  /\ g_mapReqLock = [c \in Calls |-> "none"]
  /\ mutex = [c \in Calls |-> "none"]
  /\ dialog = [c \in Calls |-> "none"]
  /\ invite = [c \in Calls |-> "none"]
  /\ bye = [c \in Calls |-> [sent |-> 0, answered |-> 0]]
  /\ repeats = 0
  /\ told = [c \in Calls |-> "nothing"]
  /\ misused = {}

\* A caller at work on its call, without the timer.
CallerStep(t) ==
  SyncInit(t) \/ SendRequest(t) \/ SyncLock(t) \/ Acquire(t) \/ ReadResult(t) \/ SyncDel(t)

Caller(t) == (\E c \in Calls : CreateDialog(t, c)) \/ CallerStep(t) \/ TimedOut(t)

\* The worker at work on the message in hand.
WorkerStep == SyncUlckFind \/ SyncUlckSet \/ SyncUlckUnlock \/ SendBye

Receive(c) ==
  \/ RxAccepted(c) \/ RxRepeated(c) \/ RxRefused(c) \/ RxChallenged(c) \/ RxByeAnswered(c)
  \/ DialogFreed(c)

\* The process has ended, or no Call-ID is left for another call and nothing is on its
\* way: a bound of the model.
Done ==
  /\ Running => worker.pc = "idle" /\ \A t \in Callers : caller[t].pc = "idle"
  /\ UNCHANGED vars

Next ==
  \/ \E t \in Callers : Caller(t)
  \/ WorkerStep
  \/ \E c \in Calls : Receive(c)
  \/ SipFini
  \/ ProcessEnds
  \/ Done

Spec == Init /\ [][Next]_vars

\* The threads are scheduled; neither the timer, the network nor the end of the program
\* is obliged to act.
FairSpec == Spec /\ WF_vars(WorkerStep) /\ \A t \in Callers : WF_vars(CallerStep(t))

\* And the timed lock does end.
LocksExpire == \A t \in Callers : WF_vars(TimedOut(t))

-----------------------------------------------------------------------------
\* Properties.

\* A caller that obtained the mutex reads the decision of the server over its own
\* call, whatever comes again and whatever the other callers do (sync_ulck against
\* sync_lock).
WokenReadsDecision ==
  \A t \in Callers :
    caller[t].pc = "read" =>
      LET c == caller[t].id
      IN  \/ invite[c] = "accepted" /\ g_mapReqLock[c] = "0"
          \/ invite[c] = "refused" /\ g_mapReqLock[c] = "status"

\* The first final answer to a call finds its SSync and its mutex alive from the lookup
\* to the unlock, unless the caller has given up.  Repeated 2xx and answers to BYE have
\* no such guarantee (sync_ulck against sync_del).
MutexOutlivesAnswer ==
  \A m \in misused :
    m.by \in {"accepted", "refused"} => told[m.id] = "errno"

\* The first final answer to a call is never looked up in g_mapReqLock while the thread
\* that placed it changes the map, unless that thread has given up: with one caller the
\* unguarded map is left to repeated and late answers and answers to BYE.
AnswerFindsMapAtRest ==
  \A t \in Callers :
    /\ worker.pc = "find" /\ worker.ev \in {"accepted", "refused"}
    /\ caller[t].id = worker.id /\ caller[t].pc \in {"init", "del"}
    => caller[t].res = "errno"

\* A call that was reported leaves no entry in g_mapReqLock, unless its dialog was freed
\* before sync_del read the Call-ID.
NoEntryLeft ==
  \A c \in Calls :
    told[c] # "nothing" /\ g_mapReqLock[c] # "none" => [id |-> c, by |-> "del"] \in misused

\* What the caller is told, and when: the abstract call.
Outcome(c) ==
  IF invite[c] \in {"calling", "silent"} THEN "open" ELSE invite[c]
ToldOf(r) ==
  CASE r = "0" -> "accepted" [] r = "status" -> "refused" [] r = "nothing" -> "nothing"
    [] OTHER -> "unknown"

Promise == INSTANCE EmergencyCall
           WITH outcome <- [c \in Calls |-> Outcome(c)],
                told <- [c \in Calls |-> ToldOf(told[c])]

\* sms112_sip_send_req keeps the promise of EmergencyCall in every step.
CallKeepsPromise == Promise!Spec

\* With the timer, every call placed is reported in the end, the liveness that
\* EmergencyCall promises, also if the worker is gone: unless the process ends first,
\* which sms112_sip_fini does not delay for a call of the receiver.
CallIsReported == LocksExpire => Promise!Reported \/ <>~Running

\* Whoever waits for a call that the server has decided is woken by the answer, without
\* help of the timer, unless the process ends first (on_rx_response and sync_lock).
AnswerWakesCaller ==
  \A t \in Callers, c \in Calls :
    (caller[t] = [pc |-> "wait", id |-> c, res |-> "-1"] /\ invite[c] \in {"accepted", "refused"})
      ~> (caller[t].id # c \/ ~Running)

\* A call the server has accepted is ended by BYE, also when nobody waits for it any more:
\* pj_thread_join waits for that much.
AcceptedIsEnded ==
  \A c \in Calls : (invite[c] = "accepted") ~> (bye[c].sent > 0)
=============================================================================
