--------------------------- MODULE SipCallProofs ---------------------------
(***************************************************************************)
(* What TLAPS proves of SipCall, for any number of callers and calls: its  *)
(* safety properties, and that it implements EmergencyCall.                *)
(***************************************************************************)
EXTENDS SipCall, TLAPS

CallerRec == [pc : callerPc, id : Calls \cup {NoCall}, res : Results]
WorkerRec == [pc : workerPc, id : Calls \cup {NoCall}, ev : Events]
MisuseRec == [id : Calls, by : Events \cup {"lock", "del"}]

\* A caller at work has a call that is not yet reported, and its SSync exists.
CallerInv ==
  \A t \in Callers :
    caller[t].pc # "idle" =>
      /\ caller[t].id \in Calls
      /\ told[caller[t].id] = "nothing"
      /\ dialog[caller[t].id] # "none"
      /\ caller[t].pc \in {"init", "send"} <=> dialog[caller[t].id] = "locked"
      /\ caller[t].pc = "init" <=> g_mapReqLock[caller[t].id] = "none"
      /\ caller[t].res = "0" => invite[caller[t].id] = "accepted"
      /\ caller[t].res = "status" => invite[caller[t].id] = "refused"
      /\ caller[t].pc = "read" => g_mapReqLock[caller[t].id] \in {"0", "status"}

\* No two callers have the same call.
AloneInv ==
  \A t, u \in Callers :
    t # u /\ caller[t].pc # "idle" /\ caller[u].pc # "idle" => caller[t].id # caller[u].id

\* What a call's entry, mutex and dialog say of each other and of the server's decision.
CallInv ==
  \A c \in Calls :
    /\ dialog[c] \in {"none", "locked"} <=> invite[c] = "none"
    /\ dialog[c] = "freed" => invite[c] = "refused"
    /\ invite[c] = "none" => told[c] = "nothing"
    /\ dialog[c] = "none" => g_mapReqLock[c] = "none"
    /\ g_mapReqLock[c] = "none" <=> mutex[c] \in {"none", "gone"}
    /\ mutex[c] = "none" => invite[c] = "none"
    /\ g_mapReqLock[c] = "0" => invite[c] = "accepted"
    /\ g_mapReqLock[c] = "status" => invite[c] = "refused"
    /\ mutex[c] = "free" => g_mapReqLock[c] \in {"0", "status"}
    /\ told[c] = "nothing" /\ invite[c] # "none" => g_mapReqLock[c] # "none"
    /\ told[c] = "0" => invite[c] = "accepted"
    /\ told[c] = "status" => invite[c] = "refused"
    /\ bye[c].sent > 0 => invite[c] = "accepted"

\* The worker's message is one of a dialog that is there, and what it is about to
\* unlock has the result.
WorkerInv ==
  worker.pc \notin {"idle", "joined"} =>
    /\ worker.id \in Calls
    /\ dialog[worker.id] = "live"
    /\ invite[worker.id] = IF worker.ev = "refused" THEN "refused" ELSE "accepted"
    /\ worker.pc = "unlock" => g_mapReqLock[worker.id] \in {"none", ResultOf(worker.ev)}
    /\ worker.pc = "bye" => worker.ev \in {"accepted", "repeated"}

\* Nobody has been let in to the mutex of c yet.
Closed(c) ==
  \/ invite[c] \in {"none", "calling", "silent"}
  \/ /\ worker.pc \in {"find", "set", "unlock"} /\ worker.id = c
     /\ worker.ev \in {"accepted", "refused"}

\* Until the first final answer has unlocked the mutex only giving up ends the wait.
ClosedInv ==
  \A c \in Calls :
    Closed(c) =>
      /\ mutex[c] # "free"
      /\ told[c] \in {"nothing", "errno"}
      /\ \A t \in Callers : caller[t].pc # "idle" /\ caller[t].id = c =>
           caller[t].pc # "read" /\ (caller[t].pc = "del" => caller[t].res = "errno")

MisusedInv == MutexOutlivesAnswer /\ NoEntryLeft

IInv == TypeOK /\ CallerInv /\ AloneInv /\ CallInv /\ WorkerInv /\ ClosedInv /\ MisusedInv

-----------------------------------------------------------------------------
\* The state stays within its types.
LEMMA InitIInv == Init => IInv
<1> SUFFICES ASSUME Init PROVE IInv
  OBVIOUS
<1> USE CallAssumption DEF Init, IdleCaller, IdleWorker
<1>1. TypeOK
  <2>1. caller \in [Callers -> CallerRec] /\ worker \in WorkerRec
    BY DEF CallerRec, WorkerRec, callerPc, workerPc, Results, Events
  <2>2. /\ g_mapReqLock \in [Calls -> {"none", "-1", "0", "status"}]
        /\ mutex \in [Calls -> {"none", "locked", "free", "gone"}]
        /\ dialog \in [Calls -> {"none", "locked", "live", "freed"}]
        /\ invite \in [Calls -> Invites] /\ told \in [Calls -> Results \cup {"nothing"}]
    BY DEF Invites
  <2>3. /\ bye \in [Calls -> [sent : Nat, answered : Nat]]
        /\ \A c \in Calls : bye[c].answered <= bye[c].sent
        /\ repeats \in 0 .. MaxRepeats
    OBVIOUS
  <2> QED
    BY <2>1, <2>2, <2>3 DEF TypeOK, CallerRec, WorkerRec
<1>2. CallerInv /\ AloneInv /\ CallInv /\ WorkerInv /\ ClosedInv
  BY DEF CallerInv, AloneInv, CallInv, WorkerInv, ClosedInv, Closed
<1>3. MisusedInv
  BY DEF MisusedInv, MutexOutlivesAnswer, NoEntryLeft
<1> QED
  BY <1>1, <1>2, <1>3 DEF IInv

\* A use is recorded with the call it is about.
LEMMA UseType ==
  ASSUME misused \subseteq MisuseRec, NEW c \in Calls, NEW by \in Events \cup {"lock", "del"},
         NEW gone \in BOOLEAN, Use(c, by, gone)
  PROVE  /\ misused' \subseteq MisuseRec
         /\ \A m \in misused' : m \in misused \/ (gone /\ m.id = c /\ m.by = by)
         /\ misused \subseteq misused'
         /\ gone => [id |-> c, by |-> by] \in misused'
BY DEF Use, MisuseRec

\* sync_lock and sync_del use the dialog of c, which may be gone.
UsesDialog(c, by) ==
  /\ \A m \in misused' : m \in misused \/ (dialog[c] = "freed" /\ m.id = c /\ m.by = by)
  /\ misused \subseteq misused'
  /\ dialog[c] = "freed" => [id |-> c, by |-> by] \in misused'

LEMMA UseOfDialog ==
  ASSUME TypeOK, NEW c \in Calls, NEW by \in {"lock", "del"},
         Use(c, by, dialog[c] = "freed")
  PROVE  UsesDialog(c, by)
<1>1. misused \subseteq MisuseRec
  BY DEF TypeOK, MisuseRec
<1> QED
  BY <1>1, UseType DEF UsesDialog

\* sync_ulck uses what may be gone.
LEMMA UseOfWorker ==
  ASSUME misused \subseteq MisuseRec, NEW c \in Calls, worker.ev \in Events,
         NEW gone \in BOOLEAN, Use(c, worker.ev, gone)
  PROVE  /\ \A m \in misused' : m \in misused \/ (gone /\ m.id = c /\ m.by = worker.ev)
         /\ misused \subseteq misused'
BY UseType

\* A caller that goes on to p, with the result r, keeps its call; the others stay.
Goes(t, p, r) ==
  /\ caller' \in [Callers -> CallerRec]
  /\ caller'[t].pc = p /\ caller'[t].id = caller[t].id /\ caller'[t].res = r
  /\ \A u \in Callers : u # t => caller'[u] = caller[u]

LEMMA CallerMoves ==
  ASSUME TypeOK, NEW t \in Callers, NEW p \in callerPc, caller' = [caller EXCEPT ![t].pc = p]
  PROVE  Goes(t, p, caller[t].res)
<1> DEFINE d == [caller[t] EXCEPT !.pc = p]
<1>1. caller \in [Callers -> CallerRec] /\ caller[t] \in CallerRec
  BY DEF TypeOK, CallerRec
<1>2. d \in CallerRec /\ d.pc = p /\ d.id = caller[t].id /\ d.res = caller[t].res
  BY <1>1 DEF CallerRec
<1>3. caller' = [caller EXCEPT ![t] = d]
  OBVIOUS
<1> HIDE DEF d
<1> QED
  BY <1>1, <1>2, <1>3 DEF Goes

LEMMA CallerEnds ==
  ASSUME TypeOK, NEW t \in Callers, NEW r \in Results,
         caller' = [caller EXCEPT ![t].pc = "del", ![t].res = r]
  PROVE  Goes(t, "del", r)
<1> DEFINE d == [caller[t] EXCEPT !.pc = "del", !.res = r]
<1>1. caller \in [Callers -> CallerRec] /\ caller[t] \in CallerRec
  BY DEF TypeOK, CallerRec
<1>2. d \in CallerRec /\ d.pc = "del" /\ d.id = caller[t].id /\ d.res = r
  BY <1>1 DEF CallerRec, callerPc
<1>3. caller' = [caller EXCEPT ![t] = d]
  OBVIOUS
<1> HIDE DEF d
<1> QED
  BY <1>1, <1>2, <1>3 DEF Goes

\* Where each step takes its caller.
LEMMA CallerGoes ==
  ASSUME TypeOK, NEW t \in Callers
  PROVE  /\ SyncInit(t) => Goes(t, "send", caller[t].res)
         /\ SendRequest(t) => Goes(t, "lock", caller[t].res)
         /\ SyncLock(t) => \E p \in {"wait", "del"} : Goes(t, p, caller[t].res)
         /\ Acquire(t) => Goes(t, "read", caller[t].res)
         /\ TimedOut(t) => Goes(t, "del", "errno")
         /\ ReadResult(t) /\ g_mapReqLock[caller[t].id] \in Results
              => Goes(t, "del", g_mapReqLock[caller[t].id])
<1>1. {"send", "lock", "wait", "read", "del"} \subseteq callerPc
  BY DEF callerPc
<1>2. SyncInit(t) => Goes(t, "send", caller[t].res)
  BY <1>1, CallerMoves DEF SyncInit
<1>3. SendRequest(t) => Goes(t, "lock", caller[t].res)
  BY <1>1, CallerMoves DEF SendRequest
<1>4. SyncLock(t) => \E p \in {"wait", "del"} : Goes(t, p, caller[t].res)
  BY <1>1, CallerMoves DEF SyncLock
<1>5. Acquire(t) => Goes(t, "read", caller[t].res)
  BY <1>1, CallerMoves DEF Acquire
<1>6. TimedOut(t) => Goes(t, "del", "errno")
  BY CallerEnds DEF TimedOut, Results
<1>7. ReadResult(t) /\ g_mapReqLock[caller[t].id] \in Results
        => Goes(t, "del", g_mapReqLock[caller[t].id])
  BY CallerEnds DEF ReadResult
<1> QED
  BY <1>2, <1>3, <1>4, <1>5, <1>6, <1>7

\* The steps of a caller keep the types.
LEMMA CallerType ==
  ASSUME TypeOK, CallerInv, NEW t \in Callers, Caller(t)
  PROVE  TypeOK'
<1> USE DEF TypeOK
<1>0. IdleCaller \in CallerRec
  BY DEF IdleCaller, CallerRec, callerPc, Results
<1>1. ASSUME NEW c \in Calls, CreateDialog(t, c) PROVE TypeOK'
  <2>1. [pc |-> "init", id |-> c, res |-> "-1"] \in CallerRec
    BY DEF CallerRec, callerPc, Results
  <2> QED
    BY <1>1, <2>1 DEF CreateDialog, CallerRec
<1> SUFFICES ASSUME CallerStep(t) \/ TimedOut(t) PROVE TypeOK'
  BY <1>1 DEF Caller
<1>2. caller[t].id \in Calls
  BY DEF CallerStep, SyncInit, SendRequest, SyncLock, Acquire, ReadResult, SyncDel, TimedOut,
     CallerInv
<1>3. CASE SyncInit(t)
  <2>1. caller' \in [Callers -> CallerRec]
    BY <1>3, CallerGoes DEF Goes
  <2> QED
    BY <1>2, <1>3, <2>1 DEF SyncInit, Created, CallerRec
<1>4. CASE SendRequest(t)
  <2>1. caller' \in [Callers -> CallerRec]
    BY <1>4, CallerGoes DEF Goes
  <2> QED
    BY <1>2, <1>4, <2>1 DEF SendRequest, Invites, CallerRec
<1>5. CASE SyncLock(t)
  <2>1. caller' \in [Callers -> CallerRec]
    BY <1>5, CallerGoes DEF Goes
  <2>2. misused' \subseteq MisuseRec
    BY <1>2, <1>5, UseType DEF SyncLock, MisuseRec
  <2> QED
    BY <1>5, <2>1, <2>2 DEF SyncLock, CallerRec, MisuseRec
<1>6. CASE Acquire(t)
  <2>1. caller' \in [Callers -> CallerRec]
    BY <1>6, CallerGoes DEF Goes
  <2> QED
    BY <1>2, <1>6, <2>1 DEF Acquire, CallerRec
<1>7. CASE TimedOut(t)
  <2>1. caller' \in [Callers -> CallerRec]
    BY <1>7, CallerGoes DEF Goes
  <2> QED
    BY <1>7, <2>1 DEF TimedOut, CallerRec
<1>8. CASE ReadResult(t)
  <2>1. g_mapReqLock[caller[t].id] \in Results
    BY <1>8 DEF ReadResult, CallerInv, Results
  <2>2. caller' \in [Callers -> CallerRec]
    BY <1>8, <2>1, CallerGoes DEF Goes
  <2> QED
    BY <1>8, <2>2 DEF ReadResult, CallerRec
<1>9. CASE SyncDel(t)
  <2>1. misused' \subseteq MisuseRec
    BY <1>2, <1>9, UseType DEF SyncDel, MisuseRec
  <2>2. g_mapReqLock' \in [Calls -> {"none", "-1", "0", "status"}]
    BY <1>2, <1>9 DEF SyncDel, Erased
  <2>3. told' \in [Calls -> Results \cup {"nothing"}]
    BY <1>2, <1>9 DEF SyncDel
  <2> QED
    BY <1>0, <1>2, <1>9, <2>1, <2>2, <2>3 DEF SyncDel, CallerRec, MisuseRec
<1> QED
  BY <1>3, <1>4, <1>5, <1>6, <1>7, <1>8, <1>9 DEF CallerStep

\* The steps of the worker keep the types.
LEMMA WorkerAfterType ==
  ASSUME worker \in WorkerRec, NEW ev \in Events
  PROVE  WorkerAfter(ev) \in WorkerRec
BY DEF WorkerAfter, WorkerRec, AfterUlck, IdleWorker, workerPc, Events

LEMMA WorkerAfterEffect ==
  ASSUME worker \in WorkerRec, worker' = WorkerAfter(worker.ev)
  PROVE  \/ worker'.pc = "idle"
         \/ /\ worker'.pc = "bye" /\ worker'.id = worker.id /\ worker'.ev = worker.ev
            /\ worker.ev \in {"accepted", "repeated"}
BY DEF WorkerAfter, WorkerRec, AfterUlck, IdleWorker, workerPc

LEMMA WorkerType ==
  ASSUME TypeOK, WorkerInv, WorkerStep
  PROVE  TypeOK'
<1> USE DEF TypeOK
<1>0. worker.id \in Calls /\ worker.ev \in Events /\ WorkerAfter(worker.ev) \in WorkerRec
  BY WorkerAfterType DEF WorkerStep, SyncUlckFind, SyncUlckSet, SyncUlckUnlock, SendBye,
     WorkerInv, WorkerRec
<1>1. CASE SyncUlckFind
  BY <1>0, <1>1 DEF SyncUlckFind, workerPc, WorkerRec
<1>2. CASE SyncUlckSet
  <2>1. misused' \subseteq MisuseRec
    BY <1>0, <1>2, UseType DEF SyncUlckSet, MisuseRec
  <2> QED
    BY <1>0, <1>2, <2>1 DEF SyncUlckSet, workerPc, ResultStored, ResultOf, MisuseRec
<1>3. CASE SyncUlckUnlock
  <2>1. misused' \subseteq MisuseRec
    BY <1>0, <1>3, UseType DEF SyncUlckUnlock, MisuseRec
  <2> QED
    BY <1>0, <1>3, <2>1 DEF SyncUlckUnlock, Unlocked, WorkerRec, MisuseRec
<1>4. CASE SendBye
  <2>1. IdleWorker \in WorkerRec
    BY DEF IdleWorker, WorkerRec, workerPc, Events
  <2>2. bye' \in [Calls -> [sent : Nat, answered : Nat]]
    BY <1>0, <1>4 DEF SendBye
  <2>3. \A c \in Calls : bye'[c].answered <= bye'[c].sent
    BY <1>0, <1>4 DEF SendBye
  <2> QED
    BY <1>4, <2>1, <2>2, <2>3 DEF SendBye, WorkerRec
<1> QED
  BY <1>1, <1>2, <1>3, <1>4 DEF WorkerStep

\* So do the messages from the network.
LEMMA ReceiveType ==
  ASSUME TypeOK, NEW c \in Calls, Receive(c)
  PROVE  TypeOK'
<1> USE DEF TypeOK
<1>0. \A ev \in Events : [pc |-> "find", id |-> c, ev |-> ev] \in WorkerRec
  BY DEF WorkerRec, workerPc
<1>1. CASE RxAccepted(c)
  BY <1>0, <1>1 DEF RxAccepted, Handle, Invites, Events, WorkerRec
<1>2. CASE RxRepeated(c)
  BY <1>0, <1>2, CallAssumption DEF RxRepeated, Handle, Events, WorkerRec
<1>3. CASE RxRefused(c)
  BY <1>0, <1>3 DEF RxRefused, Handle, Invites, Events, WorkerRec
<1>4. CASE RxChallenged(c)
  BY <1>4 DEF RxChallenged, Invites
<1>5. CASE RxByeAnswered(c)
  <2>1. bye' \in [Calls -> [sent : Nat, answered : Nat]]
    BY <1>5 DEF RxByeAnswered
  <2>2. \A d \in Calls : bye'[d].answered <= bye'[d].sent
    BY <1>5 DEF RxByeAnswered, Outstanding
  <2> QED
    BY <1>0, <1>5, <2>1, <2>2 DEF RxByeAnswered, Handle, Events, WorkerRec
<1>6. CASE DialogFreed(c)
  BY <1>6 DEF DialogFreed
<1> QED
  BY <1>1, <1>2, <1>3, <1>4, <1>5, <1>6 DEF Receive

LEMMA TypeStep == IInv /\ [Next]_vars => TypeOK'
<1> SUFFICES ASSUME IInv, [Next]_vars PROVE TypeOK'
  OBVIOUS
<1>1. CASE SipFini
  BY <1>1 DEF SipFini, IInv, TypeOK
<1>2. CASE ProcessEnds
  BY <1>2 DEF ProcessEnds, IInv, TypeOK, workerPc
<1>3. CASE UNCHANGED vars
  BY <1>3 DEF vars, IInv, TypeOK
<1> QED
  BY <1>1, <1>2, <1>3, CallerType, WorkerType, ReceiveType DEF Next, Done, IInv

-----------------------------------------------------------------------------
\* The parts of the invariant that are no types.
Facts == CallerInv /\ AloneInv /\ CallInv /\ WorkerInv /\ ClosedInv /\ MisusedInv

LEMMA CreateDialogStep ==
  ASSUME IInv, NEW t \in Callers, NEW c \in Calls, CreateDialog(t, c)
  PROVE  Facts'
<1>0. TypeOK /\ CallerInv /\ AloneInv /\ CallInv /\ WorkerInv /\ ClosedInv /\ MisusedInv
  BY DEF IInv
<1>1. /\ caller[t].pc = "idle" /\ dialog[c] = "none"
      /\ dialog' = [dialog EXCEPT ![c] = "locked"]
      /\ caller' \in [Callers -> CallerRec]
      /\ caller'[t] = [pc |-> "init", id |-> c, res |-> "-1"]
      /\ \A u \in Callers : u # t => caller'[u] = caller[u]
      /\ UNCHANGED <<worker, g_mapReqLock, mutex, invite, bye, told, misused>>
  <2> DEFINE d == [pc |-> "init", id |-> c, res |-> "-1"]
  <2>1. d \in CallerRec
    BY DEF CallerRec, callerPc, Results
  <2>2. caller \in [Callers -> CallerRec]
    BY <1>0 DEF TypeOK, CallerRec
  <2>3. caller' = [caller EXCEPT ![t] = d]
    BY DEF CreateDialog
  <2>4. caller' \in [Callers -> CallerRec] /\ caller'[t] = d
    BY <2>1, <2>2, <2>3, Zenon
  <2> QED
    BY <2>2, <2>3, <2>4 DEF CreateDialog
<1>2. invite[c] = "none" /\ told[c] = "nothing" /\ g_mapReqLock[c] = "none"
  BY <1>0, <1>1 DEF CallInv
<1>3. \A d \in Calls : dialog'[d] = IF d = c THEN "locked" ELSE dialog[d]
  BY <1>0, <1>1 DEF TypeOK
<1>4. CallerInv' /\ AloneInv'
  BY <1>0, <1>1, <1>2, <1>3 DEF CallerInv, AloneInv
<1>5. CallInv'
  BY <1>0, <1>1, <1>2, <1>3 DEF CallInv
<1>6. WorkerInv'
  BY <1>0, <1>1, <1>2, <1>3 DEF WorkerInv
<1>7. ClosedInv'
  BY <1>0, <1>1, <1>2 DEF ClosedInv, Closed
<1>8. MisusedInv'
  BY <1>0, <1>1 DEF MisusedInv, MutexOutlivesAnswer, NoEntryLeft
<1> QED
  BY <1>4, <1>5, <1>6, <1>7, <1>8 DEF Facts

LEMMA SyncInitStep ==
  ASSUME IInv, NEW t \in Callers, SyncInit(t)
  PROVE  Facts'
<1>0. TypeOK /\ CallerInv /\ AloneInv /\ CallInv /\ WorkerInv /\ ClosedInv /\ MisusedInv
  BY DEF IInv
<1> DEFINE c == caller[t].id
<1>1. /\ caller[t].pc = "init" /\ Goes(t, "send", caller[t].res)
      /\ g_mapReqLock' = [g_mapReqLock EXCEPT ![c] = "-1"]
      /\ mutex' = [mutex EXCEPT ![c] = "locked"]
      /\ UNCHANGED <<worker, dialog, invite, bye, told, misused>>
  BY <1>0, CallerGoes DEF SyncInit, Created
<1>2. /\ c \in Calls /\ told[c] = "nothing" /\ dialog[c] = "locked" /\ invite[c] = "none"
      /\ g_mapReqLock[c] = "none"
  BY <1>0, <1>1 DEF CallerInv, CallInv
<1>3. \A d \in Calls : /\ g_mapReqLock'[d] = IF d = c THEN "-1" ELSE g_mapReqLock[d]
                       /\ mutex'[d] = IF d = c THEN "locked" ELSE mutex[d]
  BY <1>0, <1>1 DEF TypeOK
<1> HIDE DEF c
<1>4. CallerInv' /\ AloneInv'
  BY <1>0, <1>1, <1>2, <1>3 DEF CallerInv, AloneInv, Goes, c
<1>5. CallInv'
  BY <1>0, <1>1, <1>2, <1>3 DEF CallInv
<1>6. WorkerInv'
  BY <1>0, <1>1, <1>2, <1>3 DEF WorkerInv
<1>7. ClosedInv'
  BY <1>0, <1>1, <1>2, <1>3 DEF ClosedInv, Closed, Goes
<1>8. MisusedInv'
  BY <1>0, <1>1, <1>2, <1>3 DEF MisusedInv, MutexOutlivesAnswer, NoEntryLeft
<1> QED
  BY <1>4, <1>5, <1>6, <1>7, <1>8 DEF Facts

LEMMA SendRequestStep ==
  ASSUME IInv, NEW t \in Callers, SendRequest(t)
  PROVE  Facts'
<1>0. TypeOK /\ CallerInv /\ AloneInv /\ CallInv /\ WorkerInv /\ ClosedInv /\ MisusedInv
  BY DEF IInv
<1> DEFINE c == caller[t].id
<1>1. /\ caller[t].pc = "send" /\ Goes(t, "lock", caller[t].res)
      /\ invite' = [invite EXCEPT ![c] = "calling"]
      /\ dialog' = [dialog EXCEPT ![c] = "live"]
      /\ UNCHANGED <<worker, g_mapReqLock, mutex, bye, told, misused>>
  BY <1>0, CallerGoes DEF SendRequest
<1>2. /\ c \in Calls /\ told[c] = "nothing" /\ dialog[c] = "locked" /\ invite[c] = "none"
      /\ g_mapReqLock[c] # "none"
  BY <1>0, <1>1 DEF CallerInv, CallInv
<1>3. \A d \in Calls : /\ invite'[d] = IF d = c THEN "calling" ELSE invite[d]
                       /\ dialog'[d] = IF d = c THEN "live" ELSE dialog[d]
  BY <1>0, <1>1 DEF TypeOK
<1> HIDE DEF c
<1>4. CallerInv' /\ AloneInv'
  BY <1>0, <1>1, <1>2, <1>3 DEF CallerInv, AloneInv, Goes, c
<1>5. CallInv'
  BY <1>0, <1>1, <1>2, <1>3 DEF CallInv
<1>6. WorkerInv'
  BY <1>0, <1>1, <1>2, <1>3 DEF WorkerInv
<1>7. ClosedInv'
  BY <1>0, <1>1, <1>2, <1>3 DEF ClosedInv, Closed, Goes
<1>8. MisusedInv'
  BY <1>0, <1>1, <1>2, <1>3 DEF MisusedInv, MutexOutlivesAnswer,
     NoEntryLeft, TypeOK
<1> QED
  BY <1>4, <1>5, <1>6, <1>7, <1>8 DEF Facts

LEMMA SyncLockStep ==
  ASSUME IInv, NEW t \in Callers, SyncLock(t)
  PROVE  Facts'
<1>0. TypeOK /\ CallerInv /\ AloneInv /\ CallInv /\ WorkerInv /\ ClosedInv /\ MisusedInv
  BY DEF IInv
<1> DEFINE c == caller[t].id
<1>1. /\ caller[t].pc = "lock" /\ c \in Calls
      /\ Goes(t, "wait", caller[t].res) \/ (Goes(t, "del", caller[t].res) /\ dialog[c] = "freed")
      /\ \A m \in misused' : m \in misused \/ (dialog[c] = "freed" /\ m.id = c /\ m.by = "lock")
      /\ misused \subseteq misused'
      /\ UNCHANGED <<worker, g_mapReqLock, mutex, dialog, invite, bye, told>>
  <2>1. caller[t].pc = "lock" /\ c \in Calls
    BY <1>0 DEF SyncLock, CallerInv
  <2>2. Goes(t, "wait", caller[t].res) \/ (Goes(t, "del", caller[t].res) /\ dialog[c] = "freed")
    <3>1. CASE caller' = [caller EXCEPT ![t].pc = "wait"]
      BY <1>0, <3>1, CallerMoves DEF callerPc
    <3>2. CASE dialog[c] = "freed" /\ caller' = [caller EXCEPT ![t].pc = "del"]
      BY <1>0, <3>2, CallerMoves DEF callerPc
    <3> QED
      BY <3>1, <3>2 DEF SyncLock
  <2>3. UsesDialog(c, "lock")
    BY <1>0, <2>1, UseOfDialog DEF SyncLock
  <2> QED
    BY <2>1, <2>2, <2>3 DEF SyncLock, UsesDialog
<1>2. /\ told[c] = "nothing" /\ g_mapReqLock[c] # "none"
      /\ dialog[c] = "freed" => invite[c] = "refused"
      /\ dialog[c] = "freed" => ~(worker.pc \notin {"idle", "joined"} /\ worker.id = c)
  BY <1>0, <1>1 DEF CallerInv, CallInv, WorkerInv
<1> HIDE DEF c
<1>4. CallerInv' /\ AloneInv'
  BY <1>0, <1>1, <1>2 DEF CallerInv, AloneInv, Goes, c
<1>5. CallInv'
  BY <1>0, <1>1, <1>2 DEF CallInv
<1>6. WorkerInv'
  BY <1>0, <1>1, <1>2 DEF WorkerInv
<1>7. ClosedInv'
  <2>1. \A d \in Calls : Closed(d)' <=> Closed(d)
    BY <1>1 DEF Closed
  <2>2. dialog[c] = "freed" => ~Closed(c)
    BY <1>2 DEF Closed
  <2>3. CASE Goes(t, "wait", caller[t].res)
    BY <1>0, <1>1, <2>1, <2>3 DEF ClosedInv, Goes, c
  <2>4. CASE Goes(t, "del", caller[t].res) /\ dialog[c] = "freed"
    BY <1>0, <1>1, <2>1, <2>2, <2>4 DEF ClosedInv, Goes, c
  <2> QED
    BY <1>1, <2>3, <2>4
<1>8. MisusedInv'
  BY <1>0, <1>1, <1>2 DEF MisusedInv, MutexOutlivesAnswer, NoEntryLeft
<1> QED
  BY <1>4, <1>5, <1>6, <1>7, <1>8 DEF Facts

LEMMA AcquireStep ==
  ASSUME IInv, NEW t \in Callers, Acquire(t)
  PROVE  Facts'
<1>0. TypeOK /\ CallerInv /\ AloneInv /\ CallInv /\ WorkerInv /\ ClosedInv /\ MisusedInv
  BY DEF IInv
<1> DEFINE c == caller[t].id
<1>1. /\ caller[t].pc = "wait" /\ Goes(t, "read", caller[t].res) /\ mutex[c] = "free"
      /\ mutex' = [mutex EXCEPT ![c] = "locked"]
      /\ UNCHANGED <<worker, g_mapReqLock, dialog, invite, bye, told, misused>>
  BY <1>0, CallerGoes DEF Acquire
<1>2. /\ c \in Calls /\ told[c] = "nothing" /\ g_mapReqLock[c] \in {"0", "status"}
      /\ ~Closed(c)
  BY <1>0, <1>1 DEF CallerInv, CallInv, ClosedInv
<1>3. \A d \in Calls : mutex'[d] = IF d = c THEN "locked" ELSE mutex[d]
  BY <1>0, <1>1 DEF TypeOK
<1> HIDE DEF c
<1>4. CallerInv' /\ AloneInv'
  BY <1>0, <1>1, <1>2, <1>3 DEF CallerInv, AloneInv, Goes, c
<1>5. CallInv'
  BY <1>0, <1>1, <1>2, <1>3 DEF CallInv
<1>6. WorkerInv'
  BY <1>0, <1>1, <1>2, <1>3 DEF WorkerInv
<1>7. ClosedInv'
  <2>1. \A d \in Calls : Closed(d)' <=> Closed(d)
    BY <1>1 DEF Closed
  <2> QED
    BY <1>0, <1>1, <1>2, <1>3, <2>1 DEF ClosedInv, Goes, c
<1>8. MisusedInv'
  BY <1>0, <1>1, <1>2, <1>3 DEF MisusedInv, MutexOutlivesAnswer, NoEntryLeft
<1> QED
  BY <1>4, <1>5, <1>6, <1>7, <1>8 DEF Facts

LEMMA TimedOutStep ==
  ASSUME IInv, NEW t \in Callers, TimedOut(t)
  PROVE  Facts'
<1>0. TypeOK /\ CallerInv /\ AloneInv /\ CallInv /\ WorkerInv /\ ClosedInv /\ MisusedInv
  BY DEF IInv
<1> DEFINE c == caller[t].id
<1>1. /\ caller[t].pc = "wait" /\ Goes(t, "del", "errno")
      /\ UNCHANGED <<worker, g_mapReqLock, mutex, dialog, invite, bye, told, misused>>
  BY <1>0, CallerGoes DEF TimedOut
<1>2. c \in Calls /\ told[c] = "nothing"
  BY <1>0, <1>1 DEF CallerInv
<1> HIDE DEF c
<1>4. CallerInv' /\ AloneInv'
  BY <1>0, <1>1, <1>2 DEF CallerInv, AloneInv, Goes, c
<1>5. CallInv'
  BY <1>0, <1>1, <1>2 DEF CallInv
<1>6. WorkerInv'
  BY <1>0, <1>1, <1>2 DEF WorkerInv
<1>7. ClosedInv'
  BY <1>0, <1>1, <1>2 DEF ClosedInv, Closed, Goes
<1>8. MisusedInv'
  BY <1>0, <1>1, <1>2 DEF MisusedInv, MutexOutlivesAnswer, NoEntryLeft
<1> QED
  BY <1>4, <1>5, <1>6, <1>7, <1>8 DEF Facts

LEMMA ReadResultStep ==
  ASSUME IInv, NEW t \in Callers, ReadResult(t)
  PROVE  Facts'
<1>0. TypeOK /\ CallerInv /\ AloneInv /\ CallInv /\ WorkerInv /\ ClosedInv /\ MisusedInv
  BY DEF IInv
<1> DEFINE c == caller[t].id
<1>1. /\ caller[t].pc = "read" /\ g_mapReqLock[c] \in {"0", "status"}
      /\ Goes(t, "del", g_mapReqLock[c])
      /\ UNCHANGED <<worker, g_mapReqLock, mutex, dialog, invite, bye, told, misused>>
  <2>1. caller[t].pc = "read" /\ g_mapReqLock[c] \in {"0", "status"}
    BY <1>0 DEF ReadResult, CallerInv
  <2>2. Goes(t, "del", g_mapReqLock[c])
    BY <1>0, <2>1, CallerGoes DEF Results
  <2> QED
    BY <2>1, <2>2 DEF ReadResult
<1>2. /\ c \in Calls /\ told[c] = "nothing" /\ ~Closed(c)
      /\ g_mapReqLock[c] = "0" => invite[c] = "accepted"
      /\ g_mapReqLock[c] = "status" => invite[c] = "refused"
  BY <1>0, <1>1 DEF CallerInv, CallInv, ClosedInv
<1> HIDE DEF c
<1>4. CallerInv' /\ AloneInv'
  BY <1>0, <1>1, <1>2 DEF CallerInv, AloneInv, Goes, c
<1>5. CallInv'
  BY <1>0, <1>1, <1>2 DEF CallInv
<1>6. WorkerInv'
  BY <1>0, <1>1, <1>2 DEF WorkerInv
<1>7. ClosedInv'
  BY <1>0, <1>1, <1>2 DEF ClosedInv, Closed, Goes
<1>8. MisusedInv'
  BY <1>0, <1>1, <1>2 DEF MisusedInv, MutexOutlivesAnswer, NoEntryLeft
<1> QED
  BY <1>4, <1>5, <1>6, <1>7, <1>8 DEF Facts

LEMMA SyncDelStep ==
  ASSUME IInv, NEW t \in Callers, SyncDel(t)
  PROVE  Facts'
<1>0. TypeOK /\ CallerInv /\ AloneInv /\ CallInv /\ WorkerInv /\ ClosedInv /\ MisusedInv
  BY DEF IInv
<1> DEFINE c == caller[t].id
<1>1. /\ caller[t].pc = "del" /\ c \in Calls /\ told[c] = "nothing"
      /\ caller' = [caller EXCEPT ![t] = IdleCaller]
      /\ told' = [told EXCEPT ![c] = caller[t].res]
      /\ \/ /\ g_mapReqLock' = [g_mapReqLock EXCEPT ![c] = "none"]
            /\ mutex' = [mutex EXCEPT ![c] = "gone"]
         \/ /\ [id |-> c, by |-> "del"] \in misused'
            /\ UNCHANGED <<g_mapReqLock, mutex>>
      /\ \A m \in misused' : m \in misused \/ (dialog[c] = "freed" /\ m.id = c /\ m.by = "del")
      /\ misused \subseteq misused'
      /\ UNCHANGED <<worker, dialog, invite, bye>>
  <2>1. caller[t].pc = "del" /\ c \in Calls /\ told[c] = "nothing"
    BY <1>0 DEF SyncDel, CallerInv
  <2>2. UsesDialog(c, "del")
    BY <1>0, <2>1, UseOfDialog DEF SyncDel
  <2> QED
    BY <2>1, <2>2 DEF SyncDel, UsesDialog, Erased
<1>2. /\ dialog[c] # "none" /\ invite[c] # "none" /\ g_mapReqLock[c] # "none"
      /\ caller[t].res = "0" => invite[c] = "accepted"
      /\ caller[t].res = "status" => invite[c] = "refused"
      /\ Closed(c) => caller[t].res = "errno"
      /\ dialog[c] = "freed" => invite[c] = "refused"
      /\ caller[t].res \in Results
  BY <1>0, <1>1 DEF CallerInv, CallInv, ClosedInv, TypeOK
<1>3. /\ \A d \in Calls : told'[d] = IF d = c THEN caller[t].res ELSE told[d]
      /\ \A d \in Calls : d # c => g_mapReqLock'[d] = g_mapReqLock[d] /\ mutex'[d] = mutex[d]
      /\ \/ g_mapReqLock'[c] = "none" /\ mutex'[c] = "gone"
         \/ /\ g_mapReqLock'[c] = g_mapReqLock[c] /\ mutex'[c] = mutex[c]
            /\ [id |-> c, by |-> "del"] \in misused'
      /\ caller'[t].pc = "idle" /\ \A u \in Callers : u # t => caller'[u] = caller[u]
  BY <1>0, <1>1 DEF TypeOK, IdleCaller
<1> HIDE DEF c
<1>4. CallerInv' /\ AloneInv'
  BY <1>0, <1>1, <1>2, <1>3 DEF CallerInv, AloneInv, Goes, c
<1>5. CallInv'
  BY <1>0, <1>1, <1>2, <1>3 DEF CallInv, Results
<1>6. WorkerInv'
  BY <1>0, <1>1, <1>2, <1>3 DEF WorkerInv
<1>7. ClosedInv'
  BY <1>0, <1>1, <1>2, <1>3 DEF ClosedInv, Closed, Goes
<1>8. MisusedInv'
  BY <1>0, <1>1, <1>2, <1>3 DEF MisusedInv, MutexOutlivesAnswer, NoEntryLeft
<1> QED
  BY <1>4, <1>5, <1>6, <1>7, <1>8 DEF Facts

LEMMA SyncUlckFindStep ==
  ASSUME IInv, SyncUlckFind
  PROVE  Facts'
<1>0. TypeOK /\ CallerInv /\ AloneInv /\ CallInv /\ WorkerInv /\ ClosedInv /\ MisusedInv
  BY DEF IInv
<1> DEFINE c == worker.id
<1>1. /\ worker.pc = "find" /\ c \in Calls
      /\ \/ g_mapReqLock[c] # "none" /\ worker'.pc = "set" /\ worker'.id = c /\ worker'.ev = worker.ev
         \/ /\ g_mapReqLock[c] = "none"
            /\ \/ worker'.pc = "idle"
               \/ /\ worker'.pc = "bye" /\ worker'.id = c /\ worker'.ev = worker.ev
                  /\ worker.ev \in {"accepted", "repeated"}
      /\ UNCHANGED <<caller, g_mapReqLock, mutex, dialog, invite, bye, told, misused>>
  <2>1. worker.pc = "find" /\ c \in Calls /\ worker \in WorkerRec
    BY <1>0 DEF SyncUlckFind, WorkerInv, TypeOK, WorkerRec
  <2>2. CASE g_mapReqLock[c] # "none"
    BY <2>1, <2>2 DEF SyncUlckFind, WorkerRec
  <2>3. CASE g_mapReqLock[c] = "none"
    <3>1. worker' = WorkerAfter(worker.ev)
      BY <2>3 DEF SyncUlckFind
    <3> QED
      BY <2>1, <2>3, <3>1, WorkerAfterEffect DEF SyncUlckFind
  <2> QED
    BY <2>2, <2>3
<1>2. /\ dialog[c] = "live" /\ invite[c] = IF worker.ev = "refused" THEN "refused" ELSE "accepted"
      /\ g_mapReqLock[c] = "none" => told[c] # "nothing" /\ mutex[c] # "free"
  BY <1>0, <1>1 DEF WorkerInv, CallInv
<1>3. \A t \in Callers : caller[t].pc \in {"send", "lock", "wait", "read", "del"} /\ caller[t].id = c
       => g_mapReqLock[c] # "none"
  BY <1>0 DEF CallerInv
<1> HIDE DEF c
<1>4. CallerInv' /\ AloneInv'
  BY <1>0, <1>1, <1>2, <1>3 DEF CallerInv, AloneInv
<1>5. CallInv'
  BY <1>0, <1>1, <1>2, <1>3 DEF CallInv
<1>6. WorkerInv'
  BY <1>0, <1>1, <1>2, <1>3 DEF WorkerInv
<1>7. ClosedInv'
  <2>1. \A d \in Calls : Closed(d)' => Closed(d)
    BY <1>1 DEF Closed, c
  <2> QED
    BY <1>0, <1>1, <2>1 DEF ClosedInv
<1>8. MisusedInv'
  BY <1>0, <1>1, <1>2, <1>3 DEF MisusedInv, MutexOutlivesAnswer, NoEntryLeft
<1> QED
  BY <1>4, <1>5, <1>6, <1>7, <1>8 DEF Facts

LEMMA SyncUlckSetStep ==
  ASSUME IInv, SyncUlckSet
  PROVE  Facts'
<1>0. TypeOK /\ CallerInv /\ AloneInv /\ CallInv /\ WorkerInv /\ ClosedInv /\ MisusedInv
  BY DEF IInv
<1> DEFINE c == worker.id
<1>1. /\ worker.pc = "set" /\ c \in Calls
      /\ worker'.pc = "unlock" /\ worker'.id = c /\ worker'.ev = worker.ev
      /\ g_mapReqLock' = IF g_mapReqLock[c] = "none" THEN g_mapReqLock
                         ELSE [g_mapReqLock EXCEPT ![c] = ResultOf(worker.ev)]
      /\ \A m \in misused' :
           m \in misused \/ (g_mapReqLock[c] = "none" /\ m.id = c /\ m.by = worker.ev)
      /\ misused \subseteq misused'
      /\ UNCHANGED <<caller, mutex, dialog, invite, bye, told>>
  <2>1. worker.pc = "set" /\ c \in Calls /\ worker \in WorkerRec /\ worker.ev \in Events
    BY <1>0 DEF SyncUlckSet, WorkerInv, TypeOK, WorkerRec
  <2>2. misused \subseteq MisuseRec /\ Use(c, worker.ev, g_mapReqLock[c] = "none")
    BY <1>0 DEF SyncUlckSet, TypeOK, MisuseRec
  <2>3. /\ \A m \in misused' :
             m \in misused \/ (g_mapReqLock[c] = "none" /\ m.id = c /\ m.by = worker.ev)
        /\ misused \subseteq misused'
    BY <2>1, <2>2, UseOfWorker
  <2>4. worker'.pc = "unlock" /\ worker'.id = c /\ worker'.ev = worker.ev
    BY <2>1 DEF SyncUlckSet, WorkerRec
  <2> QED
    BY <2>1, <2>3, <2>4 DEF SyncUlckSet, ResultStored
<1>2. /\ dialog[c] = "live" /\ invite[c] = IF worker.ev = "refused" THEN "refused" ELSE "accepted"
      /\ g_mapReqLock[c] = "none" => told[c] # "nothing" /\ mutex[c] # "free"
      /\ worker.ev \in {"accepted", "refused"} => told[c] \in {"nothing", "errno"}
      /\ ResultOf(worker.ev) = IF invite[c] = "refused" THEN "status" ELSE "0"
  BY <1>0, <1>1 DEF WorkerInv, CallInv, ClosedInv, Closed, ResultOf
<1>3. \A d \in Calls :
        g_mapReqLock'[d] = IF d = c /\ g_mapReqLock[c] # "none"
                           THEN ResultOf(worker.ev) ELSE g_mapReqLock[d]
  BY <1>0, <1>1 DEF TypeOK
<1> HIDE DEF c
<1>4. CallerInv' /\ AloneInv'
  BY <1>0, <1>1, <1>2, <1>3 DEF CallerInv, AloneInv
<1>5. CallInv'
  BY <1>0, <1>1, <1>2, <1>3 DEF CallInv
<1>6. WorkerInv'
  BY <1>0, <1>1, <1>2, <1>3 DEF WorkerInv
<1>7. ClosedInv'
  <2>1. \A d \in Calls : Closed(d)' => Closed(d)
    BY <1>1 DEF Closed, c
  <2> QED
    BY <1>0, <1>1, <2>1 DEF ClosedInv
<1>8. MisusedInv'
  <2>1. MutexOutlivesAnswer'
    BY <1>0, <1>1, <1>2 DEF MisusedInv, MutexOutlivesAnswer
  <2>2. NoEntryLeft'
    BY <1>0, <1>1, <1>2, <1>3 DEF MisusedInv, NoEntryLeft
  <2> QED
    BY <2>1, <2>2 DEF MisusedInv
<1> QED
  BY <1>4, <1>5, <1>6, <1>7, <1>8 DEF Facts

LEMMA SyncUlckUnlockStep ==
  ASSUME IInv, SyncUlckUnlock
  PROVE  Facts'
<1>0. TypeOK /\ CallerInv /\ AloneInv /\ CallInv /\ WorkerInv /\ ClosedInv /\ MisusedInv
  BY DEF IInv
<1> DEFINE c == worker.id
<1>1. /\ worker.pc = "unlock" /\ c \in Calls
      /\ \/ worker'.pc = "idle"
         \/ /\ worker'.pc = "bye" /\ worker'.id = c /\ worker'.ev = worker.ev
            /\ worker.ev \in {"accepted", "repeated"}
      /\ mutex' = IF mutex[c] = "gone" THEN mutex ELSE [mutex EXCEPT ![c] = "free"]
      /\ \A m \in misused' : m \in misused \/ (mutex[c] = "gone" /\ m.id = c /\ m.by = worker.ev)
      /\ misused \subseteq misused'
      /\ UNCHANGED <<caller, g_mapReqLock, dialog, invite, bye, told>>
  <2>1. worker.pc = "unlock" /\ c \in Calls /\ worker \in WorkerRec /\ worker.ev \in Events
    BY <1>0 DEF SyncUlckUnlock, WorkerInv, TypeOK, WorkerRec
  <2>2. misused \subseteq MisuseRec /\ Use(c, worker.ev, mutex[c] = "gone")
    BY <1>0 DEF SyncUlckUnlock, TypeOK, MisuseRec
  <2>3. /\ \A m \in misused' : m \in misused \/ (mutex[c] = "gone" /\ m.id = c /\ m.by = worker.ev)
        /\ misused \subseteq misused'
    BY <2>1, <2>2, UseOfWorker
  <2>4. \/ worker'.pc = "idle"
        \/ /\ worker'.pc = "bye" /\ worker'.id = c /\ worker'.ev = worker.ev
           /\ worker.ev \in {"accepted", "repeated"}
    BY <2>1, WorkerAfterEffect DEF SyncUlckUnlock
  <2> QED
    BY <2>1, <2>3, <2>4 DEF SyncUlckUnlock, Unlocked
<1>2. /\ dialog[c] = "live" /\ invite[c] = IF worker.ev = "refused" THEN "refused" ELSE "accepted"
      /\ mutex[c] = "gone" => g_mapReqLock[c] = "none" /\ told[c] # "nothing"
      /\ mutex[c] # "gone" => mutex[c] # "none" /\ g_mapReqLock[c] \in {"0", "status"}
      /\ worker.ev \in {"accepted", "refused"} => told[c] \in {"nothing", "errno"}
  <2>1. mutex[c] # "none"
    BY <1>0, <1>1 DEF WorkerInv, CallInv
  <2> QED
    BY <1>0, <1>1, <2>1 DEF WorkerInv, CallInv, ClosedInv, Closed, ResultOf
<1>3. /\ \A d \in Calls : d # c => mutex'[d] = mutex[d]
      /\ mutex'[c] = IF mutex[c] = "gone" THEN "gone" ELSE "free"
  BY <1>0, <1>1 DEF TypeOK
<1> HIDE DEF c
<1>4. CallerInv' /\ AloneInv'
  BY <1>0, <1>1, <1>2, <1>3 DEF CallerInv, AloneInv
<1>5. CallInv'
  BY <1>0, <1>1, <1>2, <1>3 DEF CallInv
<1>6. WorkerInv'
  BY <1>0, <1>1, <1>2, <1>3 DEF WorkerInv
<1>7. ClosedInv'
  BY <1>0, <1>1, <1>2, <1>3 DEF ClosedInv, Closed
<1>8. MisusedInv'
  <2>1. MutexOutlivesAnswer'
    BY <1>0, <1>1, <1>2 DEF MisusedInv, MutexOutlivesAnswer
  <2>2. NoEntryLeft'
    BY <1>0, <1>1, <1>2, <1>3 DEF MisusedInv, NoEntryLeft
  <2> QED
    BY <2>1, <2>2 DEF MisusedInv
<1> QED
  BY <1>4, <1>5, <1>6, <1>7, <1>8 DEF Facts

LEMMA SendByeStep ==
  ASSUME IInv, SendBye
  PROVE  Facts'
<1>0. TypeOK /\ CallerInv /\ AloneInv /\ CallInv /\ WorkerInv /\ ClosedInv /\ MisusedInv
  BY DEF IInv
<1> DEFINE c == worker.id
<1>1. /\ worker.pc = "bye" /\ c \in Calls /\ worker'.pc = "idle"
      /\ bye' = [bye EXCEPT ![c].sent = @ + 1]
      /\ UNCHANGED <<caller, g_mapReqLock, mutex, dialog, invite, told, misused>>
  BY <1>0 DEF SendBye, WorkerInv, IdleWorker
<1>2. invite[c] = "accepted"
  BY <1>0, <1>1 DEF WorkerInv
<1>3. \A d \in Calls : d # c => bye'[d] = bye[d]
  BY <1>0, <1>1 DEF TypeOK
<1> HIDE DEF c
<1>4. CallerInv' /\ AloneInv'
  BY <1>0, <1>1, <1>2, <1>3 DEF CallerInv, AloneInv
<1>5. CallInv'
  BY <1>0, <1>1, <1>2, <1>3 DEF CallInv
<1>6. WorkerInv'
  BY <1>0, <1>1, <1>2, <1>3 DEF WorkerInv
<1>7. ClosedInv'
  BY <1>0, <1>1, <1>2, <1>3 DEF ClosedInv, Closed
<1>8. MisusedInv'
  BY <1>0, <1>1, <1>2, <1>3 DEF MisusedInv, MutexOutlivesAnswer, NoEntryLeft
<1> QED
  BY <1>4, <1>5, <1>6, <1>7, <1>8 DEF Facts

LEMMA RxAcceptedStep ==
  ASSUME IInv, NEW c \in Calls, RxAccepted(c)
  PROVE  Facts'
<1>0. TypeOK /\ CallerInv /\ AloneInv /\ CallInv /\ WorkerInv /\ ClosedInv /\ MisusedInv
  BY DEF IInv
<1>1. /\ worker.pc = "idle" /\ dialog[c] = "live" /\ invite[c] = "calling"
      /\ worker'.pc = "find" /\ worker'.id = c /\ worker'.ev = "accepted"
      /\ invite' = [invite EXCEPT ![c] = "accepted"]
      /\ UNCHANGED <<caller, g_mapReqLock, mutex, dialog, bye, told, misused>>
  BY DEF RxAccepted, Ready, Handle
<1>2. \A d \in Calls : invite'[d] = IF d = c THEN "accepted" ELSE invite[d]
  BY <1>0, <1>1 DEF TypeOK
<1>4. CallerInv' /\ AloneInv'
  BY <1>0, <1>1, <1>2 DEF CallerInv, AloneInv
<1>5. CallInv'
  BY <1>0, <1>1, <1>2 DEF CallInv
<1>6. WorkerInv'
  BY <1>0, <1>1, <1>2 DEF WorkerInv
<1>7. ClosedInv'
  <2>1. \A d \in Calls : Closed(d)' => Closed(d)
    BY <1>1, <1>2 DEF Closed
  <2> QED
    BY <1>0, <1>1, <2>1 DEF ClosedInv
<1>8. MisusedInv'
  BY <1>0, <1>1, <1>2 DEF MisusedInv, MutexOutlivesAnswer, NoEntryLeft, TypeOK
<1> QED
  BY <1>4, <1>5, <1>6, <1>7, <1>8 DEF Facts

LEMMA RxRefusedStep ==
  ASSUME IInv, NEW c \in Calls, RxRefused(c)
  PROVE  Facts'
<1>0. TypeOK /\ CallerInv /\ AloneInv /\ CallInv /\ WorkerInv /\ ClosedInv /\ MisusedInv
  BY DEF IInv
<1>1. /\ worker.pc = "idle" /\ dialog[c] = "live" /\ invite[c] = "calling"
      /\ worker'.pc = "find" /\ worker'.id = c /\ worker'.ev = "refused"
      /\ invite' = [invite EXCEPT ![c] = "refused"]
      /\ UNCHANGED <<caller, g_mapReqLock, mutex, dialog, bye, told, misused>>
  BY DEF RxRefused, Ready, Handle
<1>2. \A d \in Calls : invite'[d] = IF d = c THEN "refused" ELSE invite[d]
  BY <1>0, <1>1 DEF TypeOK
<1>4. CallerInv' /\ AloneInv'
  BY <1>0, <1>1, <1>2 DEF CallerInv, AloneInv
<1>5. CallInv'
  BY <1>0, <1>1, <1>2 DEF CallInv
<1>6. WorkerInv'
  BY <1>0, <1>1, <1>2 DEF WorkerInv
<1>7. ClosedInv'
  <2>1. \A d \in Calls : Closed(d)' => Closed(d)
    BY <1>1, <1>2 DEF Closed
  <2> QED
    BY <1>0, <1>1, <2>1 DEF ClosedInv
<1>8. MisusedInv'
  BY <1>0, <1>1, <1>2 DEF MisusedInv, MutexOutlivesAnswer, NoEntryLeft, TypeOK
<1> QED
  BY <1>4, <1>5, <1>6, <1>7, <1>8 DEF Facts

LEMMA RxRepeatedStep ==
  ASSUME IInv, NEW c \in Calls, RxRepeated(c)
  PROVE  Facts'
<1>0. TypeOK /\ CallerInv /\ AloneInv /\ CallInv /\ WorkerInv /\ ClosedInv /\ MisusedInv
  BY DEF IInv
<1>1. /\ worker.pc = "idle" /\ dialog[c] = "live" /\ invite[c] = "accepted"
      /\ worker'.pc = "find" /\ worker'.id = c /\ worker'.ev = "repeated"
      /\ UNCHANGED <<caller, g_mapReqLock, mutex, dialog, invite, bye, told, misused>>
  BY DEF RxRepeated, Ready, Handle
<1>2. invite[c] = "accepted"
  BY <1>1
<1>4. CallerInv' /\ AloneInv'
  BY <1>0, <1>1, <1>2 DEF CallerInv, AloneInv
<1>5. CallInv'
  BY <1>0, <1>1, <1>2 DEF CallInv
<1>6. WorkerInv'
  BY <1>0, <1>1, <1>2 DEF WorkerInv
<1>7. ClosedInv'
  <2>1. \A d \in Calls : Closed(d)' => Closed(d)
    BY <1>1, <1>2 DEF Closed
  <2> QED
    BY <1>0, <1>1, <2>1 DEF ClosedInv
<1>8. MisusedInv'
  BY <1>0, <1>1, <1>2 DEF MisusedInv, MutexOutlivesAnswer, NoEntryLeft, TypeOK
<1> QED
  BY <1>4, <1>5, <1>6, <1>7, <1>8 DEF Facts

LEMMA RxByeAnsweredStep ==
  ASSUME IInv, NEW c \in Calls, RxByeAnswered(c)
  PROVE  Facts'
<1>0. TypeOK /\ CallerInv /\ AloneInv /\ CallInv /\ WorkerInv /\ ClosedInv /\ MisusedInv
  BY DEF IInv
<1>1. /\ worker.pc = "idle" /\ dialog[c] = "live" /\ bye[c].answered < bye[c].sent
      /\ worker'.pc = "find" /\ worker'.id = c /\ worker'.ev = "bye"
      /\ bye' = [bye EXCEPT ![c].answered = @ + 1]
      /\ UNCHANGED <<caller, g_mapReqLock, mutex, dialog, invite, told, misused>>
  BY DEF RxByeAnswered, Ready, Handle, Outstanding
<1>2. /\ invite[c] = "accepted"
      /\ \A d \in Calls : bye'[d].sent = bye[d].sent
  BY <1>0, <1>1 DEF CallInv, TypeOK
<1>4. CallerInv' /\ AloneInv'
  BY <1>0, <1>1, <1>2 DEF CallerInv, AloneInv
<1>5. CallInv'
  BY <1>0, <1>1, <1>2 DEF CallInv
<1>6. WorkerInv'
  BY <1>0, <1>1, <1>2 DEF WorkerInv
<1>7. ClosedInv'
  <2>1. \A d \in Calls : Closed(d)' => Closed(d)
    BY <1>1, <1>2 DEF Closed
  <2> QED
    BY <1>0, <1>1, <2>1 DEF ClosedInv
<1>8. MisusedInv'
  BY <1>0, <1>1, <1>2 DEF MisusedInv, MutexOutlivesAnswer, NoEntryLeft, TypeOK
<1> QED
  BY <1>4, <1>5, <1>6, <1>7, <1>8 DEF Facts

LEMMA RxChallengedStep ==
  ASSUME IInv, NEW c \in Calls, RxChallenged(c)
  PROVE  Facts'
<1>0. TypeOK /\ CallerInv /\ AloneInv /\ CallInv /\ WorkerInv /\ ClosedInv /\ MisusedInv
  BY DEF IInv
<1>1. /\ invite[c] = "calling"
      /\ UNCHANGED <<caller, worker, g_mapReqLock, mutex, dialog, bye, told, misused>>
  BY DEF RxChallenged
<1>2. \A d \in Calls :
        invite'[d] = invite[d] \/ (d = c /\ invite'[d] = "silent")
  BY <1>0 DEF RxChallenged, TypeOK
<1>4. CallerInv' /\ AloneInv'
  BY <1>0, <1>1, <1>2 DEF CallerInv, AloneInv
<1>5. CallInv'
  BY <1>0, <1>1, <1>2 DEF CallInv
<1>6. WorkerInv'
  BY <1>0, <1>1, <1>2 DEF WorkerInv
<1>7. ClosedInv'
  <2>1. \A d \in Calls : Closed(d)' => Closed(d)
    BY <1>1, <1>2 DEF Closed
  <2> QED
    BY <1>0, <1>1, <2>1 DEF ClosedInv
<1>8. MisusedInv'
  BY <1>0, <1>1, <1>2 DEF MisusedInv, MutexOutlivesAnswer, NoEntryLeft, TypeOK
<1> QED
  BY <1>4, <1>5, <1>6, <1>7, <1>8 DEF Facts

LEMMA DialogFreedStep ==
  ASSUME IInv, NEW c \in Calls, DialogFreed(c)
  PROVE  Facts'
<1>0. TypeOK /\ CallerInv /\ AloneInv /\ CallInv /\ WorkerInv /\ ClosedInv /\ MisusedInv
  BY DEF IInv
<1>1. /\ worker.pc = "idle" /\ dialog[c] = "live" /\ invite[c] = "refused"
      /\ dialog' = [dialog EXCEPT ![c] = "freed"]
      /\ UNCHANGED <<caller, worker, g_mapReqLock, mutex, invite, bye, told, misused>>
  BY DEF DialogFreed, Ready, SessionEnded
<1>2. \A d \in Calls : dialog'[d] = IF d = c THEN "freed" ELSE dialog[d]
  BY <1>0, <1>1 DEF TypeOK
<1>4. CallerInv' /\ AloneInv'
  BY <1>0, <1>1, <1>2 DEF CallerInv, AloneInv
<1>5. CallInv'
  BY <1>0, <1>1, <1>2 DEF CallInv
<1>6. WorkerInv'
  BY <1>0, <1>1, <1>2 DEF WorkerInv
<1>7. ClosedInv'
  BY <1>0, <1>1 DEF ClosedInv, Closed
<1>8. MisusedInv'
  BY <1>0, <1>1 DEF MisusedInv, MutexOutlivesAnswer, NoEntryLeft
<1> QED
  BY <1>4, <1>5, <1>6, <1>7, <1>8 DEF Facts

\* The process ends only when the worker has nothing in hand.
LEMMA ProcessEndsStep ==
  ASSUME IInv, ProcessEnds
  PROVE  Facts'
<1>0. TypeOK /\ CallerInv /\ AloneInv /\ CallInv /\ WorkerInv /\ ClosedInv /\ MisusedInv
  BY DEF IInv
<1>1. /\ worker.pc = "idle" /\ worker'.pc = "joined"
      /\ UNCHANGED <<caller, g_mapReqLock, mutex, dialog, invite, bye, told, misused>>
  BY <1>0 DEF ProcessEnds, TypeOK
<1>2. CallerInv' /\ AloneInv' /\ CallInv' /\ WorkerInv'
  BY <1>0, <1>1 DEF CallerInv, AloneInv, CallInv, WorkerInv
<1>3. ClosedInv' /\ MisusedInv'
  BY <1>0, <1>1 DEF ClosedInv, Closed, MisusedInv, MutexOutlivesAnswer, NoEntryLeft
<1> QED
  BY <1>2, <1>3 DEF Facts

LEMMA UnchangedStep ==
  ASSUME IInv,
         UNCHANGED <<caller, worker, g_mapReqLock, mutex, dialog, invite, bye, told, misused>>
  PROVE  Facts'
BY DEF IInv, Facts, CallerInv, AloneInv, CallInv, WorkerInv, ClosedInv, Closed, MisusedInv,
   MutexOutlivesAnswer, NoEntryLeft

LEMMA IInvStep == IInv /\ [Next]_vars => IInv'
<1> SUFFICES ASSUME IInv, [Next]_vars PROVE IInv'
  OBVIOUS
<1>1. ASSUME NEW t \in Callers, Caller(t) PROVE Facts'
  BY <1>1, CreateDialogStep, SyncInitStep, SendRequestStep, SyncLockStep, AcquireStep,
     TimedOutStep, ReadResultStep, SyncDelStep DEF Caller, CallerStep
<1>2. WorkerStep => Facts'
  BY SyncUlckFindStep, SyncUlckSetStep, SyncUlckUnlockStep, SendByeStep DEF WorkerStep
<1>3. ASSUME NEW c \in Calls, Receive(c) PROVE Facts'
  BY <1>3, RxAcceptedStep, RxRepeatedStep, RxRefusedStep, RxChallengedStep, RxByeAnsweredStep,
     DialogFreedStep DEF Receive
<1>4. SipFini \/ ProcessEnds => Facts'
  BY UnchangedStep, ProcessEndsStep DEF SipFini
<1>5. UNCHANGED vars => Facts'
  BY UnchangedStep DEF vars
<1>6. Facts'
  BY <1>1, <1>2, <1>3, <1>4, <1>5 DEF Next, Done
<1> QED
  BY <1>6, TypeStep DEF IInv, Facts

LEMMA InvariantIInv == Spec => []IInv
BY InitIInv, IInvStep, PTL DEF Spec

-----------------------------------------------------------------------------
\* The state of every reachable state is well typed (all of sms112_sip.cpp's calls).
THEOREM TypeCorrect == Spec => []TypeOK
BY InvariantIInv, PTL DEF IInv

\* A caller that obtained the mutex reads the server's decision over its own call
\* (sync_lock against sync_ulck).
THEOREM WokenDecision == Spec => []WokenReadsDecision
<1>1. IInv => WokenReadsDecision
  BY DEF IInv, CallerInv, CallInv, WokenReadsDecision
<1> QED
  BY <1>1, InvariantIInv, PTL

\* The first final answer finds its SSync and its mutex alive, unless the caller has
\* given up (sync_ulck against sync_del).
THEOREM MutexOutlives == Spec => []MutexOutlivesAnswer
BY InvariantIInv, PTL DEF IInv, MisusedInv

\* The first final answer is not looked up while its caller changes the map, unless
\* the caller has given up (sync_ulck against sync_init and sync_del).
THEOREM MapAtRest == Spec => []AnswerFindsMapAtRest
<1>1. IInv => AnswerFindsMapAtRest
  BY DEF IInv, TypeOK, CallerInv, CallInv, WorkerInv, ClosedInv, Closed, AnswerFindsMapAtRest
<1> QED
  BY <1>1, InvariantIInv, PTL

\* A reported call leaves no entry behind, unless its Call-ID was gone (sync_del).
THEOREM NoEntryStays == Spec => []NoEntryLeft
BY InvariantIInv, PTL DEF IInv, MisusedInv

-----------------------------------------------------------------------------
\* SipCall implements EmergencyCall: SendRequest places the call, the first final answer
\* decides it, SyncDel tells the caller, and every other step is invisible.
POut == [c \in Calls |-> Outcome(c)]
PTold == [c \in Calls |-> ToldOf(told[c])]

LEMMA InitRefines == Init => Promise!Init
BY DEF Init, Promise!Init, Outcome, ToldOf

\* A step that changes neither the report nor what the server has decided.
LEMMA Invisible ==
  ASSUME UNCHANGED told, \A c \in Calls : Outcome(c)' = Outcome(c)
  PROVE  UNCHANGED Promise!vars
BY DEF Promise!vars

LEMMA PlaceRefines ==
  ASSUME IInv, NEW t \in Callers, SendRequest(t)
  PROVE  Promise!Next
<1> DEFINE c == caller[t].id
<1>1. c \in Calls /\ told[c] = "nothing" /\ invite[c] = "none" /\ invite \in [Calls -> Invites]
  BY DEF IInv, SendRequest, CallerInv, CallInv, TypeOK
<1>2. invite' = [invite EXCEPT ![c] = "calling"] /\ UNCHANGED told
  BY DEF SendRequest
<1> HIDE DEF c
<1>3. Promise!Place(c)
  BY <1>1, <1>2 DEF Promise!Place, Outcome, ToldOf
<1> QED
  BY <1>1, <1>3 DEF Promise!Next

LEMMA DecideRefines ==
  ASSUME IInv, NEW c \in Calls, RxAccepted(c) \/ RxRefused(c)
  PROVE  Promise!Next
<1>1. PICK d \in {"accepted", "refused"} :
        invite[c] = "calling" /\ invite' = [invite EXCEPT ![c] = d] /\ UNCHANGED told
  BY DEF RxAccepted, RxRefused
<1>2. invite \in [Calls -> Invites]
  BY DEF IInv, TypeOK
<1>3. Promise!Decide(c, d)
  BY <1>1, <1>2 DEF Promise!Decide, Outcome
<1> QED
  BY <1>1, <1>3 DEF Promise!Next, Promise!Decisions

LEMMA TellRefines ==
  ASSUME IInv, NEW t \in Callers, SyncDel(t)
  PROVE  Promise!Next
<1> DEFINE c == caller[t].id
           r == caller[t].res
<1>1. /\ c \in Calls /\ told[c] = "nothing" /\ invite[c] # "none" /\ r \in Results
      /\ r = "0" => invite[c] = "accepted"
      /\ r = "status" => invite[c] = "refused"
      /\ invite[c] \in Invites /\ told \in [Calls -> Results \cup {"nothing"}]
  BY DEF IInv, SyncDel, CallerInv, CallInv, TypeOK
<1>2. told' = [told EXCEPT ![c] = r] /\ UNCHANGED invite
  BY DEF SyncDel
<1> HIDE DEF c, r
<1>3. ToldOf(r) \in {Outcome(c), "unknown"} \ {"open"} /\ ToldOf(told[c]) = "nothing"
  BY <1>1 DEF ToldOf, Outcome, Results
<1>4. PTold' = [PTold EXCEPT ![c] = ToldOf(r)]
  BY <1>1, <1>2 DEF PTold
<1>5. POut[c] = Outcome(c) /\ PTold[c] = ToldOf(told[c]) /\ Outcome(c) # "none"
  BY <1>1 DEF POut, PTold, Outcome, Invites
<1>6. UNCHANGED POut
  BY <1>2 DEF POut, Outcome
<1>7. Promise!Tell(c)
  BY <1>3, <1>4, <1>5, <1>6 DEF Promise!Tell, POut, PTold
<1> QED
  BY <1>1, <1>7 DEF Promise!Next

LEMMA StepRefines == IInv /\ [Next]_vars => [Promise!Next]_(Promise!vars)
<1> SUFFICES ASSUME IInv, [Next]_vars PROVE [Promise!Next]_(Promise!vars)
  OBVIOUS
<1>1. ASSUME UNCHANGED <<invite, told>> PROVE UNCHANGED Promise!vars
  BY <1>1, Invisible DEF Outcome
<1>2. ASSUME NEW t \in Callers, Caller(t) PROVE Promise!Next \/ UNCHANGED <<invite, told>>
  BY <1>2, PlaceRefines, TellRefines
     DEF Caller, CallerStep, CreateDialog, SyncInit, SyncLock, Acquire, TimedOut, ReadResult
<1>3. ASSUME NEW c \in Calls, Receive(c)
      PROVE  Promise!Next \/ UNCHANGED Promise!vars
  <2>1. CASE RxChallenged(c)
    <3>1. invite \in [Calls -> Invites]
      BY DEF IInv, TypeOK
    <3>2. UNCHANGED told /\ \A d \in Calls : Outcome(d)' = Outcome(d)
      BY <2>1, <3>1 DEF RxChallenged, Outcome
    <3> QED
      BY <3>2, Invisible
  <2>2. CASE RxRepeated(c) \/ RxByeAnswered(c) \/ DialogFreed(c)
    BY <1>1, <2>2 DEF RxRepeated, RxByeAnswered, DialogFreed
  <2> QED
    BY <1>3, <2>1, <2>2, DecideRefines DEF Receive
<1>4. WorkerStep \/ SipFini \/ ProcessEnds \/ UNCHANGED vars => UNCHANGED <<invite, told>>
  BY DEF WorkerStep, SyncUlckFind, SyncUlckSet, SyncUlckUnlock, SendBye, SipFini, ProcessEnds,
         vars
<1> QED
  BY <1>1, <1>2, <1>3, <1>4 DEF Next, Done

\* sms112_sip_send_req keeps the promise of EmergencyCall, for any number of callers and
\* calls: no caller is told a decision that the server has not taken over its call.
THEOREM KeepsPromise == Spec => CallKeepsPromise
<1>1. Init => Promise!Init
  BY InitRefines
<1>2. IInv /\ [Next]_vars => [Promise!Next]_(Promise!vars)
  BY StepRefines
<1> QED
  BY <1>1, <1>2, InvariantIInv, PTL DEF Spec, CallKeepsPromise, Promise!Spec

\* A caller that is told a decision is told the server's, also when other calls are
\* decided, repeated or given up meanwhile (sms112_sip_send_req).
THEOREM ToldTheDecision ==
  Spec => [](\A c \in Calls : /\ told[c] = "0" => invite[c] = "accepted"
                              /\ told[c] = "status" => invite[c] = "refused")
<1>1. IInv => \A c \in Calls : /\ told[c] = "0" => invite[c] = "accepted"
                               /\ told[c] = "status" => invite[c] = "refused"
  BY DEF IInv, CallInv
<1> QED
  BY <1>1, InvariantIInv, PTL

\* A call is reported once: no answer, late or repeated, and no other caller changes what
\* was told (sms112_sip_send_req, on_rx_response).
THEOREM ToldOnce == Spec => [][\A c \in Calls : told[c] # "nothing" => told'[c] = told[c]]_vars
<1>1. IInv /\ [Next]_vars => [\A c \in Calls : told[c] # "nothing" => told'[c] = told[c]]_vars
  <2> SUFFICES ASSUME IInv, Next, NEW c \in Calls, told[c] # "nothing"
               PROVE  told'[c] = told[c]
    OBVIOUS
  <2>1. ASSUME NEW t \in Callers, SyncDel(t) PROVE told'[c] = told[c]
    <3>1. told[caller[t].id] = "nothing" /\ told \in [Calls -> Results \cup {"nothing"}]
      BY <2>1 DEF IInv, SyncDel, CallerInv, CallInv, TypeOK
    <3>2. told' = [told EXCEPT ![caller[t].id] = caller[t].res]
      BY <2>1 DEF SyncDel
    <3> QED
      BY <3>1, <3>2
  <2>2. ASSUME NEW t \in Callers, Caller(t), ~SyncDel(t) PROVE told' = told
    BY <2>2, Zenon DEF Caller, CallerStep, CreateDialog, SyncInit, SendRequest, SyncLock, Acquire,
       TimedOut, ReadResult
  <2>3. ASSUME NEW d \in Calls, Receive(d) PROVE told' = told
    BY <2>3, Zenon DEF Receive, RxAccepted, RxRefused, RxRepeated, RxByeAnswered, RxChallenged,
       DialogFreed
  <2>4. WorkerStep \/ SipFini \/ ProcessEnds \/ Done => told' = told
    BY Zenon DEF WorkerStep, SyncUlckFind, SyncUlckSet, SyncUlckUnlock, SendBye, SipFini,
       ProcessEnds, Done, vars
  <2> QED
    BY <2>1, <2>2, <2>3, <2>4 DEF Next
<1> QED
  BY <1>1, InvariantIInv, PTL DEF Spec
=============================================================================
