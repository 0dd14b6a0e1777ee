------------------------- MODULE SmppRequestProofs -------------------------
(***************************************************************************)
(* What TLAPS proves of SmppRequest, for every set of slots, every modulus *)
(* of the sequence numbers and every bound on the socket: its types, and   *)
(* the safety invariants of its run.                                       *)
(***************************************************************************)
EXTENDS SmppRequest, SequenceTheorems, TLAPS

Pending == {"send", "wait"}
Handed == {"alloc", "read", "unlock"}

StoreEmpty == \A n \in SeqNums : g_mapReq[n] = NoSlot

\* The SReqData of the request under way is the only one that exists.
CallInv ==
  /\ call.pc = "idle" => \A s \in Slots : ~soReqData[s].live
  /\ call.pc # "idle" =>
       /\ call.slot \in Slots
       /\ call.op \in Ops
       /\ soReqData[call.slot].live
       /\ \A s \in Slots : soReqData[s].live => s = call.slot

\* After a lookup that succeeded the receiver holds an address of an SReqData.
RecvInv == recv.pc \in Handed => recv.slot \in Slots

\* NoLostWakeup from the moment the request is stored.
WakeInv ==
  call.pc \in Pending /\ soReqData[call.slot].locked
    => g_mapReq[call.seq] = call.slot \/ HandedOver(call.slot)

\* As long as no request was given up, g_mapReq has at most one entry: the
\* request under way, from its storing to its lookup by the receiver; from the
\* lookup to the unlock the requester cannot leave its wait.
StoreInv ==
  ~expired =>
    /\ ~wild
    /\ \A n \in SeqNums : g_mapReq[n] # NoSlot =>
         /\ call.pc \in Pending
         /\ call.seq = n
         /\ call.slot = g_mapReq[n]
         /\ soReqData[call.slot].locked
    /\ recv.pc \in Handed =>
         /\ call.pc \in Pending
         /\ recv.slot = call.slot
         /\ recv.seq = call.seq
         /\ soReqData[call.slot].locked
         /\ StoreEmpty
    /\ call.pc = "add" => soReqData[call.slot].locked

\* The inductive invariant of the memory properties.
IInv == TypeOK /\ CallInv /\ RecvInv /\ WakeInv /\ StoreInv

NoAnswer == \A i \in DOMAIN inbox : inbox[i].op \in Foreign

\* Every answer on its way, if any, is to the request under way, which sleeps.
Fresh ==
  /\ call.pc \in {"idle", "add", "send"} => srv = {} /\ NoAnswer
  /\ call.pc \in {"idle", "add", "send", "wait"}
  /\ call.pc # "idle" => soReqData[call.slot].locked
  /\ \A r \in srv : r.seq = call.seq
  /\ \A i \in DOMAIN inbox : inbox[i].op \in Foreign \/ inbox[i].seq = call.seq

\* What the receiver will read is the PDU it has peeked at, or the connection
\* was replaced since and there is only one request to answer.
HeadInv ==
  ~expired /\ recv.pc \in {"find", "alloc", "read"}
    => (inbox # <<>> /\ Head(inbox).seq = recv.seq) \/ Fresh

\* Data is in an SReqData only after its one lookup.  It is its own answer, or a
\* request of the server, which no caller takes for an answer.
Own(p) == p.op \in Foreign \/ p.seq = call.seq
DataInv ==
  ~expired /\ call.pc # "idle" =>
    /\ soReqData[call.slot].filled => Own(soReqData[call.slot].m_pBuf)
    /\ call.pc = "add" \/ g_mapReq[call.seq] = call.slot \/ recv.pc \in {"alloc", "read"}
         => ~soReqData[call.slot].filled

AnswerInv == IInv /\ HeadInv /\ DataInv

\* As long as no request was given up and the framing holds, an answer is on
\* its way only while its requester waits, and no other is.  The server's own
\* requests may be in the socket at any time.
QuietInv ==
  ~expired /\ ~torn =>
    /\ call.pc # "wait" => srv = {} /\ NoAnswer /\ recv.pc \in {"idle", "handle"}
    /\ call.pc = "send" => soReqData[call.slot].locked
    /\ call.pc = "wait" /\ ~soReqData[call.slot].locked
         => srv = {} /\ NoAnswer /\ recv.pc \in {"idle", "handle"}
    /\ ~NoAnswer => srv = {}
    /\ \A i \in DOMAIN inbox : inbox[i].op # "junk"
    /\ \A i, j \in DOMAIN inbox :
         inbox[i].op \notin Foreign /\ inbox[j].op \notin Foreign => i = j
    /\ \A r1, r2 \in srv : r1 = r2
    /\ recv.pc \in {"find", "alloc", "read"}
         => srv = {} /\ inbox # <<>> /\ Head(inbox).op \notin Foreign
    /\ recv.pc = "unlock" => srv = {} /\ NoAnswer

-----------------------------------------------------------------------------
\* What a read leaves in the socket is again a sequence of PDUs.
LEMMA AfterReadType ==
  ASSUME NEW q \in Seq(Pdus), q # <<>>
  PROVE  /\ \A r \in Remainders(q) : r \in Seq(Pdus)
         /\ \A r \in Torn(q) : r \in Seq(Pdus)
         /\ \A r \in AfterRead(q) : r \in Seq(Pdus)
<1>1. Consumed(q) \in Seq(Pdus)
  BY HeadTailProperties DEF Consumed
<1>2. \A i \in 2 .. Len(q) + 1 : SubSeq(q, i, Len(q)) \in Seq(Pdus)
  <2>1. TAKE i \in 2 .. Len(q) + 1
  <2>2. i \in Int /\ Len(q) \in Nat
    BY <2>1, LenProperties
  <2>3. \A k \in i .. Len(q) : q[k] \in Pdus
    BY <2>1, <2>2, ElementOfSeq
  <2> QED
    BY <2>2, <2>3, SubSeqProperties, RequestAssumption
<1>3. \A r \in Remainders(q) : r \in Seq(Pdus)
  BY <1>1, <1>2 DEF Remainders
<1>4. \A n \in SeqNums : Junk(n) \in Pdus
  BY DEF Junk, Pdus
<1>5. \A r \in Torn(q) : r \in Seq(Pdus)
  <2>1. ASSUME NEW n \in SeqNums, NEW r \in Remainders(q)
        PROVE  <<Junk(n)>> \o r \in Seq(Pdus)
    <3>1. <<Junk(n)>> \in Seq(Pdus) /\ r \in Seq(Pdus)
      BY <1>3, <1>4
    <3> QED
      BY <3>1, ConcatProperties
  <2>2. ASSUME NEW t \in Torn(q)
        PROVE  \E n \in SeqNums, r \in Remainders(q) : t = <<Junk(n)>> \o r
    BY DEF Torn
  <2> QED
    BY <2>1, <2>2, Zenon
<1> QED
  BY <1>3, <1>5 DEF AfterRead

\* What the receiver makes of an SReqData is an SReqData, as live as it was.
LEMMA FieldTypes ==
  ASSUME NEW d \in SReqData, NEW p \in Pdus
  PROVE  LET filled == [d EXCEPT !.m_pBuf = p, !.filled = TRUE]
         IN  /\ filled \in SReqData
             /\ Unlocked(d) \in SReqData
             /\ filled.live = d.live /\ filled.locked = d.locked
             /\ filled.filled /\ filled.m_pBuf = p
             /\ Unlocked(d).live = d.live /\ ~Unlocked(d).locked
             /\ Unlocked(d).filled = d.filled /\ Unlocked(d).m_pBuf = d.m_pBuf
<1> DEFINE filled == [d EXCEPT !.m_pBuf = p, !.filled = TRUE]
<1>1. filled \in SReqData /\ Unlocked(d) \in SReqData
  BY DEF SReqData, Unlocked
<1>2. /\ filled.live = d.live /\ filled.locked = d.locked
      /\ filled.filled /\ filled.m_pBuf = p
  BY DEF SReqData
<1>3. /\ Unlocked(d).live = d.live /\ ~Unlocked(d).locked
      /\ Unlocked(d).filled = d.filled /\ Unlocked(d).m_pBuf = d.m_pBuf
  BY DEF SReqData, Unlocked
<1> QED
  BY <1>1, <1>2, <1>3

\* An untouched buffer is a buffer.
LEMMA RawType == Raw \in Pdus
BY RequestAssumption DEF Raw, Pdus, SeqNums

\* An SReqData given another buffer, or a fresh one, is otherwise what it was.
LEMMA BufferTypes ==
  ASSUME NEW d \in SReqData, NEW p \in Pdus
  PROVE  LET e == [d EXCEPT !.m_pBuf = p]
         IN  e \in SReqData /\ e.live = d.live /\ e.locked = d.locked
BY DEF SReqData

LEMMA AllocTypes ==
  ASSUME NEW d \in SReqData
  PROVE  LET e == [d EXCEPT !.m_pBuf = Raw]
         IN  e \in SReqData /\ e.live = d.live /\ e.locked = d.locked
BY RawType, BufferTypes

-----------------------------------------------------------------------------
\* Types, and the life of the SReqData, step by step.
LEMMA InitIInv == Init => IInv
<1> SUFFICES ASSUME Init PROVE IInv
  OBVIOUS
<1>1. TypeOK
  <2>1. DeadReqData \in SReqData
    BY RawType DEF DeadReqData, SReqData
  <2>2. IdleCall \in [pc : callPc, seq : SeqNums, op : Ops \cup {"none"},
                      slot : Slots \cup {NoSlot}, res : Results]
    BY RequestAssumption DEF IdleCall, callPc, Results, SeqNums
  <2>3. IdleRecv \in [pc : recvPc, seq : SeqNums, slot : Slots \cup {NoSlot}]
    BY RequestAssumption DEF IdleRecv, recvPc, SeqNums
  <2>4. 0 \in SeqNums
    BY RequestAssumption DEF SeqNums
  <2>5. <<>> \in Seq(Pdus)
    OBVIOUS
  <2> QED
    BY <2>1, <2>2, <2>3, <2>4, <2>5 DEF Init, TypeOK
<1>2. CallInv /\ RecvInv /\ WakeInv /\ StoreInv
  BY DEF Init, CallInv, RecvInv, WakeInv, StoreInv, IdleCall, IdleRecv, DeadReqData,
         Pending, Handed
<1> QED
  BY <1>1, <1>2 DEF IInv

\* Types are preserved, given where the two threads can be.
LEMMA TypeStep == TypeOK /\ CallInv /\ RecvInv /\ [Next]_vars => TypeOK'
<1> SUFFICES ASSUME TypeOK, CallInv, RecvInv, [Next]_vars PROVE TypeOK'
  OBVIOUS
<1> USE DEF TypeOK
<1>1. ASSUME NEW o \in Ops, NEW s \in Slots, Construct(o, s) PROVE TypeOK'
  <2>1. g_uiSecNum' \in SeqNums
    BY <1>1, RequestAssumption DEF Construct, NextSeq, SeqNums
  <2>2. NewReqData \in SReqData
    BY RawType DEF NewReqData, SReqData
  <2> QED
    BY <1>1, <2>1, <2>2 DEF Construct, callPc, Results
<1>2. CASE StorAdd
  BY <1>2 DEF StorAdd, CallInv, callPc, Results
<1>3. CASE TcpSend
  BY <1>3 DEF TcpSend, CallInv, callPc, Requests
<1>4. CASE TcpSendFails
  BY <1>4 DEF TcpSendFails, callPc, Results
<1>5. CASE Acquire
  BY <1>5 DEF Acquire, callPc, Results, SReqData
<1>6. CASE TimedOut
  BY <1>6 DEF TimedOut, callPc, Results
<1>7. CASE Return
  BY <1>7 DEF Return, callPc, Results
<1>8. CASE Destroy
  <2>1. DeadReqData \in SReqData
    BY RawType DEF DeadReqData, SReqData
  <2>2. IdleCall \in [pc : callPc, seq : SeqNums, op : Ops \cup {"none"},
                      slot : Slots \cup {NoSlot}, res : Results]
    BY RequestAssumption DEF IdleCall, callPc, Results, SeqNums
  <2> QED
    BY <1>8, <2>1, <2>2 DEF Destroy
<1>9. CASE Reconnect
  BY <1>9 DEF Reconnect
<1>10. CASE Peek
  <2>1. Head(inbox) \in Pdus
    BY <1>10, HeadTailProperties DEF Peek
  <2> QED
    BY <1>10, <2>1 DEF Peek, recvPc, Pdus
<1>11. CASE OperReq
  <2>1. [IdleRecv EXCEPT !.pc = "handle"] \in
          [pc : recvPc, seq : SeqNums, slot : Slots \cup {NoSlot}]
    BY RequestAssumption DEF IdleRecv, recvPc, SeqNums
  <2>2. IdleRecv \in [pc : recvPc, seq : SeqNums, slot : Slots \cup {NoSlot}]
    BY RequestAssumption DEF IdleRecv, recvPc, SeqNums
  <2>3. inbox' \in Seq(Pdus)
    BY <1>11, AfterReadType DEF OperReq
  <2>4. recv' \in [pc : recvPc, seq : SeqNums, slot : Slots \cup {NoSlot}]
    BY <1>11, <2>1, <2>2 DEF OperReq
  <2>5. torn' \in BOOLEAN
    BY <1>11 DEF OperReq
  <2> QED
    BY <1>11, <2>3, <2>4, <2>5 DEF OperReq
<1>12. CASE GetAndRem
  <2>1. IdleRecv \in [pc : recvPc, seq : SeqNums, slot : Slots \cup {NoSlot}]
    BY RequestAssumption DEF IdleRecv, recvPc, SeqNums
  <2> QED
    BY <1>12, <2>1 DEF GetAndRem, Lookup, Erased, recvPc
<1>13. CASE Alloc
  <2>1. recv.slot \in Slots
    BY <1>13 DEF Alloc, RecvInv, Handed
  <2> DEFINE d == [soReqData[recv.slot] EXCEPT !.m_pBuf = Raw]
  <2>2. soReqData[recv.slot] \in SReqData
    BY <2>1
  <2>3. d \in SReqData
    BY <2>2, AllocTypes, Zenon
  <2>4. /\ soReqData' = IF soReqData[recv.slot].live
                        THEN [soReqData EXCEPT ![recv.slot] = d] ELSE soReqData
        /\ wild' = (wild \/ ~soReqData[recv.slot].live)
        /\ recv' = [recv EXCEPT !.pc = "read"]
        /\ UNCHANGED <<g_uiSecNum, g_mapReq, call, srv, inbox, expired, torn>>
    BY <1>13 DEF Alloc, Use
  <2> HIDE DEF d
  <2>5. soReqData' \in [Slots -> SReqData]
    BY <2>1, <2>3, <2>4
  <2>6. recv' \in [pc : recvPc, seq : SeqNums, slot : Slots \cup {NoSlot}]
    BY <2>4 DEF recvPc
  <2>7. wild' \in BOOLEAN
    BY <2>4, Zenon
  <2> QED
    BY <2>4, <2>5, <2>6, <2>7
<1>14. CASE ReadAnswer
  <2>1. recv.slot \in Slots
    BY <1>14 DEF ReadAnswer, RecvInv, Handed
  <2>2. Head(inbox) \in Pdus
    BY <1>14, HeadTailProperties DEF ReadAnswer
  <2>3. [soReqData[recv.slot] EXCEPT !.m_pBuf = Head(inbox), !.filled = TRUE] \in SReqData
    BY <2>1, <2>2, FieldTypes
  <2>4. inbox' \in Seq(Pdus)
    BY <1>14, AfterReadType DEF ReadAnswer
  <2> QED
    BY <1>14, <2>1, <2>3, <2>4 DEF ReadAnswer, Use, recvPc, SReqData
<1>15. CASE ReadFails
  <2>1. recv.slot \in Slots
    BY <1>15 DEF ReadFails, RecvInv, Handed
  <2>2. inbox' \in Seq(Pdus)
    BY <1>15, AfterReadType DEF ReadFails
  <2>3. soReqData' \in [Slots -> SReqData]
    BY <1>15, <2>1 DEF ReadFails, Use
  <2> QED
    BY <1>15, <2>1, <2>2, <2>3 DEF ReadFails, Use, recvPc, AfterFailedRead, SReqData
<1>16. CASE Unlock
  <2>1. recv.slot \in Slots
    BY <1>16 DEF Unlock, RecvInv, Handed
  <2>2. Unlocked(soReqData[recv.slot]) \in SReqData
    BY <2>1, RawType, FieldTypes
  <2>3. IdleRecv \in [pc : recvPc, seq : SeqNums, slot : Slots \cup {NoSlot}]
    BY RequestAssumption DEF IdleRecv, recvPc, SeqNums
  <2> QED
    BY <1>16, <2>1, <2>2, <2>3 DEF Unlock, Use, SReqData
<1>17. ASSUME NEW r \in Requests, Answer(r) PROVE TypeOK'
  <2>1. [op |-> r.op, seq |-> r.seq] \in Pdus
    BY DEF Requests, Pdus
  <2>2. Append(inbox, [op |-> r.op, seq |-> r.seq]) \in Seq(Pdus)
    BY <2>1, AppendProperties
  <2> QED
    BY <1>17, <2>2 DEF Answer
<1>18. ASSUME NEW o \in Foreign, Request(o) PROVE TypeOK'
  <2>1. [op |-> o, seq |-> 0] \in Pdus
    BY RequestAssumption DEF Pdus, SeqNums
  <2>2. Append(inbox, [op |-> o, seq |-> 0]) \in Seq(Pdus)
    BY <2>1, AppendProperties
  <2> QED
    BY <1>18, <2>2 DEF Request
<1>19. CASE Handled
  <2>1. IdleRecv \in [pc : recvPc, seq : SeqNums, slot : Slots \cup {NoSlot}]
    BY RequestAssumption DEF IdleRecv, recvPc, SeqNums
  <2> QED
    BY <1>19, <2>1 DEF Handled
<1>20. CASE UNCHANGED vars
  BY <1>20 DEF vars
<1> QED
  BY <1>1, <1>2, <1>3, <1>4, <1>5, <1>6, <1>7, <1>8, <1>9, <1>10, <1>11, <1>12,
     <1>13, <1>14, <1>15, <1>16, <1>17, <1>18, <1>19, <1>20
     DEF Next, Caller, CallerStep, Receiver, ReceiverStep, Server

-----------------------------------------------------------------------------
\* The receiver's uses of an SReqData: other slots are left alone, and no use
\* creates or ends an SReqData.
LEMMA UseEffect ==
  ASSUME soReqData \in [Slots -> SReqData], wild \in BOOLEAN, NEW s \in Slots, NEW d \in SReqData,
         d.live = soReqData[s].live, Use(s, d)
  PROVE  /\ \A t \in Slots : soReqData'[t].live = soReqData[t].live
         /\ \A t \in Slots : t # s => soReqData'[t] = soReqData[t]
         /\ soReqData[s].live => soReqData'[s] = d /\ wild' = wild
<1>1. CASE soReqData[s].live
  <2>1. soReqData' = [soReqData EXCEPT ![s] = d] /\ wild' = wild
    BY <1>1 DEF Use
  <2> QED
    BY <1>1, <2>1
<1>2. CASE ~soReqData[s].live
  <2>1. soReqData' = soReqData
    BY <1>2 DEF Use
  <2> QED
    BY <1>2, <2>1
<1> QED
  BY <1>1, <1>2

\* The receiver at work on the SReqData it was handed, up to the unlock.
Work == Alloc \/ ReadAnswer \/ ReadFails

\* What allocating and reading do to the SReqData in the receiver's hands.
LEMMA WorkEffect ==
  ASSUME TypeOK, RecvInv, Work
  PROVE  /\ recv.pc \in Handed /\ recv.slot \in Slots
         /\ recv'.pc \in Handed /\ recv'.slot = recv.slot /\ recv'.seq = recv.seq
         /\ \A t \in Slots : /\ soReqData'[t].live = soReqData[t].live
                             /\ soReqData'[t].locked = soReqData[t].locked
         /\ soReqData[recv.slot].live => wild' = wild
         /\ UNCHANGED <<g_mapReq, call, srv, expired>>
<1> USE DEF TypeOK
<1>1. recv.slot \in Slots /\ recv.pc \in Handed
  BY DEF Work, Alloc, ReadAnswer, ReadFails, RecvInv, Handed
<1>2. CASE Alloc
  <2> DEFINE d == [soReqData[recv.slot] EXCEPT !.m_pBuf = Raw]
  <2>1. d \in SReqData /\ d.live = soReqData[recv.slot].live
                       /\ d.locked = soReqData[recv.slot].locked
    <3>1. soReqData[recv.slot] \in SReqData
      BY <1>1
    <3> QED
      BY <3>1, AllocTypes, Zenon
  <2>2. Use(recv.slot, d) /\ recv' = [recv EXCEPT !.pc = "read"]
    BY <1>2 DEF Alloc
  <2> HIDE DEF d
  <2> QED
    BY <1>1, <1>2, <2>1, <2>2, UseEffect DEF Alloc, Use, Handed
<1>3. CASE ReadAnswer
  <2>1. Head(inbox) \in Pdus
    BY <1>3, HeadTailProperties DEF ReadAnswer
  <2> DEFINE d == [soReqData[recv.slot] EXCEPT !.m_pBuf = Head(inbox), !.filled = TRUE]
  <2>2. d \in SReqData /\ d.live = soReqData[recv.slot].live
                       /\ d.locked = soReqData[recv.slot].locked
    <3>1. soReqData[recv.slot] \in SReqData
      BY <1>1
    <3> QED
      BY <2>1, <3>1, FieldTypes, Zenon
  <2>3. Use(recv.slot, d) /\ recv' = [recv EXCEPT !.pc = "unlock"]
    BY <1>3 DEF ReadAnswer
  <2> HIDE DEF d
  <2> QED
    BY <1>1, <1>3, <2>2, <2>3, UseEffect DEF ReadAnswer, Use, Handed
<1>4. CASE ReadFails
  BY <1>1, <1>4 DEF ReadFails, Use, Handed, AfterFailedRead
<1> QED
  BY <1>2, <1>3, <1>4 DEF Work

\* What the unlock does to it.
LEMMA UnlockEffect ==
  ASSUME TypeOK, RecvInv, Unlock
  PROVE  /\ recv.pc = "unlock" /\ recv.slot \in Slots /\ recv'.pc = "idle"
         /\ \A t \in Slots : soReqData'[t].live = soReqData[t].live
         /\ \A t \in Slots : t # recv.slot => soReqData'[t] = soReqData[t]
         /\ soReqData[recv.slot].live =>
              /\ ~soReqData'[recv.slot].locked
              /\ soReqData'[recv.slot].filled = soReqData[recv.slot].filled
              /\ soReqData'[recv.slot].m_pBuf = soReqData[recv.slot].m_pBuf
              /\ wild' = wild
         /\ UNCHANGED <<g_mapReq, call, srv, inbox, expired, torn>>
<1>1. recv.slot \in Slots /\ soReqData \in [Slots -> SReqData] /\ wild \in BOOLEAN
  BY DEF Unlock, RecvInv, Handed, TypeOK
<1> DEFINE d == Unlocked(soReqData[recv.slot])
<1>2. /\ d \in SReqData /\ d.live = soReqData[recv.slot].live /\ ~d.locked
      /\ d.filled = soReqData[recv.slot].filled /\ d.m_pBuf = soReqData[recv.slot].m_pBuf
  BY <1>1, RawType, FieldTypes
<1>3. Use(recv.slot, d)
  BY DEF Unlock
<1> HIDE DEF d
<1>4. /\ \A t \in Slots : soReqData'[t].live = soReqData[t].live
      /\ \A t \in Slots : t # recv.slot => soReqData'[t] = soReqData[t]
      /\ soReqData[recv.slot].live => soReqData'[recv.slot] = d /\ wild' = wild
  BY <1>1, <1>2, <1>3, UseEffect
<1> QED
  BY <1>1, <1>2, <1>4 DEF Unlock, IdleRecv

-----------------------------------------------------------------------------
\* Every step preserves the invariants of the memory.
LEMMA MemoryStep ==
  IInv /\ [Next]_vars => CallInv' /\ RecvInv' /\ WakeInv' /\ StoreInv'
<1> DEFINE Goal == CallInv' /\ RecvInv' /\ WakeInv' /\ StoreInv'
<1> SUFFICES ASSUME IInv, [Next]_vars PROVE Goal
  OBVIOUS
<1>0. TypeOK /\ CallInv /\ RecvInv /\ WakeInv /\ StoreInv
  BY DEF IInv
<1> USE <1>0 DEF TypeOK
<1>1. ASSUME NEW o \in Ops, NEW s \in Slots, Construct(o, s) PROVE Goal
  <2>1. /\ call.pc = "idle" /\ call'.pc = "add" /\ call'.slot = s /\ call'.op = o
        /\ soReqData'[s] = NewReqData
        /\ \A t \in Slots : t # s => soReqData'[t] = soReqData[t]
        /\ UNCHANGED <<g_mapReq, recv, wild, expired>>
    BY <1>1 DEF Construct
  <2>2. CallInv'
    BY <2>1 DEF CallInv, NewReqData
  <2>3. RecvInv' /\ WakeInv'
    BY <2>1 DEF RecvInv, WakeInv, Pending
  <2>4. StoreInv'
    BY <2>1 DEF StoreInv, Pending, StoreEmpty, NewReqData
  <2> QED
    BY <2>2, <2>3, <2>4
<1>2. CASE StorAdd
  <2>1. CallInv' /\ RecvInv'
    BY <1>2 DEF StorAdd, CallInv, RecvInv
  <2>2. WakeInv'
    BY <1>2 DEF StorAdd, WakeInv, Pending
  <2>3. StoreInv'
    <3>1. SUFFICES ASSUME ~expired' PROVE StoreInv'
      BY DEF StoreInv
    <3>2. /\ call.pc = "add" /\ ~expired /\ call' = [call EXCEPT !.pc = "send"]
          /\ g_mapReq' = [g_mapReq EXCEPT ![call.seq] = call.slot]
          /\ UNCHANGED <<soReqData, recv, wild>>
      BY <1>2, <3>1 DEF StorAdd
    <3>3. StoreEmpty /\ recv.pc \notin Handed /\ soReqData[call.slot].locked /\ ~wild
      BY <3>2 DEF StoreInv, StoreEmpty, Pending
    <3>4. \A n \in SeqNums : g_mapReq'[n] # NoSlot => n = call.seq /\ g_mapReq'[n] = call.slot
      BY <3>2, <3>3 DEF StoreEmpty
    <3> QED
      BY <3>2, <3>3, <3>4 DEF StoreInv, Pending
  <2> QED
    BY <2>1, <2>2, <2>3
<1>3. CASE TcpSend
  <2>1. /\ call.pc = "send" /\ call' = [call EXCEPT !.pc = "wait"]
        /\ UNCHANGED <<g_mapReq, soReqData, recv, wild, expired>>
    BY <1>3 DEF TcpSend
  <2>2. CallInv' /\ RecvInv' /\ WakeInv'
    BY <2>1 DEF CallInv, RecvInv, WakeInv, HandedOver, Pending
  <2>3. StoreInv'
    BY <2>1 DEF StoreInv, StoreEmpty, Pending
  <2> QED
    BY <2>2, <2>3
<1>4. CASE TcpSendFails \/ TimedOut
  BY <1>4 DEF TcpSendFails, TimedOut, CallInv, RecvInv, WakeInv, StoreInv, Pending
<1>5. CASE Acquire
  <2>1. /\ call.pc = "wait" /\ ~soReqData[call.slot].locked /\ call.slot \in Slots
        /\ call'.pc = "woken" /\ call'.slot = call.slot /\ call'.op = call.op
        /\ soReqData' = [soReqData EXCEPT ![call.slot].locked = TRUE]
        /\ UNCHANGED <<g_mapReq, recv, wild, expired>>
    BY <1>5 DEF Acquire, CallInv
  <2>2. \A t \in Slots : soReqData'[t].live = soReqData[t].live
    BY <2>1 DEF SReqData
  <2>3. CallInv' /\ RecvInv' /\ WakeInv'
    BY <2>1, <2>2 DEF CallInv, RecvInv, WakeInv, Pending
  <2>4. StoreInv'
    BY <2>1 DEF StoreInv, StoreEmpty, Pending
  <2> QED
    BY <2>3, <2>4
<1>6. CASE Return
  BY <1>6 DEF Return, CallInv, RecvInv, WakeInv, StoreInv, StoreEmpty, Pending
<1>7. CASE Destroy
  <2>1. /\ call.pc = "returned" /\ call' = IdleCall
        /\ soReqData' = [soReqData EXCEPT ![call.slot] = DeadReqData]
        /\ UNCHANGED <<g_mapReq, recv, wild, expired>>
    BY <1>7 DEF Destroy
  <2>2. CallInv' /\ RecvInv' /\ WakeInv'
    BY <2>1 DEF CallInv, RecvInv, WakeInv, Pending, IdleCall, DeadReqData
  <2>3. StoreInv'
    BY <2>1 DEF StoreInv, StoreEmpty, Pending, IdleCall
  <2> QED
    BY <2>2, <2>3
<1>8. CASE Reconnect
  BY <1>8 DEF Reconnect, CallInv, RecvInv, WakeInv, StoreInv, StoreEmpty,
              HandedOver, Pending
<1>15. CASE OperReq \/ Handled
  <2>1. /\ recv.pc \notin Handed /\ recv'.pc \notin Handed
        /\ UNCHANGED <<g_mapReq, soReqData, call, wild, expired>>
    BY <1>15 DEF OperReq, Handled, Handed, IdleRecv
  <2>2. CallInv' /\ RecvInv'
    BY <2>1 DEF CallInv, RecvInv
  <2>3. WakeInv' /\ StoreInv'
    BY <2>1 DEF WakeInv, StoreInv, StoreEmpty, HandedOver, Handed, Pending
  <2> QED
    BY <2>2, <2>3
<1>9. CASE Peek
  BY <1>9 DEF Peek, CallInv, RecvInv, WakeInv, StoreInv, StoreEmpty, HandedOver,
              Pending, Handed
<1>10. CASE GetAndRem
  <2>1. CASE g_mapReq[recv.seq] = NoSlot
    <3>1. recv.pc = "find" /\ recv' = IdleRecv
          /\ UNCHANGED <<g_mapReq, soReqData, call, wild, expired>>
      BY <1>10, <2>1 DEF GetAndRem, Lookup
    <3> QED
      BY <3>1 DEF CallInv, RecvInv, WakeInv, StoreInv, StoreEmpty, HandedOver,
                  Pending, Handed, IdleRecv
  <2>2. CASE g_mapReq[recv.seq] # NoSlot
    <3>1. /\ recv.pc = "find" /\ recv'.pc = "alloc" /\ recv'.seq = recv.seq
          /\ recv'.slot = g_mapReq[recv.seq]
          /\ g_mapReq' = [g_mapReq EXCEPT ![recv.seq] = NoSlot]
          /\ UNCHANGED <<soReqData, call, wild, expired>>
      BY <1>10, <2>2 DEF GetAndRem, Lookup, Erased
    <3>2. CallInv' /\ RecvInv'
      BY <2>2, <3>1 DEF CallInv, RecvInv
    <3>3. WakeInv'
      BY <3>1 DEF WakeInv, HandedOver
    <3>4. StoreInv'
      <4>1. SUFFICES ASSUME ~expired PROVE StoreInv'
        BY <3>1 DEF StoreInv
      <4>2. /\ call.pc \in Pending /\ call.seq = recv.seq
            /\ call.slot = g_mapReq[recv.seq] /\ soReqData[call.slot].locked /\ ~wild
        BY <2>2, <4>1 DEF StoreInv
      <4>3. \A n \in SeqNums : g_mapReq'[n] = NoSlot
        BY <3>1, <4>1, <4>2 DEF StoreInv
      <4> QED
        BY <3>1, <4>2, <4>3 DEF StoreInv, StoreEmpty
    <3> QED
      BY <3>2, <3>3, <3>4
  <2> QED
    BY <2>1, <2>2
<1>11. CASE Work
  <2>1. /\ recv.pc \in Handed /\ recv.slot \in Slots
        /\ recv'.pc \in Handed /\ recv'.slot = recv.slot /\ recv'.seq = recv.seq
        /\ \A t \in Slots : /\ soReqData'[t].live = soReqData[t].live
                            /\ soReqData'[t].locked = soReqData[t].locked
        /\ soReqData[recv.slot].live => wild' = wild
        /\ UNCHANGED <<g_mapReq, call, expired>>
    BY <1>11, WorkEffect
  <2>2. CallInv' /\ RecvInv'
    BY <2>1 DEF CallInv, RecvInv
  <2>3. WakeInv'
    BY <2>1 DEF WakeInv, HandedOver, CallInv, Pending, Handed
  <2>4. StoreInv'
    BY <2>1 DEF StoreInv, StoreEmpty, CallInv, Pending
  <2> QED
    BY <2>2, <2>3, <2>4
<1>12. CASE Unlock
  <2>1. /\ recv.pc = "unlock" /\ recv.slot \in Slots /\ recv'.pc = "idle"
        /\ \A t \in Slots : soReqData'[t].live = soReqData[t].live
        /\ \A t \in Slots : t # recv.slot => soReqData'[t] = soReqData[t]
        /\ soReqData[recv.slot].live => ~soReqData'[recv.slot].locked /\ wild' = wild
        /\ UNCHANGED <<g_mapReq, call, expired>>
    BY <1>12, UnlockEffect
  <2>2. CallInv' /\ RecvInv'
    BY <2>1 DEF CallInv, RecvInv, Handed
  <2>3. WakeInv'
    BY <2>1 DEF WakeInv, HandedOver, CallInv, Pending
  <2>4. StoreInv'
    BY <2>1 DEF StoreInv, StoreEmpty, CallInv, Pending, Handed
  <2> QED
    BY <2>2, <2>3, <2>4
<1>13. ASSUME NEW r \in Requests, Answer(r) PROVE Goal
  BY <1>13 DEF Answer, CallInv, RecvInv, WakeInv, StoreInv, StoreEmpty, HandedOver, Pending
<1>16. ASSUME NEW o \in Foreign, Request(o) PROVE Goal
  BY <1>16 DEF Request, CallInv, RecvInv, WakeInv, StoreInv, StoreEmpty, HandedOver, Pending
<1>14. CASE UNCHANGED vars
  BY <1>14 DEF vars, CallInv, RecvInv, WakeInv, StoreInv, StoreEmpty, HandedOver, Pending
<1> QED
  BY <1>1, <1>2, <1>3, <1>4, <1>5, <1>6, <1>7, <1>8, <1>9, <1>10, <1>11, <1>12,
     <1>13, <1>14, <1>15, <1>16
     DEF Next, Caller, CallerStep, Receiver, ReceiverStep, Server, Work

\* IInv is inductive.
LEMMA IInvStep == IInv /\ [Next]_vars => IInv'
BY TypeStep, MemoryStep DEF IInv

\* Types, the life of every SReqData and its way back to its owner stay in order in
\* every behaviour of sms112_smpp_send and sms112_oper_resp.
THEOREM InvariantIInv == Spec => []IInv
BY InitIInv, IInvStep, PTL DEF Spec

\* The state stays within its types.
THEOREM TypeCorrect == Spec => []TypeOK
<1>1. IInv => TypeOK
  BY DEF IInv
<1> QED
  BY <1>1, InvariantIInv, PTL

\* A requester asleep on a locked mutex is reachable by its answer: through its
\* entry of g_mapReq or because the receiver already has its SReqData.
THEOREM WakeupNotLost == Spec => []NoLostWakeup
<1>1. IInv => NoLostWakeup
  BY DEF IInv, WakeInv, NoLostWakeup, Pending
<1> QED
  BY <1>1, InvariantIInv, PTL

\* As long as no request has been given up the receiver only uses an SReqData
\* that exists.
THEOREM MemoryIsSafe == Spec => []MemorySafe
<1>1. IInv => MemorySafe
  BY DEF IInv, StoreInv, MemorySafe
<1> QED
  BY <1>1, InvariantIInv, PTL

-----------------------------------------------------------------------------
\* The accepted answer is the one to the caller's own request.
LEMMA HeadStep == IInv /\ HeadInv /\ [Next]_vars => HeadInv'
<1> SUFFICES ASSUME IInv, HeadInv, [Next]_vars, ~expired',
                    recv'.pc \in {"find", "alloc", "read"}
             PROVE  (inbox' # <<>> /\ Head(inbox').seq = recv'.seq) \/ Fresh'
  BY DEF HeadInv
<1> DEFINE Ahead == inbox # <<>> /\ Head(inbox).seq = recv.seq
<1>0. TypeOK /\ CallInv /\ RecvInv /\ StoreInv
  BY DEF IInv
<1> USE <1>0 DEF TypeOK
<1>1. ASSUME NEW o \in Ops, NEW s \in Slots, Construct(o, s) PROVE HeadInv'
  <2>1. /\ call.pc = "idle" /\ call'.pc = "add" /\ call'.slot = s
        /\ soReqData'[s].locked /\ UNCHANGED <<recv, srv, inbox, expired>>
    BY <1>1 DEF Construct, NewReqData
  <2>2. CASE Fresh
    BY <2>1, <2>2 DEF Fresh, HeadInv, NoAnswer
  <2> QED
    BY <2>1, <2>2 DEF HeadInv
<1>2. CASE StorAdd
  <2>1. /\ call.pc = "add" /\ call' = [call EXCEPT !.pc = "send"]
        /\ UNCHANGED <<soReqData, recv, srv, inbox, expired>>
    BY <1>2 DEF StorAdd
  <2> QED
    BY <2>1 DEF HeadInv, Fresh, NoAnswer
<1>3. CASE TcpSend
  <2>1. /\ call.pc = "send" /\ call' = [call EXCEPT !.pc = "wait"]
        /\ UNCHANGED <<soReqData, recv, inbox, expired>>
        /\ \A r \in srv' : r \in srv \/ r.seq = call.seq
    BY <1>3 DEF TcpSend
  <2> QED
    BY <2>1 DEF HeadInv, Fresh, NoAnswer
<1>4. CASE TcpSendFails \/ TimedOut
  BY <1>4 DEF TcpSendFails, TimedOut
<1>5. CASE Acquire \/ Return \/ Destroy
  <2>1. /\ call.pc \notin {"idle", "add", "send"}
        /\ call.pc # "wait" \/ ~soReqData[call.slot].locked
        /\ UNCHANGED <<recv, srv, inbox, expired>>
    BY <1>5 DEF Acquire, Return, Destroy
  <2> QED
    BY <2>1 DEF HeadInv, Fresh
<1>6. CASE Reconnect
  BY <1>6 DEF Reconnect, Fresh, NoAnswer
<1>7. CASE Peek
  BY <1>7 DEF Peek
<1>8. CASE OperReq \/ Handled \/ Unlock \/ ReadAnswer \/ ReadFails
  <2>1. recv'.pc \in {"idle", "handle", "unlock"}
    BY <1>8 DEF OperReq, Handled, Unlock, ReadAnswer, ReadFails, AfterFailedRead, IdleRecv
  <2> QED
    BY <2>1
<1>9. CASE GetAndRem
  <2>1. /\ recv.pc = "find" /\ recv'.seq = recv.seq
        /\ UNCHANGED <<soReqData, call, srv, inbox, expired>>
    <3>1. IdleRecv.pc = "idle"
      BY DEF IdleRecv
    <3> QED
      BY <1>9, <3>1 DEF GetAndRem
  <2> QED
    BY <2>1 DEF HeadInv, Fresh, NoAnswer
<1>10. CASE Alloc
  <2>1. /\ recv.pc = "alloc" /\ recv'.seq = recv.seq
        /\ \A t \in Slots : soReqData'[t].locked = soReqData[t].locked
        /\ UNCHANGED <<call, srv, inbox, expired>>
    BY <1>10, WorkEffect DEF Work, Alloc
  <2> QED
    BY <2>1 DEF HeadInv, Fresh, NoAnswer, CallInv
<1>11. ASSUME NEW r \in Requests, Answer(r) PROVE HeadInv'
  <2> DEFINE a == [op |-> r.op, seq |-> r.seq]
  <2>1. /\ r \in srv /\ srv' \subseteq srv /\ inbox' = Append(inbox, a)
        /\ UNCHANGED <<soReqData, call, recv, expired>>
    BY <1>11 DEF Answer
  <2>2. a \in Pdus /\ a.seq = r.seq
    BY DEF Requests, Pdus
  <2>3. inbox' # <<>> /\ (inbox # <<>> => Head(inbox') = Head(inbox))
    BY <2>1, <2>2
  <2>4. \A i \in DOMAIN inbox' : inbox'[i] = a \/ (i \in DOMAIN inbox /\ inbox'[i] = inbox[i])
    BY <2>1, <2>2
  <2> HIDE DEF a
  <2>5. CASE Fresh
    BY <2>1, <2>2, <2>4, <2>5 DEF HeadInv, Fresh, NoAnswer
  <2> QED
    BY <2>1, <2>3, <2>5 DEF HeadInv
<1>12. CASE UNCHANGED vars
  BY <1>12 DEF vars, HeadInv, Fresh, NoAnswer
<1>13. ASSUME NEW o \in Foreign, Request(o) PROVE HeadInv'
  <2> DEFINE a == [op |-> o, seq |-> 0]
  <2>1. inbox' = Append(inbox, a) /\ UNCHANGED <<soReqData, call, recv, srv, expired>>
    BY <1>13 DEF Request
  <2>2. a \in Pdus /\ a.op \in Foreign
    BY RequestAssumption DEF Pdus, SeqNums
  <2>3. inbox' # <<>> /\ (inbox # <<>> => Head(inbox') = Head(inbox))
    BY <2>1, <2>2
  <2>4. \A i \in DOMAIN inbox' : inbox'[i] = a \/ (i \in DOMAIN inbox /\ inbox'[i] = inbox[i])
    BY <2>1, <2>2
  <2> HIDE DEF a
  <2>5. CASE Fresh
    BY <2>1, <2>2, <2>4, <2>5 DEF HeadInv, Fresh, NoAnswer
  <2> QED
    BY <2>1, <2>3, <2>5 DEF HeadInv
<1> QED
  BY <1>1, <1>2, <1>3, <1>4, <1>5, <1>6, <1>7, <1>8, <1>9, <1>10, <1>11, <1>12, <1>13
     DEF Next, Caller, CallerStep, Receiver, ReceiverStep, Server, HeadInv

\* The filled SReqData of a request holds its own answer.
LEMMA DataStep == IInv /\ HeadInv /\ DataInv /\ [Next]_vars => DataInv'
<1> SUFFICES ASSUME IInv, HeadInv, DataInv, [Next]_vars, ~expired', call'.pc # "idle"
             PROVE  DataInv'
  BY DEF DataInv
<1>0. TypeOK /\ CallInv /\ RecvInv /\ StoreInv
  BY DEF IInv
<1> USE <1>0, RequestAssumption DEF TypeOK
<1>1. ASSUME NEW o \in Ops, NEW s \in Slots, Construct(o, s) PROVE DataInv'
  <2>1. call'.slot = s /\ ~soReqData'[s].filled
    BY <1>1 DEF Construct, NewReqData
  <2> QED
    BY <2>1 DEF DataInv, Own
<1>2. CASE StorAdd
  <2>1. /\ call.pc = "add" /\ call' = [call EXCEPT !.pc = "send"] /\ ~expired
        /\ UNCHANGED soReqData
    BY <1>2 DEF StorAdd
  <2> QED
    BY <2>1 DEF DataInv, Own
<1>3. CASE TcpSend \/ Return
  <2>1. /\ call.pc # "idle" /\ call.pc # "add" /\ call'.pc # "add"
        /\ call'.seq = call.seq /\ call'.slot = call.slot
        /\ UNCHANGED <<g_mapReq, soReqData, recv, expired>>
    BY <1>3 DEF TcpSend, Return
  <2> QED
    BY <2>1 DEF DataInv, Own
<1>4. CASE TcpSendFails \/ TimedOut
  BY <1>4 DEF TcpSendFails, TimedOut
<1>5. CASE Acquire
  <2>1. /\ call.pc = "wait" /\ call'.pc = "woken" /\ call.slot \in Slots
        /\ call'.seq = call.seq /\ call'.slot = call.slot
        /\ soReqData' = [soReqData EXCEPT ![call.slot].locked = TRUE]
        /\ UNCHANGED <<g_mapReq, recv, expired>>
    BY <1>5 DEF Acquire, CallInv
  <2>2. /\ soReqData'[call.slot].filled = soReqData[call.slot].filled
        /\ soReqData'[call.slot].m_pBuf = soReqData[call.slot].m_pBuf
    BY <2>1 DEF SReqData
  <2> QED
    BY <2>1, <2>2 DEF DataInv, Own
<1>6. CASE Destroy \/ Reconnect
  BY <1>6 DEF Destroy, Reconnect, IdleCall
<1>7. CASE Peek \/ OperReq \/ Handled
  <2>1. UNCHANGED <<g_mapReq, soReqData, call, expired>>
    BY <1>7 DEF Peek, OperReq, Handled
  <2>2. recv'.pc \notin {"alloc", "read"}
    <3>1. CASE Peek
      BY <3>1 DEF Peek
    <3>2. CASE OperReq
      BY <3>2 DEF OperReq, IdleRecv
    <3>3. CASE Handled
      BY <3>3 DEF Handled, IdleRecv
    <3> QED
      BY <1>7, <3>1, <3>2, <3>3
  <2> QED
    BY <2>1, <2>2 DEF DataInv, Own
<1>8. CASE GetAndRem
  <2>1. UNCHANGED <<soReqData, call, expired>>
    BY <1>8 DEF GetAndRem
  <2>2. CASE g_mapReq[recv.seq] = NoSlot
    BY <1>8, <2>1, <2>2 DEF GetAndRem, Lookup, DataInv, Own, IdleRecv
  <2>3. CASE g_mapReq[recv.seq] # NoSlot
    <3>1. call.seq = recv.seq /\ call.slot = g_mapReq[recv.seq] /\ call.pc \in Pending
      BY <2>1, <2>3 DEF StoreInv
    <3> QED
      BY <2>1, <3>1 DEF DataInv, Pending, Own
  <2> QED
    BY <2>2, <2>3
<1>9. CASE Alloc
  <2>1. /\ recv.pc = "alloc" /\ recv'.pc = "read"
        /\ Use(recv.slot, [soReqData[recv.slot] EXCEPT !.m_pBuf = Raw])
        /\ UNCHANGED <<g_mapReq, call, expired>>
    BY <1>9 DEF Alloc
  <2>2. recv.slot = call.slot /\ call.pc \in Pending /\ soReqData[call.slot].live
        /\ call.slot \in Slots
    BY <2>1 DEF StoreInv, CallInv, Handed, Pending
  <2>3. soReqData' = [soReqData EXCEPT ![call.slot] =
                        [soReqData[call.slot] EXCEPT !.m_pBuf = Raw]]
    BY <2>1, <2>2 DEF Use
  <2>4. soReqData'[call.slot].filled = soReqData[call.slot].filled
    BY <2>2, <2>3 DEF SReqData
  <2> QED
    BY <2>1, <2>2, <2>4 DEF DataInv, Pending, Own
<1>10. CASE ReadAnswer
  <2> DEFINE d == [soReqData[recv.slot] EXCEPT !.m_pBuf = Head(inbox), !.filled = TRUE]
  <2>1. /\ recv.pc = "read" /\ recv'.pc = "unlock" /\ inbox # <<>>
        /\ Use(recv.slot, d)
        /\ UNCHANGED <<g_mapReq, call, expired>>
    BY <1>10 DEF ReadAnswer
  <2>2. /\ recv.slot = call.slot /\ recv.seq = call.seq /\ call.pc \in Pending
        /\ soReqData[call.slot].live /\ call.slot \in Slots /\ StoreEmpty
    BY <2>1 DEF StoreInv, CallInv, Handed, Pending
  <2>3. Head(inbox) \in Pdus
    BY <2>1, HeadTailProperties
  <2>4. d.m_pBuf = Head(inbox)
    <3>1. soReqData[recv.slot] \in SReqData
      BY <2>2
    <3> QED
      BY <3>1 DEF SReqData
  <2>5. Own(Head(inbox))
    <3>1. CASE Fresh
      <4>1. 1 \in DOMAIN inbox /\ Head(inbox) = inbox[1]
        BY <2>1
      <4> QED
        BY <3>1, <4>1 DEF Fresh, Own
    <3> QED
      BY <2>1, <2>2, <3>1 DEF HeadInv, Own
  <2> HIDE DEF d
  <2>6. Own(soReqData'[call.slot].m_pBuf)
    BY <2>1, <2>2, <2>4, <2>5 DEF Use
  <2> QED
    BY <2>1, <2>2, <2>6 DEF DataInv, StoreEmpty, Pending, Own
<1>11. CASE ReadFails
  <2>1. /\ recv.pc = "read" /\ recv'.pc = "unlock"
        /\ Use(recv.slot, soReqData[recv.slot])
        /\ UNCHANGED <<g_mapReq, call, expired>>
    BY <1>11 DEF ReadFails, AfterFailedRead
  <2>2. soReqData' = soReqData
    BY <2>1 DEF Use, RecvInv, Handed
  <2> QED
    BY <2>1, <2>2 DEF DataInv, Own
<1>12. CASE Unlock
  <2>1. recv'.pc = "idle" /\ recv.pc = "unlock" /\ UNCHANGED <<g_mapReq, call, expired>>
    BY <1>12, UnlockEffect
  <2>2. recv.slot = call.slot /\ call.pc # "idle" /\ soReqData[call.slot].live
    BY <2>1 DEF StoreInv, CallInv, Handed, Pending
  <2>3. /\ soReqData'[call.slot].filled = soReqData[call.slot].filled
        /\ soReqData'[call.slot].m_pBuf = soReqData[call.slot].m_pBuf
    BY <1>12, <2>2, UnlockEffect
  <2> QED
    BY <2>1, <2>2, <2>3 DEF DataInv, Own
<1>13. ASSUME NEW r \in Requests, Answer(r) PROVE DataInv'
  BY <1>13 DEF Answer, DataInv, Own
<1>14. CASE UNCHANGED vars
  BY <1>14 DEF vars, DataInv, Own
<1>15. ASSUME NEW o \in Foreign, Request(o) PROVE DataInv'
  BY <1>15 DEF Request, DataInv, Own
<1> QED
  BY <1>1, <1>2, <1>3, <1>4, <1>5, <1>6, <1>7, <1>8, <1>9, <1>10, <1>11, <1>12,
     <1>13, <1>14, <1>15
     DEF Next, Caller, CallerStep, Receiver, ReceiverStep, Server

\* As long as no request has been given up, an answer that a caller accepts is
\* the answer to its own request.
THEOREM AnswerIsOwn == Spec => []OwnAnswer
<1>1. Init => AnswerInv
  BY InitIInv DEF Init, AnswerInv, HeadInv, DataInv, IdleCall, IdleRecv
<1>2. AnswerInv /\ [Next]_vars => AnswerInv'
  BY IInvStep, HeadStep, DataStep DEF AnswerInv
<1>3. AnswerInv => OwnAnswer
  <2> SUFFICES ASSUME AnswerInv, call.pc = "returned", ~expired,
                      Accepts(call, soReqData[call.slot])
               PROVE  soReqData[call.slot].m_pBuf.seq = call.seq
    BY DEF OwnAnswer
  <2>1. Own(soReqData[call.slot].m_pBuf)
    BY DEF AnswerInv, DataInv, Accepts
  <2>2. soReqData[call.slot].m_pBuf.op \in Ops
    BY DEF AnswerInv, IInv, CallInv, Accepts
  <2> QED
    BY <2>1, <2>2, RequestAssumption DEF Own, Foreign
<1> QED
  BY <1>1, <1>2, <1>3, PTL DEF Spec

-----------------------------------------------------------------------------
\* What a whole PDU leaves behind, and what a new one is added to.
LEMMA TailElements ==
  ASSUME NEW q \in Seq(Pdus), q # <<>>
  PROVE  /\ Tail(q) \in Seq(Pdus)
         /\ \A i \in DOMAIN Tail(q) :
              i + 1 \in DOMAIN q /\ i + 1 # 1 /\ Tail(q)[i] = q[i + 1]
         /\ 1 \in DOMAIN q /\ Head(q) = q[1]
         /\ \A i, j \in DOMAIN Tail(q) : i + 1 = j + 1 => i = j
BY HeadTailProperties

LEMMA AppendElements ==
  ASSUME NEW q \in Seq(Pdus), NEW a \in Pdus
  PROVE  /\ Append(q, a) # <<>> /\ (q # <<>> => Head(Append(q, a)) = Head(q))
         /\ \A i \in DOMAIN Append(q, a) :
              \/ i \in DOMAIN q /\ Append(q, a)[i] = q[i]
              \/ i = Len(q) + 1 /\ Append(q, a)[i] = a
BY AppendProperties

\* No answer is on its way while a request is being stored.
LEMMA QuietStep == IInv /\ QuietInv /\ [Next]_vars => QuietInv'
<1> SUFFICES ASSUME IInv, QuietInv, [Next]_vars, ~expired', ~torn' PROVE QuietInv'
  BY DEF QuietInv
<1>0. TypeOK /\ CallInv /\ RecvInv /\ StoreInv
  BY DEF IInv
<1> USE <1>0 DEF TypeOK
<1>1. ASSUME NEW o \in Ops, NEW s \in Slots, Construct(o, s) PROVE QuietInv'
  <2>1. /\ call.pc = "idle" /\ call'.pc = "add"
        /\ UNCHANGED <<recv, srv, inbox, expired, torn>>
    BY <1>1 DEF Construct
  <2> QED
    BY <2>1 DEF QuietInv, NoAnswer
<1>2. CASE StorAdd
  <2>1. /\ call.pc = "add" /\ ~expired /\ call' = [call EXCEPT !.pc = "send"]
        /\ UNCHANGED <<soReqData, recv, srv, inbox, expired, torn>>
    BY <1>2 DEF StorAdd
  <2>2. soReqData[call.slot].locked
    BY <2>1 DEF StoreInv
  <2> QED
    BY <2>1, <2>2 DEF QuietInv, NoAnswer
<1>3. CASE TcpSend
  <2>1. /\ call.pc = "send" /\ UNCHANGED <<soReqData, recv, inbox, expired, torn>>
        /\ srv' = srv \cup {[op |-> call.op, seq |-> call.seq]} \/ srv' = srv
        /\ call'.pc = "wait" /\ call'.slot = call.slot
    BY <1>3 DEF TcpSend
  <2>2. srv = {} /\ NoAnswer /\ recv.pc \in {"idle", "handle"}
    BY <2>1 DEF QuietInv
  <2>3. soReqData[call.slot].locked
    BY <2>1 DEF QuietInv
  <2> QED
    BY <2>1, <2>2, <2>3 DEF QuietInv, NoAnswer
<1>4. CASE TcpSendFails \/ TimedOut
  BY <1>4 DEF TcpSendFails, TimedOut
<1>5. CASE Acquire \/ Return \/ Destroy \/ Reconnect
  <2>1. srv = {} /\ NoAnswer /\ recv.pc \in {"idle", "handle"}
    BY <1>5 DEF Acquire, Return, Destroy, Reconnect, QuietInv
  <2>2. srv' = {} /\ NoAnswer' /\ recv' = recv
    BY <1>5, <2>1 DEF Acquire, Return, Destroy, Reconnect, NoAnswer
  <2>3. \A i \in DOMAIN inbox' : inbox'[i].op \in Foreign
    BY <2>2 DEF NoAnswer
  <2>4. call'.pc \in {"woken", "returned", "idle"}
    <3>1. CASE Acquire
      BY <3>1 DEF Acquire
    <3>2. CASE Return
      BY <3>2 DEF Return
    <3>3. CASE Destroy \/ Reconnect
      BY <3>3 DEF Destroy, Reconnect, IdleCall
    <3> QED
      BY <1>5, <3>1, <3>2, <3>3
  <2> QED
    BY <2>1, <2>2, <2>3, <2>4 DEF QuietInv, Foreign
<1>6. CASE Peek
  <2>1. /\ recv.pc = "idle" /\ recv'.pc = "find" /\ inbox # <<>>
        /\ Head(inbox).op \notin Foreign
        /\ UNCHANGED <<soReqData, call, srv, inbox, expired, torn>>
    BY <1>6 DEF Peek
  <2>2. 1 \in DOMAIN inbox /\ Head(inbox) = inbox[1]
    BY <2>1, TailElements
  <2>3. ~NoAnswer
    BY <2>1, <2>2 DEF NoAnswer
  <2> QED
    BY <2>1, <2>3 DEF QuietInv, NoAnswer
<1>7. CASE OperReq
  <2>1. /\ recv.pc = "idle" /\ inbox # <<>>
        /\ UNCHANGED <<soReqData, call, srv, expired, torn>>
        /\ \/ UNCHANGED <<recv, inbox>>
           \/ inbox' \in AfterRead(inbox) /\ recv'.pc \in {"idle", "handle"}
    BY <1>7 DEF OperReq, IdleRecv
  <2>2. CASE UNCHANGED <<recv, inbox>>
    BY <2>1, <2>2 DEF QuietInv, NoAnswer
  <2>3. CASE inbox' \in AfterRead(inbox) /\ recv'.pc \in {"idle", "handle"}
    <3>1. 1 \in DOMAIN inbox /\ Head(inbox) = inbox[1]
      BY <2>1, TailElements
    <3>2. Head(inbox).op # "junk"
      BY <2>1, <3>1 DEF QuietInv
    <3>3. inbox' = Tail(inbox)
      BY <2>3, <3>2 DEF AfterRead, Remainders, Consumed
    <3>4. NoAnswer => NoAnswer'
      BY <2>1, <3>3, TailElements DEF NoAnswer
    <3>5. \A i \in DOMAIN inbox' : i + 1 \in DOMAIN inbox /\ inbox'[i] = inbox[i + 1]
      BY <2>1, <3>3, TailElements
    <3>6. \A i \in DOMAIN inbox' : inbox'[i].op # "junk"
      BY <2>1, <3>5 DEF QuietInv
    <3>7. \A i, j \in DOMAIN inbox' :
            inbox'[i].op \notin Foreign /\ inbox'[j].op \notin Foreign => i = j
      <4> SUFFICES ASSUME NEW i \in DOMAIN inbox', NEW j \in DOMAIN inbox',
                          inbox'[i].op \notin Foreign, inbox'[j].op \notin Foreign
                   PROVE  i = j
        OBVIOUS
      <4>1. i + 1 = j + 1
        BY <2>1, <3>5 DEF QuietInv
      <4> QED
        BY <2>1, <3>3, <4>1, TailElements
    <3> QED
      BY <2>1, <2>3, <3>4, <3>6, <3>7 DEF QuietInv
  <2> QED
    BY <2>1, <2>2, <2>3
<1>8. CASE GetAndRem
  <2>1. /\ recv.pc = "find" /\ recv'.pc \in {"idle", "alloc"}
        /\ UNCHANGED <<soReqData, call, srv, inbox, expired, torn>>
    <3>1. CASE g_mapReq[recv.seq] = NoSlot
      BY <1>8, <3>1 DEF GetAndRem, Lookup, IdleRecv
    <3>2. CASE g_mapReq[recv.seq] # NoSlot
      BY <1>8, <3>2 DEF GetAndRem, Lookup
    <3> QED
      BY <3>1, <3>2
  <2>2. call.pc = "wait" /\ soReqData[call.slot].locked
    BY <2>1 DEF QuietInv
  <2> QED
    BY <2>1, <2>2 DEF QuietInv, NoAnswer
<1>9. CASE Alloc
  <2>1. /\ recv.pc = "alloc" /\ recv'.pc = "read"
        /\ \A t \in Slots : soReqData'[t].locked = soReqData[t].locked
        /\ UNCHANGED <<call, srv, inbox, expired, torn>>
    BY <1>9, WorkEffect DEF Work, Alloc
  <2>2. call.pc = "wait" /\ soReqData'[call.slot].locked = soReqData[call.slot].locked
    BY <2>1 DEF QuietInv, CallInv
  <2> QED
    BY <2>1, <2>2 DEF QuietInv, NoAnswer
<1>10. CASE ReadAnswer
  <2>1. /\ recv.pc = "read" /\ recv'.pc = "unlock" /\ inbox # <<>>
        /\ inbox' \in AfterRead(inbox)
        /\ \A t \in Slots : soReqData'[t].locked = soReqData[t].locked
        /\ UNCHANGED <<call, srv, expired, torn>>
    BY <1>10, WorkEffect DEF Work, ReadAnswer
  <2>2. 1 \in DOMAIN inbox /\ Head(inbox) = inbox[1]
    BY <2>1, TailElements
  <2>3. /\ srv = {} /\ call.pc = "wait" /\ soReqData[call.slot].locked
        /\ call.slot \in Slots
        /\ Head(inbox).op \notin Foreign /\ Head(inbox).op # "junk"
    BY <2>1, <2>2 DEF QuietInv, CallInv
  <2>4. inbox' = Tail(inbox)
    BY <2>1, <2>3 DEF AfterRead, Remainders, Consumed
  <2>5. \A i \in DOMAIN inbox' :
          i + 1 \in DOMAIN inbox /\ i + 1 # 1 /\ inbox'[i] = inbox[i + 1]
    BY <2>1, <2>4, TailElements
  <2>6. \A i \in DOMAIN inbox' : inbox'[i].op \in Foreign
    BY <2>1, <2>2, <2>3, <2>5 DEF QuietInv
  <2>7. soReqData'[call.slot].locked
    BY <2>1, <2>3
  <2> QED
    BY <2>1, <2>3, <2>6, <2>7 DEF QuietInv, NoAnswer, Foreign
<1>11. CASE ReadFails
  <2>1. recv.pc = "read" /\ inbox = <<>> /\ UNCHANGED <<expired, torn>>
    BY <1>11 DEF ReadFails
  <2> QED
    BY <2>1 DEF QuietInv
<1>12. CASE Unlock
  <2>1. recv.pc = "unlock" /\ recv'.pc = "idle" /\ UNCHANGED <<call, srv, inbox, expired, torn>>
    BY <1>12, UnlockEffect
  <2>2. srv = {} /\ NoAnswer /\ call.pc = "wait"
    BY <2>1 DEF QuietInv
  <2>3. \A i \in DOMAIN inbox : inbox[i].op \in Foreign
    BY <2>2 DEF NoAnswer
  <2> QED
    BY <2>1, <2>2, <2>3 DEF QuietInv, NoAnswer, Foreign
<1>13. CASE Handled
  <2>1. /\ recv.pc = "handle" /\ recv'.pc = "idle"
        /\ UNCHANGED <<soReqData, call, srv, inbox, expired, torn>>
    BY <1>13 DEF Handled, IdleRecv
  <2> QED
    BY <2>1 DEF QuietInv, NoAnswer
<1>14. ASSUME NEW r \in Requests, Answer(r) PROVE QuietInv'
  <2> DEFINE a == [op |-> r.op, seq |-> r.seq]
  <2>1. /\ r \in srv /\ srv' = srv \ {r} /\ inbox' = Append(inbox, a)
        /\ UNCHANGED <<soReqData, call, recv, expired, torn>>
    BY <1>14 DEF Answer
  <2>2. /\ NoAnswer /\ srv' = {} /\ recv.pc \in {"idle", "handle"}
        /\ call.pc = "wait" /\ soReqData[call.slot].locked
    BY <2>1 DEF QuietInv, recvPc
  <2>3. a \in Pdus /\ a.op \in Ops
    BY DEF Requests, Pdus
  <2>4. a.op # "junk"
    BY <2>3, RequestAssumption
  <2> HIDE DEF a
  <2>5. \A i \in DOMAIN inbox' :
          \/ i \in DOMAIN inbox /\ inbox'[i] = inbox[i]
          \/ i = Len(inbox) + 1 /\ inbox'[i] = a
    BY <2>1, <2>3, AppendElements
  <2>6. \A i \in DOMAIN inbox' :
          inbox'[i].op # "junk" /\ (inbox'[i].op \notin Foreign => i = Len(inbox) + 1)
    BY <2>2, <2>4, <2>5 DEF NoAnswer, Foreign
  <2> QED
    BY <2>1, <2>2, <2>6 DEF QuietInv
<1>15. ASSUME NEW o \in Foreign, Request(o) PROVE QuietInv'
  <2> DEFINE a == [op |-> o, seq |-> 0]
  <2>1. /\ inbox' = Append(inbox, a)
        /\ UNCHANGED <<soReqData, call, recv, srv, expired, torn>>
    BY <1>15 DEF Request
  <2>2. a \in Pdus /\ a.op \in Foreign
    BY RequestAssumption DEF Pdus, SeqNums
  <2> HIDE DEF a
  <2>3. /\ \A i \in DOMAIN inbox' :
             \/ i \in DOMAIN inbox /\ inbox'[i] = inbox[i]
             \/ inbox'[i] = a
        /\ inbox' # <<>> /\ (inbox # <<>> => Head(inbox') = Head(inbox))
    BY <2>1, <2>2, AppendElements
  <2>4. NoAnswer => NoAnswer'
    BY <2>2, <2>3 DEF NoAnswer
  <2>5. NoAnswer' => NoAnswer
    <3>1. \A i \in DOMAIN inbox : i \in DOMAIN inbox' /\ inbox'[i] = inbox[i]
      BY <2>1, <2>2, AppendProperties
    <3> QED
      BY <3>1 DEF NoAnswer
  <2>6. \A i \in DOMAIN inbox' : inbox'[i].op # "junk"
    BY <2>1, <2>2, <2>3 DEF QuietInv, Foreign
  <2>7. \A i, j \in DOMAIN inbox' :
          inbox'[i].op \notin Foreign /\ inbox'[j].op \notin Foreign => i = j
    BY <2>1, <2>2, <2>3 DEF QuietInv
  <2> QED
    BY <2>1, <2>3, <2>4, <2>5, <2>6, <2>7 DEF QuietInv
<1>16. CASE UNCHANGED vars
  BY <1>16 DEF vars, QuietInv, NoAnswer
<1> QED
  BY <1>1, <1>2, <1>3, <1>4, <1>5, <1>6, <1>7, <1>8, <1>9, <1>10, <1>11, <1>12,
     <1>13, <1>14, <1>15, <1>16
     DEF Next, Caller, CallerStep, Receiver, ReceiverStep, Server

\* As long as no request has been given up and the framing holds, the two threads
\* are never inside g_mapReq together.
THEOREM StoreIsRaceFree == Spec => []StoreRaceFree
<1>1. Init => IInv /\ QuietInv
  BY InitIInv DEF Init, QuietInv, NoAnswer, IdleCall, IdleRecv
<1>2. IInv /\ QuietInv /\ [Next]_vars => IInv' /\ QuietInv'
  BY IInvStep, QuietStep
<1>3. QuietInv => StoreRaceFree
  BY DEF QuietInv, StoreRaceFree
<1> QED
  BY <1>1, <1>2, <1>3, PTL DEF Spec

=============================================================================
