---------------------------- MODULE SmppRequest ----------------------------
(***************************************************************************)
(* One SMPP request and its answer: the rendezvous between the thread that *)
(* sends a request and sleeps on the mutex of an SReqData living on its    *)
(* stack, and the receiver thread that finds that SReqData in g_mapReq by  *)
(* the sequence number of the answer, fills it and unlocks the mutex       *)
(* (sms112_stor.cpp, sms112_smpp.cpp and the request part of               *)
(* sms112_smpp_cmd.cpp).                                                   *)
(*                                                                         *)
(* Nothing in the code guards g_mapReq or ties the life of an SReqData to  *)
(* its entry there, so memory is modelled: an SReqData occupies a slot of  *)
(* stack memory while its owner runs, and a slot is used again by later    *)
(* requests.  A pointer taken from g_mapReq may therefore name a dead slot *)
(* (the access is recorded in wild) or the SReqData of another request     *)
(* (the access takes effect there).                                        *)
(***************************************************************************)
EXTENDS Integers, Sequences

CONSTANTS
  Slots,     \* the stack addresses at which an SReqData can be placed
  NoSlot,    \* end(): what a lookup in g_mapReq finds when nothing is stored
  SeqMod,    \* g_uiSecNum counts modulo this (2^32 in the program)
  Ops,       \* the commands sent through sms112_smpp_send
  MaxInbox   \* bound: PDUs waiting unread in the socket

ASSUME RequestAssumption ==
  /\ Slots # {}
  /\ NoSlot \notin Slots
  /\ SeqMod \in Nat \ {0}
  /\ Ops \subseteq {"bind", "unbind", "enquire"}  \* BIND_TRANSCEIVER, UNBIND, ENQUIRE_LINK
  /\ MaxInbox \in Nat

SeqNums == 0 .. SeqMod - 1

Requests == [op : Ops, seq : SeqNums]

\* The server's own requests: one that fits sms112_smpp_oper_req's buffer of 1024
\* bytes, and a longer one.
Foreign == {"request", "long"}

\* What a receive buffer or the socket holds: a whole answer to a request, a
\* request of the server, the tail of a PDU of which only a part was read ("junk":
\* seq is what its bytes decode to), or nothing meaningful yet ("raw").  The status
\* of an answer is left out: it changes nothing before the caller looks at it.
Pdus == [op : Ops \cup Foreign \cup {"junk", "raw"}, seq : SeqNums]

Raw == [op |-> "raw", seq |-> 0]

SReqData == [live : BOOLEAN, locked : BOOLEAN, m_pBuf : Pdus, filled : BOOLEAN]

VARIABLES
  g_uiSecNum,  \* the last sequence number given out
  g_mapReq,    \* sequence number -> slot of the SReqData stored under it
  soReqData,   \* slot -> the SReqData there (filled: m_iDataLen # 0)
  call,        \* the requesting thread: where it is and its local variables
  recv,        \* the receiver thread: where it is and its local variables
  srv,         \* requests the SMPP server has received and not answered
  inbox,       \* the bytes in the socket, a sequence of PDUs
  \* history variables, no part of the program
  wild,        \* the receiver has used an SReqData that no longer existed
  expired,     \* some request was given up: its wait or its send failed
  torn         \* some PDU was read in part, the stream has lost its framing

vars == <<g_uiSecNum, g_mapReq, soReqData, call, recv, srv, inbox,
          wild, expired, torn>>

callPc == {"idle", "add", "send", "wait", "woken", "returned"}
recvPc == {"idle", "find", "alloc", "read", "unlock", "handle"}
Results == {"0", "EEXIST", "errno", "ETIMEDOUT"}

TypeOK ==
  /\ g_uiSecNum \in SeqNums
  /\ g_mapReq \in [SeqNums -> Slots \cup {NoSlot}]
  /\ soReqData \in [Slots -> SReqData]
  /\ call \in [pc : callPc, seq : SeqNums, op : Ops \cup {"none"},
              slot : Slots \cup {NoSlot}, res : Results]
  /\ recv \in [pc : recvPc, seq : SeqNums, slot : Slots \cup {NoSlot}]
  /\ srv \subseteq Requests
  /\ inbox \in Seq(Pdus)
  /\ wild \in BOOLEAN /\ expired \in BOOLEAN /\ torn \in BOOLEAN

-----------------------------------------------------------------------------
\* The small pieces of the two threads.

\* return ++g_uiSecNum
NextSeqNoWrap(n) == n + 1
NextSeq(n) == (n + 1) % SeqMod

\* SReqData::SReqData(): no buffer, no data, the mutex locked by its owner.
NewReqData == [live |-> TRUE, locked |-> TRUE, m_pBuf |-> Raw, filled |-> FALSE]

\* What a slot holds outside the life of an SReqData is not an SReqData.
DeadReqData == [live |-> FALSE, locked |-> TRUE, m_pBuf |-> Raw, filled |-> FALSE]

IdleCall == [pc |-> "idle", seq |-> 0, op |-> "none", slot |-> NoSlot, res |-> "0"]
IdleRecv == [pc |-> "idle", seq |-> 0, slot |-> NoSlot]

\* g_mapReq.find and, for a lookup that succeeds, erase.
LookupAny(m, n) == IF \E k \in SeqNums : m[k] # NoSlot
                   THEN m[CHOOSE k \in SeqNums : m[k] # NoSlot] ELSE NoSlot
Lookup(m, n) == m[n]
NotErased(m, n) == m
Erased(m, n) == [m EXCEPT ![n] = NoSlot]

\* recv without MSG_PEEK takes the PDU out of the socket.
LeftInSocket(q) == q
Consumed(q) == Tail(q)

\* What is left once the first bytes of q have been taken.  The length of junk is
\* whatever it decodes to, so junk takes any number of the answers behind it along.
Remainders(q) ==
  IF Head(q).op = "junk" THEN {SubSeq(q, i, Len(q)) : i \in 2 .. Len(q) + 1}
                         ELSE {Consumed(q)}
Junk(n) == [op |-> "junk", seq |-> n]
Torn(q) == {<<Junk(n)>> \o r : n \in SeqNums, r \in Remainders(q)}
AfterRead(q) == IF Head(q).op = "junk" THEN Remainders(q) \cup Torn(q) ELSE Remainders(q)

\* pthread_mutex_unlock( &psoReqData->m_mutexWaitResp )
StillLocked(d) == d
Unlocked(d) == [d EXCEPT !.locked = FALSE]

\* Where sms112_oper_resp goes after tcp_recv failed: the unlock is not inside
\* the branch of the successful read.
SkipUnlock == "idle"
AfterFailedRead == "unlock"

\* smpp34_unpack2 accepts the buffer and the answer is of the expected kind:
\* what smpp_connect, disconn and enq_link test, with the status.  None of them
\* compares the sequence number.
Accepts(c, d) ==
  /\ c.res = "0"
  /\ d.filled
  /\ d.m_pBuf.op = c.op

-----------------------------------------------------------------------------
\* The requesting thread: main at startup and shutdown, do_smpp_ping between.

\* A caller takes a sequence number and constructs its SReqData on its stack.
Construct(o, s) ==
  /\ call.pc = "idle"
  /\ ~soReqData[s].live
  /\ g_uiSecNum' = NextSeq(g_uiSecNum)
  /\ soReqData' = [soReqData EXCEPT ![s] = NewReqData]
  /\ call' = [pc |-> "add", seq |-> g_uiSecNum', op |-> o, slot |-> s, res |-> "0"]
  /\ UNCHANGED <<g_mapReq, recv, srv, inbox, wild, expired, torn>>

\* sms112_req_stor_add: insert does not replace an entry already there.
StorAdd ==
  /\ call.pc = "add"
  /\ \/ /\ g_mapReq[call.seq] = NoSlot
        /\ g_mapReq' = [g_mapReq EXCEPT ![call.seq] = call.slot]
        /\ call' = [call EXCEPT !.pc = "send"]
        /\ UNCHANGED expired
     \/ /\ g_mapReq[call.seq] # NoSlot
        /\ call' = [call EXCEPT !.pc = "returned", !.res = "EEXIST"]
        /\ expired' = TRUE
        /\ UNCHANGED g_mapReq
  /\ UNCHANGED <<g_uiSecNum, soReqData, recv, srv, inbox, wild, torn>>

\* sms112_tcp_send took the whole request, which reaches the server or is lost
\* with the connection; a partial send that leaves errno 0 looks the same.
TcpSend ==
  /\ call.pc = "send"
  /\ \/ srv' = srv \cup {[op |-> call.op, seq |-> call.seq]}
     \/ UNCHANGED srv
  /\ call' = [call EXCEPT !.pc = "wait"]
  /\ UNCHANGED <<g_uiSecNum, g_mapReq, soReqData, recv, inbox, wild, expired, torn>>

\* sms112_tcp_send failed: the request is given up, its entry stays stored.
TcpSendFails ==
  /\ call.pc = "send"
  /\ call' = [call EXCEPT !.pc = "returned", !.res = "errno"]
  /\ expired' = TRUE
  /\ UNCHANGED <<g_uiSecNum, g_mapReq, soReqData, recv, srv, inbox, wild, torn>>

\* pthread_mutex_timedlock obtains the mutex the receiver has unlocked.
Acquire ==
  /\ call.pc = "wait"
  /\ ~soReqData[call.slot].locked
  /\ soReqData' = [soReqData EXCEPT ![call.slot].locked = TRUE]
  /\ call' = [call EXCEPT !.pc = "woken", !.res = "0"]
  /\ UNCHANGED <<g_uiSecNum, g_mapReq, recv, srv, inbox, wild, expired, torn>>

\* pthread_mutex_timedlock gives up after its second, at any point of the
\* receiver's work: time is not modelled.
TimedOut ==
  /\ call.pc = "wait"
  /\ call' = [call EXCEPT !.pc = "woken", !.res = "ETIMEDOUT"]
  /\ expired' = TRUE
  /\ UNCHANGED <<g_uiSecNum, g_mapReq, soReqData, recv, srv, inbox, wild, torn>>

\* The rest of sms112_smpp_send: data decides over the result of the wait.
Return ==
  /\ call.pc = "woken"
  /\ call' = [call EXCEPT !.pc = "returned",
                          !.res = IF soReqData[call.slot].filled THEN "0" ELSE @]
  /\ UNCHANGED <<g_uiSecNum, g_mapReq, soReqData, recv, srv, inbox,
                 wild, expired, torn>>

\* The caller has examined the answer (Accepts) and leaves the block of its
\* SReqData: ~SReqData() frees the buffer and destroys the mutex.  The entry of
\* g_mapReq, if still there, is not removed.
Destroy ==
  /\ call.pc = "returned"
  /\ soReqData' = [soReqData EXCEPT ![call.slot] = DeadReqData]
  /\ call' = IdleCall
  /\ UNCHANGED <<g_uiSecNum, g_mapReq, recv, srv, inbox, wild, expired, torn>>

\* Between requests the requesting thread may close the connection and open
\* another: what was on its way is gone.
Reconnect ==
  /\ call.pc = "idle"
  /\ srv' = {}
  /\ inbox' = <<>>
  /\ UNCHANGED <<g_uiSecNum, g_mapReq, soReqData, call, recv, wild, expired, torn>>

-----------------------------------------------------------------------------
\* The receiver thread.

\* The receiver uses the SReqData its pointer names: d is what it leaves there.
\* In a dead slot there is no SReqData any more.
Use(s, d) ==
  /\ soReqData' = IF soReqData[s].live THEN [soReqData EXCEPT ![s] = d] ELSE soReqData
  /\ wild' = (wild \/ ~soReqData[s].live)

\* sms112_smpp_handler peeks at the header of the next PDU: an answer.
Peek ==
  /\ recv.pc = "idle"
  /\ inbox # <<>>
  /\ Head(inbox).op \notin Foreign
  /\ recv' = [recv EXCEPT !.pc = "find", !.seq = Head(inbox).seq]
  /\ UNCHANGED <<g_uiSecNum, g_mapReq, soReqData, call, srv, inbox, wild, expired, torn>>

\* The header peeked at is that of a request, junk included: sms112_smpp_oper_req
\* leaves one that is longer than its buffer in the socket, reads the others, and
\* handles DELIVER_SM and UNBIND itself, others not at all.
TooLong == {"long", "junk"}
Fits == {"request", "junk"}
OperReq ==
  /\ recv.pc = "idle"
  /\ inbox # <<>>
  /\ \/ /\ Head(inbox).op \in TooLong
        /\ UNCHANGED <<recv, inbox, torn>>
     \/ /\ Head(inbox).op \in Fits
        /\ inbox' \in AfterRead(inbox)
        /\ recv' \in {IdleRecv, [IdleRecv EXCEPT !.pc = "handle"]}
        /\ UNCHANGED torn
     \/ /\ Head(inbox).op \in Fits
        /\ inbox' \in Torn(inbox)
        /\ torn' = TRUE
        /\ UNCHANGED recv
  /\ UNCHANGED <<g_uiSecNum, g_mapReq, soReqData, call, srv, wild, expired>>

\* sms112_smpp_deliver_sm_oper or sms112_smpp_unbind_oper is done.  For DELIVER_SM
\* the receiver waits for HTTP, which has no timeout, and for a SIP call meanwhile.
Handled ==
  /\ recv.pc = "handle"
  /\ recv' = IdleRecv
  /\ UNCHANGED <<g_uiSecNum, g_mapReq, soReqData, call, srv, inbox, wild, expired, torn>>

\* sms112_req_stor_get_and_rem.  An answer nobody waits for stays in the
\* socket: sms112_oper_resp returns without reading it.
GetAndRem ==
  /\ recv.pc = "find"
  /\ LET s == Lookup(g_mapReq, recv.seq)
     IN  \/ /\ s # NoSlot
            /\ g_mapReq' = Erased(g_mapReq, recv.seq)
            /\ recv' = [recv EXCEPT !.pc = "alloc", !.slot = s]
         \/ /\ s = NoSlot
            /\ recv' = IdleRecv
            /\ UNCHANGED g_mapReq
  /\ UNCHANGED <<g_uiSecNum, soReqData, call, srv, inbox, wild, expired, torn>>

\* psoReqData->m_pBuf = malloc( command_length )
Alloc ==
  /\ recv.pc = "alloc"
  /\ Use(recv.slot, [soReqData[recv.slot] EXCEPT !.m_pBuf = Raw])
  /\ recv' = [recv EXCEPT !.pc = "read"]
  /\ UNCHANGED <<g_uiSecNum, g_mapReq, call, srv, inbox, expired, torn>>

\* tcp_recv reads the whole PDU into m_pBuf, then m_iDataLen is set.
ReadAnswer ==
  /\ recv.pc = "read"
  /\ inbox # <<>>
  /\ Use(recv.slot, [soReqData[recv.slot] EXCEPT !.m_pBuf = Head(inbox), !.filled = TRUE])
  /\ inbox' \in AfterRead(inbox)
  /\ recv' = [recv EXCEPT !.pc = "unlock"]
  /\ UNCHANGED <<g_uiSecNum, g_mapReq, call, srv, expired, torn>>

\* tcp_recv fails: on the non-blocking socket only a part of the PDU has
\* arrived, is taken and lost, and what follows is read as a header; or the
\* connection was replaced and there is nothing to read.
ReadFails ==
  /\ recv.pc = "read"
  /\ Use(recv.slot, soReqData[recv.slot])
  /\ \/ /\ inbox # <<>>
        /\ inbox' \in Torn(inbox)
        /\ torn' = TRUE
     \/ /\ inbox = <<>>
        /\ UNCHANGED <<inbox, torn>>
  /\ recv' = [recv EXCEPT !.pc = AfterFailedRead]
  /\ UNCHANGED <<g_uiSecNum, g_mapReq, call, srv, expired>>

\* pthread_mutex_unlock( &psoReqData->m_mutexWaitResp )
Unlock ==
  /\ recv.pc = "unlock"
  /\ Use(recv.slot, Unlocked(soReqData[recv.slot]))
  /\ recv' = IdleRecv
  /\ UNCHANGED <<g_uiSecNum, g_mapReq, call, srv, inbox, expired, torn>>

-----------------------------------------------------------------------------
\* The SMPP server answers the requests it has in any order, each once and as late
\* as it likes.
Answer(r) ==
  /\ r \in srv
  /\ Len(inbox) < MaxInbox
  /\ srv' = srv \ {r}
  /\ inbox' = Append(inbox, [op |-> r.op, seq |-> r.seq])
  /\ UNCHANGED <<g_uiSecNum, g_mapReq, soReqData, call, recv, wild, expired, torn>>

\* It sends requests of its own: DELIVER_SM, UNBIND, ENQUIRE_LINK, of any length.
Request(o) ==
  /\ Len(inbox) < MaxInbox
  /\ inbox' = Append(inbox, [op |-> o, seq |-> 0])
  /\ UNCHANGED <<g_uiSecNum, g_mapReq, soReqData, call, recv, srv, wild, expired, torn>>

-----------------------------------------------------------------------------
Init ==
  /\ g_uiSecNum = 0
  /\ g_mapReq = [n \in SeqNums |-> NoSlot]
  /\ soReqData = [s \in Slots |-> DeadReqData]
  /\ call = IdleCall
  /\ recv = IdleRecv
  /\ srv = {}
  /\ inbox = <<>>
  /\ wild = FALSE /\ expired = FALSE /\ torn = FALSE

\* What the requesting thread does once a request is under way, without the
\* timer and the failing send.
CallerStep == StorAdd \/ TcpSend \/ Acquire \/ Return \/ Destroy

Caller ==
  \/ \E o \in Ops, s \in Slots : Construct(o, s)
  \/ CallerStep
  \/ TcpSendFails
  \/ TimedOut
  \/ Reconnect

\* The receiver, between its handling of two requests of the server.
ReceiverStep == Peek \/ OperReq \/ GetAndRem \/ Alloc \/ ReadAnswer \/ ReadFails \/ Unlock

Receiver == ReceiverStep \/ Handled

Server ==
  \/ \E r \in Requests : Answer(r)
  \/ \E o \in Foreign : Request(o)

Next == Caller \/ Receiver \/ Server

Spec == Init /\ [][Next]_vars

\* Both threads are scheduled.  Neither the timer nor a failing send, a new
\* request, a reconnection or the server is obliged to act, and the receiver's
\* handling of a request need not end.
FairSpec == Spec /\ WF_vars(CallerStep) /\ WF_vars(ReceiverStep)

-----------------------------------------------------------------------------
\* Properties.

HandedOver(s) == recv.pc \in {"alloc", "read", "unlock"} /\ recv.slot = s

\* A requester asleep on a locked mutex can still be woken by its answer: its
\* SReqData is stored under its own sequence number, or the receiver already
\* has it and will unlock it.  Orphaned entries, slots used again, torn PDUs
\* and reconnections do not lose the wake-up (sms112_oper_resp and
\* sms112_smpp_send).
NoLostWakeup ==
  call.pc = "wait" /\ soReqData[call.slot].locked
    => g_mapReq[call.seq] = call.slot \/ HandedOver(call.slot)

\* As long as no request has been given up, the receiver only ever uses an
\* SReqData that exists, whatever the two threads' interleaving and whatever
\* part of an answer arrives: giving up is the only way to a dangling pointer
\* in g_mapReq (sms112_oper_resp against ~SReqData).
MemorySafe == wild => expired

\* As long as no request has been given up, an answer that a caller accepts is
\* the answer to its own request, although no caller compares sequence numbers
\* (sms112_smpp_connect, sms112_smpp_disconn, sms112_smpp_enq_link).
OwnAnswer ==
  call.pc = "returned" /\ Accepts(call, soReqData[call.slot]) /\ ~expired
    => soReqData[call.slot].m_pBuf.seq = call.seq

\* As long as no request has been given up and the framing holds, the two
\* threads are never inside the unguarded std::map g_mapReq together
\* (sms112_req_stor_add against sms112_req_stor_get_and_rem).
StoreRaceFree ==
  call.pc = "add" /\ recv.pc = "find" => expired \/ torn

\* The header calls g_mapReq the store of the active requests: an entry
\* belongs to a request that is still waiting.  The code leaves the entry of a
\* request that was given up (sms112_smpp_send).
StoreHoldsActive ==
  \A n \in SeqNums :
    g_mapReq[n] # NoSlot => call.pc # "idle" /\ call.seq = n

\* The answer is in the socket, with no request in front of it that stays there.
Waiting ==
  /\ call.pc = "wait"
  /\ \E i \in DOMAIN inbox :
       /\ inbox[i].op = call.op /\ inbox[i].seq = call.seq
       /\ \A j \in 1 .. i : inbox[j].op # "long"

\* An answer that has reached the socket while its requester waits wakes the
\* requester without help of the timer, as long as the framing holds and no
\* request has been given up: after that a receiver still busy with an old
\* answer may read the new one in its place.  Nor may a request of more than 1024
\* bytes lie in front of it, which is never read, or the receiver stay for ever in
\* a request of the server (msg_receiver, sms112_smpp_oper_req, sms112_oper_resp).
AnswerWakes ==
  \/ <>[](recv.pc = "handle")
  \/ Waiting ~> (call.pc # "wait" \/ torn \/ expired)

=============================================================================
