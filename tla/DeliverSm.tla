----------------------------- MODULE DeliverSm -----------------------------
(***************************************************************************)
(* What becomes of a message: the receiver reads DELIVER_SM from the       *)
(* socket (sms112_smpp_oper_req), decodes its text, asks for the sender's  *)
(* location, places the SIP call, posts a report and answers               *)
(* (sms112_smpp_deliver_sm_oper).  Meanwhile the ping thread may replace   *)
(* the connection, and the server, which keeps a message until it is       *)
(* answered, sends it again.                                               *)
(*                                                                         *)
(* The call is EmergencyCall, the abstract one that SipCall implements.    *)
(* The link is reduced to what the messages see of it; SmppLink has the    *)
(* rest.  PDUs are read whole.  The server numbers the requests of each    *)
(* connection from 1.  Of a text only its length and whether it is the     *)
(* message's own are kept, and the buffer it is in: whether its terminator *)
(* lies inside, and whether it is released.                                *)
(***************************************************************************)
EXTENDS Integers, Sequences

CONSTANTS
  Messages,    \* the messages of the server
  NoMessage,   \* none of them
  SmsKinds,    \* message -> the kinds it may have, see Sms
  MaxGarbage,  \* bound: the length read from uninitialised memory
  MaxCalls,    \* bound: the calls placed
  MaxFaults    \* bound: connections replaced early, answers that are not packed or
               \* not sent, messages repeated

\* A DELIVER_SM by what its handling depends on: pdu, whether it fits muiLocalBuffer
\* and can be unpacked; where its text is and how many bytes it has; data_coding.
Sms == [pdu : {"good", "long", "garbled"}, field : {"short", "payload", "none"},
        len : Nat, data_coding : {0, 8, 4}]

ASSUME DeliverAssumption ==
  /\ NoMessage \notin Messages
  /\ SmsKinds \in [Messages -> SUBSET Sms]
  /\ \A m \in Messages : \A s \in SmsKinds[m] :
       (s.field = "short" => s.len > 0) /\ (s.field = "none" => s.len = 0)
  /\ MaxGarbage \in Nat /\ MaxCalls \in Nat /\ MaxFaults \in Nat

Kinds == UNION {SmsKinds[m] : m \in Messages}
Calls == 1 .. MaxCalls
NoCall == 0

VARIABLES
  sms,         \* message -> its kind
  acked,       \* messages the server has an answer for and will not send again
  sent,        \* the messages sent on the connection in use, by sequence number
  read,        \* how many of these the receiver has taken out of the socket
  connected,   \* g_bIsConnected of sms112_tcp.cpp
  recv,        \* the receiver: where it is, its message and what it knows of it
  pszPrintData,\* its text buffer
  outcome, told,  \* the calls, see EmergencyCall
  faults,
  \* history variables, no part of the program
  callFor,     \* call -> the message it was placed for
  carried,     \* call -> what it carried of the message's text
  reports,     \* what sms112_send_report was called with
  sentOnce, resent,  \* messages the server sent, and sent more than once
  heap,        \* text buffers allocated and not released
  lostBufs,    \* of these, left behind by a failed conversion
  crossed,     \* an answer went out on another connection than its message
  unpacked     \* messages whose answer could not be packed

link == <<acked, sent, read, connected>>
history == <<callFor, carried, reports, sentOnce, resent, heap, lostBufs, crossed, unpacked>>
vars == <<sms, link, recv, pszPrintData, outcome, told, faults, history>>

recvPc == {"poll", "geodata", "sip", "call", "report", "respond", "cleanup", "crashed"}
Carries == {"whole", "lost", "failed", "garbage"}

TypeOK ==
  /\ sms \in [Messages -> Kinds]
  /\ acked \subseteq Messages
  /\ sent \in Seq(Messages) /\ read \in 0 .. Len(sent)
  /\ connected \in BOOLEAN
  /\ recv \in [pc : recvPc, msg : Messages \cup {NoMessage}, seq : Nat, moved : BOOLEAN,
               call : Calls \cup {NoCall}, result : {"OK", "geodata", "sip"}]
  /\ pszPrintData \in [size : Nat, end : Nat, carries : Carries]
  /\ outcome \in [Calls -> {"none", "open", "accepted", "refused"}]
  /\ told \in [Calls -> {"nothing", "accepted", "refused", "unknown"}]
  /\ faults \in 0 .. MaxFaults
  /\ callFor \in [Calls -> Messages \cup {NoMessage}]
  /\ carried \in [Calls -> Carries]
  /\ reports \subseteq [msg : Messages, call : Calls \cup {NoCall},
                        result : {"OK", "geodata", "sip"}]
  /\ sentOnce \subseteq Messages /\ resent \subseteq sentOnce
  /\ heap \in Nat /\ lostBufs \in Nat
  /\ crossed \in BOOLEAN
  /\ unpacked \subseteq Messages

Call == INSTANCE EmergencyCall

-----------------------------------------------------------------------------
\* The small pieces.

Fault == faults < MaxFaults /\ faults' = faults + 1

\* NULL
NoText == [size |-> 0, end |-> 0, carries |-> "failed"]

\* Where the text is found, by its length; without short_message and message_payload
\* pszSrcStr and stSrcLen are not initialised.
Source(s) ==
  IF s.field # "none" THEN {[len |-> s.len, carries |-> "whole"]}
  ELSE {[len |-> n, carries |-> "garbage"] : n \in 0 .. MaxGarbage}

\* stOutBufSize of sms112_iconv
RoomForAscii(len) == len
Room(len) == 4 * len

\* sms112_iconv from UCS-2BE to UTF-8, which makes one to three bytes of every two.
\* It fails for an odd length and on what is no character; on success everything is
\* converted and nothing irreversibly, so that the tests after iconv() pass.
Converted(s) ==
  UNION {{[size |-> Room(src.len), end |-> n, carries |-> src.carries] :
            n \in (src.len \div 2) .. 3 * (src.len \div 2)} :
         src \in {x \in Source(s) : x.len % 2 = 0}}

\* GSM-7: sm_length bytes are copied, whatever the field.
SmLength(s) == IF s.field = "short" THEN s.len ELSE 0
Copied(s) ==
  [size |-> SmLength(s) + 1, end |-> SmLength(s),
   carries |-> IF s.len = SmLength(s) THEN "whole" ELSE "lost"]

\* sms112_curl_perf_request: an error, or what the server sent whatever its HTTP status:
\* "<presence" and "</presence>" in it, only the first, or neither.
PerfRequest == {"error", "presence", "start", "other"}

\* What mcResult says of the outcome of sms112_sip_send_req.
OkUnlessRefused(t) == IF t = "refused" THEN "sip" ELSE "OK"
ResultOf(t) == IF t = "accepted" THEN "OK" ELSE "sip"

\* Where the receiver goes when the call is over, or has not been placed.
SipAgain(result) == IF result = "OK" THEN "report" ELSE "sip"
AfterCall(result) == "report"
SkipReport(ok) == IF ok THEN "sip" ELSE "respond"
AfterGeodata(ok) == IF ok THEN "sip" ELSE "report"

\* if ( NULL != pszPrintData ) delete [] pszPrintData
NotReleased(n) == n
Released(n) == IF pszPrintData = NoText THEN n ELSE n - 1

NotConnected == FALSE

\* The bytes in the socket go with it.
ReadKept == read
ReadNothing == 0

IdleReceiver ==
  [pc |-> "poll", msg |-> NoMessage, seq |-> 0, moved |-> FALSE, call |-> NoCall,
   result |-> "OK"]

-----------------------------------------------------------------------------
\* The receiver.  What it does up to the answer, it does for the message it has read.

First == sent[read + 1]
Waiting == recv.pc = "poll" /\ read < Len(sent)

Begin(pc) ==
  recv' = [pc |-> pc, msg |-> First, seq |-> read + 1, moved |-> FALSE,
           call |-> NoCall, result |-> "OK"]

\* A PDU longer than the buffer stays where it is: sms112_smpp_oper_req returns
\* EINVAL, and the next time poll finds it again.
TooLong == Waiting /\ sms[First].pdu = "long" /\ UNCHANGED vars

\* The PDU is read but not unpacked, or has a data_coding the program does not know:
\* no answer.
Rejected ==
  /\ Waiting /\ sms[First].pdu # "long"
  /\ sms[First].pdu = "garbled" \/ sms[First].data_coding \notin {0, 8}
  /\ read' = read + 1
  /\ UNCHANGED <<sms, acked, sent, connected, recv, pszPrintData, outcome, told, faults, history>>

Readable == Waiting /\ sms[First].pdu = "good"

\* case 8, converted
DecodeUcs2 ==
  /\ Readable /\ sms[First].data_coding = 8
  /\ pszPrintData' \in Converted(sms[First])
  /\ heap' = heap + 1
  /\ Begin("geodata")
  /\ read' = read + 1
  /\ UNCHANGED <<sms, acked, sent, connected, outcome, told, faults,
                 callFor, carried, reports, sentOnce, resent, lostBufs, crossed, unpacked>>

\* case 8, not converted: the buffer of sms112_iconv is lost and pszPrintData stays
\* NULL; the message goes on.
DecodeFails ==
  /\ Readable /\ sms[First].data_coding = 8
  /\ pszPrintData' = NoText
  /\ heap' = heap + 1 /\ lostBufs' = lostBufs + 1
  /\ Begin("geodata")
  /\ read' = read + 1
  /\ UNCHANGED <<sms, acked, sent, connected, outcome, told, faults,
                 callFor, carried, reports, sentOnce, resent, crossed, unpacked>>

\* case 8 with a pointer that was not initialised: this, too, is possible.
DecodeCrashes ==
  /\ Readable /\ sms[First].data_coding = 8 /\ sms[First].field = "none"
  /\ Begin("crashed")
  /\ read' = read + 1
  /\ UNCHANGED <<sms, acked, sent, connected, pszPrintData, outcome, told, faults, history>>

\* case 0
DecodeGsm7 ==
  /\ Readable /\ sms[First].data_coding = 0
  /\ pszPrintData' = Copied(sms[First])
  /\ heap' = heap + 1
  /\ Begin("geodata")
  /\ read' = read + 1
  /\ UNCHANGED <<sms, acked, sent, connected, outcome, told, faults,
                 callFor, carried, reports, sentOnce, resent, lostBufs, crossed, unpacked>>

\* sms112_geodata_get: a URL that does not fit its buffer is one more failure.
Geodata ==
  /\ recv.pc = "geodata"
  /\ \E answer \in PerfRequest :
       LET ok == answer = "presence"
       IN  recv' = [recv EXCEPT !.pc = AfterGeodata(ok), !.result = IF ok THEN "OK" ELSE "geodata"]
  /\ UNCHANGED <<sms, link, pszPrintData, outcome, told, faults, history>>

\* sms112_sip_send_req places a call ...
PlaceCall ==
  /\ recv.pc = "sip"
  /\ \E c \in Calls :
       /\ \A d \in Calls : (d < c) = (outcome[d] # "none")
       /\ Call!Place(c)
       /\ recv' = [recv EXCEPT !.pc = "call", !.call = c]
       /\ callFor' = [callFor EXCEPT ![c] = recv.msg]
       /\ carried' = [carried EXCEPT ![c] = pszPrintData.carries]
  /\ UNCHANGED <<sms, link, pszPrintData, faults,
                 reports, sentOnce, resent, heap, lostBufs, crossed, unpacked>>

\* ... or finds a name too long for its buffer and returns -1.
CannotCall ==
  /\ recv.pc = "sip"
  /\ recv' = [recv EXCEPT !.pc = "report", !.result = "sip"]
  /\ UNCHANGED <<sms, link, pszPrintData, outcome, told, faults, history>>

\* It returns the decision of the SIP server, or without knowing it.
CallReturns ==
  /\ recv.pc = "call"
  /\ Call!Tell(recv.call)
  /\ LET result == ResultOf(told'[recv.call])
     IN  recv' = [recv EXCEPT !.pc = AfterCall(result), !.result = result]
  /\ UNCHANGED <<sms, link, pszPrintData, faults, history>>

\* sms112_send_report: whether its request arrives makes no difference to the receiver.
SendReport ==
  /\ recv.pc = "report"
  /\ reports' = reports \cup
       {[msg |-> recv.msg, call |-> recv.call, result |-> recv.result]}
  /\ recv' = [recv EXCEPT !.pc = "respond"]
  /\ UNCHANGED <<sms, link, pszPrintData, outcome, told, faults,
                 callFor, carried, sentOnce, resent, heap, lostBufs, crossed, unpacked>>

\* ESME_ROK with the number of the request, on the connection of now.
Respond ==
  /\ recv.pc = "respond"
  /\ acked' = IF recv.seq \in DOMAIN sent THEN acked \cup {sent[recv.seq]} ELSE acked
  /\ crossed' = (crossed \/ recv.moved)
  /\ recv' = [recv EXCEPT !.pc = "cleanup"]
  /\ UNCHANGED <<sms, sent, read, connected, pszPrintData, outcome, told, faults,
                 callFor, carried, reports, sentOnce, resent, heap, lostBufs, unpacked>>

\* smpp34_pack2 refuses the answer, of which only the header was filled in: nothing is
\* sent, and the flag stays as it is.
PackFails ==
  /\ recv.pc = "respond"
  /\ Fault
  /\ unpacked' = unpacked \cup {recv.msg}
  /\ recv' = [recv EXCEPT !.pc = "cleanup"]
  /\ UNCHANGED <<sms, link, pszPrintData, outcome, told,
                 callFor, carried, reports, sentOnce, resent, heap, lostBufs, crossed>>

\* sms112_tcp_send fails.
RespondFails ==
  /\ recv.pc = "respond"
  /\ Fault
  /\ connected' = NotConnected
  /\ recv' = [recv EXCEPT !.pc = "cleanup"]
  /\ UNCHANGED <<sms, acked, sent, read, pszPrintData, outcome, told, history>>

Cleanup ==
  /\ recv.pc = "cleanup"
  /\ heap' = Released(heap)
  /\ pszPrintData' = NoText
  /\ recv' = IdleReceiver
  /\ UNCHANGED <<sms, link, outcome, told, faults,
                 callFor, carried, reports, sentOnce, resent, lostBufs, crossed, unpacked>>

-----------------------------------------------------------------------------
\* The ping thread puts another connection in the place of the old one.

Replace ==
  /\ recv.pc # "crashed"
  /\ connected' = TRUE
  /\ sent' = <<>> /\ read' = ReadNothing
  /\ recv' = [recv EXCEPT !.moved = recv.pc # "poll"]
  /\ UNCHANGED <<sms, acked, pszPrintData, outcome, told, history>>

\* It has to: a send has failed, or its probe is not answered because a PDU that is
\* never read is in front of the answer.
Reconnect ==
  /\ ~connected \/ (Waiting /\ sms[First].pdu = "long")
  /\ Replace
  /\ UNCHANGED faults

\* Its probe is not answered in time because the receiver is busy, or is lost.
ReconnectEarly == Fault /\ Replace

-----------------------------------------------------------------------------
\* The SMPP server sends a message it has no answer for, once on a connection ...
Send(m) ==
  /\ connected
  /\ m \notin acked /\ \A i \in DOMAIN sent : sent[i] # m
  /\ sent' = Append(sent, m)
  /\ sentOnce' = sentOnce \cup {m} /\ resent' = resent \cup ({m} \cap sentOnce)
  /\ UNCHANGED <<sms, acked, read, connected, recv, pszPrintData, outcome, told, faults,
                 callFor, carried, reports, heap, lostBufs, crossed, unpacked>>

\* ... or again, because the answer takes too long.
SendAgain(m) ==
  /\ connected
  /\ m \notin acked /\ \E i \in DOMAIN sent : sent[i] = m
  /\ Fault
  /\ sent' = Append(sent, m)
  /\ sentOnce' = sentOnce \cup {m} /\ resent' = resent \cup ({m} \cap sentOnce)
  /\ UNCHANGED <<sms, acked, read, connected, recv, pszPrintData, outcome, told,
                 callFor, carried, reports, heap, lostBufs, crossed, unpacked>>

\* The SIP server decides over a call, in time or late.
Decide(c) ==
  /\ \E d \in Call!Decisions : Call!Decide(c, d)
  /\ UNCHANGED <<sms, link, recv, pszPrintData, faults, history>>

-----------------------------------------------------------------------------
Init ==
  /\ sms \in [Messages -> Kinds] /\ \A m \in Messages : sms[m] \in SmsKinds[m]
  /\ acked = {} /\ sent = <<>> /\ read = 0 /\ connected = TRUE
  /\ recv = IdleReceiver
  /\ pszPrintData = NoText
  /\ Call!Init
  /\ faults = 0
  /\ callFor = [c \in Calls |-> NoMessage]
  /\ carried = [c \in Calls |-> "lost"]
  /\ reports = {}
  /\ sentOnce = {} /\ resent = {}
  /\ heap = 0 /\ lostBufs = 0
  /\ crossed = FALSE
  /\ unpacked = {}

Decode == DecodeUcs2 \/ DecodeFails \/ DecodeGsm7

\* The receiver where it waits for nobody, or no longer than the timer of the call.
Handle ==
  \/ Rejected \/ Decode \/ PlaceCall \/ CannotCall \/ CallReturns
  \/ Respond \/ PackFails \/ RespondFails \/ Cleanup

\* The receiver where it waits for an HTTP server, without a timeout.
Http == Geodata \/ SendReport

Receiver == Handle \/ Http \/ TooLong \/ DecodeCrashes

Environment ==
  \/ \E m \in Messages : Send(m) \/ SendAgain(m)
  \/ \E c \in Calls : Decide(c)

Next == Receiver \/ Reconnect \/ ReconnectEarly \/ Environment

Spec == Init /\ [][Next]_vars

\* The receiver is scheduled, ping reconnects when it has to, and the server sends what
\* it has.  An HTTP request need not end: sms112_curl_perf_request sets no timeout.
FairSpec ==
  /\ Spec
  /\ WF_vars(Handle) /\ WF_vars(Reconnect)
  /\ \A m \in Messages : WF_vars(Send(m))

-----------------------------------------------------------------------------
\* Properties.

\* A report of success is true: the SIP server has accepted a call placed for that very
\* message (sms112_smpp_deliver_sm_oper).
ReportTruthful ==
  \A r \in reports :
    r.result = "OK" =>
      r.call \in Calls /\ callFor[r.call] = r.msg /\ outcome[r.call] = "accepted"

\* A message the server will not send again has been handled, report included, whatever
\* failed on the way, unless an answer went out on another connection than its message:
\* there its number may be that of a message nobody has read.
AckedWasHandled ==
  crossed \/ \A m \in acked : \E r \in reports : r.msg = m

\* Only a message the server has sent again is called in twice: the program does not
\* recognise it, but does nothing twice by itself (sms112_smpp_deliver_sm_oper).
CallPerDelivery ==
  \A c, d \in Calls :
    c # d /\ outcome[c] # "none" /\ outcome[d] # "none" /\ callFor[c] = callFor[d]
      => callFor[c] \in resent

\* The terminator of the text is inside its buffer, except for a text in UCS-2 of no
\* bytes, which an empty message_payload and no text at all can give
\* (sms112_smpp_deliver_sm_oper and sms112_iconv).
NoBytes(s) == s.data_coding = 8 /\ s.len = 0
TextInBounds ==
  recv.pc \notin {"poll", "crashed"} =>
    \/ pszPrintData = NoText
    \/ pszPrintData.end < pszPrintData.size
    \/ NoBytes(sms[recv.msg])

\* Whatever path a message takes, its text is released, but for what a failed
\* conversion leaves behind (sms112_smpp_deliver_sm_oper and sms112_iconv).
NoTextLeak == recv.pc = "poll" => heap = lostBufs

\* Every call carries the text of its message, unless there is none or it could not be
\* converted ("передача сообщения по sip", sms112_sip.h).  A message_payload in GSM-7 is
\* not carried.
TextCarried ==
  \A c \in Calls :
    outcome[c] # "none" =>
      carried[c] \in {"whole", "failed"} \/ sms[callFor[c]].field = "none"

\* Every message that can be read and decoded is answered in the end ("функция обработки
\* запроса DELIVER_SM", sms112.h), whatever the others are, unless the receiver waits for an
\* HTTP server for ever, the answer could not be packed, or one of the messages is longer
\* than the receiver's buffer: that one stays in the socket, and after every reconnection
\* it may come first again.
Decodable(s) == s.pdu = "good" /\ s.data_coding \in {0, 8}
InHttp == recv.pc \in {"geodata", "report"}
=============================================================================
