-------------------------- MODULE DeliverSmProofs --------------------------
(***************************************************************************)
(* What TLAPS proves of DeliverSm, for every set of messages, of whatever  *)
(* kinds and lengths, and for any number of calls and faults.              *)
(***************************************************************************)
EXTENDS DeliverSm, TLAPS

Busy == recvPc \ {"poll", "crashed"}
Placed(c) == outcome[c] # "none"

\* The receiver's message is the one it read, its call is for that message, and what it
\* believes of the call is true; it answers after it has reported.
RecvInv ==
  /\ recv.pc # "poll" => recv.msg \in sentOnce
  /\ recv.pc \in Busy /\ recv.call # NoCall => callFor[recv.call] = recv.msg
  /\ recv.pc \in {"geodata", "sip"} => recv.call = NoCall
  /\ recv.pc = "call" => recv.call # NoCall
  /\ recv.pc = "report" /\ recv.result = "OK" =>
       recv.call # NoCall /\ outcome[recv.call] = "accepted"
  /\ recv.pc \in {"respond", "cleanup"} => \E r \in reports : r.msg = recv.msg

\* Unless the connection was replaced, the number it will answer is its message's.
SeqInv ==
  recv.pc \in Busy /\ ~recv.moved => recv.seq \in DOMAIN sent /\ sent[recv.seq] = recv.msg

\* A message sent once is in the socket once, and before it has been read there is no
\* call for it.
OnceInv ==
  /\ \A i \in DOMAIN sent : sent[i] \in sentOnce
  /\ \A i, j \in DOMAIN sent : sent[i] = sent[j] /\ i # j => sent[i] \in resent
  /\ \A c \in Calls : Placed(c) => callFor[c] \in sentOnce
  /\ \A c \in Calls, i \in DOMAIN sent :
       Placed(c) /\ sent[i] = callFor[c] /\ i > read => sent[i] \in resent
  /\ \A i \in DOMAIN sent :
       recv.pc # "poll" /\ sent[i] = recv.msg /\ i > read => sent[i] \in resent
  /\ \A c \in Calls :
       recv.pc \in {"geodata", "sip"} /\ Placed(c) /\ callFor[c] = recv.msg
         => recv.msg \in resent

\* The text in hand is the only buffer not accounted for.
TextInv ==
  /\ recv.pc \in {"poll", "crashed"} => pszPrintData = NoText
  /\ heap = lostBufs + (IF pszPrintData = NoText THEN 0 ELSE 1)
  /\ TextInBounds

IInv ==
  /\ TypeOK /\ RecvInv /\ SeqInv /\ OnceInv /\ TextInv
  /\ ReportTruthful /\ AckedWasHandled /\ CallPerDelivery

-----------------------------------------------------------------------------
\* What the provers need to know of the small pieces.

LEMMA KindOf ==
  ASSUME TypeOK, NEW m \in Messages
  PROVE  /\ sms[m] \in Kinds /\ sms[m].len \in Nat
         /\ sms[m].field \in {"short", "payload", "none"}
         /\ sms[m].field = "short" => sms[m].len > 0
         /\ sms[m].field = "none" => sms[m].len = 0
<1>1. PICK n \in Messages : sms[m] \in SmsKinds[n]
  BY DEF TypeOK, Kinds
<1>2. sms[m] \in Sms
  BY <1>1, DeliverAssumption
<1>3. sms[m] \in Kinds
  BY DEF TypeOK
<1> QED
  BY <1>1, <1>2, <1>3, DeliverAssumption DEF Sms

\* A converted text leaves room for its terminator, unless there were no bytes.
LEMMA ConvertedFits ==
  ASSUME TypeOK, NEW m \in Messages, sms[m].data_coding = 8, NEW t \in Converted(sms[m])
  PROVE  /\ t \in [size : Nat, end : Nat, carries : Carries]
         /\ t # NoText
         /\ t.end < t.size \/ NoBytes(sms[m])
<1>1. PICK src \in Source(sms[m]) :
        \E n \in (src.len \div 2) .. 3 * (src.len \div 2) :
          t = [size |-> Room(src.len), end |-> n, carries |-> src.carries]
  BY DEF Converted
<1>2. PICK n \in (src.len \div 2) .. 3 * (src.len \div 2) :
        t = [size |-> Room(src.len), end |-> n, carries |-> src.carries]
  BY <1>1
<1>3. /\ src.len \in Nat /\ src.carries \in {"whole", "garbage"}
      /\ src.len = sms[m].len \/ sms[m].len = 0
  BY KindOf, DeliverAssumption DEF Source
<1>4. n \in Nat /\ (src.len > 0 => n < 4 * src.len) /\ 4 * src.len \in Nat
  <2> DEFINE k == src.len \div 2
             l == src.len
  <2>1. k \in Nat /\ 2 * k <= l /\ l \in Nat /\ n \in k .. 3 * k
    BY <1>2, <1>3
  <2> HIDE DEF k, l
  <2>2. n \in Nat /\ (l > 0 => n < 4 * l) /\ 4 * l \in Nat
    BY <2>1
  <2> QED
    BY <2>2 DEF l
<1>5. t \in [size : Nat, end : Nat, carries : Carries]
  BY <1>2, <1>3, <1>4 DEF Room, Carries
<1>6. t # NoText
  BY <1>2, <1>3 DEF NoText
<1>7. t.end < t.size \/ NoBytes(sms[m])
  <2>1. CASE src.len > 0
    BY <1>2, <1>4, <2>1 DEF Room
  <2>2. CASE src.len = 0
    BY <1>3, <2>2 DEF NoBytes
  <2> QED
    BY <1>3, <2>1, <2>2
<1> QED
  BY <1>5, <1>6, <1>7

LEMMA CopiedFits ==
  ASSUME TypeOK, NEW m \in Messages
  PROVE  /\ Copied(sms[m]) \in [size : Nat, end : Nat, carries : Carries]
         /\ Copied(sms[m]) # NoText
         /\ Copied(sms[m]).end < Copied(sms[m]).size
<1>1. SmLength(sms[m]) \in Nat
  BY KindOf DEF SmLength
<1> QED
  BY <1>1 DEF Copied, NoText, Carries

\* The call of EmergencyCall, step by step.
LEMMA PlaceStep ==
  ASSUME NEW c \in Calls, Call!Place(c), TypeOK
  PROVE  /\ outcome[c] = "none" /\ outcome' = [outcome EXCEPT ![c] = "open"] /\ told' = told
BY DEF Call!Place, TypeOK

LEMMA TellStep ==
  ASSUME NEW c \in Calls, Call!Tell(c), TypeOK
  PROVE  /\ outcome' = outcome
         /\ told' \in [Calls -> {"nothing", "accepted", "refused", "unknown"}]
         /\ told'[c] = "accepted" => outcome[c] = "accepted"
BY DEF Call!Tell, TypeOK

LEMMA DecideStep ==
  ASSUME NEW c \in Calls, NEW d \in Call!Decisions, Call!Decide(c, d), TypeOK
  PROVE  /\ outcome[c] = "open" /\ told' = told
         /\ outcome' = [outcome EXCEPT ![c] = d] /\ d \in {"accepted", "refused"}
BY DEF Call!Decide, Call!Decisions, TypeOK

\* The message that is read next.
LEMMA FirstIs ==
  ASSUME TypeOK, Waiting
  PROVE  /\ First \in Messages /\ read + 1 \in DOMAIN sent /\ read + 1 \in 1 .. Len(sent)
         /\ read \in Nat /\ read + 1 > read
<1>1. sent \in Seq(Messages) /\ read \in 0 .. Len(sent) /\ read < Len(sent)
  BY DEF TypeOK, Waiting
<1>2. read + 1 \in 1 .. Len(sent) /\ DOMAIN sent = 1 .. Len(sent) /\ read \in Nat
  BY <1>1
<1> QED
  BY <1>1, <1>2 DEF First

LEMMA InitIInv == Init => IInv
<1> SUFFICES ASSUME Init PROVE IInv
  OBVIOUS
<1>1. TypeOK
  <2>1. /\ outcome \in [Calls -> {"none", "open", "accepted", "refused"}]
        /\ told \in [Calls -> {"nothing", "accepted", "refused", "unknown"}]
    BY DEF Init, Call!Init
  <2>2. sent \in Seq(Messages) /\ read \in 0 .. Len(sent)
    BY DEF Init
  <2>3. faults \in 0 .. MaxFaults
    BY DeliverAssumption DEF Init
  <2>4. /\ recv \in [pc : recvPc, msg : Messages \cup {NoMessage}, seq : Nat, moved : BOOLEAN,
                     call : Calls \cup {NoCall}, result : {"OK", "geodata", "sip"}]
        /\ pszPrintData \in [size : Nat, end : Nat, carries : Carries]
    BY DEF Init, IdleReceiver, NoText, Carries, recvPc
  <2>5. /\ callFor \in [Calls -> Messages \cup {NoMessage}]
        /\ carried \in [Calls -> Carries]
    BY DEF Init, Carries
  <2> QED
    BY <2>1, <2>2, <2>3, <2>4, <2>5 DEF Init, TypeOK
<1>2. \A c \in Calls : ~Placed(c)
  BY DEF Init, Call!Init, Placed
<1>3. RecvInv /\ SeqInv /\ OnceInv
  BY <1>2 DEF Init, IdleReceiver, RecvInv, SeqInv, OnceInv, Busy
<1>4. TextInv
  BY DEF Init, IdleReceiver, TextInv, TextInBounds
<1>5. ReportTruthful /\ AckedWasHandled /\ CallPerDelivery
  BY <1>2 DEF Init, ReportTruthful, AckedWasHandled, CallPerDelivery, Placed
<1> QED
  BY <1>1, <1>3, <1>4, <1>5 DEF IInv

-----------------------------------------------------------------------------
\* The steps.  PromiseInv is what the properties say of the calls and the reports.
PromiseInv == ReportTruthful /\ AckedWasHandled /\ CallPerDelivery

recvType ==
  [pc : recvPc, msg : Messages \cup {NoMessage}, seq : Nat, moved : BOOLEAN,
   call : Calls \cup {NoCall}, result : {"OK", "geodata", "sip"}]

\* A message is taken out of the socket and begun.
LEMMA BeginStep ==
  ASSUME IInv, Waiting, NEW pc \in {"geodata", "crashed"}, Begin(pc), read' = read + 1,
         UNCHANGED <<sms, acked, sent, connected, outcome, told, faults,
                     callFor, carried, reports, sentOnce, resent, crossed, unpacked>>
  PROVE  /\ recv' \in recvType /\ read' \in 0 .. Len(sent)' /\ recv'.pc = pc
         /\ recv'.msg = First /\ First \in Messages
         /\ RecvInv' /\ SeqInv' /\ OnceInv' /\ PromiseInv'
<1>1. /\ First \in Messages /\ read + 1 \in DOMAIN sent /\ read + 1 \in 1 .. Len(sent)
      /\ read \in Nat /\ sent \in Seq(Messages)
  BY FirstIs DEF IInv, TypeOK
<1>2. recv' = [pc |-> pc, msg |-> First, seq |-> read + 1, moved |-> FALSE,
               call |-> NoCall, result |-> "OK"]
  BY DEF Begin
<1>3. recv' \in recvType /\ read' \in 0 .. Len(sent)'
  BY <1>1, <1>2 DEF recvType, recvPc
<1>4. RecvInv'
  BY <1>1, <1>2 DEF IInv, OnceInv, RecvInv, First
<1>5. SeqInv'
  BY <1>1, <1>2 DEF SeqInv, First
<1>6. OnceInv'
  <2>1. /\ \A i \in DOMAIN sent' : sent'[i] \in sentOnce'
        /\ \A i, j \in DOMAIN sent' : sent'[i] = sent'[j] /\ i # j => sent'[i] \in resent'
        /\ \A c \in Calls : Placed(c)' => callFor'[c] \in sentOnce'
    BY DEF IInv, OnceInv, Placed
  <2>2. \A i \in DOMAIN sent : i \in Int
    BY <1>1
  <2>3. \A c \in Calls, i \in DOMAIN sent' :
          Placed(c)' /\ sent'[i] = callFor'[c] /\ i > read' => sent'[i] \in resent'
    BY <1>1, <2>2 DEF IInv, OnceInv, Placed
  <2>4. \A i \in DOMAIN sent' : sent'[i] = recv'.msg /\ i > read' => sent'[i] \in resent'
    BY <1>1, <1>2, <2>2 DEF IInv, OnceInv, First
  <2>5. \A c \in Calls : Placed(c)' /\ callFor'[c] = recv'.msg => recv'.msg \in resent'
    BY <1>1, <1>2 DEF IInv, OnceInv, Placed, First
  <2> QED
    BY <2>1, <2>3, <2>4, <2>5 DEF OnceInv
<1>7. PromiseInv'
  BY DEF IInv, PromiseInv, ReportTruthful, AckedWasHandled, CallPerDelivery
<1> QED
  BY <1>1, <1>2, <1>3, <1>4, <1>5, <1>6, <1>7

LEMMA DecodeInv == IInv /\ (Decode \/ DecodeCrashes) => IInv'
<1> SUFFICES ASSUME IInv, Decode \/ DecodeCrashes PROVE IInv'
  OBVIOUS
<1>0. TypeOK /\ TextInv /\ First \in Messages /\ heap = lostBufs
  <2>1. Readable
    BY DEF Decode, DecodeUcs2, DecodeFails, DecodeGsm7, DecodeCrashes
  <2> QED
    BY <2>1, FirstIs DEF IInv, Readable, Waiting, TextInv, TypeOK
<1>1. CASE DecodeUcs2
  <2>1. /\ recv' \in recvType /\ read' \in 0 .. Len(sent)' /\ recv'.pc = "geodata"
        /\ recv'.msg = First /\ RecvInv' /\ SeqInv' /\ OnceInv' /\ PromiseInv'
    BY <1>1, BeginStep DEF DecodeUcs2, Readable
  <2>2. /\ pszPrintData' \in [size : Nat, end : Nat, carries : Carries]
        /\ pszPrintData' # NoText
        /\ pszPrintData'.end < pszPrintData'.size \/ NoBytes(sms[First])
    BY <1>0, <1>1, ConvertedFits DEF DecodeUcs2
  <2>3. TypeOK'
    BY <1>0, <1>1, <2>1, <2>2 DEF DecodeUcs2, TypeOK, recvType
  <2>4. TextInv'
    BY <1>0, <1>1, <2>1, <2>2 DEF DecodeUcs2, TextInv, TextInBounds, NoText, TypeOK
  <2> QED
    BY <2>1, <2>3, <2>4 DEF IInv, PromiseInv
<1>2. CASE DecodeFails
  <2>1. /\ recv' \in recvType /\ read' \in 0 .. Len(sent)' /\ recv'.pc = "geodata"
        /\ recv'.msg = First /\ RecvInv' /\ SeqInv' /\ OnceInv' /\ PromiseInv'
    BY <1>2, BeginStep DEF DecodeFails, Readable
  <2>2. pszPrintData' = NoText /\ NoText \in [size : Nat, end : Nat, carries : Carries]
    BY <1>2 DEF DecodeFails, NoText, Carries
  <2>3. TypeOK'
    BY <1>0, <1>2, <2>1, <2>2 DEF DecodeFails, TypeOK, recvType
  <2>4. TextInv'
    BY <1>0, <1>2, <2>1, <2>2 DEF DecodeFails, TextInv, TextInBounds, NoText, TypeOK
  <2> QED
    BY <2>1, <2>3, <2>4 DEF IInv, PromiseInv
<1>3. CASE DecodeGsm7
  <2>1. /\ recv' \in recvType /\ read' \in 0 .. Len(sent)' /\ recv'.pc = "geodata"
        /\ recv'.msg = First /\ RecvInv' /\ SeqInv' /\ OnceInv' /\ PromiseInv'
    BY <1>3, BeginStep DEF DecodeGsm7, Readable
  <2>2. /\ pszPrintData' \in [size : Nat, end : Nat, carries : Carries]
        /\ pszPrintData' # NoText /\ pszPrintData'.end < pszPrintData'.size
    BY <1>0, <1>3, CopiedFits DEF DecodeGsm7
  <2>3. TypeOK'
    BY <1>0, <1>3, <2>1, <2>2 DEF DecodeGsm7, TypeOK, recvType
  <2>4. TextInv'
    BY <1>0, <1>3, <2>1, <2>2 DEF DecodeGsm7, TextInv, TextInBounds, NoText, TypeOK
  <2> QED
    BY <2>1, <2>3, <2>4 DEF IInv, PromiseInv
<1>4. CASE DecodeCrashes
  <2>1. /\ recv' \in recvType /\ read' \in 0 .. Len(sent)' /\ recv'.pc = "crashed"
        /\ recv'.msg = First /\ RecvInv' /\ SeqInv' /\ OnceInv' /\ PromiseInv'
    BY <1>4, BeginStep DEF DecodeCrashes, Readable, history
  <2>2. TypeOK'
    BY <1>0, <1>4, <2>1 DEF DecodeCrashes, history, TypeOK, recvType
  <2>3. TextInv'
    BY <1>0, <1>4, <2>1 DEF DecodeCrashes, history, Readable, Waiting, TextInv, TextInBounds, NoText,
       TypeOK
  <2> QED
    BY <2>1, <2>2, <2>3 DEF IInv, PromiseInv
<1> QED
  BY <1>1, <1>2, <1>3, <1>4 DEF Decode

LEMMA RejectedInv == IInv /\ Rejected => IInv'
<1> SUFFICES ASSUME IInv, Rejected PROVE IInv'
  OBVIOUS
<1>1. /\ read + 1 \in 1 .. Len(sent) /\ read \in Nat /\ sent \in Seq(Messages)
      /\ read' = read + 1 /\ recv' = recv /\ recv.pc = "poll"
      /\ UNCHANGED <<sms, acked, sent, connected, pszPrintData, outcome, told, faults, history>>
  BY FirstIs DEF Rejected, IInv, TypeOK, Waiting
<1> USE <1>1 DEF history
<1>2. TypeOK'
  BY DEF IInv, TypeOK
<1>3. RecvInv' /\ SeqInv' /\ TextInv' /\ PromiseInv'
  BY DEF IInv, RecvInv, SeqInv, TextInv, TextInBounds, PromiseInv, ReportTruthful, AckedWasHandled,
     CallPerDelivery, Busy
<1>4. OnceInv'
  <2>1. \A i \in DOMAIN sent : i \in Int
    OBVIOUS
  <2> QED
    BY <2>1 DEF IInv, OnceInv, Placed
<1> QED
  BY <1>2, <1>3, <1>4 DEF IInv, PromiseInv
\* A step of the receiver that touches only recv, between the message and the answer.
LEMMA MoveStep ==
  ASSUME IInv, recv.pc \in Busy, recv' \in recvType, recv'.pc \in Busy \ {"geodata", "sip"},
         recv'.msg = recv.msg, recv'.seq = recv.seq, recv'.moved = recv.moved,
         UNCHANGED <<sms, link, pszPrintData, faults,
                     sentOnce, resent, heap, lostBufs, crossed, unpacked>>,
         UNCHANGED <<outcome, callFor, carried, reports>>,
         told' \in [Calls -> {"nothing", "accepted", "refused", "unknown"}],
         RecvInv'
  PROVE  IInv'
<1>1. TypeOK'
  BY DEF IInv, TypeOK, recvType, link
<1>2. SeqInv' /\ TextInv' /\ PromiseInv'
  BY DEF IInv, link, SeqInv, TextInv, TextInBounds, PromiseInv, ReportTruthful, AckedWasHandled,
     CallPerDelivery, Busy
<1>3. OnceInv'
  BY DEF IInv, link, OnceInv, Placed, Busy
<1> QED
  BY <1>1, <1>2, <1>3 DEF IInv, PromiseInv

LEMMA GeodataInv == IInv /\ Geodata => IInv'
<1> SUFFICES ASSUME IInv, Geodata PROVE IInv'
  OBVIOUS
<1>1. PICK ok \in BOOLEAN :
        recv' = [recv EXCEPT !.pc = AfterGeodata(ok), !.result = IF ok THEN "OK" ELSE "geodata"]
  <2>1. PICK answer \in PerfRequest :
          recv' = [recv EXCEPT !.pc = AfterGeodata(answer = "presence"),
                               !.result = IF answer = "presence" THEN "OK" ELSE "geodata"]
    BY DEF Geodata
  <2> QED
    BY <2>1
<1>2. /\ recv.pc = "geodata" /\ recv' \in recvType
      /\ recv'.pc = IF ok THEN "sip" ELSE "report"
      /\ recv'.result = IF ok THEN "OK" ELSE "geodata"
      /\ recv'.msg = recv.msg /\ recv'.seq = recv.seq /\ recv'.moved = recv.moved
      /\ recv'.call = recv.call
      /\ UNCHANGED <<sms, link, pszPrintData, outcome, told, faults, history>>
  BY <1>1 DEF Geodata, AfterGeodata, IInv, TypeOK, recvType, recvPc
<1>3. TypeOK'
  BY <1>2 DEF IInv, TypeOK, recvType, link, history
<1>4. RecvInv'
  BY <1>2 DEF IInv, RecvInv, Busy, recvPc, history
<1>5. SeqInv' /\ TextInv' /\ PromiseInv'
  BY <1>2 DEF IInv, link, history, SeqInv, TextInv, TextInBounds, PromiseInv, ReportTruthful,
     AckedWasHandled, CallPerDelivery, Busy, recvPc
<1>6. OnceInv'
  BY <1>2 DEF IInv, link, history, OnceInv, Placed
<1> QED
  BY <1>3, <1>4, <1>5, <1>6 DEF IInv, PromiseInv

LEMMA PlaceCallInv == IInv /\ PlaceCall => IInv'
<1> SUFFICES ASSUME IInv, PlaceCall PROVE IInv'
  OBVIOUS
<1>1. PICK c \in Calls :
        /\ Call!Place(c)
        /\ recv' = [recv EXCEPT !.pc = "call", !.call = c]
        /\ callFor' = [callFor EXCEPT ![c] = recv.msg]
        /\ carried' = [carried EXCEPT ![c] = pszPrintData.carries]
  BY DEF PlaceCall
<1>2. outcome[c] = "none" /\ outcome' = [outcome EXCEPT ![c] = "open"] /\ told' = told
  BY <1>1, PlaceStep DEF IInv
<1>3. /\ recv.pc = "sip" /\ recv' \in recvType /\ recv'.pc = "call" /\ recv'.call = c
      /\ recv'.msg = recv.msg /\ recv'.seq = recv.seq /\ recv'.moved = recv.moved
      /\ c # NoCall /\ recv.msg \in sentOnce /\ recv.msg \in Messages
      /\ UNCHANGED <<sms, link, pszPrintData, faults, reports, sentOnce, resent, heap, lostBufs,
                     crossed, unpacked>>
  <2>1. recv.pc = "sip" /\ recv \in recvType
    BY DEF PlaceCall, IInv, TypeOK, recvType
  <2>2. c # NoCall
    BY DEF Calls, NoCall
  <2>3. recv.msg \in sentOnce /\ recv.msg \in Messages
    BY <2>1 DEF IInv, TypeOK, RecvInv
  <2>4. /\ recv' \in recvType /\ recv'.pc = "call" /\ recv'.call = c
        /\ recv'.msg = recv.msg /\ recv'.seq = recv.seq /\ recv'.moved = recv.moved
    BY <1>1, <2>1 DEF recvType, recvPc
  <2> QED
    BY <2>1, <2>2, <2>3, <2>4 DEF PlaceCall
<1>4. /\ \A d \in Calls : d # c => outcome'[d] = outcome[d] /\ callFor'[d] = callFor[d]
      /\ outcome'[c] = "open" /\ callFor'[c] = recv.msg
  BY <1>1, <1>2 DEF IInv, TypeOK
<1>5. TypeOK'
  BY <1>1, <1>2, <1>3 DEF IInv, TypeOK, recvType, link
<1>6. RecvInv'
  BY <1>3, <1>4 DEF IInv, RecvInv, Busy
<1>7. SeqInv' /\ TextInv'
  BY <1>3 DEF IInv, link, SeqInv, TextInv, TextInBounds, Busy, recvPc
<1>8. OnceInv'
  BY <1>3, <1>4 DEF IInv, link, OnceInv, Placed
<1>9. PromiseInv'
  <2>1. ReportTruthful'
    BY <1>2, <1>3, <1>4 DEF IInv, ReportTruthful
  <2>2. AckedWasHandled'
    BY <1>3 DEF IInv, AckedWasHandled, link
  <2>3. CallPerDelivery'
    BY <1>3, <1>4 DEF IInv, OnceInv, CallPerDelivery, Placed
  <2> QED
    BY <2>1, <2>2, <2>3 DEF PromiseInv
<1> QED
  BY <1>5, <1>6, <1>7, <1>8, <1>9 DEF IInv, PromiseInv

LEMMA CannotCallInv == IInv /\ CannotCall => IInv'
<1> SUFFICES ASSUME IInv, CannotCall PROVE IInv'
  OBVIOUS
<1>1. /\ recv.pc = "sip" /\ recv' \in recvType /\ recv'.pc = "report" /\ recv'.result = "sip"
      /\ recv'.msg = recv.msg /\ recv'.seq = recv.seq /\ recv'.moved = recv.moved
      /\ recv'.call = recv.call
      /\ UNCHANGED <<sms, link, pszPrintData, outcome, told, faults, history>>
  BY DEF CannotCall, IInv, TypeOK, recvType, recvPc
<1>2. RecvInv'
  BY <1>1 DEF IInv, RecvInv, Busy, recvPc, history
<1> QED
  BY <1>1, <1>2, MoveStep DEF history, Busy, recvPc, IInv, TypeOK

LEMMA CallReturnsInv == IInv /\ CallReturns => IInv'
<1> SUFFICES ASSUME IInv, CallReturns PROVE IInv'
  OBVIOUS
<1>0. recv.pc = "call" /\ recv.call \in Calls
  BY DEF CallReturns, IInv, RecvInv, TypeOK
<1>1. /\ outcome' = outcome
      /\ told' \in [Calls -> {"nothing", "accepted", "refused", "unknown"}]
      /\ told'[recv.call] = "accepted" => outcome[recv.call] = "accepted"
  BY <1>0, TellStep DEF CallReturns, IInv
<1>2. /\ recv' \in recvType /\ recv'.pc = "report"
      /\ recv'.result = ResultOf(told'[recv.call])
      /\ recv'.msg = recv.msg /\ recv'.seq = recv.seq /\ recv'.moved = recv.moved
      /\ recv'.call = recv.call
      /\ UNCHANGED <<sms, link, pszPrintData, faults, history>>
  BY DEF CallReturns, AfterCall, ResultOf, IInv, TypeOK, recvType, recvPc
<1>3. RecvInv'
  BY <1>0, <1>1, <1>2 DEF IInv, RecvInv, ResultOf, Busy, recvPc, history
<1> QED
  BY <1>0, <1>1, <1>2, <1>3, MoveStep DEF history, Busy, recvPc

LEMMA SendReportInv == IInv /\ SendReport => IInv'
<1> SUFFICES ASSUME IInv, SendReport PROVE IInv'
  OBVIOUS
<1>1. reports' = reports \cup
        {[msg |-> recv.msg, call |-> recv.call, result |-> recv.result]}
  BY DEF SendReport
<1>2. /\ recv.pc = "report" /\ recv' \in recvType /\ recv'.pc = "respond"
      /\ recv'.msg = recv.msg /\ recv'.seq = recv.seq /\ recv'.moved = recv.moved
      /\ recv'.call = recv.call /\ recv.msg \in Messages
      /\ recv.call \in Calls \cup {NoCall} /\ recv.result \in {"OK", "geodata", "sip"}
      /\ UNCHANGED <<sms, link, pszPrintData, outcome, told, faults,
                     callFor, carried, sentOnce, resent, heap, lostBufs, crossed, unpacked>>
  BY DEF SendReport, IInv, TypeOK, RecvInv, recvType, recvPc
<1>3. TypeOK'
  BY <1>1, <1>2 DEF IInv, TypeOK, recvType, link
<1>4. RecvInv'
  <2>1. \E r \in reports' : r.msg = recv'.msg
    <3> DEFINE r == [msg |-> recv.msg, call |-> recv.call, result |-> recv.result]
    <3>1. r \in reports' /\ r.msg = recv'.msg
      BY <1>1, <1>2
    <3> QED
      BY <3>1
  <2>2. recv'.msg \in sentOnce'
    BY <1>2 DEF IInv, RecvInv
  <2>3. recv'.call # NoCall => callFor'[recv'.call] = recv'.msg
    BY <1>2 DEF IInv, RecvInv, Busy, recvPc
  <2> QED
    BY <1>2, <2>1, <2>2, <2>3 DEF RecvInv
<1>5. SeqInv' /\ TextInv' /\ OnceInv'
  BY <1>2 DEF IInv, link, SeqInv, TextInv, TextInBounds, OnceInv, Placed, Busy, recvPc
<1>6. PromiseInv'
  <2>1. ReportTruthful'
    BY <1>1, <1>2 DEF IInv, RecvInv, ReportTruthful, Busy, recvPc
  <2>2. AckedWasHandled' /\ CallPerDelivery'
    BY <1>1, <1>2 DEF IInv, AckedWasHandled, CallPerDelivery, link
  <2> QED
    BY <2>1, <2>2 DEF PromiseInv
<1> QED
  BY <1>3, <1>4, <1>5, <1>6 DEF IInv, PromiseInv

LEMMA RespondInv == IInv /\ (Respond \/ PackFails \/ RespondFails) => IInv'
<1> SUFFICES ASSUME IInv, Respond \/ PackFails \/ RespondFails PROVE IInv'
  OBVIOUS
<1>1. /\ recv.pc = "respond" /\ recv' \in recvType /\ recv'.pc = "cleanup"
      /\ recv'.msg = recv.msg /\ recv'.seq = recv.seq /\ recv'.moved = recv.moved
      /\ recv'.call = recv.call
      /\ UNCHANGED <<sms, sent, read, pszPrintData, outcome, told,
                     callFor, carried, reports, sentOnce, resent, heap, lostBufs>>
  BY DEF Respond, PackFails, RespondFails, link, history, IInv, TypeOK, recvType, recvPc
<1>2. acked' \subseteq Messages /\ crossed' \in BOOLEAN /\ connected' \in BOOLEAN
      /\ faults' \in 0 .. MaxFaults /\ unpacked' \subseteq Messages
  <2>1. CASE Respond
    <3>1. recv.seq \in DOMAIN sent => sent[recv.seq] \in Messages
      BY DEF IInv, TypeOK
    <3> QED
      BY <2>1, <3>1 DEF Respond, IInv, TypeOK
  <2>2. CASE PackFails \/ RespondFails
    <3>1. /\ acked' = acked /\ crossed' = crossed /\ connected' \in {connected, FALSE}
          /\ unpacked' \subseteq unpacked \cup {recv.msg}
      BY <2>2 DEF PackFails, RespondFails, NotConnected, link, history
    <3>2. faults' = faults + 1 /\ faults < MaxFaults
      BY <2>2 DEF PackFails, RespondFails, Fault
    <3>3. faults' \in 0 .. MaxFaults
      BY <3>2, DeliverAssumption DEF IInv, TypeOK
    <3>4. recv.msg \in Messages
      BY <1>1 DEF IInv, TypeOK, RecvInv
    <3> QED
      BY <3>1, <3>3, <3>4 DEF IInv, TypeOK
  <2> QED
    BY <2>1, <2>2
<1>3. TypeOK'
  BY <1>1, <1>2 DEF IInv, TypeOK, recvType
<1>4. RecvInv' /\ SeqInv' /\ TextInv' /\ OnceInv'
  BY <1>1 DEF IInv, RecvInv, SeqInv, TextInv, TextInBounds, OnceInv, Placed, Busy, recvPc
<1>5. AckedWasHandled'
  <2>1. CASE Respond
    <3>1. crossed' \/ (~crossed /\ ~recv.moved)
      BY <2>1 DEF Respond, IInv, TypeOK
    <3>2. ASSUME ~crossed, ~recv.moved PROVE acked' = acked \cup {recv.msg}
      BY <1>1, <2>1, <3>2 DEF Respond, IInv, SeqInv, Busy, recvPc
    <3>3. \E r \in reports : r.msg = recv.msg
      BY <1>1 DEF IInv, RecvInv
    <3> QED
      BY <1>1, <3>1, <3>2, <3>3 DEF IInv, AckedWasHandled
  <2>2. CASE PackFails \/ RespondFails
    BY <1>1, <2>2 DEF PackFails, RespondFails, link, history, IInv, AckedWasHandled
  <2> QED
    BY <2>1, <2>2
<1>6. ReportTruthful' /\ CallPerDelivery'
  BY <1>1 DEF IInv, ReportTruthful, CallPerDelivery
<1> QED
  BY <1>3, <1>4, <1>5, <1>6 DEF IInv

LEMMA CleanupInv == IInv /\ Cleanup => IInv'
<1> SUFFICES ASSUME IInv, Cleanup PROVE IInv'
  OBVIOUS
<1>1. /\ recv.pc = "cleanup" /\ recv' = IdleReceiver /\ pszPrintData' = NoText
      /\ heap' = Released(heap)
      /\ UNCHANGED <<sms, acked, sent, read, connected, outcome, told, faults,
                     callFor, carried, reports, sentOnce, resent, lostBufs, crossed, unpacked>>
  BY DEF Cleanup, link
<1>2. heap' = lostBufs
  BY <1>1 DEF Released, IInv, TextInv, TypeOK
<1>3. TypeOK'
  <2>1. recv' \in recvType /\ pszPrintData' \in [size : Nat, end : Nat, carries : Carries]
    BY <1>1 DEF IdleReceiver, recvType, recvPc, NoText, Carries
  <2> QED
    BY <1>1, <1>2, <2>1 DEF IInv, TypeOK, recvType
<1>4. RecvInv' /\ SeqInv'
  BY <1>1 DEF IdleReceiver, RecvInv, SeqInv, Busy
<1>5. TextInv'
  BY <1>1, <1>2 DEF IInv, TypeOK, IdleReceiver, TextInv, TextInBounds
<1>6. OnceInv'
  BY <1>1 DEF IInv, OnceInv, Placed, IdleReceiver
<1>7. PromiseInv'
  BY <1>1 DEF IInv, PromiseInv, ReportTruthful, AckedWasHandled, CallPerDelivery
<1> QED
  BY <1>3, <1>4, <1>5, <1>6, <1>7 DEF IInv, PromiseInv

\* Another connection: whatever the receiver has in hand did not come from it.
LEMMA ReplaceInv == IInv /\ (Reconnect \/ ReconnectEarly) => IInv'
<1> SUFFICES ASSUME IInv, Reconnect \/ ReconnectEarly PROVE IInv'
  OBVIOUS
<1>0. Replace /\ faults' \in 0 .. MaxFaults
  <2>1. faults \in 0 .. MaxFaults /\ MaxFaults \in Nat
    BY DeliverAssumption DEF IInv, TypeOK
  <2>2. faults' = faults \/ (faults < MaxFaults /\ faults' = faults + 1)
    BY DEF Reconnect, ReconnectEarly, Fault
  <2> QED
    BY <2>1, <2>2 DEF Reconnect, ReconnectEarly
<1>1. /\ connected' = TRUE /\ sent' = <<>> /\ read' = 0
      /\ recv' \in recvType /\ recv'.pc = recv.pc /\ recv'.msg = recv.msg
      /\ recv'.moved = (recv.pc # "poll") /\ recv'.call = recv.call /\ recv'.result = recv.result
      /\ UNCHANGED <<sms, acked, pszPrintData, outcome, told, callFor, carried, reports,
                     sentOnce, resent, heap, lostBufs, crossed, unpacked>>
  BY <1>0 DEF Replace, ReadNothing, history, IInv, TypeOK, recvType
<1>2. TypeOK'
  <2>1. sent' \in Seq(Messages) /\ read' \in 0 .. Len(sent')
    BY <1>1
  <2> QED
    BY <1>0, <1>1, <2>1 DEF IInv, TypeOK, recvType
<1>3. RecvInv' /\ SeqInv'
  BY <1>1 DEF IInv, RecvInv, SeqInv, Busy, recvPc
<1>4. TextInv' /\ PromiseInv'
  BY <1>1 DEF IInv, TextInv, TextInBounds, PromiseInv, ReportTruthful, AckedWasHandled,
     CallPerDelivery
<1>5. OnceInv'
  <2>1. DOMAIN sent' = {}
    BY <1>1
  <2> QED
    BY <1>1, <2>1 DEF IInv, OnceInv, Placed
<1> QED
  BY <1>2, <1>3, <1>4, <1>5 DEF IInv, PromiseInv

\* The server sends a message, for the first time or again.
LEMMA SendInv ==
  ASSUME IInv, NEW m \in Messages, Send(m) \/ SendAgain(m)
  PROVE  IInv'
<1>1. /\ sent' = Append(sent, m) /\ sentOnce' = sentOnce \cup {m}
      /\ resent' = resent \cup ({m} \cap sentOnce)
      /\ UNCHANGED <<sms, acked, read, connected, recv, pszPrintData, outcome, told,
                     callFor, carried, reports, heap, lostBufs, crossed, unpacked>>
  BY DEF Send, SendAgain
<1>2. /\ sent \in Seq(Messages) /\ Len(sent) \in Nat /\ read \in Nat /\ read <= Len(sent)
      /\ DOMAIN sent = 1 .. Len(sent) /\ resent \subseteq sentOnce /\ sentOnce \subseteq Messages
  BY DEF IInv, TypeOK
<1>3. /\ sent' \in Seq(Messages) /\ Len(sent') = Len(sent) + 1
      /\ DOMAIN sent' = 1 .. Len(sent) + 1
      /\ \A i \in 1 .. Len(sent) : sent'[i] = sent[i]
      /\ sent'[Len(sent) + 1] = m
  BY <1>1, <1>2
<1>4. faults' \in 0 .. MaxFaults
  BY DeliverAssumption DEF Send, SendAgain, Fault, IInv, TypeOK
<1>5. TypeOK'
  <2>1. read' \in 0 .. Len(sent')
    BY <1>1, <1>2, <1>3
  <2>2. sentOnce' \subseteq Messages /\ resent' \subseteq sentOnce'
    BY <1>1, <1>2
  <2> QED
    BY <1>1, <1>3, <1>4, <2>1, <2>2 DEF IInv, TypeOK
<1>6. RecvInv'
  BY <1>1 DEF IInv, RecvInv
<1>7. SeqInv'
  BY <1>1, <1>2, <1>3 DEF IInv, SeqInv
<1>8. TextInv'
  BY <1>1 DEF IInv, TextInv, TextInBounds
<1>9. OnceInv'
  <2>1. \A i \in DOMAIN sent' : sent'[i] \in sentOnce'
    BY <1>1, <1>2, <1>3 DEF IInv, OnceInv
  <2>2. \A i, j \in DOMAIN sent' : sent'[i] = sent'[j] /\ i # j => sent'[i] \in resent'
    <3> SUFFICES ASSUME NEW i \in DOMAIN sent', NEW j \in DOMAIN sent',
                        sent'[i] = sent'[j], i # j
                 PROVE  sent'[i] \in resent'
      OBVIOUS
    <3>1. CASE i \in DOMAIN sent /\ j \in DOMAIN sent
      BY <1>1, <1>2, <1>3, <3>1 DEF IInv, OnceInv
    <3>2. CASE i \in DOMAIN sent /\ j \notin DOMAIN sent
      <4>1. sent'[i] = m /\ sent[i] = m
        BY <1>2, <1>3, <3>2
      <4> QED
        BY <1>1, <3>2, <4>1 DEF IInv, OnceInv
    <3>3. CASE i \notin DOMAIN sent
      <4>1. j \in DOMAIN sent /\ sent[j] = m /\ sent'[i] = m
        BY <1>2, <1>3, <3>3
      <4> QED
        BY <1>1, <4>1 DEF IInv, OnceInv
    <3> QED
      BY <3>1, <3>2, <3>3
  <2>3. \A c \in Calls : Placed(c)' => callFor'[c] \in sentOnce'
    BY <1>1 DEF IInv, OnceInv, Placed
  <2>4. \A c \in Calls, i \in DOMAIN sent' :
          Placed(c)' /\ sent'[i] = callFor'[c] /\ i > read' => sent'[i] \in resent'
    <3> SUFFICES ASSUME NEW c \in Calls, NEW i \in DOMAIN sent', Placed(c),
                        sent'[i] = callFor[c], i > read
                 PROVE  sent'[i] \in resent'
      BY <1>1 DEF Placed
    <3>1. CASE i \in DOMAIN sent
      BY <1>1, <1>2, <1>3, <3>1 DEF IInv, OnceInv
    <3>2. CASE i \notin DOMAIN sent
      <4>1. sent'[i] = m
        BY <1>2, <1>3, <3>2
      <4> QED
        BY <1>1, <4>1 DEF IInv, OnceInv
    <3> QED
      BY <3>1, <3>2
  <2>5. \A i \in DOMAIN sent' :
          recv'.pc # "poll" /\ sent'[i] = recv'.msg /\ i > read' => sent'[i] \in resent'
    <3> SUFFICES ASSUME NEW i \in DOMAIN sent', recv.pc # "poll", sent'[i] = recv.msg, i > read
                 PROVE  sent'[i] \in resent'
      BY <1>1
    <3>1. CASE i \in DOMAIN sent
      BY <1>1, <1>2, <1>3, <3>1 DEF IInv, OnceInv
    <3>2. CASE i \notin DOMAIN sent
      <4>1. sent'[i] = m
        BY <1>2, <1>3, <3>2
      <4> QED
        BY <1>1, <4>1 DEF IInv, RecvInv
    <3> QED
      BY <3>1, <3>2
  <2>6. \A c \in Calls :
          recv'.pc \in {"geodata", "sip"} /\ Placed(c)' /\ callFor'[c] = recv'.msg
            => recv'.msg \in resent'
    BY <1>1 DEF IInv, OnceInv, Placed
  <2> QED
    BY <2>1, <2>2, <2>3, <2>4, <2>5, <2>6 DEF OnceInv
<1>10. PromiseInv'
  BY <1>1 DEF IInv, PromiseInv, ReportTruthful, AckedWasHandled, CallPerDelivery
<1> QED
  BY <1>5, <1>6, <1>7, <1>8, <1>9, <1>10 DEF IInv, PromiseInv

\* A decision is about a call that is open, so nothing believed of it becomes false.
LEMMA DecideInv ==
  ASSUME IInv, NEW c \in Calls, Decide(c)
  PROVE  IInv'
<1>1. PICK d \in Call!Decisions : Call!Decide(c, d)
  BY DEF Decide
<1>2. /\ outcome[c] = "open" /\ told' = told
      /\ outcome' = [outcome EXCEPT ![c] = d] /\ d \in {"accepted", "refused"}
  BY <1>1, DecideStep DEF IInv
<1>3. /\ UNCHANGED <<sms, acked, sent, read, connected, recv, pszPrintData, faults, history>>
      /\ \A e \in Calls : Placed(e)' = Placed(e)
      /\ \A e \in Calls : outcome[e] = "accepted" => outcome'[e] = "accepted"
  BY <1>2 DEF Decide, link, Placed, IInv, TypeOK
<1>4. TypeOK'
  BY <1>2, <1>3 DEF IInv, TypeOK, history
<1>5. RecvInv'
  BY <1>3 DEF IInv, TypeOK, RecvInv, history, Busy, recvPc
<1>6. SeqInv' /\ TextInv'
  BY <1>3 DEF IInv, SeqInv, TextInv, TextInBounds, history
<1>7. OnceInv'
  BY <1>3 DEF IInv, OnceInv, history
<1>8. PromiseInv'
  <2>1. ReportTruthful'
    BY <1>3 DEF IInv, ReportTruthful, history
  <2>2. AckedWasHandled'
    BY <1>3 DEF IInv, AckedWasHandled, history
  <2>3. CallPerDelivery'
    BY <1>3 DEF IInv, CallPerDelivery, Placed, history
  <2> QED
    BY <2>1, <2>2, <2>3 DEF PromiseInv
<1> QED
  BY <1>4, <1>5, <1>6, <1>7, <1>8 DEF IInv, PromiseInv

LEMMA StutterInv == IInv /\ UNCHANGED vars => IInv'
BY DEF vars, link, history, IInv, TypeOK, RecvInv, SeqInv, OnceInv, Placed, TextInv, TextInBounds,
   ReportTruthful, AckedWasHandled, CallPerDelivery

LEMMA InvariantIInv == Spec => []IInv
<1>1. IInv /\ [Next]_vars => IInv'
  <2> SUFFICES ASSUME IInv, [Next]_vars PROVE IInv'
    OBVIOUS
  <2>1. CASE Receiver
    BY <2>1, RejectedInv, DecodeInv, GeodataInv, PlaceCallInv, CannotCallInv, CallReturnsInv,
       SendReportInv, RespondInv, CleanupInv, StutterInv DEF Receiver, Handle, Http, TooLong
  <2>2. CASE Reconnect \/ ReconnectEarly
    BY <2>2, ReplaceInv
  <2>3. CASE Environment
    BY <2>3, SendInv, DecideInv DEF Environment
  <2>4. CASE UNCHANGED vars
    BY <2>4, StutterInv
  <2> QED
    BY <2>1, <2>2, <2>3, <2>4 DEF Next
<1> QED
  BY <1>1, InitIInv, PTL DEF Spec

-----------------------------------------------------------------------------
\* The state of the pipeline keeps its types.
THEOREM TypeCorrect == Spec => []TypeOK
BY InvariantIInv, PTL DEF IInv

\* A report of success is never false (sms112_smpp_deliver_sm_oper).
THEOREM ReportIsTrue == Spec => []ReportTruthful
BY InvariantIInv, PTL DEF IInv

\* As long as every answer stays on its connection, no unread message counts as
\* delivered (sms112_smpp_deliver_sm_oper).
THEOREM NothingAckedUnread == Spec => []AckedWasHandled
BY InvariantIInv, PTL DEF IInv

\* Two calls for a message mean that the server sent it twice.
THEOREM NoCallTwice == Spec => []CallPerDelivery
BY InvariantIInv, PTL DEF IInv

\* For a text of any length the terminator is inside the buffer, unless it is a text of
\* no bytes in UCS-2 (sms112_iconv and sms112_smpp_deliver_sm_oper).
THEOREM TerminatorFits == Spec => []TextInBounds
BY InvariantIInv, PTL DEF IInv, TextInv

\* Only failed conversions leave text buffers behind.
THEOREM TextReleased == Spec => []NoTextLeak
<1>1. IInv => NoTextLeak
  BY DEF IInv, TextInv, NoTextLeak, TypeOK
<1> QED
  BY <1>1, InvariantIInv, PTL

-----------------------------------------------------------------------------
\* The pipeline and its calls: the contract of EmergencyCall is all that it uses of
\* sms112_sip_send_req, and it keeps to it.

\* PlaceCall, CallReturns and Decide are the contract's own steps, the receiver waits for
\* the call that it has placed, and the rest of the pipeline does not touch a call: what
\* SipCall implements is what sms112_smpp_deliver_sm_oper relies on.
THEOREM CallsWithinContract == Spec => Call!Spec
<1>1. Init => Call!Init
  BY DEF Init
<1>2. IInv /\ [Next]_vars => [Call!Next]_(Call!vars)
  <2> SUFFICES ASSUME IInv, [Next]_vars PROVE Call!Next \/ UNCHANGED <<outcome, told>>
    BY DEF Call!vars
  <2>1. CASE PlaceCall
    BY <2>1, Zenon DEF PlaceCall, Call!Next
  <2>2. CASE CallReturns
    <3>1. recv.call \in Calls
      BY <2>2 DEF CallReturns, IInv, RecvInv, TypeOK
    <3> QED
      BY <2>2, <3>1, Zenon DEF CallReturns, Call!Next
  <2>3. CASE Environment
    BY <2>3, Zenon DEF Environment, Send, SendAgain, Decide, Call!Next
  <2>4. CASE Reconnect \/ ReconnectEarly
    BY <2>4, Zenon DEF Reconnect, ReconnectEarly, Replace
  <2>5. CASE Rejected \/ Decode \/ DecodeCrashes \/ Geodata \/ CannotCall
    BY <2>5, Zenon
       DEF Rejected, Decode, DecodeUcs2, DecodeFails, DecodeGsm7, DecodeCrashes, Geodata, CannotCall
  <2>6. CASE SendReport \/ Respond \/ PackFails \/ RespondFails \/ Cleanup
    BY <2>6, Zenon DEF SendReport, Respond, PackFails, RespondFails, Cleanup
  <2>7. CASE TooLong \/ UNCHANGED vars
    BY <2>7, Zenon DEF TooLong, vars
  <2> QED
    BY <2>1, <2>2, <2>3, <2>4, <2>5, <2>6, <2>7, Zenon DEF Next, Receiver, Handle, Http
<1> QED
  BY <1>1, <1>2, InvariantIInv, PTL DEF Spec, Call!Spec
=============================================================================
