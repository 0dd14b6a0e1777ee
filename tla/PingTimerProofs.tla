-------------------------- MODULE PingTimerProofs --------------------------
(***************************************************************************)
(* What TLAPS proves of PingTimer, for every length of a second and of a   *)
(* span: sms112_make_timespec_timeout is exact, the schedule of the checks *)
(* does not drift, and a signal wakes the thread.                          *)
(***************************************************************************)
EXTENDS PingTimer, TLAPS

\* A product distributes over a sum, for the provers.
LEMMA Distributes ==
  ASSUME NEW a \in Int, NEW b \in Int, NEW c \in Int
  PROVE  (a + b) * c = a * c + b * c
OBVIOUS

LEMMA ProductNat ==
  ASSUME NEW a \in Nat, NEW b \in Nat
  PROVE  a * b \in Nat
OBVIOUS

\* The clock in seconds and microseconds.
LEMMA ClockSplits ==
  ASSUME now \in Nat
  PROVE  /\ TvSec \in Nat /\ TvUSec \in 0 .. USEC_PER_SEC - 1
         /\ TvSec * USEC_PER_SEC + TvUSec = now
<1>1. USEC_PER_SEC \in Nat /\ USEC_PER_SEC > 0
  BY TimerAssumption
<1>2. TvUSec \in 0 .. USEC_PER_SEC - 1
  BY <1>1 DEF TvUSec
<1>3. TvSec \in Nat
  BY <1>1 DEF TvSec
<1>4. TvSec * USEC_PER_SEC + TvUSec = now
  BY <1>1 DEF TvSec, TvUSec
<1> QED
  BY <1>2, <1>3, <1>4

\* sms112_make_timespec_timeout adds exactly what it is asked to, for every time of the
\* clock, and its tv_nsec is in range if the microseconds added are less than a second.
THEOREM TimeoutExact ==
  ASSUME NEW sec \in Nat, NEW usec \in 0 .. USEC_PER_SEC - 1,
         NEW p_uiSec \in Nat, NEW p_uiAddUSec \in Nat
  PROVE  LET ts == Timeout(sec, usec, p_uiSec, p_uiAddUSec)
         IN  /\ Nanos(ts) = (sec * USEC_PER_SEC + usec + p_uiSec * USEC_PER_SEC + p_uiAddUSec)
                              * NSEC_PER_USEC
             /\ ts.tv_sec \in Nat
             /\ p_uiAddUSec < USEC_PER_SEC => Valid(ts)
<1> DEFINE ts == Timeout(sec, usec, p_uiSec, p_uiAddUSec)
           U == USEC_PER_SEC
<1>1. U \in Nat /\ U > 0 /\ usec \in Nat /\ usec < U
  BY TimerAssumption
<1>2. NSEC_PER_SEC = U * 1000 /\ NSEC_PER_USEC = 1000
  BY DEF NSEC_PER_SEC, NSEC_PER_USEC
<1>3. (sec + p_uiSec) * U = sec * U + p_uiSec * U /\ (sec + p_uiSec + 1) * U = sec * U + p_uiSec * U + U
  BY <1>1, Distributes
<1>4. sec * U \in Nat /\ p_uiSec * U \in Nat
  BY <1>1, ProductNat
<1>5. CASE usec + p_uiAddUSec < U
  <2>1. ts = [tv_sec |-> sec + p_uiSec, tv_nsec |-> (usec + p_uiAddUSec) * 1000]
    BY <1>2, <1>5 DEF Timeout
  <2>2. Nanos(ts) = ((sec + p_uiSec) * U) * 1000 + (usec + p_uiAddUSec) * 1000
    BY <1>1, <1>2, <2>1 DEF Nanos
  <2>3. Valid(ts)
    BY <1>1, <1>2, <1>5, <2>1 DEF Valid
  <2> HIDE DEF U
  <2>4. Nanos(ts) = (sec * U + usec + p_uiSec * U + p_uiAddUSec) * 1000
    BY <1>1, <1>3, <1>4, <2>2
  <2> QED
    BY <1>1, <1>2, <2>1, <2>3, <2>4 DEF U
<1>6. CASE ~(usec + p_uiAddUSec < U)
  <2>1. ts = [tv_sec |-> sec + p_uiSec + 1, tv_nsec |-> (usec - U + p_uiAddUSec) * 1000]
    BY <1>2, <1>6 DEF Timeout
  <2>2. Nanos(ts) = ((sec + p_uiSec + 1) * U) * 1000 + (usec - U + p_uiAddUSec) * 1000
    BY <1>1, <1>2, <2>1 DEF Nanos
  <2>3. p_uiAddUSec < U => Valid(ts)
    BY <1>1, <1>2, <1>6, <2>1 DEF Valid
  <2> HIDE DEF U
  <2>4. Nanos(ts) = (sec * U + usec + p_uiSec * U + p_uiAddUSec) * 1000
    BY <1>1, <1>3, <1>4, <2>2
  <2> QED
    BY <1>1, <1>2, <2>1, <2>3, <2>4 DEF U
<1> QED
  BY <1>5, <1>6

-----------------------------------------------------------------------------
\* The inductive invariant.  A span in nanoseconds, and the moment the first wait was
\* counted from.
SpanNs == Span * USEC_PER_SEC * NSEC_PER_USEC
NowNs == now * NSEC_PER_USEC
StartNs == start * NSEC_PER_USEC

\* No second wait is set before the deadline of the last one has passed.
DueInv ==
  ~setBack =>
    /\ pc \in {"test", "wait"} => Nanos(soTS) <= NowNs + SpanNs
    /\ pc = "work" => Nanos(soTS) <= NowNs

\* While every iteration advances it, soTS counts the ticks.
CountInv ==
  ~spun =>
    /\ pc \in {"init", "lock", "schedule"} => ticks = 0
    /\ pc \in {"test", "wait"} => Nanos(soTS) = StartNs + ticks * SpanNs + SpanNs
    /\ pc = "work" => Nanos(soTS) = StartNs + ticks * SpanNs

\* A signal that has been handled has set g_iStop and left the mutex free for whoever
\* went past the test before.
StopInv ==
  /\ handler = "none" <=> g_iStop = 0
  /\ StopWakes

IInv == TypeOK /\ DueInv /\ CountInv /\ StopInv

-----------------------------------------------------------------------------
LEMMA Units ==
  /\ NSEC_PER_SEC \in Nat /\ NSEC_PER_SEC > 0
  /\ SpanNs \in Nat /\ SpanNs = Span * NSEC_PER_SEC
  /\ NSEC_PER_USEC = 1000
  /\ Span * USEC_PER_SEC \in Nat /\ SpanNs = (Span * USEC_PER_SEC) * 1000
<1>1. Span \in Nat /\ USEC_PER_SEC \in Nat /\ USEC_PER_SEC > 0
  BY TimerAssumption
<1>2. Span * USEC_PER_SEC \in Nat
  BY <1>1, ProductNat
<1> QED
  BY <1>1, <1>2 DEF NSEC_PER_SEC, NSEC_PER_USEC, SpanNs

\* Advancing soTS moves the deadline by a span and leaves the nanoseconds in range.
LEMMA AdvanceBySpan ==
  ASSUME TypeOK
  PROVE  /\ Advanced(soTS) \in [tv_sec : Nat, tv_nsec : 0 .. NSEC_PER_SEC - 1]
         /\ Nanos(Advanced(soTS)) = Nanos(soTS) + SpanNs
         /\ Nanos(soTS) \in Nat
<1>1. soTS.tv_sec \in Nat /\ soTS.tv_nsec \in 0 .. NSEC_PER_SEC - 1 /\ Span \in Nat
  BY TimerAssumption DEF TypeOK
<1>2. /\ Advanced(soTS) \in [tv_sec : Nat, tv_nsec : 0 .. NSEC_PER_SEC - 1]
      /\ Advanced(soTS).tv_sec = soTS.tv_sec + Span /\ Advanced(soTS).tv_nsec = soTS.tv_nsec
  BY <1>1 DEF TypeOK, Advanced
<1>3. (soTS.tv_sec + Span) * NSEC_PER_SEC = soTS.tv_sec * NSEC_PER_SEC + SpanNs
  BY <1>1, Units, Distributes
<1>4. soTS.tv_sec * NSEC_PER_SEC \in Nat
  BY <1>1, Units, ProductNat
<1>5. Nanos(Advanced(soTS)) = Nanos(soTS) + SpanNs /\ Nanos(soTS) \in Nat
  BY <1>1, <1>2, <1>3, <1>4, Units DEF Nanos
<1> QED
  BY <1>2, <1>5

\* The first deadline is one span from now.
LEMMA FirstDeadline ==
  ASSUME TypeOK, Schedule
  PROVE  /\ soTS' \in [tv_sec : Nat, tv_nsec : 0 .. NSEC_PER_SEC - 1]
         /\ Nanos(soTS)' = NowNs + SpanNs
<1>1. /\ TvSec \in Nat /\ TvUSec \in 0 .. USEC_PER_SEC - 1
      /\ TvSec * USEC_PER_SEC + TvUSec = now /\ now \in Nat
  BY ClockSplits DEF TypeOK
<1>2. Span \in Nat /\ USEC_PER_SEC \in Nat /\ USEC_PER_SEC > 0 /\ 0 \in Nat
  BY TimerAssumption
<1>3. soTS' = Timeout(TvSec, TvUSec, Span, 0)
  BY DEF Schedule
<1>4. /\ Nanos(soTS') = (TvSec * USEC_PER_SEC + TvUSec + Span * USEC_PER_SEC + 0) * NSEC_PER_USEC
      /\ Valid(soTS')
  BY <1>1, <1>2, <1>3, TimeoutExact
<1>5. Nanos(soTS)' = NowNs + SpanNs
  BY <1>1, <1>4, Units DEF Nanos, NowNs
<1>6. soTS' \in [tv_sec : Nat, tv_nsec : 0 .. NSEC_PER_SEC - 1]
  <2>1. soTS'.tv_sec \in Nat
    BY <1>1, <1>2, <1>3, TimeoutExact
  <2>2. soTS'.tv_nsec \in 0 .. NSEC_PER_SEC - 1
    BY <1>4 DEF Valid
  <2>3. soTS' = [tv_sec |-> soTS'.tv_sec, tv_nsec |-> soTS'.tv_nsec]
    BY <1>3 DEF Timeout
  <2> QED
    BY <2>1, <2>2, <2>3
<1> QED
  BY <1>5, <1>6

LEMMA InitIInv == Init => IInv
<1> SUFFICES ASSUME Init PROVE IInv
  OBVIOUS
<1>1. soTS \in [tv_sec : Nat, tv_nsec : 0 .. NSEC_PER_SEC - 1]
  <2>1. 0 \in 0 .. NSEC_PER_SEC - 1
    BY Units
  <2> QED
    BY <2>1 DEF Init
<1>2. TypeOK
  BY <1>1 DEF Init, TypeOK, pingPc
<1> QED
  BY <1>2 DEF Init, IInv, DueInv, CountInv, StopInv, StopWakes

\* One step for each action.
LEMMA IInvStep == IInv /\ [Next]_vars => IInv'
<1> SUFFICES ASSUME IInv, [Next]_vars PROVE IInv'
  OBVIOUS
<1>0. /\ TypeOK /\ DueInv /\ CountInv /\ StopInv
      /\ now \in Nat /\ start \in Nat /\ ticks \in Nat /\ Nanos(soTS) \in Nat
      /\ SpanNs \in Nat /\ NowNs = now * 1000 /\ StartNs = start * 1000
      /\ ticks * SpanNs \in Nat /\ 0 * SpanNs = 0 /\ (ticks + 1) * SpanNs = ticks * SpanNs + SpanNs
  <2>1. TypeOK /\ DueInv /\ CountInv /\ StopInv
    BY DEF IInv
  <2>2. now \in Nat /\ start \in Nat /\ ticks \in Nat /\ Nanos(soTS) \in Nat /\ SpanNs \in Nat
    BY <2>1, AdvanceBySpan, Units DEF TypeOK
  <2>3. ticks * SpanNs \in Nat
    BY <2>2, ProductNat
  <2>4. (ticks + 1) * SpanNs = ticks * SpanNs + 1 * SpanNs
    BY <2>2, Distributes
  <2> QED
    BY <2>1, <2>2, <2>3, <2>4, Units DEF NowNs, StartNs
<1>1. CASE InitMutex
  <2>1. TypeOK' /\ StopInv'
    BY <1>0, <1>1 DEF InitMutex, TypeOK, pingPc, StopInv, StopWakes
  <2>2. DueInv'
    BY <1>1 DEF InitMutex, DueInv
  <2>3. CountInv'
    BY <1>0, <1>1 DEF InitMutex, CountInv
  <2> QED
    BY <2>1, <2>2, <2>3 DEF IInv
<1>2. CASE LockMutex
  BY <1>0, <1>2 DEF LockMutex, IInv, TypeOK, pingPc, DueInv, CountInv, StopInv, StopWakes, NowNs, StartNs
<1>3. CASE Schedule
  <2>1. TypeOK' /\ StopInv'
    BY <1>0, <1>3, FirstDeadline DEF Schedule, TypeOK, pingPc, StopInv, StopWakes
  <2>2. DueInv'
    BY <1>0, <1>3, FirstDeadline DEF Schedule, DueInv, NowNs
  <2>3. CountInv'
    BY <1>0, <1>3, FirstDeadline DEF Schedule, CountInv, NowNs, StartNs
  <2> QED
    BY <2>1, <2>2, <2>3 DEF IInv
<1>4. CASE Test
  BY <1>0, <1>4 DEF Test, GoesOn, IInv, TypeOK, pingPc, DueInv, CountInv, StopInv, StopWakes, NowNs,
     StartNs, Nanos
<1>5. CASE Woken
  BY <1>0, <1>5 DEF Woken, IInv, TypeOK, pingPc, DueInv, CountInv, StopInv, StopWakes, NowNs, StartNs
<1>6. CASE TimedOut
  <2>1. pc' = "work" /\ Nanos(soTS) <= NowNs
    BY <1>0, <1>6 DEF TimedOut, Valid, Due, TypeOK, NowNs
  <2>2. TypeOK' /\ StopInv'
    BY <1>0, <1>6, <2>1 DEF TimedOut, TypeOK, pingPc, StopInv, StopWakes
  <2>3. /\ Nanos(soTS)' = Nanos(soTS) /\ NowNs' = NowNs /\ StartNs' = StartNs
        /\ (ticks * SpanNs)' = ticks * SpanNs + SpanNs
    BY <1>0, <1>6 DEF TimedOut, Nanos, NowNs, StartNs, SpanNs
  <2>4. DueInv'
    BY <1>0, <1>6, <2>1, <2>3 DEF TimedOut, DueInv
  <2>5. CountInv'
    BY <1>0, <1>6, <2>1, <2>3 DEF TimedOut, CountInv
  <2> QED
    BY <2>2, <2>4, <2>5 DEF IInv
<1>7. CASE Worked
  <2>1. /\ Nanos(soTS)' = Nanos(soTS) + SpanNs /\ NowNs' = NowNs /\ StartNs' = StartNs
        /\ (ticks * SpanNs)' = ticks * SpanNs
    BY <1>0, <1>7, AdvanceBySpan DEF Worked, Nanos, NowNs, StartNs, SpanNs
  <2>2. TypeOK' /\ StopInv'
    BY <1>0, <1>7, AdvanceBySpan DEF Worked, TypeOK, pingPc, StopInv, StopWakes
  <2>3. DueInv'
    BY <1>0, <1>7, <2>1 DEF Worked, DueInv
  <2>4. CountInv'
    BY <1>0, <1>7, <2>1 DEF Worked, CountInv
  <2> QED
    BY <2>2, <2>3, <2>4 DEF IInv
<1>8. CASE NoSocket
  BY <1>0, <1>8 DEF NoSocket, IInv, TypeOK, pingPc, DueInv, CountInv, StopInv, StopWakes, NowNs, StartNs,
     Nanos
<1>9. CASE Handler
  BY <1>0, <1>9 DEF Handler, SetStop, UnlockWait, Unlocked, IInv, TypeOK, DueInv, CountInv, StopInv,
     StopWakes, NowNs, StartNs, Nanos
<1>10. CASE Pass
  <2>1. NowNs' = NowNs + 1000 /\ StartNs' = StartNs /\ Nanos(soTS)' = Nanos(soTS)
    BY <1>0, <1>10 DEF Pass, NowNs, StartNs, Nanos, NSEC_PER_USEC
  <2> QED
    BY <1>0, <1>10, <2>1 DEF Pass, IInv, TypeOK, DueInv, CountInv, StopInv, StopWakes
<1>11. CASE SetClockBack
  <2>1. /\ now' \in Nat /\ setBack'
        /\ Nanos(soTS)' = Nanos(soTS) /\ StartNs' = StartNs /\ (ticks * SpanNs)' = ticks * SpanNs
        /\ UNCHANGED <<pc, soTS, g_mutexSMPPWait, g_iStop, handler, start, ticks, spun>>
    BY <1>0, <1>11, TimerAssumption DEF SetClockBack, Nanos, StartNs, SpanNs
  <2>2. TypeOK'
    BY <1>0, <1>11, <2>1 DEF SetClockBack, TypeOK
  <2>3. DueInv'
    BY <2>1 DEF DueInv
  <2>4. CountInv'
    BY <1>0, <2>1 DEF CountInv
  <2>5. StopInv'
    BY <1>0, <2>1 DEF StopInv, StopWakes
  <2> QED
    BY <2>2, <2>3, <2>4, <2>5 DEF IInv
<1>12. CASE UNCHANGED vars
  BY <1>0, <1>12 DEF vars, IInv, TypeOK, DueInv, CountInv, StopInv, StopWakes, NowNs, StartNs, Nanos
<1> QED
  BY <1>1, <1>2, <1>3, <1>4, <1>5, <1>6, <1>7, <1>8, <1>9, <1>10, <1>11, <1>12 DEF Next, Loop

LEMMA InvariantIInv == Spec => []IInv
BY InitIInv, IInvStep, PTL DEF Spec

-----------------------------------------------------------------------------
\* soTS always names a moment: the timed lock never returns EINVAL, which would end the
\* thread (do_smpp_ping).
THEOREM TypeCorrect == Spec => []TypeOK
BY InvariantIInv, PTL DEF IInv
\* The n-th check is due exactly n spans after the first wait was set, unless a socket
\* could not be created.
THEOREM ScheduleHolds == Spec => []NoDrift
<1>1. IInv => NoDrift
  <2> SUFFICES ASSUME IInv, pc \in {"test", "wait", "work"}, ~spun,
                      NEW n, n = IF pc = "work" THEN ticks ELSE ticks + 1
               PROVE  Nanos(soTS) = (start + n * Span * USEC_PER_SEC) * NSEC_PER_USEC
    BY DEF NoDrift
  <2>1. /\ start \in Nat /\ ticks \in Nat /\ n \in Nat
        /\ Span \in Nat /\ USEC_PER_SEC \in Nat /\ SpanNs \in Nat
    BY Units, TimerAssumption DEF IInv, TypeOK
  <2>2. (ticks + 1) * SpanNs = ticks * SpanNs + SpanNs /\ ticks * SpanNs \in Nat
    BY <2>1, Distributes, ProductNat
  <2>3. Nanos(soTS) = start * 1000 + n * SpanNs
    BY <2>1, <2>2, Units DEF IInv, CountInv, StartNs
  <2> DEFINE k == n * (Span * USEC_PER_SEC)
  <2>4. k \in Nat /\ n * SpanNs = k * 1000
    BY <2>1, Units, ProductNat
  <2>5. n * Span * USEC_PER_SEC = k
    BY <2>1
  <2> HIDE DEF k
  <2> QED
    BY <2>1, <2>3, <2>4, <2>5, Units
<1> QED
  BY <1>1, InvariantIInv, PTL

\* While it waits, its next check is no more than a span away.
THEOREM ChecksInTime == Spec => []CheckWithinSpan
<1>1. IInv => CheckWithinSpan
  <2> SUFFICES ASSUME IInv, pc \in {"test", "wait"}, ~setBack
               PROVE  Nanos(soTS) <= (now + Span * USEC_PER_SEC) * NSEC_PER_USEC
    BY DEF CheckWithinSpan
  <2>1. now \in Nat /\ Nanos(soTS) <= NowNs + SpanNs
    BY DEF IInv, TypeOK, DueInv
  <2> QED
    BY <2>1, Units, AdvanceBySpan DEF NowNs, IInv
<1> QED
  BY <1>1, InvariantIInv, PTL

\* A thread found waiting after the signal was handled is being woken.
THEOREM SignalWakes == Spec => []StopWakes
BY InvariantIInv, PTL DEF IInv, StopInv
=============================================================================
