----------------------------- MODULE PingTimer -----------------------------
(***************************************************************************)
(* The timer of the ping thread: do_smpp_ping sleeps with                  *)
(* pthread_mutex_timedlock on g_mutexSMPPWait until the moment in soTS,    *)
(* which sms112_make_timespec_timeout sets once and the loop moves on by   *)
(* m_uiSMPPEnqLinkSpan, and the signal handler unlocks the mutex to end    *)
(* the wait for good.  What the thread does once it is awake is SmppLink's *)
(* subject; here it takes any time and either ends or finds no socket.     *)
(*                                                                         *)
(* The clock is the wall clock, which gettimeofday and the timed lock both *)
(* use: it can be set back, and set forward it looks like time that has    *)
(* passed.                                                                 *)
(***************************************************************************)
EXTENDS Integers

CONSTANTS
  USEC_PER_SEC,  \* microseconds in a second: 1000000, fewer for TLC
  Span,          \* m_uiSMPPEnqLinkSpan, in seconds
  MaxTime,       \* bound: the last microsecond
  MaxTicks       \* bound: how often the thread wakes up

ASSUME TimerAssumption ==
  /\ USEC_PER_SEC \in Nat \ {0}
  /\ Span \in Nat
  /\ MaxTime \in Nat /\ MaxTicks \in Nat

NSEC_PER_USEC == 1000
NSEC_PER_SEC == USEC_PER_SEC * NSEC_PER_USEC

VARIABLES
  now,              \* the wall clock, in microseconds
  pc,               \* where do_smpp_ping is
  soTS,             \* its local variable: the moment to wake up
  g_mutexSMPPWait,  \* static, so unlocked before it is initialised
  g_iStop,
  handler,          \* where the signal handler is
  \* history variables, no part of the program
  start,            \* when the first wait was set
  ticks,            \* how often the timed lock has timed out
  spun,             \* an iteration has ended in continue
  setBack           \* the clock was set back

vars == <<now, pc, soTS, g_mutexSMPPWait, g_iStop, handler, start, ticks, spun, setBack>>

\* In the order of the code.
pingPc == {"init", "lock", "schedule", "test", "wait", "work", "ended"}

TypeOK ==
  /\ now \in Nat
  /\ pc \in pingPc
  /\ soTS \in [tv_sec : Nat, tv_nsec : 0 .. NSEC_PER_SEC - 1]
  /\ g_mutexSMPPWait \in {"free", "locked"}
  /\ g_iStop \in {0, 1}
  /\ handler \in {"none", "stopped", "done"}
  /\ start \in Nat /\ ticks \in Nat
  /\ spun \in BOOLEAN /\ setBack \in BOOLEAN

-----------------------------------------------------------------------------
\* The small pieces.

\* gettimeofday
TvSec == now \div USEC_PER_SEC
TvUSec == now % USEC_PER_SEC

\* sms112_make_timespec_timeout at tv_sec, tv_usec
TimeoutWrongUnit(sec, usec, p_uiSec, p_uiAddUSec) ==
  [tv_sec |-> sec + p_uiSec, tv_nsec |-> (usec + p_uiAddUSec) * NSEC_PER_SEC]
Timeout(sec, usec, p_uiSec, p_uiAddUSec) ==
  IF usec + p_uiAddUSec < USEC_PER_SEC
  THEN [tv_sec |-> sec + p_uiSec, tv_nsec |-> (usec + p_uiAddUSec) * NSEC_PER_USEC]
  ELSE [tv_sec |-> sec + p_uiSec + 1,
        tv_nsec |-> (usec - USEC_PER_SEC + p_uiAddUSec) * NSEC_PER_USEC]

\* A moment in nanoseconds.
Nanos(ts) == ts.tv_sec * NSEC_PER_SEC + ts.tv_nsec

\* When the timed lock gives up; a tv_nsec out of range is EINVAL.
DueNow(ts) == TRUE
Due(ts) == Nanos(ts) <= now * NSEC_PER_USEC
Valid(ts) == ts.tv_nsec \in 0 .. NSEC_PER_SEC - 1

\* soTS.tv_sec += m_uiSMPPEnqLinkSpan
AdvancedFromNow(ts) == Timeout(TvSec, TvUSec, Span, 0)
Advanced(ts) == [ts EXCEPT !.tv_sec = @ + Span]

\* while ( 0 == g_iStop )
GoesOnAnyway == TRUE
GoesOn == g_iStop = 0

\* pthread_mutex_unlock( &g_mutexSMPPWait )
LeftLocked(m) == m
Unlocked(m) == "free"

-----------------------------------------------------------------------------
\* do_smpp_ping

\* pthread_mutex_init; if it fails the thread ends.
InitMutex ==
  /\ pc = "init"
  /\ pc' \in {"lock", "ended"}
  /\ g_mutexSMPPWait' = "free"
  /\ UNCHANGED <<now, soTS, g_iStop, handler, start, ticks, spun, setBack>>

LockMutex ==
  /\ pc = "lock" /\ g_mutexSMPPWait = "free"
  /\ g_mutexSMPPWait' = "locked"
  /\ pc' = "schedule"
  /\ UNCHANGED <<now, soTS, g_iStop, handler, start, ticks, spun, setBack>>

Schedule ==
  /\ pc = "schedule"
  /\ soTS' = Timeout(TvSec, TvUSec, Span, 0)
  /\ start' = now
  /\ pc' = "test"
  /\ UNCHANGED <<now, g_mutexSMPPWait, g_iStop, handler, ticks, spun, setBack>>

Test ==
  /\ pc = "test"
  /\ pc' = IF GoesOn THEN "wait" ELSE "ended"
  /\ UNCHANGED <<now, soTS, g_mutexSMPPWait, g_iStop, handler, start, ticks, spun, setBack>>

\* The timed lock obtains the mutex, whatever the time is: break.
Woken ==
  /\ pc = "wait" /\ g_mutexSMPPWait = "free"
  /\ g_mutexSMPPWait' = "locked"
  /\ pc' = "ended"
  /\ UNCHANGED <<now, soTS, g_iStop, handler, start, ticks, spun, setBack>>

\* ETIMEDOUT; EINVAL would end the loop.
TimedOut ==
  /\ pc = "wait" /\ g_mutexSMPPWait = "locked"
  /\ Due(soTS) \/ ~Valid(soTS)
  /\ pc' = IF Valid(soTS) THEN "work" ELSE "ended"
  /\ ticks < MaxTicks /\ ticks' = ticks + 1
  /\ UNCHANGED <<now, soTS, g_mutexSMPPWait, g_iStop, handler, start, spun, setBack>>

\* The connection was checked, or replaced, or a session opened on it.
Worked ==
  /\ pc = "work"
  /\ soTS' = Advanced(soTS)
  /\ pc' = "test"
  /\ UNCHANGED <<now, g_mutexSMPPWait, g_iStop, handler, start, ticks, spun, setBack>>

\* sms112_tcp_connect has failed: continue, past the statement that advances soTS.
NoSocket ==
  /\ pc = "work"
  /\ spun' = TRUE
  /\ pc' = "test"
  /\ UNCHANGED <<now, soTS, g_mutexSMPPWait, g_iStop, handler, start, ticks, setBack>>

-----------------------------------------------------------------------------
\* The signal handler: stop_smpp_receiver_thread, in any thread.

SetStop ==
  /\ handler = "none"
  /\ g_iStop' = 1
  /\ handler' = "stopped"
  /\ UNCHANGED <<now, pc, soTS, g_mutexSMPPWait, start, ticks, spun, setBack>>

UnlockWait ==
  /\ handler = "stopped"
  /\ g_mutexSMPPWait' = Unlocked(g_mutexSMPPWait)
  /\ handler' = "done"
  /\ UNCHANGED <<now, pc, soTS, g_iStop, start, ticks, spun, setBack>>

\* The clock
Pass ==
  /\ now < MaxTime
  /\ now' = now + 1
  /\ UNCHANGED <<pc, soTS, g_mutexSMPPWait, g_iStop, handler, start, ticks, spun, setBack>>

\* Once is enough: the properties do not look at the time after that.
SetClockBack ==
  /\ ~setBack /\ setBack' = TRUE
  /\ now' \in {t \in 0 .. MaxTime : t < now}
  /\ UNCHANGED <<pc, soTS, g_mutexSMPPWait, g_iStop, handler, start, ticks, spun>>

-----------------------------------------------------------------------------
Init ==
  /\ now = 0
  /\ pc = "init"
  /\ soTS = [tv_sec |-> 0, tv_nsec |-> 0]
  /\ g_mutexSMPPWait = "free"
  /\ g_iStop = 0
  /\ handler = "none"
  /\ start = 0 /\ ticks = 0
  /\ spun = FALSE /\ setBack = FALSE

\* The loop, without the timer.
Loop == InitMutex \/ LockMutex \/ Schedule \/ Test \/ Woken \/ Worked \/ NoSocket

Handler == SetStop \/ UnlockWait

Next == Loop \/ TimedOut \/ Handler \/ Pass \/ SetClockBack

Spec == Init /\ [][Next]_vars

\* The thread runs and a handler that has begun finishes; time owes nothing, nor does
\* a signal have to come.
FairSpec == Spec /\ WF_vars(Loop) /\ WF_vars(UnlockWait)

-----------------------------------------------------------------------------
\* Properties.

\* The n-th check is due exactly n spans after the first wait was set, however long the
\* work took and whatever became of the clock, unless a socket could not be created: the
\* schedule does not drift.  That is all that paces the checks: after long work several
\* are due at once and follow each other without a wait (do_smpp_ping).
NoDrift ==
  pc \in {"test", "wait", "work"} /\ ~spun =>
    LET n == IF pc = "work" THEN ticks ELSE ticks + 1
    IN  Nanos(soTS) = (start + n * Span * USEC_PER_SEC) * NSEC_PER_USEC

\* While the thread waits its next check is no more than a span away, whatever it did
\* before and for how long, unless the clock was set back (do_smpp_ping).
CheckWithinSpan ==
  pc \in {"test", "wait"} /\ ~setBack =>
    Nanos(soTS) <= (now + Span * USEC_PER_SEC) * NSEC_PER_USEC

\* Wherever the signal came, before the mutex was locked, between the test and the wait
\* or in the work, a thread found waiting after it is being woken (do_smpp_ping and
\* stop_smpp_receiver_thread).
StopWakes == handler = "done" /\ pc = "wait" => g_mutexSMPPWait = "free"

\* And it ends, without help of the timer.
StopEndsPing == g_iStop = 1 ~> pc = "ended"
=============================================================================
