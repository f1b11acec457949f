-------------------------- MODULE TaskTimerProofs ---------------------------
(***************************************************************************)
(* For every period, every width of the unsigned difference that holds the *)
(* clock, and any number of times the clock is set: the timer is never     *)
(* silenced, keeps its distance, and calls at most once after stop().      *)
(*                                                                         *)
(* All three rest on DueMeans: the callback is not due exactly while the   *)
(* clock is ahead of lastTm by less than a period.  How far it is ahead,   *)
(* cut off at 0 and at the period (Progress), bounds the time that really  *)
(* passed since the last callback started, but for the duration of the     *)
(* callback and one period for each time the clock was set back (Paced).   *)
(***************************************************************************)
EXTENDS TaskTimer, TLAPS

Ahead == clock - lastTm
Clamp(a) == IF a < 0 THEN 0 ELSE IF a > Period THEN Period ELSE a
Progress == Clamp(Ahead)

\* no time is counted while a callback has not returned or the thread not started
Paced ==
    /\ pc \in {"none", "call"} => quiet = 0
    /\ pc \in {"while", "test"} => quiet <= MaxRun + setBack * Period + Progress

\* as long as nobody sets it, the clock measures the time since the last callback
InStep == lastTm # 0 /\ setBack + setAhead = 0 => Ahead = quiet

\* the one callback after stop() is over, or the last
Stopped == /\ afterStop # 0 => m_timerStop /\ pc \in {"call", "while", "ended"}
           /\ afterStop <= 1

IInv == TypeOK /\ Paced /\ InStep /\ Stopped

-----------------------------------------------------------------------------
\* The remainder of a number within one modulus of zero.
LEMMA Wrap ==
    ASSUME NEW M \in Nat \ {0}, NEW d \in Int, -M <= d, d < M
    PROVE  d % M = IF d < 0 THEN d + M ELSE d
OBVIOUS

\* curTm-lastTm>=period in unsigned arithmetic: due, unless the clock is ahead by
\* less than a period; a clock behind lastTm makes it due.
LEMMA DueMeans ==
    ASSUME TypeOK
    PROVE  Due(clock, lastTm) <=> Ahead < 0 \/ Ahead >= Period
<1>1. Ahead \in Int /\ -MaxClock <= Ahead /\ Ahead <= MaxClock
  BY TimerAssumption DEF TypeOK, Ahead
<1>2. Ahead % Modulus = IF Ahead < 0 THEN Ahead + Modulus ELSE Ahead
  <2>1. Modulus \in Nat \ {0} /\ -Modulus <= Ahead /\ Ahead < Modulus
    BY <1>1, TimerAssumption
  <2> QED
    BY <1>1, <2>1, Wrap
<1> QED
  BY <1>1, <1>2, TimerAssumption DEF Due, Ahead

\* Cutting off keeps the order, and a step of one within the period.
LEMMA Clamped ==
    /\ \A a \in Int : Clamp(a) \in Int /\ 0 <= Clamp(a) /\ Clamp(a) <= Period
    /\ \A a, b \in Int : a <= b => Clamp(a) <= Clamp(b)
    /\ \A a \in 0 .. Period - 1 : Clamp(a + 1) = Clamp(a) + 1
BY TimerAssumption DEF Clamp

-----------------------------------------------------------------------------
LEMMA InitIInv == Init => IInv
<1> SUFFICES ASSUME Init PROVE IInv
  OBVIOUS
<1>1. TypeOK
  <2>1. clock \in 1 .. MaxClock /\ lastTm \in 0 .. MaxClock
    BY TimerAssumption DEF Init
  <2> QED
    BY <2>1 DEF Init, TypeOK
<1>2. InStep /\ Stopped
  BY DEF Init, InStep, Stopped
<1>3. Paced
  BY DEF Init, Paced
<1> QED
  BY <1>1, <1>2, <1>3 DEF IInv

LEMMA NextTypeOK == IInv /\ [Next]_vars => TypeOK'
<1> SUFFICES ASSUME IInv, [Next]_vars PROVE TypeOK'
  OBVIOUS
<1> USE TimerAssumption DEF IInv, TypeOK, ghosts
<1>1. CASE start \/ stop \/ While
  BY <1>1 DEF start, stop, While
<1>2. CASE Fire
  BY <1>2 DEF Fire
<1>3. CASE Return
  BY <1>3 DEF Return, Elapse
<1>4. CASE SleepOne
  BY <1>4 DEF SleepOne, Elapse
<1>5. CASE SetClock
  BY <1>5 DEF SetClock
<1>6. CASE UNCHANGED vars
  BY <1>6 DEF vars
<1> QED
  BY <1>1, <1>2, <1>3, <1>4, <1>5, <1>6 DEF Next

LEMMA NextStopped == IInv /\ [Next]_vars => Stopped'
BY DEF IInv, TypeOK, Stopped, Next, vars, ghosts, start, stop, While, Fire, Return, SleepOne, SetClock

LEMMA NextInStep == IInv /\ [Next]_vars => InStep'
BY TimerAssumption
   DEF IInv, TypeOK, InStep, Ahead, Next, vars, ghosts, start, stop, While, Fire, Return, SleepOne,
       SetClock, Elapse

LEMMA NextPaced == IInv /\ [Next]_vars => Paced'
<1> SUFFICES ASSUME IInv, [Next]_vars PROVE Paced'
  OBVIOUS
<1>0. /\ MaxRun \in Nat /\ quiet \in Nat /\ setBack * Period \in Nat
      /\ Ahead \in Int /\ Progress \in Int /\ 0 <= Progress /\ Progress <= Period
  BY TimerAssumption, Clamped DEF IInv, TypeOK, Progress, Ahead
<1>1. Ahead' \in Int /\ Progress' \in Int /\ 0 <= Progress' /\ Progress' <= Period
  BY NextTypeOK, TimerAssumption, Clamped DEF TypeOK, Progress, Ahead
<1>2. CASE start \/ stop \/ While
  <2>1. Progress' = Progress /\ UNCHANGED <<quiet, setBack>>
    BY <1>2 DEF start, stop, While, ghosts, Progress, Ahead
  <2>2. (setBack * Period)' = setBack * Period
    BY <2>1
  <2> QED
    BY <1>0, <1>2, <2>1, <2>2 DEF start, stop, While, IInv, Paced
<1>3. CASE Fire
  BY <1>3 DEF Fire, Paced
<1>4. CASE Return
  <2>1. pc' = "while" /\ quiet' <= MaxRun /\ quiet' \in Nat /\ setBack' = setBack
    BY <1>0, <1>4 DEF Return, Elapse, IInv, Paced
  <2>2. (setBack * Period)' = setBack * Period
    BY <2>1
  <2> QED
    BY <1>0, <1>1, <2>1, <2>2 DEF Paced
<1>5. CASE SleepOne
  <2>1. Ahead \in 0 .. Period - 1 /\ Ahead' = Ahead + 1
    BY <1>0, <1>5, DueMeans, TimerAssumption DEF SleepOne, Elapse, Ahead, IInv, TypeOK
  <2>2. Progress' = Progress + 1
    BY <2>1, Clamped DEF Progress
  <2>3. pc = "test" /\ pc' = "while" /\ quiet' = quiet + 1 /\ setBack' = setBack
    BY <1>5 DEF SleepOne, Elapse
  <2>4. (setBack * Period)' = setBack * Period
    BY <2>3
  <2> QED
    BY <1>0, <2>2, <2>3, <2>4 DEF IInv, Paced
<1>6. CASE SetClock
  <2>1. UNCHANGED <<lastTm, pc, quiet>>
    BY <1>6 DEF SetClock
  <2>2. CASE clock' < clock
    <3>1. setBack' = setBack + 1
      BY <1>6, <2>2 DEF SetClock
    <3>2. (setBack * Period)' = setBack * Period + Period
      BY <3>1, TimerAssumption DEF IInv, TypeOK
    <3> QED
      BY <1>0, <1>1, <2>1, <3>2, TimerAssumption DEF IInv, Paced
  <2>3. CASE ~(clock' < clock)
    <3>1. setBack' = setBack
      BY <1>6, <2>3 DEF SetClock
    <3>2. (setBack * Period)' = setBack * Period
      BY <3>1
    <3>3. clock \in Int /\ clock' \in Int /\ lastTm \in Int /\ lastTm' = lastTm
      BY <1>6, TimerAssumption DEF SetClock, IInv, TypeOK
    <3>4. Ahead <= Ahead'
      <4>1. clock <= clock'
        BY <2>3, <3>3
      <4>2. Ahead = clock - lastTm /\ Ahead' = clock' - lastTm
        BY <3>3 DEF Ahead
      <4>3. \A a, b, c \in Int : a <= b => a - c <= b - c
        OBVIOUS
      <4> QED
        BY <3>3, <4>1, <4>2, <4>3
    <3>5. Progress <= Progress'
      BY <1>0, <1>1, <3>4, Clamped DEF Progress
    <3> QED
      BY <1>0, <1>1, <2>1, <3>2, <3>5 DEF IInv, Paced
  <2> QED
    BY <2>2, <2>3
<1>7. CASE UNCHANGED vars
  <2>1. Progress' = Progress /\ UNCHANGED <<pc, quiet, setBack>>
    BY <1>7 DEF vars, Progress, Ahead
  <2>2. (setBack * Period)' = setBack * Period
    BY <2>1
  <2> QED
    BY <2>1, <2>2 DEF IInv, Paced
<1> QED
  BY <1>2, <1>3, <1>4, <1>5, <1>6, <1>7 DEF Next

-----------------------------------------------------------------------------
\* The inductive invariant holds in every state of the timer.
THEOREM Invariance == Spec => []IInv
<1>1. IInv /\ [Next]_vars => IInv'
  BY NextTypeOK, NextPaced, NextInStep, NextStopped DEF IInv
<1> QED
  BY InitIInv, <1>1, PTL DEF Spec

\* stop() only sets a flag: at most the callback that timer had already decided
\* on is still made.
THEOREM StopsAfterOne == Spec => []Sound
<1>1. IInv => Sound
  BY DEF IInv, Stopped, Sound, OneCallAfterStop
<1> QED
  BY Invariance, <1>1, PTL

\* However often and however far the clock is set back, the callback comes: each
\* time delays it by less than one more period.
THEOREM KeepsCalling == Spec => []NeverSilenced
<1>1. IInv => NeverSilenced
  <2> SUFFICES ASSUME IInv, pc = "test" PROVE quiet <= MaxRun + (setBack + 1) * Period
    BY DEF NeverSilenced
  <2>1. quiet <= MaxRun + setBack * Period + Progress
    BY DEF IInv, Paced
  <2>2. Progress <= Period /\ Progress \in Int
    BY TimerAssumption, Clamped DEF IInv, TypeOK, Progress, Ahead
  <2>3. (setBack + 1) * Period = setBack * Period + Period /\ setBack * Period \in Int
    BY TimerAssumption DEF IInv, TypeOK
  <2> QED
    BY <2>1, <2>2, <2>3, TimerAssumption DEF IInv, TypeOK
<1> QED
  BY Invariance, <1>1, PTL

\* Two callbacks start at least a period apart, unless the clock was set.
THEOREM KeepsDistance == Spec => SpacedOut
<1>1. IInv /\ [Next]_vars =>
          [pc' = "call" /\ pc # "call" /\ lastTm # 0 /\ setBack + setAhead = 0 => quiet >= Period]_vars
  <2> SUFFICES ASSUME IInv, [Next]_vars,
                      pc' = "call", pc # "call", lastTm # 0, setBack + setAhead = 0
               PROVE  quiet >= Period
    OBVIOUS
  <2>1. Fire
    BY DEF Next, vars, ghosts, start, stop, While, Return, SleepOne, SetClock
  <2>2. Ahead = quiet /\ quiet \in Nat
    BY DEF IInv, TypeOK, InStep
  <2> QED
    BY <2>1, <2>2, DueMeans DEF IInv, Fire
<1> QED
  BY Invariance, <1>1, PTL DEF Spec, SpacedOut
=============================================================================
