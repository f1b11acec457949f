----------------------------- MODULE TaskTimer -----------------------------
(***************************************************************************)
(* TaskTimer.cpp: the thread behind a periodic callback.  It compares the  *)
(* wall clock with the time of the last callback in unsigned arithmetic,   *)
(* calls back when Period units have passed and sleeps one unit otherwise. *)
(* The wall clock is not monotonic: it can be set, back as well as         *)
(* forward.  One unit is the second that usleep sleeps; a callback takes   *)
(* any number of units up to MaxRun.                                       *)
(***************************************************************************)
EXTENDS Integers

CONSTANTS Period,     \* m_timeSecond
          Modulus,    \* 2^64 in the code: unsigned differences wrap around
          MaxClock,   \* bound on the clock
          MaxRun,     \* bound on the duration of a callback
          MaxSets     \* bound on how often the clock is set between two callbacks

ASSUME TimerAssumption ==
    /\ Period \in Nat \ {0} /\ MaxRun \in Nat /\ MaxSets \in Nat
    /\ MaxClock \in Nat /\ Period <= MaxClock
    /\ Modulus \in Nat /\ MaxClock + Period <= Modulus

VARIABLES
    clock,        \* gettimeofday
    lastTm,       \* local variable of timer
    m_timerStop,
    pc,           \* "none" (not started), "while", "test", "call", "ended"
    quiet,        \* ghost: units that really passed since the last callback started
    setBack,      \* ghost: how often the clock was set back since then
    setAhead,     \* ghost: how often it was set forward since then
    afterStop     \* ghost: callbacks started after stop()

vars == <<clock, lastTm, m_timerStop, pc, quiet, setBack, setAhead, afterStop>>
ghosts == <<quiet, setBack, setAhead, afterStop>>

\* The clock counts from 1970: its difference to lastTm = 0 exceeds any period.
Init ==
    /\ clock \in Period .. MaxClock
    /\ lastTm = 0 /\ m_timerStop = FALSE /\ pc = "none"
    /\ quiet = 0 /\ setBack = 0 /\ setAhead = 0 /\ afterStop = 0

\* createThread may fail, which is only logged
start ==
    /\ pc = "none" /\ pc' \in {"while", "ended"}
    /\ UNCHANGED <<clock, lastTm, m_timerStop, ghosts>>

stop ==
    /\ ~m_timerStop /\ m_timerStop' = TRUE
    /\ UNCHANGED <<clock, lastTm, pc, ghosts>>

-----------------------------------------------------------------------------
(* timer *)

Elapse(d) == clock + d <= MaxClock /\ clock' = clock + d /\ quiet' = quiet + d

WhileIgnoringStop == pc = "while" /\ pc' = "test" /\ UNCHANGED <<clock, lastTm, m_timerStop, ghosts>>  \* mutant

While ==
    /\ pc = "while"
    /\ pc' = IF m_timerStop THEN "ended" ELSE "test"
    /\ UNCHANGED <<clock, lastTm, m_timerStop, ghosts>>

DueSigned(now, last) == now - last >= Period               \* mutant: signed difference
DueEarly(now, last) == (now - last) % Modulus >= Period - 1  \* mutant: off by one

Due(now, last) == (now - last) % Modulus >= Period

\* lastTm=curTm, and the callback starts
Fire ==
    /\ pc = "test" /\ Due(clock, lastTm)
    /\ lastTm' = clock /\ pc' = "call"
    /\ quiet' = 0 /\ setBack' = 0 /\ setAhead' = 0
    /\ afterStop' = IF m_timerStop THEN afterStop + 1 ELSE afterStop
    /\ UNCHANGED <<clock, m_timerStop>>

Return ==
    /\ pc = "call" /\ pc' = "while"
    /\ \E d \in 0 .. MaxRun : Elapse(d)
    /\ UNCHANGED <<lastTm, m_timerStop, setBack, setAhead, afterStop>>

SleepOne ==
    /\ pc = "test" /\ ~Due(clock, lastTm)
    /\ pc' = "while" /\ Elapse(1)
    /\ UNCHANGED <<lastTm, m_timerStop, setBack, setAhead, afterStop>>

\* the administrator or a time service sets the clock
SetClock ==
    /\ setBack + setAhead < MaxSets
    /\ clock' \in 1 .. MaxClock \ {clock}
    /\ setBack' = IF clock' < clock THEN setBack + 1 ELSE setBack
    /\ setAhead' = IF clock' > clock THEN setAhead + 1 ELSE setAhead
    /\ UNCHANGED <<lastTm, m_timerStop, pc, quiet, afterStop>>

Next == start \/ stop \/ While \/ Fire \/ Return \/ SleepOne \/ SetClock

Spec == Init /\ [][Next]_vars

-----------------------------------------------------------------------------
(* Properties *)

TypeOK ==
    /\ clock \in 1 .. MaxClock /\ lastTm \in 0 .. MaxClock
    /\ m_timerStop \in BOOLEAN /\ pc \in {"none", "while", "test", "call", "ended"}
    /\ quiet \in Nat /\ setBack \in Nat /\ setAhead \in Nat /\ afterStop \in Nat

\* Two callbacks start at least Period apart in real time, unless the clock was
\* set in between; the first one starts at once.
SpacedOut ==
    [][pc' = "call" /\ pc # "call" /\ lastTm # 0 /\ setBack + setAhead = 0
          => quiet >= Period]_vars

\* Setting the clock back never silences the timer: the unsigned difference
\* either wraps, and the callback is due at once, or it delays the callback by
\* less than one more period.  (A signed difference would wait for the clock
\* to catch up, however long that takes.)
NeverSilenced == pc = "test" => quiet <= MaxRun + (setBack + 1) * Period

\* stop() only sets a flag: a callback that timer had decided on before may
\* still start, one and no more.
OneCallAfterStop == afterStop <= 1

\* The timer's state is well formed, and stop() ends the callbacks of timer as
\* far as a flag read at the top of the loop can.
Sound == TypeOK /\ OneCallAfterStop
=============================================================================
