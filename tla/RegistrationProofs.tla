------------------------- MODULE RegistrationProofs -------------------------
(***************************************************************************)
(* For all timer values: the handlers of the client transaction keep each  *)
(* other's assumptions (Sound), a running transaction is always driven on  *)
(* (AlwaysDriven), what it reports is what SipSupService did with this     *)
(* REGISTER (AnswerIsForThis), and it sends no more copies than RFC 3261   *)
(* allows (SendsBounded).                                                  *)
(*                                                                         *)
(* None of these is inductive.  What a handler may rely on depends on the  *)
(* send that is under way: Sending ties pending, attached, transport and   *)
(* the flags together, Timing says which timers can run, Silent that an    *)
(* answer cannot come before the first send is finished (which is what     *)
(* keeps send_msg_callback from rescheduling an answered request), Posted  *)
(* where a transport error can find the transaction, Source where each     *)
(* code came from, Schedule that every repetition was counted at a time    *)
(* RFC 3261 allows it, measured from the first send by an amount of time   *)
(* that no variable holds.  Counted names a holder for every reference to  *)
(* the group lock: the transaction until it is destroyed, each timer that  *)
(* runs, the send under way, and the callback of a posted error.  A        *)
(* handler keeps the references that are not its own (Held), so that none  *)
(* touches freed memory and the last holder frees it.                      *)
(***************************************************************************)
EXTENDS Registration, TLAPS, WellFoundedInduction, FiniteSetTheorems

-----------------------------------------------------------------------------
(* The invariant *)

Flags == {"transport", "resched", "send", "resolved"}
StateNames == {"none", "NULL", "CALLING", "PROCEEDING", "COMPLETED", "TERMINATED", "DESTROYED"}
Timer == [id : {"inactive", "TIMEOUT", "TRANSPORT_ERR"}, left : 0 .. TimerF]
Tsx == [state : StateNames, code : Nat, flags : SUBSET Flags, transport : BOOLEAN,
        timeout : Timer, retransmit : 0 .. T2 \cup {None}, count : Nat,
        pending : {"none", "first", "again"}, attached : BOOLEAN, armed : BOOLEAN, refs : Int,
        sent : Nat, told : Nat, calls : Nat, lost : BOOLEAN, asserts : BOOLEAN]

\* Everything has its type, and a timer that is not active is NoTimer.
Typed ==
    /\ tsx \in Tsx
    /\ tsx.timeout.id = "inactive" <=> tsx.timeout = NoTimer
    /\ reliable \in BOOLEAN /\ errev \in BOOLEAN /\ sender \in {"nobody", "timer", "event"}
    /\ regc \in {"none", "sent", "active", "idle"} /\ registered \in BOOLEAN
    /\ result \in {"none", "accepted", "rejected"} /\ branch \in Branches
    /\ requests \subseteq Branches
    /\ responses \subseteq [branch : Branches, code : {100, 200, SIP_FORBIDDEN}]
    /\ threads \subseteq [branch : Branches, pc : {"lookup", "answer"}]
    /\ listed \in BOOLEAN /\ expires \in BOOLEAN /\ recorded \in BOOLEAN

\* The transaction has sent or is sending, and has not ended.
Live == tsx.state \in {"CALLING", "PROCEEDING", "COMPLETED"} \/ sender # "nobody"

\* The send that is under way, and what is known of the transport.
Sending ==
    /\ Live => /\ tsx.pending # "none" <=> "transport" \in tsx.flags
               /\ tsx.pending = "first" <=> tsx.attached
               /\ tsx.pending # "first" <=> tsx.transport
               /\ tsx.pending # "first" <=> "resolved" \in tsx.flags
    /\ tsx.state \in {"TERMINATED", "DESTROYED"} => "transport" \notin tsx.flags /\ ~tsx.attached
    /\ tsx.state \in {"none", "DESTROYED"} => ~tsx.transport
    /\ sender # "nobody" => tsx.state = "NULL"
    /\ tsx.state = "NULL" /\ sender = "nobody" =>
           ~tsx.transport /\ tsx.pending = "none" /\ tsx.timeout = NoTimer
    /\ tsx.state = "none" => tsx.pending = "none" /\ tsx.timeout = NoTimer

\* The timers that run in a state.
Timing ==
    /\ tsx.state \in {"none", "NULL", "COMPLETED", "DESTROYED"} \/ reliable => tsx.retransmit = None
    /\ tsx.state \in {"none", "NULL", "DESTROYED"} => tsx.timeout.id # "TIMEOUT"
    /\ "resched" \in tsx.flags /\ tsx.state \in {"CALLING", "PROCEEDING"} => tsx.retransmit = None
    /\ tsx.pending = "first" /\ Live => tsx.retransmit = None /\ "send" \notin tsx.flags
    /\ tsx.state = "NULL" => "resched" \notin tsx.flags /\ "send" \notin tsx.flags

\* Before the first send is finished nobody has heard of this REGISTER.
Silent ==
    tsx.pending = "first" =>
        /\ branch \notin requests
        /\ \A th \in threads : th.branch # branch
        /\ \A r \in responses : r.branch # branch
        /\ tsx.state \in {"NULL", "CALLING", "TERMINATED", "DESTROYED"}

\* The code, and whether the callback has been called, in a state.
Codes ==
    /\ tsx.state \in {"none", "NULL", "CALLING", "DESTROYED"} => tsx.code = 0
    /\ tsx.state = "PROCEEDING" => tsx.code = 100
    /\ tsx.state \in {"COMPLETED", "TERMINATED"} => tsx.code >= 200
    /\ tsx.state = "COMPLETED" => tsx.code \in {200, SIP_FORBIDDEN}
    /\ tsx.state \in {"NULL", "CALLING", "PROCEEDING"} => tsx.armed
    /\ tsx.state \in {"none", "COMPLETED", "TERMINATED", "DESTROYED"} => ~tsx.armed
    /\ tsx.state \in {"COMPLETED", "TERMINATED", "DESTROYED"} => tsx.calls = 1
    /\ tsx.state \in {"none", "NULL", "CALLING", "PROCEEDING"} => tsx.calls = 0 /\ tsx.told = 0

\* A transport error the event thread has seen finds the transaction before its end.
Posted ==
    /\ errev => sender # "event" /\ Live /\ ~tsx.lost
    /\ tsx.lost => tsx.state \in {"TERMINATED", "DESTROYED"}

\* Where a 200 and a SIP_FORBIDDEN come from.
Source ==
    /\ tsx.code = 200 => recorded
    /\ tsx.code = SIP_FORBIDDEN => ~listed
    /\ \A r \in responses : /\ r.code = 200 /\ r.branch = branch => recorded
                            /\ r.code = SIP_FORBIDDEN => ~listed
    /\ \A th \in threads : th.pc = "answer" /\ th.branch = branch /\ listed => recorded

\* Who holds a reference: the transaction itself, its timers, the send that is under way.
One(b) == IF b THEN 1 ELSE 0
Owned(x) == x.state \notin {"none", "DESTROYED"}
Holders(x) == One(Owned(x)) + One(x.timeout # NoTimer) + One(x.retransmit # None) + One(x.pending # "none")

\* Every reference has its holder; one more is held by the callback of a posted error.
Counted == tsx.refs = Holders(tsx) + One(errev)

\* What the caller was told of its request.
Returned ==
    /\ sender # "nobody" => result = "none"
    /\ tsx.state = "none" => result \in {"none", "rejected"}
    /\ tsx.state = "NULL" /\ sender = "nobody" => result = "rejected"
    /\ tsx.state \in {"CALLING", "PROCEEDING", "COMPLETED"} => result = "accepted"
    /\ tsx.state \in {"TERMINATED", "DESTROYED"} => result \in {"accepted", "rejected"}

\* The copies on the wire and the one on its way there.
Copies(x) == x.sent + (IF x.pending = "none" THEN 0 ELSE 1)

\* The first send is made, and no final answer is there.
Waiting(x) == x.state \in {"CALLING", "PROCEEDING"}

\* e has passed since the first send: timer F does not run longer than it should, a
\* repetition was counted only when RFC 3261 allows it, and the next one is not due before.
Since(x, e) ==
    /\ e + x.timeout.left <= TimerF
    /\ \A n \in 0 .. x.count : n <= e /\ SendTime[n] <= e
    /\ x.retransmit # None =>
           /\ x.count + 1 <= e + x.retransmit
           /\ x.count + 1 <= TimerF => SendTime[x.count + 1] <= e + x.retransmit

\* Every copy but the first was counted, and counted in time.
Schedule ==
    /\ Copies(tsx) <= tsx.count + 1
    /\ reliable \/ tsx.state = "NULL" => tsx.count = 0
    /\ \A n \in 0 .. tsx.count : n <= TimerF /\ SendTime[n] <= TimerF
    /\ Waiting(tsx) => \E e \in 0 .. TimerF : Since(tsx, e)

IInv == /\ Typed /\ Sending /\ Timing /\ Silent /\ Codes /\ Posted /\ Source /\ Returned
        /\ Schedule /\ Counted /\ AssertionsHold /\ AnswerIsForThis /\ AlwaysDriven

-----------------------------------------------------------------------------
(* The times of RFC 3261 *)

\* The first interval is T1, none is longer than T2.
LEMMA Intervals == (\A n : Interval(n) \in 0 .. T2) /\ Interval(0) = T1
BY TimersAssumption DEF Interval

\* The code waits at least as long as RFC 3261 says, and at least 1.
LEMMA Delays ==
    ASSUME NEW x
    PROVE  /\ Delay(x) \in 1 .. T2 /\ Delay(x) \in 0 .. T2 \cup {None}
           /\ Interval(x.count) <= Delay(x)
<1> DEFINE n == 2 ^ x.count * T1
<1>1. Delay(x) = IF x.code >= 100 \/ n \notin T1 .. T2 THEN T2 ELSE n
  BY DEF Delay
<1>2. Interval(x.count) = IF n \in 0 .. T2 THEN n ELSE T2
  BY DEF Interval
<1> HIDE DEF n
<1> QED
  BY <1>1, <1>2, TimersAssumption

\* A set of numbers that is not empty has one whose predecessor is not in it.
LEMMA Least ==
    ASSUME NEW S \in SUBSET Nat, S # {}
    PROVE  \E n \in S : n = 0 \/ (n - 1 \in Nat /\ n - 1 \notin S)
<1>1. PICK n \in S : ~\E m \in S : <<m, n>> \in OpToRel(<, Nat)
  BY NatLessThanWellFounded, WFMin
<1>2. n \in Nat
  OBVIOUS
<1>3. \A m \in Nat : m \in S => ~(m < n)
  BY <1>1, <1>2 DEF OpToRel
<1>4. CASE n = 0
  BY <1>4
<1>5. CASE n # 0
  <2>1. n - 1 \in Nat /\ n - 1 < n
    BY <1>2, <1>5
  <2> QED
    BY <1>3, <2>1
<1> QED
  BY <1>4, <1>5

\* f is SendTime up to k.
Unfolds(f, k) == f = [n \in 0 .. k |-> IF n = 0 THEN 0 ELSE f[n - 1] + Interval(n - 1)]

\* SendTime is what its definition says: the recursion defines a function, with times as values.
LEMMA SendTimes ==
    /\ SendTime[0] = 0
    /\ \A n \in 0 .. TimerF : SendTime[n] \in Nat
    /\ \A n \in 1 .. TimerF : SendTime[n] = SendTime[n - 1] + Interval(n - 1)
<1>1. \E f : Unfolds(f, TimerF)
  <2> DEFINE S == {k \in Nat : ~\E f : Unfolds(f, k)}
  <2>1. ASSUME S # {} PROVE FALSE
    <3>1. PICK k \in S : k = 0 \/ (k - 1 \in Nat /\ k - 1 \notin S)
      BY <2>1, Least
    <3>2. k # 0
      <4> DEFINE g == [n \in 0 .. 0 |-> 0]
      <4>1. Unfolds(g, 0)
        BY DEF Unfolds
      <4> QED
        BY <4>1
    <3>3. PICK f : Unfolds(f, k - 1)
      BY <3>1, <3>2
    <3> DEFINE g == [n \in 0 .. k |-> IF n = k THEN f[k - 1] + Interval(k - 1) ELSE f[n]]
    <3>4. k \in Nat /\ k > 0
      BY <3>2
    <3>5. ASSUME NEW n \in 0 .. k PROVE g[n] = IF n = 0 THEN 0 ELSE g[n - 1] + Interval(n - 1)
      <4>1. CASE n = 0
        <5>1. f[0] = 0
          BY <3>3, <3>4 DEF Unfolds
        <5> QED
          BY <3>4, <4>1, <5>1
      <4>2. CASE n # 0 /\ n # k
        <5>1. n \in 0 .. k - 1 /\ n - 1 \in 0 .. k /\ n - 1 # k
          BY <3>4, <4>2
        <5>2. f[n] = f[n - 1] + Interval(n - 1)
          BY <3>3, <4>2, <5>1 DEF Unfolds
        <5>3. g[n] = f[n] /\ g[n - 1] = f[n - 1]
          BY <4>2, <5>1
        <5> QED
          BY <4>2, <5>2, <5>3
      <4>3. CASE n = k
        <5>1. k - 1 \in 0 .. k /\ k - 1 # k /\ k \in 0 .. k
          BY <3>4
        <5>2. g[k] = f[k - 1] + Interval(k - 1) /\ g[k - 1] = f[k - 1]
          BY <5>1
        <5> QED
          BY <3>4, <4>3, <5>2
      <4> QED
        BY <4>1, <4>2, <4>3
    <3>6. Unfolds(g, k)
      <4> DEFINE h == [n \in 0 .. k |-> IF n = 0 THEN 0 ELSE g[n - 1] + Interval(n - 1)]
      <4>1. \A n \in 0 .. k : g[n] = h[n]
        BY <3>5
      <4>2. g = h
        BY <4>1
      <4> QED
        BY <4>2 DEF Unfolds
    <3> QED
      BY <3>6
  <2> QED
    BY <2>1, TimersAssumption
<1>2. Unfolds(SendTime, TimerF)
  <2>1. SendTime = CHOOSE f : Unfolds(f, TimerF)
    BY DEF SendTime, Unfolds
  <2> QED
    BY <1>1, <2>1
<1>3. /\ SendTime[0] = 0
      /\ \A n \in 1 .. TimerF : SendTime[n] = SendTime[n - 1] + Interval(n - 1)
  BY <1>2, TimersAssumption DEF Unfolds
<1>4. \A n \in 0 .. TimerF : SendTime[n] \in Nat
  <2> DEFINE S == {n \in 0 .. TimerF : SendTime[n] \notin Nat}
  <2>1. ASSUME S # {} PROVE FALSE
    <3>1. S \in SUBSET Nat
      OBVIOUS
    <3>2. PICK n \in S : n = 0 \/ (n - 1 \in Nat /\ n - 1 \notin S)
      BY <2>1, <3>1, Least
    <3>3. n \in 1 .. TimerF /\ n - 1 \in 0 .. TimerF
      BY <1>3, <3>2, TimersAssumption
    <3>4. SendTime[n - 1] \in Nat
      BY <3>2, <3>3
    <3>5. Interval(n - 1) \in Nat
      BY Intervals, TimersAssumption
    <3> QED
      BY <1>3, <3>3, <3>4, <3>5
  <2> QED
    BY <2>1
<1> QED
  BY <1>3, <1>4
\* A repetition that is scheduled keeps the interval since the one before.
Spaced(y) == y.retransmit \in Nat \ {0} /\ Interval(y.count) <= y.retransmit

\* The interval that follows a time at which a copy was allowed.
LEMMA NextSend ==
    ASSUME NEW k \in Nat, NEW e \in 0 .. TimerF, k <= e, SendTime[k] <= e,
           NEW d \in Nat \ {0}, Interval(k) <= d
    PROVE  /\ k + 1 <= e + d
           /\ k + 1 <= TimerF => SendTime[k + 1] <= e + d
<1>1. k \in 0 .. TimerF
  BY TimersAssumption
<1>2. SendTime[k] \in Nat /\ Interval(k) \in Nat
  BY <1>1, SendTimes, Intervals, TimersAssumption
<1>3. ASSUME k + 1 <= TimerF PROVE SendTime[k + 1] <= e + d
  <2>1. k + 1 \in 1 .. TimerF /\ (k + 1) - 1 = k
    BY <1>3
  <2>2. SendTime[k + 1] = SendTime[k] + Interval(k)
    BY <2>1, SendTimes
  <2> QED
    BY <1>2, <2>2
<1> QED
  BY <1>3

-----------------------------------------------------------------------------
(* The functions of the source, field by field *)

\* The states in their order.
LEMMA Ranks ==
    /\ Rank("none") = 1 /\ Rank("NULL") = 2 /\ Rank("CALLING") = 3 /\ Rank("PROCEEDING") = 4
    /\ Rank("COMPLETED") = 5 /\ Rank("TERMINATED") = 6 /\ Rank("DESTROYED") = 7
<1>1. DOMAIN States = 1 .. 7
  BY DEF States
<1>2. /\ States[1] = "none" /\ States[2] = "NULL" /\ States[3] = "CALLING" /\ States[4] = "PROCEEDING"
      /\ States[5] = "COMPLETED" /\ States[6] = "TERMINATED" /\ States[7] = "DESTROYED"
  BY DEF States
<1>3. \A i \in 1 .. 7 : i = 1 \/ i = 2 \/ i = 3 \/ i = 4 \/ i = 5 \/ i = 6 \/ i = 7
  OBVIOUS
<1>4. ASSUME NEW i \in 1 .. 7, NEW s, States[i] = s,
             \A j \in 1 .. 7 : States[j] = s => j = i
      PROVE  Rank(s) = i
  BY <1>1, <1>4 DEF Rank
<1> QED
  BY <1>2, <1>3, <1>4

\* What a function leaves alone: the sends, the timers, the report.
SameSends(x, y) ==
    /\ y.flags = x.flags /\ y.transport = x.transport /\ y.pending = x.pending
    /\ y.attached = x.attached /\ y.sent = x.sent /\ y.count = x.count
SameTimers(x, y) == y.timeout = x.timeout /\ y.retransmit = x.retransmit
SameReport(x, y) == y.armed = x.armed /\ y.told = x.told /\ y.calls = x.calls
SameGhosts(x, y) == y.lost = x.lost /\ y.asserts = x.asserts

\* The callback is called once, for a final code.
Reports(x, y) ==
    IF x.armed /\ x.code >= 200 THEN y.armed = FALSE /\ y.told = x.code /\ y.calls = x.calls + 1
    ELSE SameReport(x, y)

Due == [id |-> "TIMEOUT", left |-> 0]

\* The values the timers are given.
LEMMA TimerTypes ==
    /\ NoTimer \in Timer /\ Due \in Timer
    /\ [id |-> "TRANSPORT_ERR", left |-> 0] \in Timer
    /\ [id |-> "TIMEOUT", left |-> TimerF] \in Timer
    /\ [id |-> "TIMEOUT", left |-> T4] \in Timer
    /\ T1 \in 0 .. T2 /\ T2 \in 0 .. T2
BY TimersAssumption DEF NoTimer, Due, Timer

\* The references beyond those whose holders are in the record.  A function that is called
\* while somebody holds the transaction neither adds to them nor takes from them.
Spare(x) == x.refs - Holders(x)
Safe(x) == Spare(x) >= 0 /\ (Owned(x) \/ Spare(x) > 0)
Held(x, y) == Safe(x) => Spare(y) = Spare(x)

\* Only the references differ.
Same(x, y) ==
    /\ y \in Tsx /\ y.state = x.state /\ y.code = x.code
    /\ SameSends(x, y) /\ SameTimers(x, y) /\ SameReport(x, y) /\ SameGhosts(x, y)

\* The holders are counted by numbers, and a transaction that is held has references.
LEMMA HoldersNat ==
    ASSUME NEW x \in Tsx
    PROVE  Holders(x) \in Nat /\ Spare(x) \in Int /\ (Safe(x) => x.refs > 0)
<1>1. /\ One(Owned(x)) \in {0, 1} /\ One(x.timeout # NoTimer) \in {0, 1}
      /\ One(x.retransmit # None) \in {0, 1} /\ One(x.pending # "none") \in {0, 1}
      /\ Owned(x) => One(Owned(x)) = 1
  BY DEF One
<1>2. Holders(x) \in Nat /\ (Owned(x) => Holders(x) > 0)
  BY <1>1 DEF Holders
<1>3. x.refs \in Int
  BY DEF Tsx
<1> QED
  BY <1>2, <1>3 DEF Spare, Safe

LEMMA SameHolders ==
    ASSUME NEW x \in Tsx, NEW y \in Tsx, y.state = x.state, SameTimers(x, y), y.pending = x.pending
    PROVE  /\ Owned(y) = Owned(x) /\ Holders(y) = Holders(x)
           /\ y.refs = x.refs => Held(x, y)
BY DEF Owned, Holders, SameTimers, Held, Spare

\* A reference is taken.
LEMMA AddRefEffect ==
    ASSUME NEW x \in Tsx
    PROVE  /\ Same(x, AddRef(x))
           /\ x.refs > 0 => AddRef(x).refs = x.refs + 1
<1> DEFINE n == IF x.refs = 0 THEN 0 ELSE x.refs + 1
<1>1. x.refs \in Int /\ n \in Int /\ (x.refs > 0 => n = x.refs + 1)
  BY DEF Tsx
<1>2. AddRef(x) = [x EXCEPT !.refs = n]
  BY DEF AddRef
<1> HIDE DEF n
<1>3. Same(x, [x EXCEPT !.refs = n]) /\ [x EXCEPT !.refs = n].refs = n
  BY <1>1 DEF Tsx, Same, SameSends, SameTimers, SameReport, SameGhosts
<1> QED
  BY <1>1, <1>2, <1>3

\* ... and given back.
LEMMA DecRefEffect ==
    ASSUME NEW x \in Tsx
    PROVE  Same(x, DecRef(x)) /\ DecRef(x).refs = x.refs - 1
<1> DEFINE n == x.refs - 1
<1>1. n \in Int
  BY DEF Tsx
<1>2. DecRef(x) = [x EXCEPT !.refs = n]
  BY DEF DecRef
<1> HIDE DEF n
<1>3. Same(x, [x EXCEPT !.refs = n]) /\ [x EXCEPT !.refs = n].refs = n
  BY <1>1 DEF Tsx, Same, SameSends, SameTimers, SameReport, SameGhosts
<1> QED
  BY <1>2, <1>3 DEF n

\* A timer leaves the heap; cancelled, it gives its reference back.
LEMMA TimeoutOffEffect ==
    ASSUME NEW x \in Tsx
    PROVE  LET y == TimeoutOff(x)
           IN  /\ y \in Tsx /\ y.state = x.state /\ y.code = x.code
               /\ y.timeout = NoTimer /\ y.retransmit = x.retransmit /\ y.refs = x.refs
               /\ SameSends(x, y) /\ SameReport(x, y) /\ SameGhosts(x, y)
               /\ x.timeout # NoTimer => Spare(y) = Spare(x) + 1
<1>1. LET y == TimeoutOff(x)
      IN  /\ y \in Tsx /\ y.state = x.state /\ y.code = x.code
          /\ y.timeout = NoTimer /\ y.retransmit = x.retransmit /\ y.refs = x.refs
          /\ SameSends(x, y) /\ SameReport(x, y) /\ SameGhosts(x, y)
  BY TimerTypes DEF TimeoutOff, Tsx, SameSends, SameReport, SameGhosts
<1>2. ASSUME x.timeout # NoTimer PROVE Spare(TimeoutOff(x)) = Spare(x) + 1
  <2> DEFINE y == TimeoutOff(x)
  <2>1. /\ Owned(y) = Owned(x) /\ y.timeout = NoTimer /\ y.retransmit = x.retransmit
        /\ y.pending = x.pending /\ y.refs = x.refs /\ x.refs \in Int
    BY <1>1 DEF Owned, SameSends, Tsx
  <2> HIDE DEF y
  <2>2. Holders(x) = Holders(y) + 1 /\ Holders(x) \in Nat /\ Holders(y) \in Nat
    BY <1>2, <2>1 DEF Holders, One
  <2> QED
    BY <2>1, <2>2 DEF Spare, y
<1> QED
  BY <1>1, <1>2

LEMMA RetransmitOffEffect ==
    ASSUME NEW x \in Tsx
    PROVE  LET y == RetransmitOff(x)
           IN  /\ y \in Tsx /\ y.state = x.state /\ y.code = x.code
               /\ y.timeout = x.timeout /\ y.retransmit = None /\ y.refs = x.refs
               /\ SameSends(x, y) /\ SameReport(x, y) /\ SameGhosts(x, y)
               /\ x.retransmit # None => Spare(y) = Spare(x) + 1
<1>1. LET y == RetransmitOff(x)
      IN  /\ y \in Tsx /\ y.state = x.state /\ y.code = x.code
          /\ y.timeout = x.timeout /\ y.retransmit = None /\ y.refs = x.refs
          /\ SameSends(x, y) /\ SameReport(x, y) /\ SameGhosts(x, y)
  BY DEF RetransmitOff, Tsx, SameSends, SameReport, SameGhosts
<1>2. ASSUME x.retransmit # None PROVE Spare(RetransmitOff(x)) = Spare(x) + 1
  <2> DEFINE y == RetransmitOff(x)
  <2>1. /\ Owned(y) = Owned(x) /\ y.retransmit = None /\ y.timeout = x.timeout
        /\ y.pending = x.pending /\ y.refs = x.refs /\ x.refs \in Int
    BY <1>1 DEF Owned, SameSends, Tsx
  <2> HIDE DEF y
  <2>2. Holders(x) = Holders(y) + 1 /\ Holders(x) \in Nat /\ Holders(y) \in Nat
    BY <1>2, <2>1 DEF Holders, One
  <2> QED
    BY <2>1, <2>2 DEF Spare, y
<1> QED
  BY <1>1, <1>2

LEMMA CancelTimeoutEffect ==
    ASSUME NEW x \in Tsx
    PROVE  LET y == CancelTimeout(x)
           IN  /\ y \in Tsx /\ y.state = x.state /\ y.code = x.code
               /\ y.timeout = NoTimer /\ y.retransmit = x.retransmit
               /\ SameSends(x, y) /\ SameReport(x, y) /\ SameGhosts(x, y) /\ Held(x, y)
<1>1. CASE x.timeout = NoTimer
  BY <1>1 DEF CancelTimeout, SameSends, SameReport, SameGhosts, Held
<1>2. CASE x.timeout # NoTimer
  <2> DEFINE t == TimeoutOff(x)
             y == DecRef(t)
  <2>1. CancelTimeout(x) = y
    BY <1>2 DEF CancelTimeout
  <2>2. /\ t \in Tsx /\ t.state = x.state /\ t.code = x.code
        /\ t.timeout = NoTimer /\ t.retransmit = x.retransmit /\ t.refs = x.refs
        /\ SameSends(x, t) /\ SameReport(x, t) /\ SameGhosts(x, t)
        /\ Spare(t) = Spare(x) + 1
    BY <1>2, TimeoutOffEffect
  <2> HIDE DEF t
  <2>3. Same(t, y) /\ y.refs = t.refs - 1
    BY <2>2, DecRefEffect
  <2> HIDE DEF y
  <2>4. Holders(y) = Holders(t)
    BY <2>2, <2>3, SameHolders DEF Same, SameSends
  <2>5. Spare(y) = Spare(x)
    BY <2>2, <2>3, <2>4, HoldersNat DEF Spare, Tsx
  <2> QED
    BY <2>1, <2>2, <2>3, <2>5 DEF Same, SameSends, SameTimers, SameReport, SameGhosts, Held
<1> QED
  BY <1>1, <1>2

LEMMA CancelRetransmitEffect ==
    ASSUME NEW x \in Tsx
    PROVE  LET y == CancelRetransmit(x)
           IN  /\ y \in Tsx /\ y.state = x.state /\ y.code = x.code
               /\ y.timeout = x.timeout /\ y.retransmit = None
               /\ SameSends(x, y) /\ SameReport(x, y) /\ SameGhosts(x, y) /\ Held(x, y)
<1>1. CASE x.retransmit = None
  BY <1>1 DEF CancelRetransmit, SameSends, SameReport, SameGhosts, Held
<1>2. CASE x.retransmit # None
  <2> DEFINE t == RetransmitOff(x)
             y == DecRef(t)
  <2>1. CancelRetransmit(x) = y
    BY <1>2 DEF CancelRetransmit
  <2>2. /\ t \in Tsx /\ t.state = x.state /\ t.code = x.code
        /\ t.timeout = x.timeout /\ t.retransmit = None /\ t.refs = x.refs
        /\ SameSends(x, t) /\ SameReport(x, t) /\ SameGhosts(x, t)
        /\ Spare(t) = Spare(x) + 1
    BY <1>2, RetransmitOffEffect
  <2> HIDE DEF t
  <2>3. Same(t, y) /\ y.refs = t.refs - 1
    BY <2>2, DecRefEffect
  <2> HIDE DEF y
  <2>4. Holders(y) = Holders(t)
    BY <2>2, <2>3, SameHolders DEF Same, SameSends
  <2>5. Spare(y) = Spare(x)
    BY <2>2, <2>3, <2>4, HoldersNat DEF Spare, Tsx
  <2> QED
    BY <2>1, <2>2, <2>3, <2>5 DEF Same, SameSends, SameTimers, SameReport, SameGhosts, Held
<1> QED
  BY <1>1, <1>2

\* One call after the other.
LEMMA HeldTrans ==
    ASSUME NEW x \in Tsx, NEW y \in Tsx, NEW z, Held(x, y), Held(y, z),
           Owned(x) => Owned(y)
    PROVE  Held(x, z)
BY HoldersNat DEF Held, Safe

\* mod_util_on_tsx_state
LEMMA UtilEffect ==
    ASSUME NEW x \in Tsx
    PROVE  LET y == mod_util_on_tsx_state(x)
           IN  /\ y \in Tsx /\ y.state = x.state /\ y.code = x.code
               /\ SameSends(x, y) /\ SameTimers(x, y) /\ SameGhosts(x, y) /\ Reports(x, y)
               /\ y.refs = x.refs
<1>1. x.code \in Nat /\ x.calls + 1 \in Nat
  BY DEF Tsx
<1> DEFINE z == [x EXCEPT !.armed = FALSE, !.told = x.code, !.calls = @ + 1]
<1>2. z \in Tsx
  BY <1>1 DEF Tsx
<1>3. /\ z.state = x.state /\ z.code = x.code /\ z.armed = FALSE /\ z.told = x.code
      /\ z.calls = x.calls + 1 /\ SameSends(x, z) /\ SameTimers(x, z) /\ SameGhosts(x, z)
      /\ z.refs = x.refs
  BY DEF Tsx, SameSends, SameTimers, SameGhosts
<1> HIDE DEF z
<1>4. CASE x.armed /\ x.code >= 200
  <2>1. mod_util_on_tsx_state(x) = z
    BY <1>4 DEF mod_util_on_tsx_state, z
  <2> QED
    BY <1>2, <1>3, <1>4, <2>1 DEF Reports
<1>5. CASE ~(x.armed /\ x.code >= 200)
  <2>1. mod_util_on_tsx_state(x) = x
    BY <1>5 DEF mod_util_on_tsx_state
  <2> QED
    BY <1>5, <2>1 DEF Reports, SameReport, SameSends, SameTimers, SameGhosts
<1> QED
  BY <1>4, <1>5

\* A timer that is not in the heap is scheduled.
LEMMA TimeoutSet ==
    ASSUME NEW x \in Tsx, x.timeout = NoTimer,
           NEW d, NEW id, [id |-> id, left |-> d] \in Timer, id # "inactive"
    PROVE  LET y == ScheduleTimeout(x, d, id)
           IN  /\ y \in Tsx /\ y.state = x.state /\ y.code = x.code
               /\ y.timeout = [id |-> id, left |-> d] /\ y.retransmit = x.retransmit
               /\ SameSends(x, y) /\ SameReport(x, y) /\ SameGhosts(x, y) /\ Held(x, y)
<1> DEFINE b == Assert(x, x.timeout = NoTimer)
           w == [b EXCEPT !.timeout = [id |-> id, left |-> d]]
           y == AddRef(w)
<1>1. (x.asserts /\ x.timeout = NoTimer) = x.asserts /\ x.asserts \in BOOLEAN
  BY DEF Tsx
<1>2. b = x
  BY <1>1 DEF Assert, Tsx
<1>3. ScheduleTimeout(x, d, id) = y
  BY DEF ScheduleTimeout
<1> HIDE DEF b
<1>4. /\ w \in Tsx /\ w.state = x.state /\ w.code = x.code /\ w.refs = x.refs
      /\ w.timeout = [id |-> id, left |-> d] /\ w.retransmit = x.retransmit
      /\ SameSends(x, w) /\ SameReport(x, w) /\ SameGhosts(x, w)
  BY <1>2 DEF Tsx, SameSends, SameReport, SameGhosts
<1> HIDE DEF w
<1>5. Same(w, y) /\ (w.refs > 0 => y.refs = w.refs + 1)
  BY <1>4, AddRefEffect
<1> HIDE DEF y
<1>6. /\ y \in Tsx /\ y.state = x.state /\ y.code = x.code
      /\ y.timeout = [id |-> id, left |-> d] /\ y.retransmit = x.retransmit
      /\ SameSends(x, y) /\ SameReport(x, y) /\ SameGhosts(x, y)
  BY <1>4, <1>5 DEF Same, SameSends, SameTimers, SameReport, SameGhosts
<1>7. y.timeout # NoTimer
  BY <1>6 DEF NoTimer
<1>8. Owned(y) = Owned(x) /\ y.pending = x.pending
  BY <1>6 DEF Owned, SameSends
<1>9. Holders(y) = Holders(x) + 1
  BY <1>6, <1>7, <1>8 DEF Holders, One
<1>10. Held(x, y)
  BY <1>4, <1>5, <1>9, HoldersNat DEF Held, Spare, Tsx
<1> QED
  BY <1>3, <1>6, <1>10

\* ScheduleTimeout after CancelTimeout.
LEMMA RearmEffect ==
    ASSUME NEW x \in Tsx, NEW d, NEW id, [id |-> id, left |-> d] \in Timer, id # "inactive"
    PROVE  LET y == ScheduleTimeout(CancelTimeout(x), d, id)
           IN  /\ y \in Tsx /\ y.state = x.state /\ y.code = x.code
               /\ y.timeout = [id |-> id, left |-> d] /\ y.retransmit = x.retransmit
               /\ SameSends(x, y) /\ SameReport(x, y) /\ SameGhosts(x, y) /\ Held(x, y)
<1> DEFINE c == CancelTimeout(x)
           y == ScheduleTimeout(c, d, id)
<1>1. /\ c \in Tsx /\ c.state = x.state /\ c.code = x.code
      /\ c.timeout = NoTimer /\ c.retransmit = x.retransmit
      /\ SameSends(x, c) /\ SameReport(x, c) /\ SameGhosts(x, c) /\ Held(x, c)
  BY CancelTimeoutEffect
<1> HIDE DEF c
<1>2. /\ y \in Tsx /\ y.state = c.state /\ y.code = c.code
      /\ y.timeout = [id |-> id, left |-> d] /\ y.retransmit = c.retransmit
      /\ SameSends(c, y) /\ SameReport(c, y) /\ SameGhosts(c, y) /\ Held(c, y)
  BY <1>1, TimeoutSet
<1> HIDE DEF y
<1>3. Held(x, y)
  BY <1>1, <1>2, HeldTrans DEF Owned
<1>4. /\ y \in Tsx /\ y.state = x.state /\ y.code = x.code
      /\ y.timeout = [id |-> id, left |-> d] /\ y.retransmit = x.retransmit
      /\ SameSends(x, y) /\ SameReport(x, y) /\ SameGhosts(x, y)
  BY <1>1, <1>2 DEF SameSends, SameReport, SameGhosts
<1> QED
  BY <1>3, <1>4 DEF y, c

\* A state is entered that is neither TERMINATED nor DESTROYED.
LEMMA EnterEffect ==
    ASSUME NEW x \in Tsx, NEW s \in {"CALLING", "PROCEEDING", "COMPLETED"},
           Rank(s) >= Rank(x.state), Owned(x)
    PROVE  LET y == tsx_set_state(x, s)
           IN  /\ y \in Tsx /\ y.state = s /\ y.code = x.code
               /\ SameSends(x, y) /\ SameTimers(x, y) /\ SameGhosts(x, y) /\ Reports(x, y)
               /\ Held(x, y)
<1> DEFINE b == Assert(x, Rank(s) >= Rank(x.state))
           w == [b EXCEPT !.state = s]
<1>1. b = x
  <2>1. (x.asserts /\ Rank(s) >= Rank(x.state)) = x.asserts
    BY DEF Tsx
  <2> QED
    BY <2>1 DEF Assert, Tsx
<1> HIDE DEF b
<1>2. s \in StateNames
  BY DEF StateNames
<1>3. /\ w \in Tsx /\ w.state = s /\ w.code = x.code /\ w.refs = x.refs
      /\ SameSends(x, w) /\ SameTimers(x, w) /\ SameGhosts(x, w) /\ SameReport(x, w)
  BY <1>1, <1>2 DEF Tsx, SameSends, SameTimers, SameGhosts, SameReport
<1>4. tsx_set_state(x, s) = mod_util_on_tsx_state(w)
  BY DEF tsx_set_state, b
<1> HIDE DEF w
<1>5. LET y == mod_util_on_tsx_state(w)
      IN  /\ y \in Tsx /\ y.state = s /\ y.code = x.code
          /\ SameSends(w, y) /\ SameTimers(w, y) /\ SameGhosts(w, y) /\ Reports(w, y)
          /\ y.refs = w.refs
  BY <1>3, UtilEffect
<1>6. LET y == mod_util_on_tsx_state(w) IN Held(x, y)
  BY <1>3, <1>5 DEF Held, Spare, Holders, Owned, SameSends, SameTimers
<1> QED
  BY <1>3, <1>4, <1>5, <1>6 DEF SameSends, SameTimers, SameGhosts, SameReport, Reports

\* TERMINATED: detached, and about to be destroyed.
Ends(x, y) ==
    /\ y \in Tsx /\ y.state = "TERMINATED" /\ y.code = x.code
    /\ y.flags = x.flags \ {"transport"} /\ y.transport = x.transport /\ y.pending = x.pending
    /\ y.attached = (x.attached /\ "transport" \notin x.flags)
    /\ y.sent = x.sent /\ y.count = x.count
    /\ y.timeout = Due /\ y.retransmit = x.retransmit
    /\ SameGhosts(x, y) /\ Reports(x, y)

LEMMA TerminatedEffect ==
    ASSUME NEW x \in Tsx, Owned(x)
    PROVE  LET y == tsx_set_state(x, "TERMINATED") IN Ends(x, y) /\ Held(x, y)
<1> DEFINE b == Assert(x, Rank("TERMINATED") >= Rank(x.state))
           w == [b EXCEPT !.state = "TERMINATED"]
           u == mod_util_on_tsx_state(w)
           c == CancelTimeout(u)
           d == [c EXCEPT !.attached = @ /\ "transport" \notin u.flags, !.flags = @ \ {"transport"}]
           y == ScheduleTimeout(d, 0, "TIMEOUT")
<1>1. b = x
  <2>1. Rank("TERMINATED") >= Rank(x.state)
    BY Ranks DEF Tsx, StateNames, Owned
  <2>2. (x.asserts /\ Rank("TERMINATED") >= Rank(x.state)) = x.asserts
    BY <2>1 DEF Tsx
  <2> QED
    BY <2>2 DEF Assert, Tsx
<1> HIDE DEF b
<1>2. /\ w \in Tsx /\ w.state = "TERMINATED" /\ w.code = x.code /\ w.refs = x.refs
      /\ SameSends(x, w) /\ SameTimers(x, w) /\ SameGhosts(x, w) /\ SameReport(x, w)
  BY <1>1 DEF Tsx, StateNames, SameSends, SameTimers, SameGhosts, SameReport
<1>3. tsx_set_state(x, "TERMINATED") = y
  BY DEF tsx_set_state, Terminated, b
<1> HIDE DEF w
<1>4. /\ u \in Tsx /\ u.state = "TERMINATED" /\ u.code = x.code /\ u.refs = x.refs
      /\ SameSends(w, u) /\ SameTimers(w, u) /\ SameGhosts(w, u) /\ Reports(w, u)
  BY <1>2, UtilEffect
<1> HIDE DEF u
<1>5. /\ SameSends(x, u) /\ SameTimers(x, u) /\ SameGhosts(x, u) /\ Reports(x, u)
  BY <1>2, <1>4 DEF SameSends, SameTimers, SameGhosts, SameReport, Reports
<1>a. Held(x, u)
  BY <1>4, <1>5 DEF Held, Spare, Holders, Owned, SameSends, SameTimers
<1>6. /\ c \in Tsx /\ c.timeout = NoTimer /\ c.state = u.state /\ c.code = u.code
      /\ c.retransmit = u.retransmit
      /\ SameSends(u, c) /\ SameGhosts(u, c) /\ SameReport(u, c) /\ Held(u, c)
  BY <1>4, CancelTimeoutEffect
<1> HIDE DEF c
<1>7. /\ (c.attached /\ "transport" \notin u.flags) \in BOOLEAN
      /\ c.flags \ {"transport"} \in SUBSET Flags
  BY <1>6 DEF Tsx
<1>8. /\ d \in Tsx /\ d.state = c.state /\ d.code = c.code /\ SameTimers(c, d)
      /\ d.flags = c.flags \ {"transport"} /\ d.transport = c.transport /\ d.pending = c.pending
      /\ d.attached = (c.attached /\ "transport" \notin u.flags)
      /\ d.sent = c.sent /\ d.count = c.count /\ d.refs = c.refs
      /\ SameGhosts(c, d) /\ SameReport(c, d)
  BY <1>6, <1>7 DEF Tsx, SameTimers, SameGhosts, SameReport
<1> HIDE DEF d
<1>b. Held(c, d)
  BY <1>6, <1>8, SameHolders
<1>9. /\ y \in Tsx /\ y.state = d.state /\ y.code = d.code /\ y.timeout = Due
      /\ y.retransmit = d.retransmit
      /\ SameSends(d, y) /\ SameGhosts(d, y) /\ SameReport(d, y) /\ Held(d, y)
  <2>1. d.timeout = NoTimer
    BY <1>6, <1>8 DEF SameTimers
  <2> QED
    BY <1>8, <2>1, TimerTypes, TimeoutSet DEF Due
<1> HIDE DEF y
<1>c. Held(x, y)
  <2>1. Owned(u) /\ Owned(c) /\ Owned(d)
    BY <1>4, <1>6, <1>8 DEF Owned
  <2>2. Held(x, c)
    BY <1>4, <1>6, <1>a, <2>1, HeldTrans
  <2>3. Held(x, d)
    BY <1>6, <1>8, <1>b, <2>1, <2>2, HeldTrans
  <2> QED
    BY <1>8, <1>9, <2>1, <2>3, HeldTrans
<1> QED
  BY <1>3, <1>4, <1>5, <1>6, <1>8, <1>9, <1>c
     DEF Ends, SameSends, SameTimers, SameGhosts, SameReport, Reports

\* A failure is reported with the code given.
Fails(x, y, c) ==
    /\ y \in Tsx /\ y.state = "TERMINATED" /\ y.code = c
    /\ y.flags = x.flags \ {"transport"} /\ y.transport = x.transport /\ y.pending = x.pending
    /\ y.attached = (x.attached /\ "transport" \notin x.flags)
    /\ y.sent = x.sent /\ y.count = x.count
    /\ y.timeout = Due /\ y.retransmit = x.retransmit /\ SameGhosts(x, y)
    /\ y.armed = FALSE /\ y.told = c /\ y.calls = x.calls + 1

LEMMA FailEffect ==
    ASSUME NEW x \in Tsx, Owned(x), x.armed, NEW c \in Nat, c >= 200
    PROVE  Fails(x, Fail(x, c), c) /\ Held(x, Fail(x, c))
<1> DEFINE w == [x EXCEPT !.code = c]
<1>1. /\ w \in Tsx /\ w.state = x.state /\ w.code = c /\ w.refs = x.refs
      /\ SameSends(x, w) /\ SameTimers(x, w) /\ SameGhosts(x, w) /\ SameReport(x, w)
  BY DEF Tsx, SameSends, SameTimers, SameGhosts, SameReport
<1>2. Fail(x, c) = tsx_set_state(w, "TERMINATED")
  BY DEF Fail
<1> HIDE DEF w
<1>3. Owned(w) /\ Held(x, w)
  BY <1>1, SameHolders DEF SameSends
<1>4. LET y == tsx_set_state(w, "TERMINATED") IN Ends(w, y) /\ Held(w, y)
  BY <1>1, <1>3, TerminatedEffect
<1>5. Held(x, tsx_set_state(w, "TERMINATED"))
  BY <1>1, <1>3, <1>4, HeldTrans DEF Ends
<1> QED
  BY <1>1, <1>2, <1>4, <1>5 DEF Fails, Ends, SameSends, SameTimers, SameGhosts, SameReport, Reports

\* What a handler has done is not changed by the reference that is given back after it.
LEMMA Released ==
    ASSUME NEW h, NEW y, Same(h, y)
    PROVE  /\ \A x : Ends(x, h) => Ends(x, y)
           /\ \A x, c : Fails(x, h, c) => Fails(x, y, c)
<1>1. ASSUME NEW x, Ends(x, h) PROVE Ends(x, y)
  BY <1>1 DEF Ends, Same, SameSends, SameTimers, SameGhosts, SameReport, Reports
<1>2. ASSUME NEW x, NEW c, Fails(x, h, c) PROVE Fails(x, y, c)
  BY <1>2 DEF Fails, Same, SameSends, SameTimers, SameGhosts, SameReport
<1> QED
  BY <1>1, <1>2

\* DESTROYED: nothing is left but what the ghosts remember, and references of others.
LEMMA DestroyedEffect ==
    ASSUME NEW x \in Tsx, x.state = "TERMINATED", ~x.armed
    PROVE  LET y == tsx_set_state(x, "DESTROYED")
           IN  /\ y \in Tsx /\ y.state = "DESTROYED" /\ y.code = 0 /\ y.sent = 0 /\ y.count = 0
               /\ y.flags = x.flags \ {"resched", "send"} /\ y.transport = FALSE
               /\ y.pending = x.pending /\ y.attached = x.attached
               /\ y.timeout = NoTimer /\ y.retransmit = None
               /\ SameGhosts(x, y) /\ SameReport(x, y) /\ Held(x, y)
<1> DEFINE b == Assert(x, Rank("DESTROYED") >= Rank(x.state))
           w == [b EXCEPT !.state = "DESTROYED"]
           u == mod_util_on_tsx_state(w)
           c == CancelTimeout(u)
           d == CancelRetransmit(c)
           v == [d EXCEPT !.transport = FALSE, !.flags = @ \ {"resched", "send"},
                          !.code = 0, !.count = 0, !.sent = 0]
           y == DecRef(v)
<1>1. b = x
  <2>1. Rank("DESTROYED") >= Rank(x.state)
    BY Ranks
  <2>2. (x.asserts /\ Rank("DESTROYED") >= Rank(x.state)) = x.asserts
    BY <2>1 DEF Tsx
  <2> QED
    BY <2>2 DEF Assert, Tsx
<1> HIDE DEF b
<1>2. /\ w \in Tsx /\ w.state = "DESTROYED" /\ w.refs = x.refs
      /\ SameSends(x, w) /\ SameTimers(x, w) /\ SameGhosts(x, w) /\ SameReport(x, w)
  BY <1>1 DEF Tsx, StateNames, SameSends, SameTimers, SameGhosts, SameReport
<1>3. tsx_set_state(x, "DESTROYED") = y
  BY DEF tsx_set_state, tsx_shutdown, b
<1> HIDE DEF w
<1>4. u = w
  BY <1>2 DEF mod_util_on_tsx_state, SameReport
<1> HIDE DEF u
<1>5. /\ c \in Tsx /\ c.state = u.state /\ c.code = u.code
      /\ c.timeout = NoTimer /\ c.retransmit = u.retransmit
      /\ SameSends(u, c) /\ SameReport(u, c) /\ SameGhosts(u, c) /\ Held(u, c)
  BY <1>2, <1>4, CancelTimeoutEffect
<1> HIDE DEF c
<1>6. /\ d \in Tsx /\ d.state = c.state /\ d.code = c.code
      /\ d.timeout = c.timeout /\ d.retransmit = None
      /\ SameSends(c, d) /\ SameReport(c, d) /\ SameGhosts(c, d) /\ Held(c, d)
  BY <1>5, CancelRetransmitEffect
<1> HIDE DEF d
<1>7. d.flags \ {"resched", "send"} \in SUBSET Flags
  BY <1>6 DEF Tsx
<1>8. /\ v \in Tsx /\ v.state = d.state /\ v.code = 0 /\ v.sent = 0 /\ v.count = 0
      /\ v.flags = d.flags \ {"resched", "send"} /\ v.transport = FALSE
      /\ v.pending = d.pending /\ v.attached = d.attached /\ v.refs = d.refs
      /\ SameTimers(d, v) /\ SameGhosts(d, v) /\ SameReport(d, v)
  BY <1>6, <1>7 DEF Tsx, SameTimers, SameGhosts, SameReport
<1> HIDE DEF v
<1>9. Same(v, y) /\ y.refs = v.refs - 1
  BY <1>8, DecRefEffect
<1> HIDE DEF y
<1>10. /\ y \in Tsx /\ y.state = "DESTROYED" /\ y.code = 0 /\ y.sent = 0 /\ y.count = 0
       /\ y.flags = x.flags \ {"resched", "send"} /\ y.transport = FALSE
       /\ y.pending = x.pending /\ y.attached = x.attached
       /\ y.timeout = NoTimer /\ y.retransmit = None
       /\ SameGhosts(x, y) /\ SameReport(x, y)
  BY <1>2, <1>4, <1>5, <1>6, <1>8, <1>9
     DEF Same, SameSends, SameTimers, SameGhosts, SameReport
<1>11. Spare(w) = Spare(x) + 1
  <2>1. Owned(x) /\ ~Owned(w)
    BY <1>2 DEF Owned
  <2>2. Holders(x) = Holders(w) + 1
    BY <1>2, <2>1 DEF Holders, One, SameTimers, SameSends
  <2> QED
    BY <1>2, <2>2, HoldersNat DEF Spare, Tsx
<1>12. Spare(y) = Spare(v) - 1
  BY <1>8, <1>9, SameHolders, HoldersNat DEF Spare, Same, SameSends, Tsx
<1>13. Held(w, v)
  <2>1. Held(d, v)
    BY <1>6, <1>8, SameHolders
  <2>2. ~Owned(w) /\ ~Owned(c)
    BY <1>2, <1>4, <1>5 DEF Owned
  <2>3. Held(w, d)
    BY <1>2, <1>4, <1>5, <1>6, <2>2, HeldTrans
  <2> QED
    BY <1>2, <1>6, <2>1, <2>2, <2>3, HeldTrans
<1>14. Held(x, y)
  <2> SUFFICES ASSUME Safe(x) PROVE Spare(y) = Spare(x)
    BY DEF Held
  <2>1. Spare(x) \in Int /\ Spare(w) \in Int /\ Spare(v) \in Int
    BY <1>2, <1>8, HoldersNat
  <2>2. Safe(w)
    BY <1>11, <2>1 DEF Safe
  <2> QED
    BY <1>11, <1>12, <1>13, <2>1, <2>2 DEF Held
<1> QED
  BY <1>3, <1>10, <1>14

\* A final answer: COMPLETED, with timer K armed before or after the report.
Absorbs(x, y) ==
    /\ y \in Tsx /\ y.state = "COMPLETED" /\ y.code = x.code
    /\ y.timeout.id = "TIMEOUT" /\ y.retransmit = None
    /\ SameSends(x, y) /\ SameGhosts(x, y) /\ Reports(x, y)

LEMMA CompletedEffect ==
    ASSUME NEW x \in Tsx, x.state \in {"CALLING", "PROCEEDING"}, reliable \in BOOLEAN
    PROVE  Absorbs(x, Completed(x)) /\ Held(x, Completed(x))
<1> DEFINE d == IF reliable THEN 0 ELSE T4
           K(y) == ScheduleTimeout(CancelTimeout(y), d, "TIMEOUT")
<1>1. [id |-> "TIMEOUT", left |-> d] \in Timer
  BY TimerTypes DEF Due
<1>2. Completed(x) = IF x.code < 300 THEN tsx_set_state(CancelRetransmit(K(x)), "COMPLETED")
                     ELSE K(tsx_set_state(CancelTimeout(CancelRetransmit(x)), "COMPLETED"))
  BY DEF Completed
<1> HIDE DEF d
<1>3. ASSUME NEW w \in Tsx
      PROVE  /\ K(w) \in Tsx /\ K(w).state = w.state /\ K(w).code = w.code
             /\ K(w).timeout.id = "TIMEOUT" /\ K(w).retransmit = w.retransmit
             /\ SameSends(w, K(w)) /\ SameReport(w, K(w)) /\ SameGhosts(w, K(w)) /\ Held(w, K(w))
  BY <1>1, RearmEffect
<1> HIDE DEF K
<1>4. CASE x.code < 300
  <2> DEFINE k == K(x)
             c == CancelRetransmit(k)
             y == tsx_set_state(c, "COMPLETED")
  <2>1. Completed(x) = y
    BY <1>2, <1>4
  <2>2. /\ k \in Tsx /\ k.state = x.state /\ k.code = x.code
        /\ k.timeout.id = "TIMEOUT" /\ k.retransmit = x.retransmit
        /\ SameSends(x, k) /\ SameReport(x, k) /\ SameGhosts(x, k) /\ Held(x, k)
    BY <1>3
  <2> HIDE DEF k
  <2>3. /\ c \in Tsx /\ c.state = k.state /\ c.code = k.code
        /\ c.timeout = k.timeout /\ c.retransmit = None
        /\ SameSends(k, c) /\ SameReport(k, c) /\ SameGhosts(k, c) /\ Held(k, c)
    BY <2>2, CancelRetransmitEffect
  <2> HIDE DEF c
  <2>4. Rank("COMPLETED") >= Rank(c.state) /\ Owned(k) /\ Owned(c)
    BY <2>2, <2>3, Ranks DEF Owned
  <2>5. /\ y \in Tsx /\ y.state = "COMPLETED" /\ y.code = c.code
        /\ SameSends(c, y) /\ SameTimers(c, y) /\ SameGhosts(c, y) /\ Reports(c, y) /\ Held(c, y)
    BY <2>3, <2>4, EnterEffect
  <2> HIDE DEF y
  <2>6. Absorbs(x, y)
    BY <2>2, <2>3, <2>5 DEF Absorbs, SameSends, SameTimers, SameGhosts, SameReport, Reports
  <2>7. Held(x, c)
    BY <2>2, <2>3, <2>4, HeldTrans
  <2>8. Held(x, y)
    BY <2>3, <2>4, <2>5, <2>7, HeldTrans
  <2> QED
    BY <2>1, <2>6, <2>8
<1>5. CASE ~(x.code < 300)
  <2> DEFINE r == CancelRetransmit(x)
             c == CancelTimeout(r)
             e == tsx_set_state(c, "COMPLETED")
             y == K(e)
  <2>1. Completed(x) = y
    BY <1>2, <1>5
  <2>2. /\ r \in Tsx /\ r.state = x.state /\ r.code = x.code /\ r.retransmit = None
        /\ SameSends(x, r) /\ SameReport(x, r) /\ SameGhosts(x, r) /\ Held(x, r)
    BY CancelRetransmitEffect
  <2> HIDE DEF r
  <2>3. /\ c \in Tsx /\ c.state = r.state /\ c.code = r.code /\ c.retransmit = r.retransmit
        /\ SameSends(r, c) /\ SameReport(r, c) /\ SameGhosts(r, c) /\ Held(r, c)
    BY <2>2, CancelTimeoutEffect
  <2> HIDE DEF c
  <2>4. Rank("COMPLETED") >= Rank(c.state) /\ Owned(r) /\ Owned(c)
    BY <2>2, <2>3, Ranks DEF Owned
  <2>5. /\ e \in Tsx /\ e.state = "COMPLETED" /\ e.code = c.code
        /\ SameSends(c, e) /\ SameTimers(c, e) /\ SameGhosts(c, e) /\ Reports(c, e) /\ Held(c, e)
    BY <2>3, <2>4, EnterEffect
  <2> HIDE DEF e
  <2>6. /\ y \in Tsx /\ y.state = e.state /\ y.code = e.code
        /\ y.timeout.id = "TIMEOUT" /\ y.retransmit = e.retransmit
        /\ SameSends(e, y) /\ SameReport(e, y) /\ SameGhosts(e, y) /\ Held(e, y)
    BY <1>3, <2>5
  <2> HIDE DEF y
  <2>7. Absorbs(x, y)
    BY <2>2, <2>3, <2>5, <2>6 DEF Absorbs, SameSends, SameTimers, SameGhosts, SameReport, Reports
  <2>8. Held(x, c)
    BY <2>2, <2>3, <2>4, HeldTrans
  <2>9. Held(x, e) /\ Owned(e)
    BY <2>3, <2>4, <2>5, <2>8, HeldTrans DEF Owned
  <2>10. Held(x, y)
    BY <2>5, <2>6, <2>9, HeldTrans
  <2> QED
    BY <2>1, <2>7, <2>10
<1> QED
  BY <1>4, <1>5

\* Timer E, where it is not in the heap.
LEMMA RetransmitSet ==
    ASSUME NEW x \in Tsx, x.retransmit = None, NEW d \in 0 .. T2
    PROVE  LET y == ScheduleRetransmit(x, d)
           IN  /\ y \in Tsx /\ y.state = x.state /\ y.code = x.code
               /\ y.timeout = x.timeout /\ y.retransmit = d
               /\ SameSends(x, y) /\ SameReport(x, y) /\ SameGhosts(x, y) /\ Held(x, y)
<1> DEFINE b == Assert(x, x.retransmit = None)
           w == [b EXCEPT !.retransmit = d]
           y == AddRef(w)
<1>1. (x.asserts /\ x.retransmit = None) = x.asserts /\ x.asserts \in BOOLEAN
  BY DEF Tsx
<1>2. b = x
  BY <1>1 DEF Assert, Tsx
<1>3. ScheduleRetransmit(x, d) = y
  BY DEF ScheduleRetransmit
<1> HIDE DEF b
<1>4. /\ w \in Tsx /\ w.state = x.state /\ w.code = x.code /\ w.refs = x.refs
      /\ w.timeout = x.timeout /\ w.retransmit = d
      /\ SameSends(x, w) /\ SameReport(x, w) /\ SameGhosts(x, w)
  BY <1>2 DEF Tsx, SameSends, SameReport, SameGhosts
<1> HIDE DEF w
<1>5. Same(w, y) /\ (w.refs > 0 => y.refs = w.refs + 1)
  BY <1>4, AddRefEffect
<1> HIDE DEF y
<1>6. /\ y \in Tsx /\ y.state = x.state /\ y.code = x.code
      /\ y.timeout = x.timeout /\ y.retransmit = d
      /\ SameSends(x, y) /\ SameReport(x, y) /\ SameGhosts(x, y)
  BY <1>4, <1>5 DEF Same, SameSends, SameTimers, SameReport, SameGhosts
<1>7. y.retransmit # None
  BY <1>6, TimersAssumption DEF None
<1>8. Owned(y) = Owned(x) /\ y.pending = x.pending
  BY <1>6 DEF Owned, SameSends
<1>9. Holders(y) = Holders(x) + 1
  BY <1>6, <1>7, <1>8 DEF Holders, One
<1>10. Held(x, y)
  BY <1>4, <1>5, <1>9, HoldersNat DEF Held, Spare, Tsx
<1> QED
  BY <1>3, <1>6, <1>10

\* tsx_resched_retransmission, where its assertions hold.
LEMMA ReschedEffect ==
    ASSUME NEW x \in Tsx, x.retransmit = None, "transport" \notin x.flags, x.code < 200
    PROVE  LET y == tsx_resched_retransmission(x)
           IN  /\ y \in Tsx /\ y.state = x.state /\ y.code = x.code
               /\ y.timeout = x.timeout /\ Spaced(y)
               /\ SameSends(x, y) /\ SameGhosts(x, y) /\ SameReport(x, y) /\ Held(x, y)
<1> DEFINE a == Assert(x, "transport" \notin x.flags /\ x.code < 200)
           y == ScheduleRetransmit(x, Delay(x))
<1>1. (x.asserts /\ "transport" \notin x.flags /\ x.code < 200) = x.asserts
  BY DEF Tsx
<1>2. a = x
  BY <1>1 DEF Assert, Tsx
<1>3. tsx_resched_retransmission(x) = y
  BY <1>2 DEF tsx_resched_retransmission
<1>4. Delay(x) \in 1 .. T2 /\ Delay(x) \in 0 .. T2 /\ Interval(x.count) <= Delay(x)
  BY Delays, TimersAssumption
<1>5. /\ y \in Tsx /\ y.state = x.state /\ y.code = x.code
      /\ y.timeout = x.timeout /\ y.retransmit = Delay(x)
      /\ SameSends(x, y) /\ SameReport(x, y) /\ SameGhosts(x, y) /\ Held(x, y)
  BY <1>4, RetransmitSet
<1> HIDE DEF y
<1>6. Spaced(y)
  BY <1>4, <1>5 DEF Spaced, SameSends
<1> QED
  BY <1>3, <1>5, <1>6

\* A repetition: sent, pending in the transport, or failed.
Resends(x, y) ==
    \/ /\ y \in Tsx /\ y.state = x.state /\ y.code = x.code /\ y.sent = x.sent + 1 /\ y.count = x.count
       /\ y.flags = x.flags /\ y.transport = x.transport /\ y.pending = x.pending
       /\ y.attached = x.attached
       /\ SameTimers(x, y) /\ SameGhosts(x, y) /\ SameReport(x, y)
    \/ /\ y \in Tsx /\ y.state = x.state /\ y.code = x.code
       /\ y.sent = x.sent /\ y.count = x.count
       /\ y.flags = x.flags \cup {"transport"} /\ y.transport = x.transport
       /\ y.pending = "again" /\ y.attached = x.attached
       /\ SameTimers(x, y) /\ SameGhosts(x, y) /\ SameReport(x, y)
    \/ \E w \in Tsx : /\ w.flags = x.flags /\ w.transport = FALSE /\ w.pending = x.pending
                      /\ w.attached = x.attached /\ w.sent = x.sent /\ w.count = x.count
                      /\ w.retransmit = x.retransmit
                      /\ SameGhosts(x, w) /\ w.calls = x.calls
                      /\ Fails(w, y, 503)

LEMMA SendAgainEffect ==
    ASSUME NEW x \in Tsx, Owned(x), x.armed, x.pending = "none", NEW out \in Outcomes
    PROVE  Resends(x, SendAgain(x, out)) /\ Held(x, SendAgain(x, out))
<1>1. CASE out = "sent"
  <2> DEFINE w == [x EXCEPT !.sent = @ + 1]
  <2>1. SendAgain(x, out) = w
    BY <1>1 DEF SendAgain
  <2>2. x.sent + 1 \in Nat
    BY DEF Tsx
  <2>3. /\ w \in Tsx /\ w.state = x.state /\ w.code = x.code /\ w.sent = x.sent + 1 /\ w.count = x.count
        /\ w.flags = x.flags /\ w.transport = x.transport /\ w.pending = x.pending
        /\ w.attached = x.attached /\ w.refs = x.refs
        /\ SameTimers(x, w) /\ SameGhosts(x, w) /\ SameReport(x, w)
    BY <2>2 DEF Tsx, SameTimers, SameGhosts, SameReport
  <2> HIDE DEF w
  <2>4. Held(x, w)
    BY <2>3, SameHolders
  <2> QED
    BY <2>1, <2>3, <2>4 DEF Resends
<1>2. CASE out = "pending"
  <2> DEFINE w == [x EXCEPT !.pending = "again", !.flags = @ \cup {"transport"}]
             y == AddRef(w)
  <2>1. SendAgain(x, out) = y
    BY <1>2 DEF SendAgain
  <2>2. x.flags \cup {"transport"} \in SUBSET Flags
    BY DEF Tsx, Flags
  <2>3. /\ w \in Tsx /\ w.state = x.state /\ w.code = x.code
        /\ w.sent = x.sent /\ w.count = x.count
        /\ w.flags = x.flags \cup {"transport"} /\ w.transport = x.transport
        /\ w.pending = "again" /\ w.attached = x.attached /\ w.refs = x.refs
        /\ SameTimers(x, w) /\ SameGhosts(x, w) /\ SameReport(x, w)
    BY <2>2 DEF Tsx, SameTimers, SameGhosts, SameReport
  <2> HIDE DEF w
  <2>4. Same(w, y) /\ (w.refs > 0 => y.refs = w.refs + 1)
    BY <2>3, AddRefEffect
  <2> HIDE DEF y
  <2>5. /\ y \in Tsx /\ y.state = x.state /\ y.code = x.code
        /\ y.sent = x.sent /\ y.count = x.count
        /\ y.flags = x.flags \cup {"transport"} /\ y.transport = x.transport
        /\ y.pending = "again" /\ y.attached = x.attached
        /\ SameTimers(x, y) /\ SameGhosts(x, y) /\ SameReport(x, y)
    BY <2>3, <2>4 DEF Same, SameSends, SameTimers, SameGhosts, SameReport
  <2>6. Holders(y) = Holders(x) + 1
    <3>1. Owned(y) = Owned(x) /\ y.pending # "none" /\ y.timeout = x.timeout /\ y.retransmit = x.retransmit
      BY <2>5 DEF Owned, SameTimers
    <3> QED
      BY <3>1 DEF Holders, One
  <2>7. Held(x, y)
    BY <2>3, <2>4, <2>6, HoldersNat DEF Held, Spare, Tsx
  <2> QED
    BY <2>1, <2>5, <2>7 DEF Resends
<1>3. CASE out = "error"
  <2> DEFINE w == [x EXCEPT !.transport = FALSE]
  <2>1. SendAgain(x, out) = Fail(w, 503)
    BY <1>3 DEF SendAgain
  <2>2. /\ w \in Tsx /\ w.state = x.state /\ w.armed /\ w.refs = x.refs
        /\ w.flags = x.flags /\ w.transport = FALSE /\ w.pending = x.pending
        /\ w.attached = x.attached /\ w.sent = x.sent /\ w.count = x.count
        /\ SameTimers(x, w) /\ SameGhosts(x, w) /\ w.calls = x.calls
    BY DEF Tsx, SameTimers, SameGhosts
  <2> HIDE DEF w
  <2>3. Owned(w) /\ Held(x, w)
    BY <2>2, SameHolders
  <2>4. Fails(w, Fail(w, 503), 503) /\ Held(w, Fail(w, 503))
    BY <2>2, <2>3, FailEffect
  <2>5. Held(x, Fail(w, 503))
    BY <2>2, <2>3, <2>4, HeldTrans
  <2> QED
    BY <2>1, <2>2, <2>4, <2>5 DEF Resends, SameTimers
<1> QED
  BY <1>1, <1>2, <1>3 DEF Outcomes

LEMMA ResendsReleased ==
    ASSUME NEW x, NEW h, NEW y, Resends(x, h), Same(h, y)
    PROVE  Resends(x, y)
<1>1. CASE /\ h \in Tsx /\ h.state = x.state /\ h.code = x.code /\ h.count = x.count
           /\ h.transport = x.transport /\ h.attached = x.attached
           /\ SameTimers(x, h) /\ SameGhosts(x, h) /\ SameReport(x, h)
           /\ \/ h.sent = x.sent + 1 /\ h.flags = x.flags /\ h.pending = x.pending
              \/ h.sent = x.sent /\ h.flags = x.flags \cup {"transport"} /\ h.pending = "again"
  BY <1>1 DEF Resends, Same, SameSends, SameTimers, SameGhosts, SameReport
<1>2. ASSUME NEW w \in Tsx, Fails(w, h, 503) PROVE Fails(w, y, 503)
  BY <1>2, Released
<1> QED
  BY <1>1, <1>2 DEF Resends

-----------------------------------------------------------------------------
(* How a step keeps the schedule *)

\* A step sends nothing beyond what was counted, and brings no timer forward.
Slower(x, y) ==
    /\ y.count = x.count /\ Copies(y) <= Copies(x)
    /\ y.state = "NULL" => x.state = "NULL"
    /\ Waiting(y) => /\ Waiting(x) /\ y.timeout.left <= x.timeout.left
                     /\ y.retransmit = None \/ y.retransmit = x.retransmit \/ Spaced(y)

LEMMA SlowerOK ==
    ASSUME IInv, tsx' \in Tsx, UNCHANGED reliable, Slower(tsx, tsx')
    PROVE  Schedule'
<1>1. /\ tsx \in Tsx /\ tsx.count \in Nat /\ tsx.sent \in Nat /\ tsx'.sent \in Nat
      /\ tsx.timeout.left \in Nat /\ tsx'.timeout.left \in Nat
  BY DEF IInv, Typed, Tsx, Timer
<1>2. Copies(tsx) \in Nat /\ Copies(tsx') \in Nat
  BY <1>1 DEF Copies
<1>3. Copies(tsx') <= tsx'.count + 1
  BY <1>1, <1>2 DEF IInv, Schedule, Slower
<1>4. /\ reliable' \/ tsx'.state = "NULL" => tsx'.count = 0
      /\ \A n \in 0 .. tsx'.count : n <= TimerF /\ SendTime[n] <= TimerF
  BY DEF IInv, Schedule, Slower
<1>5. ASSUME Waiting(tsx') PROVE \E e \in 0 .. TimerF : Since(tsx', e)
  <2>1. PICK e \in 0 .. TimerF : Since(tsx, e)
    BY <1>5 DEF IInv, Schedule, Slower
  <2>2. e + tsx'.timeout.left <= TimerF
    BY <1>1, <1>5, <2>1, TimersAssumption DEF Since, Slower
  <2>3. \A n \in 0 .. tsx'.count : n <= e /\ SendTime[n] <= e
    BY <2>1 DEF Since, Slower
  <2>4. ASSUME Spaced(tsx')
        PROVE  /\ tsx'.count + 1 <= e + tsx'.retransmit
               /\ tsx'.count + 1 <= TimerF => SendTime[tsx'.count + 1] <= e + tsx'.retransmit
    <3>1. tsx'.count \in Nat /\ tsx'.count \in 0 .. tsx'.count
      BY <1>1 DEF Slower
    <3> QED
      BY <2>3, <2>4, <3>1, NextSend DEF Spaced
  <2>5. tsx'.retransmit # None =>
           /\ tsx'.count + 1 <= e + tsx'.retransmit
           /\ tsx'.count + 1 <= TimerF => SendTime[tsx'.count + 1] <= e + tsx'.retransmit
    BY <1>5, <2>1, <2>4 DEF Since, Slower
  <2> QED
    BY <2>2, <2>3, <2>5 DEF Since
<1> QED
  BY <1>3, <1>4, <1>5 DEF Schedule

\* Timer E: a repetition is counted when it is allowed, whether or not it is sent now.
Repeats(x, y) ==
    /\ y.count = x.count + 1 /\ Copies(y) <= Copies(x) + 1 /\ y.state # "NULL"
    /\ Waiting(y) => y.timeout = x.timeout /\ (y.retransmit = None \/ Spaced(y))

LEMMA RepeatsOK ==
    ASSUME IInv, Waiting(tsx), tsx.retransmit = 0, ~reliable,
           tsx' \in Tsx, UNCHANGED reliable, Repeats(tsx, tsx')
    PROVE  Schedule'
<1>1. /\ tsx \in Tsx /\ tsx.count \in Nat /\ tsx.sent \in Nat /\ tsx'.sent \in Nat
      /\ tsx.timeout.left \in Nat /\ tsx'.timeout.left \in Nat
  BY DEF IInv, Typed, Tsx, Timer
<1>2. Copies(tsx) \in Nat /\ Copies(tsx') \in Nat
  BY <1>1 DEF Copies
<1>3. Copies(tsx') <= tsx'.count + 1
  BY <1>1, <1>2 DEF IInv, Schedule, Repeats
<1>4. PICK e \in 0 .. TimerF : Since(tsx, e)
  BY DEF IInv, Schedule
<1>5. tsx.count + 1 <= e /\ SendTime[tsx.count + 1] <= e
  BY <1>1, <1>4, TimersAssumption DEF Since, None
<1>6. \A n \in 0 .. tsx'.count : n <= e /\ SendTime[n] <= e
  <2>1. \A n \in 0 .. tsx.count + 1 : n \in 0 .. tsx.count \/ n = tsx.count + 1
    BY <1>1
  <2> QED
    BY <1>4, <1>5, <2>1 DEF Since, Repeats
<1>7. \A n \in 0 .. tsx'.count : n <= TimerF /\ SendTime[n] <= TimerF
  <2> SUFFICES ASSUME NEW n \in 0 .. tsx'.count PROVE n <= TimerF /\ SendTime[n] <= TimerF
    OBVIOUS
  <2>1. n <= e /\ SendTime[n] <= e /\ n \in Nat
    BY <1>6
  <2>2. n \in 0 .. TimerF
    BY <2>1, TimersAssumption
  <2>3. SendTime[n] \in Nat
    BY <2>2, SendTimes
  <2> QED
    BY <2>1, <2>3, TimersAssumption
<1>8. ASSUME Waiting(tsx') PROVE Since(tsx', e)
  <2>1. e + tsx'.timeout.left <= TimerF
    BY <1>4, <1>8 DEF Since, Repeats
  <2>2. ASSUME Spaced(tsx')
        PROVE  /\ tsx'.count + 1 <= e + tsx'.retransmit
               /\ tsx'.count + 1 <= TimerF => SendTime[tsx'.count + 1] <= e + tsx'.retransmit
    <3>1. tsx'.count \in Nat /\ tsx'.count \in 0 .. tsx'.count
      BY <1>1 DEF Repeats
    <3> QED
      BY <1>6, <2>2, <3>1, NextSend DEF Spaced
  <2> QED
    BY <1>6, <1>8, <2>1, <2>2 DEF Since, Repeats
<1> QED
  BY <1>3, <1>7, <1>8 DEF Schedule, Repeats

\* A transaction that has not been repeated, and does not wait.
Unrepeated(y) == y.count = 0 /\ Copies(y) <= 1 /\ ~Waiting(y)

LEMMA OnceAtZero == \A n \in 0 .. 0 : n <= TimerF /\ SendTime[n] <= TimerF
<1>1. \A n \in 0 .. 0 : n = 0
  OBVIOUS
<1> QED
  BY <1>1, SendTimes, TimersAssumption

LEMMA UnrepeatedOK == Unrepeated(tsx') => Schedule'
BY OnceAtZero DEF Unrepeated, Schedule

-----------------------------------------------------------------------------
(* What a step of the transaction leaves alone *)

\* A code that SipSupService gave for this REGISTER.
Answered(code) == (code = 200 /\ recorded) \/ (code = SIP_FORBIDDEN /\ ~listed)

\* A step of the transaction: where its code comes from, and that a first send that is
\* still under way has put nothing on the wire.
Keeps(y) ==
    /\ y \in Tsx
    /\ y.timeout.id = "inactive" <=> y.timeout = NoTimer
    /\ y.pending = "first" => /\ tsx.pending = "first" /\ y.sent <= tsx.sent
                              /\ y.state \in {"NULL", "CALLING", "TERMINATED", "DESTROYED"}
    /\ y.code = tsx.code \/ y.code \in {0, 100, 408, 503} \/ Answered(y.code)
    /\ y.told = tsx.told \/ y.told \in {0, 408, 503} \/ Answered(y.told)

\* Where a step of the transaction keeps the codes honest and the wire quiet, the parts
\* of IInv about the two services hold again.
LEMMA Rest ==
    ASSUME IInv, Keeps(tsx'), Effects,
           responses' \subseteq responses, UNCHANGED <<reliable, branch, sup, recorded>>,
           errev' \in BOOLEAN, sender' \in {"nobody", "timer", "event"},
           result' \in {"none", "accepted", "rejected"}
    PROVE  Typed' /\ Silent' /\ Source' /\ AnswerIsForThis'
<1>1. Typed'
  <2>1. regc' \in {"none", "sent", "active", "idle"} /\ registered' \in BOOLEAN /\ requests' \subseteq Branches
    BY DEF IInv, Typed, Effects
  <2> QED
    BY <2>1 DEF IInv, Typed, Keeps, sup
<1>2. Silent'
  <2> SUFFICES ASSUME tsx'.pending = "first"
               PROVE  /\ branch \notin requests'
                      /\ \A th \in threads : th.branch # branch
                      /\ \A r \in responses' : r.branch # branch
                      /\ tsx'.state \in {"NULL", "CALLING", "TERMINATED", "DESTROYED"}
    BY DEF Silent, sup
  <2>1. tsx.pending = "first" /\ ~(tsx'.sent > tsx.sent)
    BY DEF Keeps, IInv, Typed, Tsx
  <2> QED
    BY <2>1 DEF IInv, Silent, Effects, Keeps
<1>3. Source' /\ AnswerIsForThis'
  BY DEF IInv, Source, AnswerIsForThis, Keeps, Answered, sup, SIP_FORBIDDEN
<1> QED
  BY <1>1, <1>2, <1>3

-----------------------------------------------------------------------------
(* The steps of the transaction *)

\* What a step of the transaction, and an answer, leave alone beside the transaction itself.
Aside == Effects /\ responses' \subseteq responses /\ UNCHANGED <<result, branch, sup, recorded>>

\* The parts of IInv that speak of the transaction and its caller alone.
Core == Sending /\ Timing /\ Codes /\ Posted /\ Returned /\ Schedule /\ AssertionsHold /\ AlwaysDriven

\* So a handler has to be proved for Core, and for its references.
LEMMA ByParts ==
    ASSUME IInv, Keeps(tsx'), Aside, UNCHANGED reliable,
           errev' \in BOOLEAN, sender' \in {"nobody", "timer", "event"}, Core', Counted'
    PROVE  IInv'
<1>1. result' \in {"none", "accepted", "rejected"}
  BY DEF IInv, Typed, Aside
<1>2. Typed' /\ Silent' /\ Source' /\ AnswerIsForThis'
  BY <1>1, Rest DEF Aside
<1> QED
  BY <1>2 DEF IInv, Core

\* Between two steps nobody else has a reference but the callback of a posted error.
LEMMA Balanced ==
    ASSUME IInv
    PROVE  /\ tsx \in Tsx /\ Spare(tsx) = One(errev) /\ One(errev) \in {0, 1}
           /\ Owned(tsx) => Safe(tsx)
<1>1. tsx \in Tsx /\ tsx.refs = Holders(tsx) + One(errev) /\ One(errev) \in {0, 1}
  BY DEF IInv, Typed, Counted, One
<1> QED
  BY <1>1, HoldersNat DEF Spare, Safe

\* The references are balanced after a step if no spare one is left of it.
LEMMA BalancedAfter ==
    ASSUME tsx' \in Tsx, Spare(tsx') = One(errev')
    PROVE  Counted'
<1>1. tsx'.refs \in Int /\ Holders(tsx') \in Nat
  BY HoldersNat DEF Tsx
<1>2. One(errev') \in {0, 1}
  BY DEF One
<1> QED
  BY <1>1, <1>2 DEF Spare, Counted

\* A handler that was called on a transaction that owns itself.
LEMMA Kept ==
    ASSUME IInv, UNCHANGED errev, tsx' \in Tsx, Owned(tsx), Held(tsx, tsx')
    PROVE  Counted'
<1>1. Spare(tsx') = One(errev')
  BY Balanced DEF Held
<1> QED
  BY <1>1, BalancedAfter

\* A handler that was called with the reference of a timer or of a send, which is given
\* back after it.
LEMMA Handled ==
    ASSUME IInv, UNCHANGED errev, NEW x \in Tsx, NEW h \in Tsx,
           Spare(x) = Spare(tsx) + 1, Held(x, h), tsx' = DecRef(h)
    PROVE  Same(h, tsx') /\ Counted'
<1>1. Spare(tsx) = One(errev) /\ One(errev) \in {0, 1}
  BY Balanced
<1>2. Safe(x)
  BY <1>1 DEF Safe
<1>3. Spare(h) = One(errev) + 1
  BY <1>1, <1>2 DEF Held
<1>4. Same(h, tsx') /\ tsx'.refs = h.refs - 1
  BY DecRefEffect
<1>5. tsx' \in Tsx /\ Holders(tsx') = Holders(h)
  BY <1>4, SameHolders DEF Same, SameSends
<1>6. Spare(tsx') = Spare(h) - 1
  BY <1>4, <1>5, HoldersNat DEF Spare, Tsx
<1>7. Spare(tsx') = One(errev')
  BY <1>1, <1>3, <1>6
<1> QED
  BY <1>4, <1>5, <1>7, BalancedAfter

\* Time passes: no timer changes its kind.
LEMMA TickOK == IInv /\ Tick /\ Aside => IInv'
<1> SUFFICES ASSUME IInv, Tick, Aside PROVE IInv'
  OBVIOUS
<1> DEFINE rt == IF tsx.retransmit = None THEN None ELSE tsx.retransmit - 1
           lt == IF tsx.timeout = NoTimer THEN 0 ELSE tsx.timeout.left - 1
<1>1. /\ tsx \in Tsx /\ tsx.timeout \in Timer /\ tsx.retransmit \in 0 .. T2 \cup {None}
      /\ tsx.timeout.id = "inactive" <=> tsx.timeout = NoTimer
      /\ UNCHANGED <<reliable, sender, errev>> /\ Unlocked /\ EventIdle
      /\ tsx.retransmit # 0 /\ ~(tsx.timeout # NoTimer /\ tsx.timeout.left = 0)
  BY DEF IInv, Typed, Tsx, Tick
<1>2. rt \in 0 .. T2 \cup {None} /\ (rt = None <=> tsx.retransmit = None)
  BY <1>1, TimersAssumption DEF None
<1>3. /\ lt \in 0 .. TimerF
      /\ tsx.timeout = NoTimer => lt = 0
  BY <1>1, TimersAssumption DEF Timer
<1>4. tsx' = [tsx EXCEPT !.retransmit = rt, !.timeout.left = lt]
  BY DEF Tick
<1> HIDE DEF rt, lt
<1>5. [tsx.timeout EXCEPT !.left = lt] \in Timer
  BY <1>1, <1>3 DEF Timer
<1>6. /\ tsx' \in Tsx /\ tsx'.state = tsx.state /\ tsx'.code = tsx.code
      /\ tsx'.timeout = [tsx.timeout EXCEPT !.left = lt] /\ tsx'.retransmit = rt
      /\ SameSends(tsx, tsx') /\ SameReport(tsx, tsx') /\ SameGhosts(tsx, tsx')
      /\ tsx'.refs = tsx.refs
  BY <1>1, <1>2, <1>4, <1>5 DEF Tsx, SameSends, SameReport, SameGhosts
<1>7. /\ tsx'.timeout.id = tsx.timeout.id
      /\ tsx'.timeout = NoTimer <=> tsx.timeout = NoTimer
  BY <1>1, <1>3, <1>6 DEF Timer, NoTimer
<1>8. Keeps(tsx')
  BY <1>1, <1>6, <1>7 DEF IInv, Silent, Keeps, SameSends, SameReport, Tsx
<1>9. Sending'
  BY <1>1, <1>6, <1>7 DEF IInv, Sending, Live, SameSends
<1>10. Timing'
  BY <1>1, <1>2, <1>6, <1>7 DEF IInv, Timing, Live, SameSends
<1>11. Codes' /\ Returned' /\ AssertionsHold'
  <2>1. Codes'
    BY <1>1, <1>6 DEF IInv, Codes, SameReport
  <2>2. Returned'
    BY <1>1, <1>6 DEF IInv, Returned, Aside, Unlocked
  <2>3. AssertionsHold'
    BY <1>1, <1>6 DEF IInv, AssertionsHold, SameGhosts
  <2> QED
    BY <2>1, <2>2, <2>3
<1>12. Posted' /\ AlwaysDriven'
  BY <1>1, <1>6, <1>7 DEF IInv, Posted, AlwaysDriven, Running, Live, SameGhosts
<1>13. Schedule'
  <2>1. /\ tsx.count \in Nat /\ tsx.sent \in Nat /\ tsx.timeout.left \in Nat
        /\ tsx'.count = tsx.count /\ Copies(tsx') = Copies(tsx)
    BY <1>1, <1>6 DEF Tsx, Timer, SameSends, Copies
  <2>2. tsx'.timeout.left = lt /\ lt \in Nat
    BY <1>1, <1>3, <1>6 DEF Timer
  <2>3. ASSUME Waiting(tsx') PROVE \E e \in 0 .. TimerF : Since(tsx', e)
    <3>1. tsx.timeout # NoTimer
      BY <1>1, <1>6, <2>3 DEF IInv, AlwaysDriven, Posted, Running, Waiting, EventIdle
    <3>2. lt = tsx.timeout.left - 1
      BY <3>1 DEF lt
    <3>3. PICK e \in 0 .. TimerF : Since(tsx, e)
      BY <1>6, <2>3 DEF IInv, Schedule, Waiting
    <3>4. e + 1 \in 0 .. TimerF /\ (e + 1) + tsx'.timeout.left <= TimerF
      BY <2>1, <2>2, <3>2, <3>3, TimersAssumption DEF Since
    <3>5. \A n \in 0 .. tsx'.count : n <= e + 1 /\ SendTime[n] <= e + 1
      <4> SUFFICES ASSUME NEW n \in 0 .. tsx.count PROVE n <= e + 1 /\ SendTime[n] <= e + 1
        BY <2>1
      <4>1. n <= e /\ SendTime[n] <= e /\ n \in Nat
        BY <3>3 DEF Since
      <4>2. SendTime[n] \in Nat
        BY <4>1, SendTimes, TimersAssumption
      <4> QED
        BY <4>1, <4>2
    <3>6. tsx'.retransmit # None =>
             /\ tsx'.count + 1 <= (e + 1) + tsx'.retransmit
             /\ tsx'.count + 1 <= TimerF => SendTime[tsx'.count + 1] <= (e + 1) + tsx'.retransmit
      <4> SUFFICES ASSUME tsx'.retransmit # None
                   PROVE  /\ tsx.count + 1 <= (e + 1) + tsx'.retransmit
                          /\ tsx.count + 1 <= TimerF => SendTime[tsx.count + 1] <= (e + 1) + tsx'.retransmit
        BY <2>1
      <4>1. tsx.retransmit # None /\ tsx'.retransmit = tsx.retransmit - 1 /\ tsx.retransmit \in Nat
        BY <1>1, <1>2, <1>6 DEF rt
      <4>2. (e + 1) + tsx'.retransmit = e + tsx.retransmit
        BY <4>1
      <4> QED
        BY <3>3, <4>1, <4>2 DEF Since
    <3> QED
      BY <3>4, <3>5, <3>6 DEF Since
  <2>4. Copies(tsx') <= tsx'.count + 1
    BY <2>1 DEF IInv, Schedule
  <2> QED
    BY <1>1, <1>6, <2>1, <2>3, <2>4 DEF IInv, Schedule
<1>14. Counted'
  <2>1. /\ Owned(tsx') = Owned(tsx) /\ tsx'.pending = tsx.pending
        /\ (tsx'.timeout # NoTimer) = (tsx.timeout # NoTimer)
        /\ (tsx'.retransmit # None) = (tsx.retransmit # None)
    BY <1>2, <1>6, <1>7 DEF Owned, SameSends
  <2>2. Holders(tsx') = Holders(tsx)
    BY <2>1 DEF Holders
  <2> QED
    BY <1>1, <1>6, <2>2 DEF IInv, Counted
<1> QED
  BY <1>1, <1>8, <1>9, <1>10, <1>11, <1>12, <1>13, <1>14, ByParts DEF IInv, Typed, Core

\* A posted error is seen, or comes when the transaction is TERMINATED and is lost.
LEMMA TransportErrFiresOK == IInv /\ TransportErrFires /\ Aside => IInv'
<1> SUFFICES ASSUME IInv, TransportErrFires, Aside PROVE IInv'
  OBVIOUS
<1> DEFINE x == TimeoutOff(tsx)
           g == [x EXCEPT !.lost = TRUE]
<1>1. /\ tsx \in Tsx /\ tsx.timeout.id = "TRANSPORT_ERR" /\ tsx.timeout # NoTimer
      /\ UNCHANGED <<reliable, sender>> /\ EventIdle
      /\ errev' = (tsx.state \notin {"TERMINATED", "DESTROYED"})
      /\ ~errev /\ tsx' = IF errev' THEN x ELSE DecRef(g)
  BY DEF IInv, Typed, TransportErrFires, NoTimer, EventIdle
<1>2. errev' \in BOOLEAN /\ (~errev') \in BOOLEAN
  BY <1>1
<1>a. /\ x \in Tsx /\ x.state = tsx.state /\ x.code = tsx.code
      /\ x.timeout = NoTimer /\ x.retransmit = tsx.retransmit
      /\ SameSends(tsx, x) /\ SameReport(tsx, x) /\ SameGhosts(tsx, x)
      /\ Spare(x) = Spare(tsx) + 1
  BY <1>1, TimeoutOffEffect
<1> HIDE DEF x
<1>b. /\ g \in Tsx /\ g.state = x.state /\ g.code = x.code /\ g.lost = TRUE /\ g.asserts = x.asserts
      /\ SameSends(x, g) /\ SameTimers(x, g) /\ SameReport(x, g) /\ g.refs = x.refs
  BY <1>a DEF Tsx, SameSends, SameTimers, SameReport
<1> HIDE DEF g
<1>c. Same(g, DecRef(g)) /\ DecRef(g).refs = g.refs - 1
  BY <1>b, DecRefEffect
<1>3. /\ tsx' \in Tsx /\ tsx'.state = tsx.state /\ tsx'.code = tsx.code
      /\ tsx'.timeout = NoTimer /\ tsx'.retransmit = tsx.retransmit
      /\ SameSends(tsx, tsx') /\ SameReport(tsx, tsx') /\ tsx'.asserts = tsx.asserts
      /\ tsx'.lost = IF errev' THEN tsx.lost ELSE TRUE
  <2>1. CASE errev'
    BY <1>1, <1>a, <2>1 DEF SameGhosts
  <2>2. CASE ~errev'
    BY <1>1, <1>a, <1>b, <1>c, <2>2 DEF Same, SameSends, SameTimers, SameReport, SameGhosts
  <2> QED
    BY <2>1, <2>2
<1>d. Counted'
  <2>1. Spare(tsx) = 0 /\ tsx \in Tsx
    BY <1>1, Balanced DEF One
  <2>2. CASE errev'
    <3>1. Spare(tsx') = One(errev')
      BY <1>1, <1>a, <2>1, <2>2 DEF One
    <3> QED
      BY <1>3, <3>1, BalancedAfter
  <2>3. CASE ~errev'
    <3>1. Holders(g) = Holders(x) /\ Holders(DecRef(g)) = Holders(g)
      BY <1>a, <1>b, <1>c, SameHolders DEF Same, SameSends
    <3>2. Spare(tsx') = Spare(x) - 1
      BY <1>1, <1>a, <1>b, <1>c, <2>3, <3>1, HoldersNat DEF Spare, Tsx
    <3>3. Spare(tsx') = One(errev')
      BY <1>a, <2>1, <2>3, <3>2 DEF One
    <3> QED
      BY <1>3, <3>3, BalancedAfter
  <2> QED
    BY <2>2, <2>3
<1>4. tsx.state \in {"TERMINATED", "DESTROYED"} \/ Live
  BY <1>1, <1>3 DEF IInv, Sending, Live, Tsx, StateNames
<1>5. Keeps(tsx')
  BY <1>1, <1>3 DEF IInv, Silent, Keeps, SameSends, SameReport, Tsx, NoTimer
<1>6. Sending'
  BY <1>1, <1>3 DEF IInv, Sending, Live, SameSends
<1>7. Timing'
  BY <1>1, <1>3 DEF IInv, Timing, Live, SameSends, NoTimer
<1>8. Codes' /\ Returned' /\ AssertionsHold'
  <2>1. Codes'
    BY <1>1, <1>3 DEF IInv, Codes, SameReport
  <2>2. Returned'
    BY <1>1, <1>3 DEF IInv, Returned, Aside, Unlocked
  <2>3. AssertionsHold'
    BY <1>1, <1>3 DEF IInv, AssertionsHold, SameGhosts
  <2> QED
    BY <2>1, <2>2, <2>3
<1>9. Posted' /\ AlwaysDriven'
  BY <1>1, <1>2, <1>3, <1>4 DEF IInv, Posted, AlwaysDriven, Running, Live, EventIdle
<1>10. Schedule'
  <2>1. Copies(tsx') = Copies(tsx) /\ Copies(tsx) \in Nat
    BY <1>1, <1>3 DEF Copies, SameSends, Tsx
  <2>2. tsx'.timeout.left <= tsx.timeout.left
    BY <1>1, <1>3 DEF NoTimer, Tsx, Timer
  <2>3. Slower(tsx, tsx')
    BY <1>3, <2>1, <2>2 DEF Slower, SameSends, Waiting
  <2> QED
    BY <1>1, <1>3, <2>3, SlowerOK
<1> QED
  BY <1>1, <1>2, <1>5, <1>6, <1>7, <1>8, <1>9, <1>10, <1>d, ByParts DEF IInv, Typed, Core

\* The event thread has the lock: whatever happened meanwhile, the transaction has not ended.
LEMMA TransportErrLockedOK == IInv /\ TransportErrLocked /\ Aside => IInv'
<1> SUFFICES ASSUME IInv, TransportErrLocked, Aside PROVE IInv'
  OBVIOUS
<1> DEFINE c == IF tsx.code < 200 THEN 503 ELSE tsx.code
           x == [tsx EXCEPT !.transport = FALSE, !.code = c]
           a == Assert(x, Rank(x.state) <= Rank("TERMINATED"))
           e == [a EXCEPT !.state = "TERMINATED", !.flags = @ \ {"transport"},
                          !.attached = @ /\ "transport" \notin x.flags]
           y == CancelTimeout(e)
           u == mod_util_on_tsx_state(y)
           z == ScheduleTimeout(u, 0, "TIMEOUT")
<1>1. /\ tsx \in Tsx /\ UNCHANGED <<reliable, sender>> /\ Unlocked /\ errev /\ errev' = FALSE
      /\ tsx' = DecRef(ScheduleTimeout(mod_util_on_tsx_state(CancelTimeout(e)), 0, "TIMEOUT"))
  BY DEF IInv, Typed, TransportErrLocked
<1>2. tsx.state \in {"CALLING", "PROCEEDING", "COMPLETED"}
  BY <1>1 DEF IInv, Posted, Live, Unlocked
<1>3. c \in Nat /\ c >= 200 /\ c \in {503, tsx.code} /\ tsx.code \in Nat
  BY <1>1 DEF Tsx
<1> HIDE DEF c
<1>4. /\ x \in Tsx /\ x.state = tsx.state /\ x.code = c /\ x.transport = FALSE
      /\ x.flags = tsx.flags /\ x.attached = tsx.attached /\ x.pending = tsx.pending
      /\ x.sent = tsx.sent /\ x.count = tsx.count /\ SameTimers(tsx, x) /\ SameGhosts(tsx, x) /\ SameReport(tsx, x)
      /\ x.refs = tsx.refs
  BY <1>1, <1>3 DEF Tsx, SameTimers, SameGhosts, SameReport
<1> HIDE DEF x
<1>5. a = x
  <2>1. Rank(x.state) <= Rank("TERMINATED")
    BY <1>2, <1>4, Ranks
  <2>2. (x.asserts /\ Rank(x.state) <= Rank("TERMINATED")) = x.asserts
    BY <1>4, <2>1 DEF Tsx
  <2> QED
    BY <1>4, <2>2 DEF Assert, Tsx
<1> HIDE DEF a
<1>6. /\ x.flags \ {"transport"} \in SUBSET Flags
      /\ (x.attached /\ "transport" \notin x.flags) \in BOOLEAN
  BY <1>4 DEF Tsx
<1>7. /\ e \in Tsx /\ e.state = "TERMINATED" /\ e.code = c /\ e.transport = FALSE
      /\ e.flags = x.flags \ {"transport"}
      /\ e.attached = (x.attached /\ "transport" \notin x.flags) /\ e.pending = x.pending
      /\ e.sent = x.sent /\ e.count = x.count /\ SameTimers(x, e) /\ SameGhosts(x, e) /\ SameReport(x, e)
      /\ e.refs = x.refs
  BY <1>4, <1>5, <1>6 DEF Tsx, StateNames, SameTimers, SameGhosts, SameReport
<1>8. tsx' = DecRef(z)
  BY <1>1
<1> HIDE DEF e
<1>9. /\ y \in Tsx /\ y.state = "TERMINATED" /\ y.code = c
      /\ SameSends(e, y) /\ y.timeout = NoTimer /\ y.retransmit = e.retransmit
      /\ SameGhosts(e, y) /\ SameReport(e, y) /\ Held(e, y)
  BY <1>7, CancelTimeoutEffect
<1> HIDE DEF y
<1>10. /\ u \in Tsx /\ u.state = "TERMINATED" /\ u.code = c /\ u.refs = y.refs
       /\ SameSends(y, u) /\ SameTimers(y, u) /\ SameGhosts(y, u) /\ Reports(y, u)
  BY <1>9, UtilEffect
<1> HIDE DEF u
<1>11. /\ z \in Tsx /\ z.state = "TERMINATED" /\ z.code = c /\ z.timeout = Due
       /\ z.retransmit = u.retransmit
       /\ SameSends(u, z) /\ SameGhosts(u, z) /\ SameReport(u, z) /\ Held(u, z)
  <2>1. u.timeout = NoTimer
    BY <1>9, <1>10 DEF SameTimers
  <2> QED
    BY <1>10, <2>1, TimeoutSet, TimerTypes DEF Due
<1> HIDE DEF z
<1>a. Same(z, tsx') /\ tsx'.refs = z.refs - 1
  BY <1>8, <1>11, DecRefEffect
<1>b. Counted'
  <2>1. Owned(tsx) /\ Owned(e) /\ Owned(y) /\ Owned(u)
    BY <1>2, <1>7, <1>9, <1>10 DEF Owned
  <2>2. Spare(e) = Spare(tsx)
    BY <1>4, <1>7, <2>1 DEF Spare, Holders, SameTimers
  <2>3. Spare(tsx) = 1 /\ Safe(e)
    BY <1>1, <2>1, <2>2, Balanced DEF Safe, One
  <2>4. Held(y, u)
    BY <1>9, <1>10, SameHolders DEF SameSends
  <2>5. Held(e, u)
    BY <1>7, <1>9, <2>1, <2>4, HeldTrans
  <2>6. Held(e, z)
    BY <1>7, <1>10, <1>11, <2>1, <2>5, HeldTrans
  <2>7. Spare(z) = 1
    BY <2>2, <2>3, <2>6 DEF Held
  <2>8. tsx' \in Tsx /\ Holders(tsx') = Holders(z)
    BY <1>11, <1>a, SameHolders DEF Same, SameSends
  <2>9. Spare(tsx') = Spare(z) - 1
    BY <1>11, <1>a, <2>8, HoldersNat DEF Spare, Tsx
  <2>10. Spare(tsx') = One(errev')
    BY <1>1, <2>7, <2>9 DEF One
  <2> QED
    BY <2>8, <2>10, BalancedAfter
<1>12. /\ tsx' \in Tsx /\ tsx'.state = "TERMINATED" /\ tsx'.code = c /\ tsx'.timeout = Due
       /\ tsx'.flags = tsx.flags \ {"transport"} /\ tsx'.transport = FALSE
       /\ tsx'.attached = (tsx.attached /\ "transport" \notin tsx.flags)
       /\ tsx'.pending = tsx.pending /\ tsx'.sent = tsx.sent /\ tsx'.count = tsx.count
       /\ tsx'.retransmit = tsx.retransmit /\ SameGhosts(tsx, tsx')
       /\ IF tsx.armed THEN tsx'.armed = FALSE /\ tsx'.told = c /\ tsx'.calls = tsx.calls + 1
          ELSE SameReport(tsx, tsx')
  <2>1. /\ z.flags = tsx.flags \ {"transport"} /\ z.transport = FALSE
        /\ z.attached = (tsx.attached /\ "transport" \notin tsx.flags)
        /\ z.pending = tsx.pending /\ z.sent = tsx.sent /\ z.count = tsx.count
        /\ z.retransmit = tsx.retransmit /\ SameGhosts(tsx, z)
        /\ IF tsx.armed THEN z.armed = FALSE /\ z.told = c /\ z.calls = tsx.calls + 1
           ELSE SameReport(tsx, z)
    BY <1>3, <1>4, <1>7, <1>9, <1>10, <1>11
       DEF SameSends, SameTimers, SameGhosts, SameReport, Reports
  <2> QED
    BY <1>11, <1>a, <2>1 DEF Same, SameSends, SameTimers, SameGhosts, SameReport
<1>13. Keeps(tsx')
  BY <1>1, <1>2, <1>3, <1>12 DEF IInv, Silent, Codes, Keeps, SameReport, Tsx, NoTimer, Due
<1>14. Sending'
  BY <1>1, <1>2, <1>12 DEF IInv, Sending, Live, Unlocked
<1>15. Timing'
  BY <1>1, <1>2, <1>12 DEF IInv, Timing, Live, Unlocked, Due
<1>16. Codes' /\ Returned' /\ AssertionsHold'
  <2>1. Codes'
    BY <1>1, <1>2, <1>3, <1>12 DEF IInv, Codes, SameReport
  <2>2. Returned'
    BY <1>1, <1>2, <1>3, <1>12 DEF IInv, Returned, Aside, Unlocked
  <2>3. AssertionsHold'
    BY <1>1, <1>2, <1>3, <1>12 DEF IInv, AssertionsHold, SameGhosts
  <2> QED
    BY <2>1, <2>2, <2>3
<1>17. Posted' /\ AlwaysDriven'
  BY <1>1, <1>2, <1>12 DEF IInv, Posted, AlwaysDriven, Running, SameGhosts, Due, NoTimer
<1>18. Schedule'
  <2>1. Copies(tsx') = Copies(tsx) /\ Copies(tsx) \in Nat
    BY <1>1, <1>12 DEF Copies, Tsx
  <2>2. Slower(tsx, tsx')
    BY <1>12, <2>1 DEF Slower, Waiting
  <2> QED
    BY <1>1, <1>12, <2>2, SlowerOK
<1> QED
  BY <1>1, <1>13, <1>14, <1>15, <1>16, <1>17, <1>18, <1>b, ByParts DEF IInv, Typed, Core

\* PostError
Posts(x, y) ==
    /\ y \in Tsx /\ y.state = x.state /\ y.code = x.code
    /\ y.timeout = [id |-> "TRANSPORT_ERR", left |-> 0] /\ y.retransmit = x.retransmit
    /\ SameSends(x, y) /\ SameReport(x, y) /\ SameGhosts(x, y) /\ Held(x, y)

LEMMA PostErrorEffect == ASSUME NEW x \in Tsx PROVE Posts(x, PostError(x))
BY RearmEffect, TimerTypes DEF PostError, Posts

\* A transport error is posted: it takes the place of the timer there is.
LEMMA PostErrorOK ==
    ASSUME IInv, Aside, NEW x \in Tsx, Same(PostError(x), tsx'), Counted',
           x.state = tsx.state, x.code = tsx.code, x.retransmit = tsx.retransmit,
           SameReport(tsx, x), SameGhosts(tsx, x), x.count = tsx.count, Copies(x) <= Copies(tsx),
           x.sent = tsx.sent, x.transport = tsx.transport, x.attached = tsx.attached,
           \/ x.pending = tsx.pending /\ x.flags = tsx.flags
           \/ tsx.pending = "again" /\ x.pending = "none" /\ x.flags = tsx.flags \ {"transport"},
           tsx.state # "none", tsx.state = "NULL" => sender # "nobody",
           UNCHANGED <<reliable, sender, errev>>, ~errev
    PROVE  IInv'
<1> DEFINE P == [id |-> "TRANSPORT_ERR", left |-> 0]
<1>1. /\ tsx' \in Tsx /\ tsx'.state = x.state /\ tsx'.code = x.code
      /\ tsx'.timeout = P /\ tsx'.retransmit = x.retransmit
      /\ SameSends(x, tsx') /\ SameReport(x, tsx') /\ SameGhosts(x, tsx')
  BY PostErrorEffect DEF Posts, Same, SameSends, SameTimers, SameReport, SameGhosts
<1>2. P.id = "TRANSPORT_ERR" /\ P.left = 0 /\ P # NoTimer
  BY DEF NoTimer
<1> HIDE DEF P
<1>3. Keeps(tsx')
  BY <1>1, <1>2 DEF IInv, Silent, Keeps, SameSends, SameReport, Tsx
<1>4. Sending'
  BY <1>1 DEF IInv, Sending, Live, SameSends
<1>5. Timing'
  BY <1>1, <1>2 DEF IInv, Timing, Live, SameSends
<1>6. Codes' /\ Returned' /\ AssertionsHold'
  <2>1. Codes'
    BY <1>1 DEF IInv, Codes, SameReport
  <2>2. Returned'
    BY <1>1 DEF IInv, Returned, Aside, Unlocked
  <2>3. AssertionsHold'
    BY <1>1 DEF IInv, AssertionsHold, SameGhosts
  <2> QED
    BY <2>1, <2>2, <2>3
<1>7. Posted' /\ AlwaysDriven'
  BY <1>1, <1>2 DEF IInv, Posted, AlwaysDriven, Running, SameGhosts
<1>8. Schedule'
  <2>1. Copies(tsx') = Copies(x)
    BY <1>1 DEF Copies, SameSends
  <2>2. tsx'.timeout.left <= tsx.timeout.left
    BY <1>1, <1>2 DEF IInv, Typed, Tsx, Timer
  <2>3. Slower(tsx, tsx')
    BY <1>1, <2>1, <2>2 DEF Slower, SameSends, Waiting
  <2> QED
    BY <1>1, <2>3, SlowerOK
<1> QED
  BY <1>1, <1>3, <1>4, <1>5, <1>6, <1>7, <1>8, ByParts DEF IInv, Typed, Core

\* A connection is lost while the transaction holds its transport.
LEMMA DisconnectedOK == IInv /\ Disconnected /\ Aside => IInv'
<1> SUFFICES ASSUME IInv, Disconnected, Aside PROVE IInv'
  OBVIOUS
<1>1. /\ tsx \in Tsx /\ tsx' = PostError(tsx) /\ ~errev /\ tsx.transport
      /\ UNCHANGED <<reliable, sender, errev>>
  BY DEF IInv, Typed, Disconnected, EventIdle
<1>2. tsx.state # "none" /\ (tsx.state = "NULL" => sender # "nobody")
  BY <1>1 DEF IInv, Sending
<1>3. Copies(tsx) <= Copies(tsx)
  BY <1>1 DEF Copies, Tsx
<1>4. Posts(tsx, tsx')
  BY <1>1, PostErrorEffect
<1>5. Counted'
  <2>1. Owned(tsx)
    BY <1>1 DEF IInv, Sending, Owned
  <2> QED
    BY <1>1, <1>4, <2>1, Kept DEF Posts
<1>6. Same(PostError(tsx), tsx')
  BY <1>1, <1>4 DEF Posts, Same, SameSends, SameTimers, SameReport, SameGhosts
<1> QED
  BY <1>1, <1>2, <1>3, <1>5, <1>6, PostErrorOK DEF SameReport, SameGhosts

\* A send over the known transport is finished.
LEMMA TransportCallbackOK ==
    ASSUME IInv, NEW ok \in BOOLEAN, transport_callback(ok), Aside
    PROVE  IInv'
<1> DEFINE x == [tsx EXCEPT !.pending = "none", !.flags = @ \ {"transport"}]
           g == [x EXCEPT !.sent = @ + 1]
<1>1. /\ tsx \in Tsx /\ Unlocked /\ EventIdle /\ tsx.pending = "again"
      /\ UNCHANGED <<reliable, sender, errev>>
      /\ tsx' = DecRef(IF ok THEN g ELSE PostError(x))
  BY DEF IInv, Typed, transport_callback
<1>2. tsx.flags \ {"transport"} \in SUBSET Flags
  BY <1>1 DEF Tsx
<1>3. /\ x \in Tsx /\ x.state = tsx.state /\ x.code = tsx.code /\ SameTimers(tsx, x)
      /\ SameReport(tsx, x) /\ SameGhosts(tsx, x) /\ x.sent = tsx.sent /\ x.count = tsx.count
      /\ x.transport = tsx.transport /\ x.attached = tsx.attached /\ x.pending = "none"
      /\ x.flags = tsx.flags \ {"transport"} /\ x.refs = tsx.refs
  BY <1>1, <1>2 DEF Tsx, SameTimers, SameReport, SameGhosts
<1> HIDE DEF x
<1>a. Spare(x) = Spare(tsx) + 1
  <2>1. /\ Owned(x) = Owned(tsx) /\ x.timeout = tsx.timeout /\ x.retransmit = tsx.retransmit
        /\ x.pending = "none" /\ tsx.pending # "none"
    BY <1>1, <1>3 DEF Owned, SameTimers
  <2>2. Holders(tsx) = Holders(x) + 1
    BY <2>1 DEF Holders, One
  <2> QED
    BY <1>1, <1>3, <2>2, HoldersNat DEF Spare, Tsx
<1>4. tsx.state # "none" /\ tsx.state # "NULL"
  BY <1>1 DEF IInv, Sending, Unlocked
<1>5. CASE ~ok
  <2>1. Copies(x) <= Copies(tsx)
    BY <1>1, <1>3 DEF Copies, Tsx
  <2>2. Posts(x, PostError(x)) /\ tsx' = DecRef(PostError(x))
    BY <1>1, <1>3, <1>5, PostErrorEffect
  <2>3. Same(PostError(x), tsx') /\ Counted'
    BY <1>1, <1>3, <1>a, <2>2, Handled DEF Posts
  <2> QED
    BY <1>1, <1>3, <1>4, <1>5, <2>1, <2>3, PostErrorOK DEF EventIdle, SameTimers
<1>6. CASE ok
  <2>1. x.sent + 1 \in Nat
    BY <1>3 DEF Tsx
  <2>2. /\ tsx' \in Tsx /\ tsx'.state = x.state /\ tsx'.code = x.code /\ SameTimers(x, tsx')
        /\ SameReport(x, tsx') /\ SameGhosts(x, tsx') /\ tsx'.sent = x.sent + 1
        /\ tsx'.count = x.count
        /\ tsx'.transport = x.transport /\ tsx'.attached = x.attached /\ tsx'.pending = x.pending
        /\ tsx'.flags = x.flags /\ Counted'
    <3>1. /\ g \in Tsx /\ g.state = x.state /\ g.code = x.code /\ SameTimers(x, g)
          /\ SameReport(x, g) /\ SameGhosts(x, g) /\ g.sent = x.sent + 1 /\ g.count = x.count
          /\ g.transport = x.transport /\ g.attached = x.attached /\ g.pending = x.pending
          /\ g.flags = x.flags /\ g.refs = x.refs
      BY <1>3, <2>1 DEF Tsx, SameTimers, SameReport, SameGhosts
    <3>2. tsx' = DecRef(g)
      BY <1>1, <1>6
    <3> HIDE DEF g
    <3>3. Held(x, g)
      BY <1>3, <3>1, SameHolders
    <3>4. Same(g, tsx') /\ Counted'
      BY <1>1, <1>3, <1>a, <3>1, <3>2, <3>3, Handled
    <3> QED
      BY <3>1, <3>4 DEF Same, SameSends, SameTimers, SameReport, SameGhosts
  <2>3. Keeps(tsx')
    BY <1>1, <1>3, <2>2 DEF IInv, Typed, Keeps, SameTimers, SameReport
  <2>4. Sending'
    BY <1>1, <1>3, <1>4, <2>2 DEF IInv, Sending, Live, Unlocked
  <2>5. Timing'
    BY <1>1, <1>3, <1>4, <2>2 DEF IInv, Timing, Live, Unlocked, SameTimers
  <2>6. Codes' /\ Returned' /\ AssertionsHold'
    <3>1. Codes'
      BY <1>1, <1>3, <2>2 DEF IInv, Codes, SameReport
    <3>2. Returned'
      BY <1>1, <1>3, <2>2 DEF IInv, Returned, Aside, Unlocked
    <3>3. AssertionsHold'
      BY <1>1, <1>3, <2>2 DEF IInv, AssertionsHold, SameGhosts
    <3> QED
      BY <3>1, <3>2, <3>3
  <2>7. Posted' /\ AlwaysDriven'
    BY <1>1, <1>3, <2>2 DEF IInv, Posted, AlwaysDriven, Running, Live, SameGhosts, SameTimers
  <2>8. Schedule'
    <3>1. Copies(tsx') <= Copies(tsx)
      BY <1>1, <1>3, <2>2 DEF Copies, Tsx
    <3>2. tsx'.timeout.left <= tsx.timeout.left
      BY <1>1, <1>3, <2>2 DEF SameTimers, Tsx, Timer
    <3>3. Slower(tsx, tsx')
      BY <1>3, <2>2, <3>1, <3>2 DEF Slower, Waiting, SameTimers
    <3> QED
      BY <1>1, <2>2, <3>3, SlowerOK
  <2> QED
    BY <1>1, <2>2, <2>3, <2>4, <2>5, <2>6, <2>7, <2>8, ByParts DEF IInv, Typed, Core
<1> QED
  BY <1>5, <1>6

\* The transaction fails: TERMINATED, and the callback is told 408 or 503.
LEMMA FailsOK ==
    ASSUME IInv, Aside, UNCHANGED <<reliable, sender, errev>>, Unlocked, EventIdle,
           tsx.state \in {"CALLING", "PROCEEDING"},
           tsx' \in Tsx, tsx'.state = "TERMINATED", tsx'.code \in {408, 503},
           "transport" \notin tsx'.flags, ~tsx'.attached, tsx'.timeout = Due,
           tsx'.pending = "first" => tsx.pending = "first" /\ tsx'.sent = tsx.sent,
           reliable => tsx'.retransmit = None,
           tsx'.armed = FALSE, tsx'.told = tsx'.code, tsx'.calls = tsx.calls + 1,
           SameGhosts(tsx, tsx'), Schedule', Counted'
    PROVE  IInv'
<1>1. Keeps(tsx')
  BY DEF IInv, Typed, Keeps, Due, NoTimer, Tsx
<1>2. Sending'
  BY DEF Sending, Live, Unlocked
<1>3. Timing'
  BY DEF Timing, Live, Unlocked, Due
<1>4. Codes'
  BY DEF IInv, Codes, SIP_FORBIDDEN
<1>5. Returned'
  BY DEF IInv, Returned, Aside, Unlocked
<1>6. AssertionsHold'
  BY DEF IInv, AssertionsHold, SameGhosts
<1>7. Posted' /\ AlwaysDriven'
  BY DEF IInv, Posted, AlwaysDriven, Running, SameGhosts, EventIdle, Due, NoTimer
<1> QED
  BY <1>1, <1>2, <1>3, <1>4, <1>5, <1>6, <1>7, ByParts DEF IInv, Typed, Core

\* The transaction is destroyed by a timer, of either kind.
LEMMA DestroysOK ==
    ASSUME IInv, Aside, UNCHANGED <<reliable, sender, errev>>, Unlocked, EventIdle,
           tsx.state = "TERMINATED", NEW x \in Tsx, x.state = tsx.state, SameSends(tsx, x),
           SameReport(tsx, x), SameGhosts(tsx, x), Spare(x) = Spare(tsx) + 1,
           tsx' = DecRef(tsx_set_state(x, "DESTROYED"))
    PROVE  IInv'
<1>1. ~x.armed
  BY DEF IInv, Codes, SameReport
<1> DEFINE h == tsx_set_state(x, "DESTROYED")
<1>a. /\ h \in Tsx /\ h.state = "DESTROYED" /\ h.code = 0 /\ h.sent = 0 /\ h.count = 0
      /\ h.flags = x.flags \ {"resched", "send"} /\ h.transport = FALSE
      /\ h.pending = x.pending /\ h.attached = x.attached
      /\ h.timeout = NoTimer /\ h.retransmit = None
      /\ SameGhosts(x, h) /\ SameReport(x, h) /\ Held(x, h)
  BY <1>1, DestroyedEffect
<1>b. tsx' = DecRef(h)
  OBVIOUS
<1> HIDE DEF h
<1>c. Same(h, tsx') /\ Counted'
  BY <1>a, <1>b, Handled
<1>2. /\ tsx' \in Tsx /\ tsx'.state = "DESTROYED" /\ tsx'.code = 0 /\ tsx'.sent = 0 /\ tsx'.count = 0
      /\ tsx'.flags = x.flags \ {"resched", "send"} /\ tsx'.transport = FALSE
      /\ tsx'.pending = x.pending /\ tsx'.attached = x.attached
      /\ tsx'.timeout = NoTimer /\ tsx'.retransmit = None
      /\ SameGhosts(x, tsx') /\ SameReport(x, tsx')
  BY <1>a, <1>c DEF Same, SameSends, SameTimers, SameGhosts, SameReport
<1>3. /\ SameGhosts(tsx, tsx') /\ SameReport(tsx, tsx')
      /\ tsx'.pending = tsx.pending /\ tsx'.attached = tsx.attached
      /\ tsx'.flags = tsx.flags \ {"resched", "send"}
  BY <1>2 DEF SameSends, SameGhosts, SameReport
<1>4. Keeps(tsx')
  BY <1>2, <1>3 DEF IInv, Typed, Keeps, NoTimer, Tsx, SameReport
<1>5. Sending'
  BY <1>2, <1>3 DEF IInv, Sending, Live, Unlocked
<1>6. Timing'
  BY <1>2, <1>3 DEF Timing, Live, Unlocked, NoTimer
<1>7. Codes'
  BY <1>2, <1>3 DEF IInv, Codes, SameReport
<1>8. Returned'
  BY <1>2 DEF IInv, Returned, Aside, Unlocked
<1>9. AssertionsHold'
  BY <1>3 DEF IInv, AssertionsHold, SameGhosts
<1>10. Posted' /\ AlwaysDriven'
  BY <1>2, <1>3 DEF IInv, Posted, AlwaysDriven, Running, SameGhosts, EventIdle
<1>11. Schedule'
  BY <1>2, UnrepeatedOK DEF Unrepeated, Copies, Waiting
<1> QED
  BY <1>4, <1>5, <1>6, <1>7, <1>8, <1>9, <1>10, <1>11, <1>c, ByParts DEF IInv, Typed, Core

\* Timer F, timer K or the timer of 0, by the state it finds.
LEMMA TimeoutFiresOK == IInv /\ TimeoutFires /\ Aside => IInv'
<1> SUFFICES ASSUME IInv, TimeoutFires, Aside PROVE IInv'
  OBVIOUS
<1> DEFINE x == TimeoutOff(tsx)
           h == on_timeout(x)
<1>1. /\ tsx \in Tsx /\ Unlocked /\ EventIdle
      /\ tsx.timeout.id = "TIMEOUT" /\ tsx.timeout # NoTimer
      /\ UNCHANGED <<reliable, sender, errev>> /\ tsx' = DecRef(h)
  BY DEF IInv, Typed, TimeoutFires, NoTimer
<1>2. /\ x \in Tsx /\ x.state = tsx.state /\ x.code = tsx.code /\ x.retransmit = tsx.retransmit
      /\ SameSends(tsx, x) /\ SameReport(tsx, x) /\ SameGhosts(tsx, x)
      /\ Spare(x) = Spare(tsx) + 1
  BY <1>1, TimeoutOffEffect
<1> HIDE DEF x
<1>3. tsx.state \in {"CALLING", "PROCEEDING", "COMPLETED", "TERMINATED"}
  BY <1>1 DEF IInv, Timing, Tsx, StateNames
<1>4. CASE tsx.state = "CALLING"
  <2> DEFINE f == [x EXCEPT !.flags = @ \ {"resched"}]
             c == CancelRetransmit(f)
  <2>1. h = Fail(c, 408)
    BY <1>2, <1>4 DEF on_timeout
  <2>2. x.flags \ {"resched"} \in SUBSET Flags
    BY <1>2 DEF Tsx
  <2>a. /\ f \in Tsx /\ f.state = x.state /\ f.flags = x.flags \ {"resched"}
        /\ f.pending = x.pending /\ f.attached = x.attached /\ f.sent = x.sent /\ f.count = x.count
        /\ SameTimers(x, f) /\ SameReport(x, f) /\ SameGhosts(x, f) /\ f.refs = x.refs
    BY <1>2, <2>2 DEF Tsx, SameTimers, SameReport, SameGhosts
  <2> HIDE DEF f
  <2>b. Held(x, f)
    BY <1>2, <2>a, SameHolders
  <2>c. /\ c \in Tsx /\ c.state = f.state /\ c.retransmit = None
        /\ SameSends(f, c) /\ SameReport(f, c) /\ SameGhosts(f, c) /\ Held(f, c)
    BY <2>a, CancelRetransmitEffect
  <2> HIDE DEF c
  <2>3. /\ c.state = tsx.state
        /\ c.flags = tsx.flags \ {"resched"} /\ c.pending = tsx.pending
        /\ c.attached = tsx.attached /\ c.sent = tsx.sent /\ c.count = tsx.count
        /\ SameReport(tsx, c) /\ SameGhosts(tsx, c)
    BY <1>2, <2>a, <2>c DEF SameSends, SameReport, SameGhosts
  <2>4. c.armed /\ Owned(c) /\ Owned(f)
    BY <1>2, <1>4, <2>3, <2>a DEF IInv, Codes, SameReport, Owned
  <2>d. Fails(c, h, 408) /\ Held(c, h)
    BY <2>1, <2>4, <2>c, FailEffect
  <2> HIDE DEF h
  <2>e. Held(x, h)
    <3>1. Held(x, c)
      BY <1>2, <2>4, <2>a, <2>b, <2>c, HeldTrans
    <3> QED
      BY <1>2, <2>4, <2>c, <2>d, <3>1, HeldTrans
  <2>f. Same(h, tsx') /\ Counted'
    BY <1>1, <1>2, <2>d, <2>e, Handled DEF Fails
  <2>5. Fails(c, tsx', 408)
    BY <2>d, <2>f, Released
  <2>6. tsx.attached => "transport" \in tsx.flags
    BY <1>4 DEF IInv, Sending, Live
  <2>7. /\ tsx' \in Tsx /\ tsx'.state = "TERMINATED" /\ tsx'.code \in {408, 503}
        /\ "transport" \notin tsx'.flags /\ ~tsx'.attached /\ tsx'.timeout = Due
        /\ tsx'.pending = "first" => tsx.pending = "first" /\ tsx'.sent = tsx.sent
        /\ reliable => tsx'.retransmit = None
        /\ tsx'.armed = FALSE /\ tsx'.told = tsx'.code /\ tsx'.calls = tsx.calls + 1
        /\ SameGhosts(tsx, tsx')
    <3>1. SameGhosts(tsx, tsx')
      BY <2>3, <2>5 DEF Fails, SameGhosts
    <3>2. tsx'.armed = FALSE /\ tsx'.told = tsx'.code /\ tsx'.calls = tsx.calls + 1
      BY <2>3, <2>5 DEF Fails, SameReport
    <3>3. "transport" \notin tsx'.flags /\ ~tsx'.attached
      BY <2>3, <2>5, <2>6 DEF Fails
    <3> QED
      BY <2>3, <2>5, <2>c, <3>1, <3>2, <3>3 DEF Fails
  <2>8. Schedule'
    <3>1. Copies(tsx') = Copies(tsx) /\ Copies(tsx) \in Nat
      BY <1>1, <2>3, <2>5 DEF Copies, Fails, Tsx
    <3>2. Slower(tsx, tsx')
      BY <2>3, <2>5, <3>1 DEF Slower, Fails, Waiting
    <3> QED
      BY <1>1, <2>7, <3>2, SlowerOK
  <2> QED
    BY <1>1, <1>4, <2>7, <2>8, <2>f, FailsOK
<1>5. CASE tsx.state = "PROCEEDING"
  <2>1. h = Fail(x, 408)
    BY <1>2, <1>5 DEF on_timeout
  <2>2. x.armed /\ Owned(x)
    BY <1>2, <1>5 DEF IInv, Codes, SameReport, Owned
  <2>a. Fails(x, h, 408) /\ Held(x, h)
    BY <1>2, <2>1, <2>2, FailEffect
  <2> HIDE DEF h
  <2>b. Same(h, tsx') /\ Counted'
    BY <1>1, <1>2, <2>a, Handled DEF Fails
  <2>3. Fails(x, tsx', 408)
    BY <2>a, <2>b, Released
  <2>4. /\ tsx.attached => "transport" \in tsx.flags
        /\ reliable => tsx.retransmit = None
    BY <1>5 DEF IInv, Sending, Timing, Live
  <2>5. /\ tsx' \in Tsx /\ tsx'.state = "TERMINATED" /\ tsx'.code \in {408, 503}
        /\ "transport" \notin tsx'.flags /\ ~tsx'.attached /\ tsx'.timeout = Due
        /\ tsx'.pending = "first" => tsx.pending = "first" /\ tsx'.sent = tsx.sent
        /\ reliable => tsx'.retransmit = None
        /\ tsx'.armed = FALSE /\ tsx'.told = tsx'.code /\ tsx'.calls = tsx.calls + 1
        /\ SameGhosts(tsx, tsx')
    <3>1. /\ x.flags = tsx.flags /\ x.attached = tsx.attached /\ x.pending = tsx.pending
          /\ x.sent = tsx.sent /\ x.calls = tsx.calls
      BY <1>2 DEF SameSends, SameReport
    <3>2. ~tsx'.attached
      BY <2>3, <2>4, <3>1 DEF Fails
    <3>3. SameGhosts(tsx, tsx')
      BY <1>2, <2>3 DEF Fails, SameGhosts
    <3> QED
      BY <1>2, <2>3, <2>4, <3>1, <3>2, <3>3 DEF Fails
  <2>6. Schedule'
    <3>1. Copies(tsx') = Copies(tsx) /\ Copies(tsx) \in Nat
      BY <1>1, <1>2, <2>3 DEF Copies, Fails, SameSends, Tsx
    <3>2. Slower(tsx, tsx')
      BY <1>2, <2>3, <3>1 DEF Slower, Fails, SameSends, Waiting
    <3> QED
      BY <1>1, <2>5, <3>2, SlowerOK
  <2> QED
    BY <1>1, <1>5, <2>5, <2>6, <2>b, FailsOK
<1>6. CASE tsx.state = "COMPLETED"
  <2>1. h = tsx_set_state(x, "TERMINATED")
    BY <1>2, <1>6 DEF on_timeout
  <2>a. Ends(x, h) /\ Held(x, h)
    BY <1>2, <1>6, <2>1, TerminatedEffect DEF Owned
  <2> HIDE DEF h
  <2>b. Same(h, tsx') /\ Counted'
    BY <1>1, <1>2, <2>a, Handled DEF Ends
  <2>2. Ends(x, tsx')
    BY <2>a, <2>b, Released
  <2>3. ~tsx.armed /\ tsx.code \in {200, SIP_FORBIDDEN} /\ tsx.calls = 1
    BY <1>6 DEF IInv, Codes
  <2>4. /\ tsx'.state = "TERMINATED" /\ tsx'.code = tsx.code /\ SameReport(tsx, tsx')
        /\ tsx' \in Tsx /\ tsx'.timeout = Due /\ tsx'.retransmit = tsx.retransmit
        /\ tsx'.flags = tsx.flags \ {"transport"} /\ tsx'.pending = tsx.pending
        /\ tsx'.attached = (tsx.attached /\ "transport" \notin tsx.flags)
        /\ tsx'.sent = tsx.sent /\ tsx'.count = tsx.count /\ SameGhosts(tsx, tsx')
    BY <1>2, <2>2, <2>3 DEF Ends, Reports, SameSends, SameReport, SameGhosts
  <2>5. Keeps(tsx')
    BY <1>6, <2>4 DEF IInv, Silent, Keeps, Due, NoTimer, Tsx, SameReport
  <2>6. Sending'
    BY <1>1, <1>6, <2>4 DEF IInv, Sending, Live, Unlocked
  <2>7. Timing'
    BY <1>1, <1>6, <2>4 DEF IInv, Timing, Live, Unlocked, Due
  <2>8. Codes'
    BY <2>3, <2>4 DEF Codes, SameReport, SIP_FORBIDDEN
  <2>9. Returned'
    BY <1>1, <1>6, <2>4 DEF IInv, Returned, Aside, Unlocked
  <2>10. AssertionsHold'
    BY <2>4 DEF IInv, AssertionsHold, SameGhosts
  <2>11. Posted' /\ AlwaysDriven'
    BY <1>1, <2>4 DEF IInv, Posted, AlwaysDriven, Running, SameGhosts, EventIdle, Due, NoTimer
  <2>12. Schedule'
    <3>1. Copies(tsx') = Copies(tsx) /\ Copies(tsx) \in Nat
      BY <1>1, <2>4 DEF Copies, Tsx
    <3>2. Slower(tsx, tsx')
      BY <2>4, <3>1 DEF Slower, Waiting
    <3> QED
      BY <1>1, <2>4, <3>2, SlowerOK
  <2> QED
    BY <1>1, <2>5, <2>6, <2>7, <2>8, <2>9, <2>10, <2>11, <2>12, <2>b, ByParts DEF IInv, Typed, Core
<1>7. CASE tsx.state = "TERMINATED"
  <2>1. tsx' = DecRef(tsx_set_state(x, "DESTROYED"))
    BY <1>1, <1>2, <1>7 DEF on_timeout
  <2> QED
    BY <1>1, <1>2, <1>7, <2>1, DestroysOK DEF SameSends, SameReport, SameGhosts
<1> QED
  BY <1>3, <1>4, <1>5, <1>6, <1>7

\* The transaction goes on, with its first send finished.
LEMMA GoesOnOK ==
    ASSUME IInv, Aside, UNCHANGED <<reliable, sender, errev>>, Unlocked, EventIdle,
           tsx.state \in {"CALLING", "PROCEEDING"},
           tsx' \in Tsx, tsx'.state = tsx.state, tsx'.code = tsx.code, tsx'.timeout = tsx.timeout,
           SameReport(tsx, tsx'), SameGhosts(tsx, tsx'),
           tsx'.pending # "first", tsx'.pending # "none" <=> "transport" \in tsx'.flags,
           ~tsx'.attached, tsx'.transport, "resolved" \in tsx'.flags,
           reliable => tsx'.retransmit = None,
           "resched" \in tsx'.flags => tsx'.retransmit = None, Schedule', Counted'
    PROVE  IInv'
<1>1. Keeps(tsx')
  BY DEF IInv, Typed, Keeps, SameReport
<1>2. Sending'
  BY DEF Sending, Live, Unlocked
<1>3. Timing'
  BY DEF Timing, Live
<1>4. Codes'
  BY DEF IInv, Codes, SameReport
<1>5. Returned'
  BY DEF IInv, Returned, Aside, Unlocked
<1>6. AssertionsHold'
  BY DEF IInv, AssertionsHold, SameGhosts
<1>7. Posted' /\ AlwaysDriven'
  BY DEF IInv, Posted, AlwaysDriven, Running, SameGhosts, EventIdle
<1> QED
  BY <1>1, <1>2, <1>3, <1>4, <1>5, <1>6, <1>7, ByParts DEF IInv, Typed, Core

\* Timer E: the request is sent again, or put off while a send is under way.
LEMMA RetransmitFiresOK ==
    ASSUME IInv, NEW out \in Outcomes, RetransmitFires(out), Aside
    PROVE  IInv'
<1> DEFINE x == RetransmitOff(tsx)
           h == on_retransmit(x, out)
<1>1. /\ tsx \in Tsx /\ Unlocked /\ EventIdle /\ tsx.retransmit = 0 /\ 0 # None
      /\ UNCHANGED <<reliable, sender, errev>> /\ tsx' = DecRef(h)
  BY DEF IInv, Typed, RetransmitFires, None
<1>2. /\ x \in Tsx /\ x.state = tsx.state /\ x.code = tsx.code /\ x.retransmit = None
      /\ x.timeout = tsx.timeout
      /\ SameSends(tsx, x) /\ SameReport(tsx, x) /\ SameGhosts(tsx, x)
      /\ Spare(x) = Spare(tsx) + 1
  BY <1>1, RetransmitOffEffect
<1> HIDE DEF x
<1>3. tsx.state \in {"CALLING", "PROCEEDING", "TERMINATED"} /\ ~reliable
  BY <1>1 DEF IInv, Timing, Typed, Tsx, StateNames
<1>4. CASE tsx.state = "TERMINATED"
  <2>1. tsx' = DecRef(tsx_set_state(x, "DESTROYED"))
    BY <1>1, <1>2, <1>4 DEF on_retransmit
  <2> QED
    BY <1>1, <1>2, <1>4, <2>1, DestroysOK
<1>5. CASE tsx.state \in {"CALLING", "PROCEEDING"}
  <2> DEFINE y == [x EXCEPT !.count = @ + 1]
             r == [y EXCEPT !.flags = @ \cup {"resched"}]
             z == IF "transport" \in y.flags THEN r ELSE tsx_resched_retransmission(y)
  <2>1. h = tsx_send_msg(z, out)
    BY <1>2, <1>5 DEF on_retransmit, tsx_retransmit
  <2> HIDE DEF h
  <2>2. x.count + 1 \in Nat
    BY <1>2 DEF Tsx
  <2>3. /\ y \in Tsx /\ y.state = x.state /\ y.code = x.code /\ y.flags = x.flags
        /\ y.transport = x.transport /\ y.pending = x.pending /\ y.attached = x.attached
        /\ y.sent = x.sent /\ y.count = x.count + 1 /\ SameTimers(x, y) /\ SameReport(x, y) /\ SameGhosts(x, y)
        /\ y.refs = x.refs
    BY <1>2, <2>2 DEF Tsx, SameTimers, SameReport, SameGhosts
  <2> HIDE DEF y
  <2>a. Held(x, y) /\ Owned(y)
    BY <1>2, <1>5, <2>3, SameHolders DEF Owned
  <2>4. /\ y.state = tsx.state /\ y.code = tsx.code /\ y.flags = tsx.flags
        /\ y.transport = tsx.transport /\ y.pending = tsx.pending /\ y.attached = tsx.attached
        /\ y.sent = tsx.sent /\ y.count = tsx.count + 1
        /\ y.retransmit = None /\ y.timeout = tsx.timeout
        /\ SameReport(tsx, y) /\ SameGhosts(tsx, y)
    BY <1>2, <2>3 DEF SameSends, SameTimers, SameReport, SameGhosts
  <2>5. /\ tsx.pending # "first" /\ (tsx.pending # "none" <=> "transport" \in tsx.flags)
        /\ ~tsx.attached /\ tsx.transport /\ "resolved" \in tsx.flags
        /\ tsx.code < 200 /\ tsx.armed
    BY <1>1, <1>5 DEF IInv, Sending, Timing, Codes, Live
  <2>6. CASE "transport" \in tsx.flags
    <3> DEFINE s == [z EXCEPT !.flags = @ \cup {"send"}]
    <3>1. tsx.flags \cup {"resched"} \in SUBSET Flags /\ tsx.flags \cup {"resched", "send"} \in SUBSET Flags
      BY <1>1 DEF Tsx, Flags
    <3>2. z = r
      BY <2>4, <2>6
    <3>3. /\ r \in Tsx /\ r.state = y.state /\ r.code = y.code /\ r.timeout = y.timeout
          /\ r.retransmit = y.retransmit /\ r.flags = y.flags \cup {"resched"}
          /\ r.transport = y.transport /\ r.pending = y.pending /\ r.attached = y.attached
          /\ r.sent = y.sent /\ r.count = y.count /\ r.refs = y.refs
          /\ SameReport(y, r) /\ SameGhosts(y, r)
      BY <2>3, <2>4, <3>1 DEF Tsx, SameReport, SameGhosts
    <3> HIDE DEF r, z
    <3>4. h = s
      BY <2>1, <2>4, <2>6, <3>2, <3>3 DEF tsx_send_msg
    <3>5. z.flags \cup {"send"} \in SUBSET Flags
      BY <2>4, <3>1, <3>2, <3>3
    <3>6. /\ s \in Tsx /\ s.state = z.state /\ s.code = z.code /\ s.timeout = z.timeout
          /\ s.retransmit = z.retransmit /\ s.flags = z.flags \cup {"send"}
          /\ s.transport = z.transport /\ s.pending = z.pending /\ s.attached = z.attached
          /\ s.sent = z.sent /\ s.count = z.count /\ s.refs = z.refs
          /\ SameReport(z, s) /\ SameGhosts(z, s)
      BY <3>2, <3>3, <3>5 DEF Tsx, SameReport, SameGhosts
    <3> HIDE DEF s
    <3>a. Held(y, s)
      <4>1. /\ s.state = y.state /\ SameTimers(y, s) /\ s.pending = y.pending /\ s.refs = y.refs
        BY <3>2, <3>3, <3>6 DEF SameTimers
      <4> QED
        BY <2>3, <3>6, <4>1, SameHolders
    <3>b. Held(x, h) /\ h \in Tsx
      BY <1>2, <2>3, <2>a, <3>4, <3>6, <3>a, HeldTrans
    <3>c. Same(h, tsx') /\ Counted'
      BY <1>1, <1>2, <3>b, Handled
    <3>7. /\ tsx' \in Tsx /\ tsx'.state = tsx.state /\ tsx'.code = tsx.code
          /\ tsx'.timeout = tsx.timeout /\ tsx'.retransmit = None
          /\ tsx'.flags = tsx.flags \cup {"resched"} \cup {"send"} /\ tsx'.transport = tsx.transport
          /\ tsx'.pending = tsx.pending /\ tsx'.attached = tsx.attached
          /\ tsx'.sent = tsx.sent /\ tsx'.count = tsx.count + 1
          /\ SameReport(tsx, tsx') /\ SameGhosts(tsx, tsx')
      <4>1. /\ h.state = tsx.state /\ h.code = tsx.code
            /\ h.timeout = tsx.timeout /\ h.retransmit = None
            /\ h.flags = tsx.flags \cup {"resched"} \cup {"send"} /\ h.transport = tsx.transport
            /\ h.pending = tsx.pending /\ h.attached = tsx.attached
            /\ h.sent = tsx.sent /\ h.count = tsx.count + 1
            /\ SameReport(tsx, h) /\ SameGhosts(tsx, h)
        BY <2>4, <3>2, <3>3, <3>4, <3>6 DEF SameReport, SameGhosts
      <4> QED
        BY <3>c, <4>1 DEF Same, SameSends, SameTimers, SameReport, SameGhosts
    <3>8. /\ tsx'.pending # "first" /\ (tsx'.pending # "none" <=> "transport" \in tsx'.flags)
          /\ ~tsx'.attached /\ tsx'.transport /\ "resolved" \in tsx'.flags
      BY <2>5, <3>7
    <3>9. Schedule'
      <4>1. Copies(tsx') <= Copies(tsx) + 1
        BY <1>1, <3>7 DEF Copies, Tsx
      <4>2. Repeats(tsx, tsx')
        BY <1>5, <3>7, <4>1 DEF Repeats
      <4> QED
        BY <1>1, <1>3, <1>5, <3>7, <4>2, RepeatsOK DEF Waiting
    <3> QED
      BY <1>1, <1>3, <1>5, <3>7, <3>8, <3>9, <3>c, GoesOnOK
  <2>7. CASE "transport" \notin tsx.flags
    <3>1. z = tsx_resched_retransmission(y)
      BY <2>4, <2>7
    <3>2. /\ z \in Tsx /\ z.state = y.state /\ z.code = y.code /\ z.timeout = y.timeout /\ Spaced(z)
          /\ SameSends(y, z) /\ SameGhosts(y, z) /\ SameReport(y, z) /\ Held(y, z)
      BY <2>3, <2>4, <2>5, <2>7, <3>1, ReschedEffect
    <3> HIDE DEF z
    <3>3. /\ z.state = tsx.state /\ z.code = tsx.code /\ z.flags = tsx.flags
          /\ z.transport = tsx.transport /\ z.pending = tsx.pending /\ z.attached = tsx.attached
          /\ z.sent = tsx.sent /\ z.count = tsx.count + 1 /\ z.timeout = tsx.timeout
          /\ SameReport(tsx, z) /\ SameGhosts(tsx, z)
      BY <2>4, <3>2 DEF SameSends, SameReport, SameGhosts
    <3>4. h = SendAgain(z, out)
      BY <2>1, <2>5, <2>7, <3>3 DEF tsx_send_msg
    <3>5. z.armed /\ Owned(z) /\ z.pending = "none"
      BY <1>5, <2>5, <2>7, <3>3 DEF SameReport, Owned
    <3>a. Resends(z, h) /\ Held(z, h)
      BY <3>2, <3>4, <3>5, SendAgainEffect
    <3>b. Held(x, h) /\ h \in Tsx
      <4>1. Held(x, z)
        BY <1>2, <2>3, <2>a, <3>2, HeldTrans
      <4>2. h \in Tsx
        BY <3>a DEF Resends, Fails
      <4> QED
        BY <1>2, <3>2, <3>5, <3>a, <4>1, <4>2, HeldTrans
    <3>c. Same(h, tsx') /\ Counted'
      BY <1>1, <1>2, <3>b, Handled
    <3>6. Resends(z, tsx')
      BY <3>a, <3>c, ResendsReleased
    <3>7. CASE tsx'.state = tsx.state
      <4>1. /\ tsx' \in Tsx /\ tsx'.code = z.code
            /\ \/ tsx'.flags = z.flags /\ tsx'.pending = z.pending /\ tsx'.sent = z.sent + 1
               \/ /\ tsx'.flags = z.flags \cup {"transport"} /\ tsx'.pending = "again"
                  /\ tsx'.sent = z.sent
            /\ tsx'.count = z.count
            /\ tsx'.transport = z.transport /\ tsx'.attached = z.attached
            /\ SameTimers(z, tsx') /\ SameGhosts(z, tsx') /\ SameReport(z, tsx')
        BY <1>5, <3>6, <3>7 DEF Resends, Fails
      <4>2. /\ tsx'.code = tsx.code /\ tsx'.timeout = tsx.timeout
            /\ SameReport(tsx, tsx') /\ SameGhosts(tsx, tsx')
        BY <3>3, <4>1 DEF SameTimers, SameReport, SameGhosts
      <4>3. /\ tsx'.pending # "first" /\ (tsx'.pending # "none" <=> "transport" \in tsx'.flags)
            /\ ~tsx'.attached /\ tsx'.transport /\ "resolved" \in tsx'.flags
            /\ "resched" \in tsx'.flags => "resched" \in tsx.flags
        BY <2>5, <2>7, <3>3, <4>1
      <4>4. "resched" \notin tsx.flags
        BY <1>1, <1>5 DEF IInv, Timing
      <4>5. Schedule'
        <5>1. Copies(tsx') <= Copies(tsx) + 1
          BY <1>1, <2>5, <2>7, <3>3, <4>1 DEF Copies, Tsx
        <5>2. Spaced(tsx')
          BY <3>2, <4>1 DEF Spaced, SameTimers
        <5>3. Repeats(tsx, tsx')
          BY <1>5, <3>3, <3>7, <4>1, <4>2, <5>1, <5>2 DEF Repeats
        <5> QED
          BY <1>1, <1>3, <1>5, <4>1, <5>3, RepeatsOK DEF Waiting
      <4> QED
        BY <1>1, <1>3, <1>5, <3>7, <3>c, <4>1, <4>2, <4>3, <4>4, <4>5, GoesOnOK
    <3>8. CASE tsx'.state # tsx.state
      <4>1. PICK w \in Tsx : /\ w.flags = z.flags /\ w.pending = z.pending
                             /\ w.attached = z.attached /\ w.sent = z.sent /\ w.count = z.count
                             /\ SameGhosts(z, w) /\ w.calls = z.calls
                             /\ Fails(w, tsx', 503)
        BY <3>3, <3>6, <3>8 DEF Resends
      <4>2. /\ tsx' \in Tsx /\ tsx'.state = "TERMINATED" /\ tsx'.code \in {408, 503}
            /\ "transport" \notin tsx'.flags /\ tsx'.timeout = Due
            /\ tsx'.pending # "first"
            /\ tsx'.armed = FALSE /\ tsx'.told = tsx'.code /\ tsx'.calls = tsx.calls + 1
        BY <2>5, <3>3, <4>1 DEF Fails, SameReport
      <4>3. ~tsx'.attached
        BY <2>5, <3>3, <4>1 DEF Fails
      <4>4. SameGhosts(tsx, tsx')
        BY <3>3, <4>1 DEF Fails, SameGhosts
      <4>5. Schedule'
        <5>1. Copies(tsx') <= Copies(tsx) + 1
          BY <1>1, <3>3, <4>1 DEF Copies, Fails, Tsx
        <5>2. Repeats(tsx, tsx')
          BY <3>3, <4>1, <5>1 DEF Repeats, Fails, Waiting
        <5> QED
          BY <1>1, <1>3, <1>5, <4>2, <5>2, RepeatsOK DEF Waiting
      <4> QED
        BY <1>1, <1>3, <1>5, <3>c, <4>2, <4>3, <4>4, <4>5, FailsOK
    <3> QED
      BY <3>7, <3>8
  <2> QED
    BY <2>6, <2>7
<1> QED
  BY <1>3, <1>4, <1>5

\* The first send is finished: detached, failed, or found its transport.
LEMMA FirstSendEndsOK ==
    ASSUME IInv, NEW ok \in BOOLEAN, NEW out \in Outcomes, FirstSendEnds(ok, out), Aside
    PROVE  IInv'
<1> DEFINE g == DecRef(tsx)
           y == [g EXCEPT !.pending = "none", !.attached = FALSE,
                          !.flags = (@ \ {"transport"}) \cup {"resolved"}]
           found == [y EXCEPT !.transport = TRUE, !.sent = @ + 1]
           calm == [found EXCEPT !.flags = @ \ {"resched"}]
<1>1. /\ tsx \in Tsx /\ Unlocked /\ EventIdle /\ tsx.pending = "first"
      /\ UNCHANGED <<reliable, sender, errev>> /\ tsx' = send_msg_callback(tsx, ok, out)
  BY DEF IInv, Typed, FirstSendEnds
<1>2. (tsx.flags \ {"transport"}) \cup {"resolved"} \in SUBSET Flags
  BY <1>1 DEF Tsx, Flags
<1>a. /\ g \in Tsx /\ g.state = tsx.state /\ g.code = tsx.code /\ SameSends(tsx, g)
      /\ SameTimers(tsx, g) /\ SameReport(tsx, g) /\ SameGhosts(tsx, g) /\ g.refs = tsx.refs - 1
  BY <1>1, DecRefEffect DEF Same
<1>b. ASSUME NEW w \in Tsx, w.state = tsx.state, SameTimers(tsx, w), w.pending = "none",
             w.refs = tsx.refs - 1
      PROVE  Spare(w) = Spare(tsx)
  <2>1. Owned(w) = Owned(tsx) /\ w.timeout = tsx.timeout /\ w.retransmit = tsx.retransmit
        /\ w.pending = "none" /\ tsx.pending # "none"
    BY <1>1, <1>b DEF Owned, SameTimers
  <2>2. Holders(tsx) = Holders(w) + 1
    BY <2>1 DEF Holders, One
  <2> QED
    BY <1>1, <1>b, <2>2, HoldersNat DEF Spare, Tsx
<1>3. /\ y \in Tsx /\ y.state = tsx.state /\ y.code = tsx.code /\ y.pending = "none"
      /\ y.attached = FALSE /\ y.flags = (tsx.flags \ {"transport"}) \cup {"resolved"}
      /\ y.sent = tsx.sent /\ y.count = tsx.count /\ y.refs = tsx.refs - 1
      /\ SameTimers(tsx, y) /\ SameReport(tsx, y) /\ SameGhosts(tsx, y)
  <2> HIDE DEF g
  <2>1. g.flags = tsx.flags
    BY <1>a DEF SameSends
  <2>2. /\ y \in Tsx /\ y.state = g.state /\ y.code = g.code /\ y.pending = "none"
        /\ y.attached = FALSE /\ y.flags = (g.flags \ {"transport"}) \cup {"resolved"}
        /\ y.sent = g.sent /\ y.count = g.count /\ y.refs = g.refs
        /\ SameTimers(g, y) /\ SameReport(g, y) /\ SameGhosts(g, y)
    BY <1>2, <1>a, <2>1 DEF Tsx, SameTimers, SameReport, SameGhosts
  <2> HIDE DEF y
  <2> QED
    BY <1>a, <2>2 DEF SameSends, SameTimers, SameReport, SameGhosts
<1>c. Spare(y) = Spare(tsx)
  <2> HIDE DEF y
  <2> QED
    BY <1>3, <1>b
<1>4. CASE ~tsx.attached
  <2>1. tsx' = [g EXCEPT !.pending = "none"]
    BY <1>1, <1>4 DEF send_msg_callback
  <2> HIDE DEF g, y
  <2>2. /\ tsx' \in Tsx /\ tsx'.state = tsx.state /\ tsx'.code = tsx.code /\ tsx'.pending = "none"
        /\ tsx'.attached = tsx.attached /\ tsx'.flags = tsx.flags /\ tsx'.transport = tsx.transport
        /\ tsx'.sent = tsx.sent /\ tsx'.count = tsx.count
        /\ SameTimers(tsx, tsx') /\ SameReport(tsx, tsx') /\ SameGhosts(tsx, tsx')
        /\ tsx'.refs = tsx.refs - 1
    BY <1>a, <2>1 DEF Tsx, SameSends, SameTimers, SameReport, SameGhosts
  <2>a. Counted'
    <3>1. Spare(tsx') = Spare(tsx)
      BY <1>b, <2>2
    <3> QED
      BY <1>1, <2>2, <3>1, Balanced, BalancedAfter
  <2>3. tsx.state \in {"TERMINATED", "DESTROYED"}
    BY <1>1, <1>4 DEF IInv, Sending, Silent, Live, Unlocked
  <2>4. Keeps(tsx')
    BY <1>1, <2>2 DEF IInv, Typed, Keeps, SameTimers, SameReport
  <2>5. Sending'
    BY <1>1, <2>2, <2>3 DEF IInv, Sending, Live, Unlocked
  <2>6. Timing'
    BY <1>1, <2>2, <2>3 DEF IInv, Timing, Live, Unlocked, SameTimers
  <2>7. Codes'
    BY <2>2 DEF IInv, Codes, SameReport
  <2>8. Returned'
    BY <1>1, <2>2 DEF IInv, Returned, Aside
  <2>9. AssertionsHold'
    BY <2>2 DEF IInv, AssertionsHold, SameGhosts
  <2>10. Posted' /\ AlwaysDriven'
    BY <1>1, <2>2 DEF IInv, Posted, AlwaysDriven, Running, SameGhosts, SameTimers, EventIdle
  <2>11. Schedule'
    <3>1. Copies(tsx') <= Copies(tsx)
      BY <1>1, <2>2 DEF Copies, Tsx
    <3>2. Slower(tsx, tsx')
      BY <2>2, <2>3, <3>1 DEF Slower, Waiting
    <3> QED
      BY <1>1, <2>2, <3>2, SlowerOK
  <2> QED
    BY <1>1, <2>4, <2>5, <2>6, <2>7, <2>8, <2>9, <2>10, <2>11, <2>a, ByParts DEF IInv, Typed, Core
<1>5. CASE tsx.attached
  <2>1. tsx.state = "CALLING"
    BY <1>1, <1>5 DEF IInv, Sending, Silent, Unlocked
  <2>2. /\ tsx.code = 0 /\ tsx.armed /\ tsx.retransmit = None /\ "send" \notin tsx.flags
    BY <1>1, <2>1 DEF IInv, Codes, Timing, Live
  <2>a. Owned(tsx) /\ Owned(y) /\ Safe(y) /\ Spare(y) = One(errev)
    <3> HIDE DEF y
    <3>1. Owned(tsx) /\ Owned(y)
      BY <1>3, <2>1 DEF Owned
    <3> QED
      BY <1>c, <3>1, Balanced DEF Safe
  <2>3. CASE ~ok
    <3>1. tsx' = Fail(y, 503)
      BY <1>1, <1>3, <1>5, <2>1, <2>3 DEF send_msg_callback
    <3> HIDE DEF y
    <3>2. y.armed /\ Owned(y)
      BY <1>3, <2>2, <2>a DEF SameReport
    <3>3. Fails(y, tsx', 503) /\ Held(y, tsx')
      BY <1>3, <3>1, <3>2, FailEffect
    <3>a. Counted'
      <4>1. Spare(tsx') = One(errev')
        BY <1>1, <2>a, <3>3 DEF Held
      <4> QED
        BY <3>3, <4>1, BalancedAfter DEF Fails
    <3>4. /\ tsx' \in Tsx /\ tsx'.state = "TERMINATED" /\ tsx'.code \in {408, 503}
          /\ "transport" \notin tsx'.flags /\ tsx'.timeout = Due /\ tsx'.pending # "first"
          /\ tsx'.armed = FALSE /\ tsx'.told = tsx'.code /\ tsx'.calls = tsx.calls + 1
          /\ tsx'.retransmit = None
      BY <1>3, <2>2, <3>3 DEF Fails, SameReport, SameTimers
    <3>5. ~tsx'.attached
      BY <1>3, <3>3 DEF Fails
    <3>6. SameGhosts(tsx, tsx')
      BY <1>3, <3>3 DEF Fails, SameGhosts
    <3>7. Schedule'
      <4>1. Copies(tsx') <= Copies(tsx)
        BY <1>1, <1>3, <3>3 DEF Copies, Fails, Tsx
      <4>2. Slower(tsx, tsx')
        BY <1>3, <3>3, <4>1 DEF Slower, Fails, Waiting
      <4> QED
        BY <1>1, <3>4, <4>2, SlowerOK
    <3> QED
      BY <1>1, <2>1, <3>4, <3>5, <3>6, <3>7, <3>a, FailsOK
  <2>4. CASE ok
    <3>1. "send" \notin found.flags /\ found.flags = y.flags
      <4> HIDE DEF y
      <4> QED
        BY <1>3, <2>2 DEF Tsx
    <3>2. tsx' = IF ~("resched" \in found.flags /\ "transport" \notin found.flags) THEN found
                 ELSE IF reliable THEN calm ELSE tsx_resched_retransmission(calm)
      BY <1>1, <1>5, <2>4, <3>1 DEF send_msg_callback
    <3> HIDE DEF y
    <3>3. y.sent + 1 \in Nat
      BY <1>3 DEF Tsx
    <3>4. /\ found \in Tsx /\ found.state = y.state /\ found.code = y.code /\ found.pending = y.pending
          /\ found.attached = y.attached /\ found.flags = y.flags /\ found.transport = TRUE
          /\ found.sent = y.sent + 1 /\ found.count = y.count /\ found.refs = y.refs
          /\ SameTimers(y, found) /\ SameReport(y, found) /\ SameGhosts(y, found)
      BY <1>3, <3>3 DEF Tsx, SameTimers, SameReport, SameGhosts
    <3> HIDE DEF found
    <3>5. found.flags \ {"resched"} \in SUBSET Flags
      BY <3>4 DEF Tsx
    <3>6. /\ calm \in Tsx /\ calm.state = found.state /\ calm.code = found.code
          /\ calm.pending = found.pending /\ calm.attached = found.attached
          /\ calm.flags = found.flags \ {"resched"} /\ calm.transport = TRUE
          /\ calm.sent = found.sent /\ calm.count = found.count /\ calm.refs = found.refs
          /\ SameTimers(found, calm) /\ SameReport(found, calm) /\ SameGhosts(found, calm)
      BY <3>4, <3>5 DEF Tsx, SameTimers, SameReport, SameGhosts
    <3> HIDE DEF calm
    <3>7. /\ calm.retransmit = None /\ "transport" \notin calm.flags /\ calm.code < 200
      BY <1>3, <2>2, <3>4, <3>6 DEF SameTimers
    <3>8. LET z == tsx_resched_retransmission(calm)
          IN  /\ z \in Tsx /\ z.state = calm.state /\ z.code = calm.code /\ z.timeout = calm.timeout
              /\ Spaced(z)
              /\ SameSends(calm, z) /\ SameGhosts(calm, z) /\ SameReport(calm, z) /\ Held(calm, z)
      BY <3>6, <3>7, ReschedEffect
    <3>a. Held(y, found) /\ Held(found, calm) /\ Owned(found) /\ Owned(calm)
      BY <1>3, <2>a, <3>4, <3>6, SameHolders
    <3>b. Held(y, calm)
      BY <1>3, <3>4, <3>6, <3>a, HeldTrans
    <3>c. Held(y, tsx')
      <4>1. CASE tsx' = tsx_resched_retransmission(calm)
        BY <1>3, <3>6, <3>8, <3>a, <3>b, <4>1, HeldTrans
      <4> QED
        BY <3>2, <3>a, <3>b, <4>1
    <3>9. /\ tsx' \in Tsx /\ tsx'.state = tsx.state /\ tsx'.code = tsx.code /\ tsx'.timeout = tsx.timeout
          /\ tsx'.pending = "none" /\ ~tsx'.attached /\ tsx'.transport
          /\ tsx'.flags \in {found.flags, found.flags \ {"resched"}}
          /\ SameReport(tsx, tsx') /\ SameGhosts(tsx, tsx')
          /\ reliable \/ "resched" \in tsx'.flags => tsx'.retransmit = None
      <4>1. CASE tsx' = found
        BY <1>3, <2>2, <3>4, <4>1 DEF SameTimers, SameReport, SameGhosts
      <4>2. CASE tsx' = calm
        BY <1>3, <2>2, <3>4, <3>6, <4>2 DEF SameTimers, SameReport, SameGhosts
      <4>3. CASE ~reliable /\ tsx' = tsx_resched_retransmission(calm)
        <5>1. /\ calm.state = tsx.state /\ calm.code = tsx.code /\ calm.timeout = tsx.timeout
              /\ calm.pending = "none" /\ calm.attached = FALSE /\ calm.transport = TRUE
              /\ SameReport(tsx, calm) /\ SameGhosts(tsx, calm)
          BY <1>3, <3>4, <3>6 DEF SameTimers, SameReport, SameGhosts
        <5>2. /\ tsx' \in Tsx /\ tsx'.state = calm.state /\ tsx'.code = calm.code
              /\ tsx'.timeout = calm.timeout /\ SameSends(calm, tsx')
              /\ SameGhosts(calm, tsx') /\ SameReport(calm, tsx')
          BY <3>8, <4>3
        <5>3. SameReport(tsx, tsx') /\ SameGhosts(tsx, tsx')
          BY <5>1, <5>2 DEF SameReport, SameGhosts
        <5>4. /\ tsx'.flags = calm.flags /\ tsx'.pending = "none"
              /\ ~tsx'.attached /\ tsx'.transport
          BY <5>1, <5>2 DEF SameSends
        <5> QED
          BY <3>6, <4>3, <5>1, <5>2, <5>3, <5>4
      <4> QED
        BY <3>2, <4>1, <4>2, <4>3
    <3>10. "transport" \notin tsx'.flags /\ "resolved" \in tsx'.flags
      BY <1>3, <3>4, <3>9
    <3>11. Schedule'
      <4>1. /\ tsx'.sent = tsx.sent + 1 /\ tsx'.count = tsx.count
            /\ tsx'.retransmit = None \/ Spaced(tsx')
        <5>1. CASE tsx' = found
          BY <1>3, <2>2, <3>4, <5>1 DEF SameTimers
        <5>2. CASE tsx' = calm
          BY <1>3, <2>2, <3>4, <3>6, <5>2 DEF SameTimers
        <5>3. CASE tsx' = tsx_resched_retransmission(calm)
          BY <1>3, <3>4, <3>6, <3>8, <5>3 DEF SameSends
        <5> QED
          BY <3>2, <5>1, <5>2, <5>3
      <4>2. Copies(tsx') <= Copies(tsx)
        BY <1>1, <3>9, <4>1 DEF Copies, Tsx
      <4>3. tsx'.timeout.left <= tsx.timeout.left
        BY <1>1, <3>9 DEF Tsx, Timer
      <4>4. Slower(tsx, tsx')
        BY <3>9, <4>1, <4>2, <4>3 DEF Slower, Waiting
      <4> QED
        BY <1>1, <3>9, <4>4, SlowerOK
    <3>12. Counted'
      <4>1. Spare(tsx') = One(errev')
        BY <1>1, <2>a, <3>c DEF Held
      <4> QED
        BY <3>9, <4>1, BalancedAfter
    <3> QED
      BY <1>1, <2>1, <3>9, <3>10, <3>11, <3>12, GoesOnOK
  <2> QED
    BY <2>3, <2>4
<1> QED
  BY <1>4, <1>5

-----------------------------------------------------------------------------
(* An answer, the start of the timers, and a new REGISTER *)

\* calling_rx up to the new state: the timers are stopped, or timer E goes on with T2.
Calls(x, z, code) ==
    /\ calling_rx(x, code) = tsx_on_state_proceeding_uac(z, code)
    /\ z.state = x.state /\ z.flags = x.flags \ {"resched"} /\ z.transport = x.transport
    /\ z.pending = x.pending /\ z.attached = x.attached /\ z.sent = x.sent /\ z.count = x.count
    /\ SameReport(x, z) /\ SameGhosts(x, z)
    /\ code < 200 => z.timeout = x.timeout
    /\ reliable => z.retransmit = None
    /\ z.retransmit \in {None, T2}
    /\ Held(x, z)

LEMMA CallingEffect ==
    ASSUME NEW x \in Tsx, reliable \in BOOLEAN, NEW code \in {100, 200, SIP_FORBIDDEN}
    PROVE  \E z \in Tsx : Calls(x, z, code)
<1> DEFINE f == [x EXCEPT !.flags = @ \ {"resched"}]
           y == CancelRetransmit(f)
           c == CancelTimeout(y)
           s == ScheduleRetransmit(y, T2)
           z == IF code >= 200 THEN c ELSE IF reliable THEN y ELSE s
<1>1. calling_rx(x, code) = tsx_on_state_proceeding_uac(z, code)
  BY DEF calling_rx
<1>2. x.flags \ {"resched"} \in SUBSET Flags
  BY DEF Tsx
<1>3. /\ f \in Tsx /\ f.state = x.state /\ f.flags = x.flags \ {"resched"} /\ f.transport = x.transport
      /\ f.pending = x.pending /\ f.attached = x.attached /\ f.sent = x.sent /\ f.count = x.count
      /\ SameReport(x, f) /\ SameGhosts(x, f) /\ SameTimers(x, f) /\ f.refs = x.refs
  BY <1>2 DEF Tsx, SameTimers, SameReport, SameGhosts
<1> HIDE DEF f
<1>4. /\ y \in Tsx /\ y.state = f.state /\ y.timeout = f.timeout /\ y.retransmit = None
      /\ SameSends(f, y) /\ SameReport(f, y) /\ SameGhosts(f, y) /\ Held(f, y)
  BY <1>3, CancelRetransmitEffect
<1> HIDE DEF y
<1>5. /\ y.state = x.state /\ y.flags = x.flags \ {"resched"} /\ y.transport = x.transport
      /\ y.pending = x.pending /\ y.attached = x.attached /\ y.sent = x.sent /\ y.count = x.count
      /\ SameReport(x, y) /\ SameGhosts(x, y) /\ y.timeout = x.timeout
  BY <1>3, <1>4 DEF SameSends, SameTimers, SameReport, SameGhosts
<1>6. Held(x, y) /\ Owned(y) = Owned(x)
  <2>1. Held(x, f) /\ Owned(f) = Owned(x)
    BY <1>3, SameHolders
  <2> QED
    BY <1>3, <1>4, <2>1, HeldTrans DEF Owned
<1>a. /\ c \in Tsx /\ c.state = y.state /\ c.retransmit = y.retransmit
      /\ SameSends(y, c) /\ SameReport(y, c) /\ SameGhosts(y, c) /\ Held(y, c)
  BY <1>4, CancelTimeoutEffect
<1> HIDE DEF c
<1>7. /\ s \in Tsx /\ s.state = y.state /\ s.timeout = y.timeout /\ s.retransmit = T2
      /\ SameSends(y, s) /\ SameReport(y, s) /\ SameGhosts(y, s) /\ Held(y, s)
  BY <1>4, TimerTypes, RetransmitSet
<1> HIDE DEF s
<1>b. Held(x, c) /\ Held(x, s)
  BY <1>4, <1>6, <1>7, <1>a, HeldTrans
<1>8. CASE z = c /\ code >= 200
  <2>1. Calls(x, c, code)
    BY <1>1, <1>4, <1>5, <1>8, <1>a, <1>b DEF Calls, SameSends, SameReport, SameGhosts, SIP_FORBIDDEN
  <2> QED
    BY <1>a, <2>1
<1>9. CASE z = y
  <2>1. Calls(x, y, code)
    BY <1>1, <1>4, <1>5, <1>6, <1>9 DEF Calls
  <2> QED
    BY <1>4, <2>1
<1>10. CASE z = s /\ ~reliable
  <2>1. Calls(x, s, code)
    BY <1>1, <1>4, <1>5, <1>7, <1>10, <1>b DEF Calls, SameSends, SameReport, SameGhosts
  <2> QED
    BY <1>7, <2>1
<1> QED
  BY <1>8, <1>9, <1>10

\* A provisional answer.
LEMMA ProceedingEffect ==
    ASSUME NEW z \in Tsx, z.state \in {"CALLING", "PROCEEDING"}
    PROVE  LET y == tsx_on_state_proceeding_uac(z, 100)
           IN  /\ y \in Tsx /\ y.state = "PROCEEDING" /\ y.code = 100
               /\ SameSends(z, y) /\ SameTimers(z, y) /\ SameGhosts(z, y) /\ SameReport(z, y)
               /\ Held(z, y)
<1> DEFINE w == [z EXCEPT !.code = 100]
           y == tsx_set_state(w, "PROCEEDING")
<1>1. /\ w \in Tsx /\ w.state = z.state /\ w.code = 100 /\ w.refs = z.refs
      /\ SameSends(z, w) /\ SameTimers(z, w) /\ SameGhosts(z, w) /\ SameReport(z, w)
  BY DEF Tsx, SameSends, SameTimers, SameGhosts, SameReport
<1>2. tsx_on_state_proceeding_uac(z, 100) = y
  BY DEF tsx_on_state_proceeding_uac
<1> HIDE DEF w
<1>3. Rank("PROCEEDING") >= Rank(w.state) /\ Owned(w)
  BY <1>1, Ranks DEF Owned
<1>4. /\ y \in Tsx /\ y.state = "PROCEEDING" /\ y.code = 100
      /\ SameSends(w, y) /\ SameTimers(w, y) /\ SameGhosts(w, y) /\ Reports(w, y) /\ Held(w, y)
  BY <1>1, <1>3, EnterEffect
<1> HIDE DEF y
<1>5. Held(z, w)
  BY <1>1, SameHolders DEF SameSends
<1>6. Held(z, y)
  BY <1>1, <1>3, <1>4, <1>5, HeldTrans
<1> QED
  BY <1>1, <1>2, <1>4, <1>6 DEF SameSends, SameTimers, SameGhosts, SameReport, Reports

\* A final answer.
Finishes(z, y, code) ==
    /\ y \in Tsx /\ y.state = "COMPLETED" /\ y.code = code
    /\ y.timeout.id = "TIMEOUT" /\ y.retransmit = None
    /\ SameSends(z, y) /\ SameGhosts(z, y)
    /\ y.armed = FALSE /\ y.told = code /\ y.calls = z.calls + 1 /\ Held(z, y)

LEMMA FinalEffect ==
    ASSUME NEW z \in Tsx, z.state \in {"CALLING", "PROCEEDING"}, z.armed, reliable \in BOOLEAN,
           NEW code \in {200, SIP_FORBIDDEN}
    PROVE  Finishes(z, tsx_on_state_proceeding_uac(z, code), code)
<1> DEFINE w == [z EXCEPT !.code = code]
<1>1. code \in Nat /\ code >= 200
  BY DEF SIP_FORBIDDEN
<1>2. /\ w \in Tsx /\ w.state = z.state /\ w.code = code /\ w.refs = z.refs
      /\ SameSends(z, w) /\ SameTimers(z, w) /\ SameGhosts(z, w) /\ SameReport(z, w)
  BY <1>1 DEF Tsx, SameSends, SameTimers, SameGhosts, SameReport
<1>3. tsx_on_state_proceeding_uac(z, code) = Completed(w)
  BY <1>1 DEF tsx_on_state_proceeding_uac
<1> HIDE DEF w
<1> DEFINE y == Completed(w)
<1>4. Absorbs(w, y) /\ Held(w, y)
  BY <1>2, CompletedEffect
<1> HIDE DEF y
<1>5. Held(z, w) /\ Owned(w)
  BY <1>2, SameHolders DEF SameSends, Owned
<1>6. Held(z, y)
  BY <1>2, <1>4, <1>5, HeldTrans DEF Absorbs
<1>7. Finishes(z, y, code)
  BY <1>1, <1>2, <1>4, <1>6 DEF Finishes, Absorbs, SameSends, SameGhosts, SameReport, Reports
<1> QED
  BY <1>3, <1>7 DEF y

\* An answer: to the transaction of its branch, hence never before the first send is done.
LEMMA ResponseOK == ASSUME IInv, NEW r \in responses, Response(r) PROVE IInv'
<1>1. /\ tsx \in Tsx /\ reliable \in BOOLEAN /\ Unlocked /\ EventIdle /\ r.branch = branch
      /\ UNCHANGED <<reliable, sender, errev>> /\ tsx' = on_rx(tsx, r.code)
      /\ r.code \in {100, 200, SIP_FORBIDDEN}
  BY DEF IInv, Typed, Response, pjsip_tsx_recv_msg
<1>2. Aside
  BY DEF Response, Aside
<1>3. tsx.pending # "first"
  BY <1>1 DEF IInv, Silent
<1>4. r.code = 100 \/ Answered(r.code)
  BY <1>1 DEF IInv, Source, Answered
<1>5. CASE tsx.state \notin {"CALLING", "PROCEEDING"}
  <2>1. tsx' = tsx
    BY <1>1, <1>5 DEF on_rx
  <2>2. Keeps(tsx')
    BY <1>1, <1>3, <2>1 DEF IInv, Typed, Keeps
  <2>3. Sending' /\ Timing'
    BY <1>1, <2>1 DEF IInv, Sending, Timing, Live
  <2>4. Codes' /\ AssertionsHold'
    BY <2>1 DEF IInv, Codes, AssertionsHold
  <2>5. Returned' /\ Posted' /\ AlwaysDriven'
    BY <1>1, <1>2, <2>1 DEF IInv, Returned, Posted, AlwaysDriven, Running, Live, Aside
  <2>6. Schedule' /\ Counted'
    BY <1>1, <2>1 DEF IInv, Schedule, Counted
  <2> QED
    BY <1>1, <1>2, <2>2, <2>3, <2>4, <2>5, <2>6, ByParts DEF IInv, Typed, Core
<1>6. CASE tsx.state \in {"CALLING", "PROCEEDING"}
  <2>1. PICK z \in Tsx : /\ tsx' = tsx_on_state_proceeding_uac(z, r.code)
                         /\ z.state = tsx.state /\ z.transport = tsx.transport
                         /\ z.flags \in {tsx.flags, tsx.flags \ {"resched"}}
                         /\ tsx.state = "CALLING" => "resched" \notin z.flags
                         /\ tsx.state = "PROCEEDING" => z.retransmit = tsx.retransmit
                         /\ z.pending = tsx.pending /\ z.attached = tsx.attached
                         /\ z.sent = tsx.sent /\ z.count = tsx.count
                         /\ z.retransmit \in {None, T2, tsx.retransmit}
                         /\ SameReport(tsx, z) /\ SameGhosts(tsx, z)
                         /\ r.code < 200 => z.timeout = tsx.timeout
                         /\ reliable => z.retransmit = None
                         /\ Held(tsx, z)
    <3>1. CASE tsx.state = "CALLING"
      <4>1. tsx' = calling_rx(tsx, r.code)
        BY <1>1, <3>1 DEF on_rx
      <4>2. PICK z \in Tsx :
               /\ calling_rx(tsx, r.code) = tsx_on_state_proceeding_uac(z, r.code)
               /\ z.state = tsx.state /\ z.flags = tsx.flags \ {"resched"} /\ z.transport = tsx.transport
               /\ z.pending = tsx.pending /\ z.attached = tsx.attached
               /\ z.sent = tsx.sent /\ z.count = tsx.count /\ z.retransmit \in {None, T2}
               /\ SameReport(tsx, z) /\ SameGhosts(tsx, z)
               /\ r.code < 200 => z.timeout = tsx.timeout
               /\ reliable => z.retransmit = None
               /\ Held(tsx, z)
        <5>1. PICK c \in {100, 200, SIP_FORBIDDEN} : c = r.code
          BY <1>1
        <5>2. reliable \in BOOLEAN /\ tsx \in Tsx
          BY <1>1
        <5>3. PICK z \in Tsx : Calls(tsx, z, c)
          BY <5>2, CallingEffect
        <5> QED
          BY <5>1, <5>3 DEF Calls
      <4>3. "resched" \notin z.flags /\ z.flags \in {tsx.flags, tsx.flags \ {"resched"}}
        BY <4>2
      <4> QED
        BY <3>1, <4>1, <4>2, <4>3
    <3>2. CASE tsx.state = "PROCEEDING"
      <4>1. tsx' = tsx_on_state_proceeding_uac(tsx, r.code)
        BY <1>1, <3>2 DEF on_rx
      <4>2. reliable => tsx.retransmit = None
        BY DEF IInv, Timing
      <4> QED
        BY <1>1, <3>2, <4>1, <4>2 DEF SameReport, SameGhosts, Held
    <3> QED
      BY <1>6, <3>1, <3>2
  <2>a. Owned(tsx) /\ Owned(z)
    BY <1>6, <2>1 DEF Owned
  <2>2. /\ tsx.pending # "none" <=> "transport" \in tsx.flags
        /\ ~tsx.attached /\ tsx.transport /\ "resolved" \in tsx.flags /\ tsx.armed
        /\ tsx.calls = 0 /\ ~tsx.lost /\ result = "accepted"
        /\ "resched" \in tsx.flags => tsx.retransmit = None
    BY <1>3, <1>6 DEF IInv, Sending, Codes, Posted, Returned, Timing, Live, Typed, Tsx
  <2>3. CASE r.code = 100
    <3>1. /\ tsx' \in Tsx /\ tsx'.state = "PROCEEDING" /\ tsx'.code = 100
          /\ SameSends(z, tsx') /\ SameTimers(z, tsx') /\ SameGhosts(z, tsx') /\ SameReport(z, tsx')
          /\ Held(z, tsx')
      BY <1>6, <2>1, <2>3, ProceedingEffect
    <3>a. Counted'
      <4>1. Held(tsx, tsx')
        BY <1>1, <2>1, <2>a, <3>1, HeldTrans
      <4> QED
        BY <1>1, <2>a, <3>1, <4>1, Kept
    <3>2. /\ tsx'.timeout = tsx.timeout /\ SameGhosts(tsx, tsx') /\ SameReport(tsx, tsx')
          /\ tsx'.pending = tsx.pending /\ tsx'.attached = tsx.attached
          /\ tsx'.flags = z.flags /\ tsx'.transport = tsx.transport
          /\ tsx'.retransmit = z.retransmit
      BY <2>1, <2>3, <3>1 DEF SameSends, SameTimers, SameGhosts, SameReport
    <3>3. Keeps(tsx')
      BY <1>3, <3>1, <3>2 DEF IInv, Typed, Keeps, SameReport
    <3>4. Sending'
      BY <1>1, <1>3, <2>1, <2>2, <3>1, <3>2 DEF Sending, Live, Unlocked
    <3>5. Timing'
      BY <1>1, <1>3, <1>6, <2>1, <2>2, <3>1, <3>2 DEF Timing, Live
    <3>6. Codes'
      BY <1>6, <3>1, <3>2 DEF IInv, Codes, SameReport
    <3>7. Returned'
      BY <1>1, <1>2, <2>2, <3>1 DEF Returned, Aside, Unlocked
    <3>8. AssertionsHold'
      BY <3>2 DEF IInv, AssertionsHold, SameGhosts
    <3>9. Posted' /\ AlwaysDriven'
      BY <1>1, <1>6, <2>2, <3>1, <3>2 DEF IInv, Posted, AlwaysDriven, Running, SameGhosts, EventIdle
    <3>10. Schedule'
      <4>1. tsx'.count = tsx.count /\ Copies(tsx') = Copies(tsx) /\ Copies(tsx) \in Nat
        BY <1>1, <2>1, <3>1 DEF Copies, SameSends, Tsx
      <4>2. tsx'.timeout.left <= tsx.timeout.left
        BY <1>1, <3>2 DEF Tsx, Timer
      <4>3. tsx'.retransmit = T2 => Spaced(tsx')
        BY Intervals, TimersAssumption DEF Spaced
      <4>4. Slower(tsx, tsx')
        BY <1>6, <2>1, <3>1, <3>2, <4>1, <4>2, <4>3 DEF Slower, Waiting
      <4> QED
        BY <1>1, <3>1, <4>4, SlowerOK
    <3> QED
      BY <1>1, <1>2, <3>3, <3>4, <3>5, <3>6, <3>7, <3>8, <3>9, <3>10, <3>a, ByParts DEF IInv, Typed, Core
  <2>4. CASE r.code \in {200, SIP_FORBIDDEN}
    <3>1. z.armed /\ z.calls = 0
      BY <2>1, <2>2 DEF SameReport
    <3>2. /\ tsx' \in Tsx /\ tsx'.state = "COMPLETED" /\ tsx'.code = r.code
          /\ tsx'.timeout.id = "TIMEOUT" /\ tsx'.retransmit = None
          /\ SameSends(z, tsx') /\ SameGhosts(z, tsx')
          /\ tsx'.armed = FALSE /\ tsx'.told = r.code /\ tsx'.calls = z.calls + 1
          /\ Held(z, tsx')
      <4>1. z.state \in {"CALLING", "PROCEEDING"}
        BY <1>6, <2>1
      <4>2. tsx' = tsx_on_state_proceeding_uac(z, r.code)
        BY <2>1
      <4>3. PICK c \in {200, SIP_FORBIDDEN} : c = r.code
        BY <2>4
      <4>4. z.armed /\ reliable \in BOOLEAN
        BY <1>1, <3>1
      <4>5. Finishes(z, tsx_on_state_proceeding_uac(z, c), c)
        BY <4>1, <4>4, FinalEffect
      <4> QED
        BY <4>2, <4>3, <4>5 DEF Finishes
    <3>a. Counted'
      <4>1. Held(tsx, tsx')
        BY <1>1, <2>1, <2>a, <3>2, HeldTrans
      <4> QED
        BY <1>1, <2>a, <3>2, <4>1, Kept
    <3>3. /\ SameGhosts(tsx, tsx') /\ tsx'.calls = 1 /\ tsx'.timeout # NoTimer
          /\ tsx'.pending = tsx.pending /\ tsx'.attached = tsx.attached
          /\ tsx'.flags = z.flags /\ tsx'.transport = tsx.transport
      BY <2>1, <3>1, <3>2 DEF SameSends, SameGhosts, NoTimer
    <3>4. Answered(r.code)
      BY <1>4, <2>4 DEF SIP_FORBIDDEN
    <3>5. Keeps(tsx')
      BY <1>3, <3>2, <3>3, <3>4 DEF Keeps
    <3>6. Sending'
      BY <1>1, <1>3, <2>1, <2>2, <3>2, <3>3 DEF Sending, Live, Unlocked
    <3>7. Timing'
      BY <1>1, <1>3, <3>2, <3>3 DEF Timing, Live
    <3>8. Codes'
      BY <2>4, <3>2, <3>3 DEF Codes, SIP_FORBIDDEN
    <3>9. Returned'
      BY <1>1, <1>2, <2>2, <3>2 DEF Returned, Aside, Unlocked
    <3>10. AssertionsHold'
      BY <3>3 DEF IInv, AssertionsHold, SameGhosts
    <3>11. Posted' /\ AlwaysDriven'
      BY <1>1, <2>2, <3>2, <3>3 DEF Posted, AlwaysDriven, SameGhosts, EventIdle
    <3>12. Schedule'
      <4>1. tsx'.count = tsx.count /\ Copies(tsx') = Copies(tsx) /\ Copies(tsx) \in Nat
        BY <1>1, <2>1, <3>2 DEF Copies, SameSends, Tsx
      <4>2. Slower(tsx, tsx')
        BY <3>2, <4>1 DEF Slower, Waiting
      <4> QED
        BY <1>1, <3>2, <4>2, SlowerOK
    <3> QED
      BY <1>1, <1>2, <3>5, <3>6, <3>7, <3>8, <3>9, <3>10, <3>11, <3>12, <3>a, ByParts DEF IInv, Typed, Core
  <2> QED
    BY <1>1, <2>3, <2>4
<1> QED
  BY <1>5, <1>6

\* Timer F and timer E are started, and the caller has its PJ_SUCCESS.
LEMMA AcceptedOK == IInv /\ Accepted => IInv' /\ tsx'.state = "CALLING"
<1> SUFFICES ASSUME IInv, Accepted PROVE IInv' /\ tsx'.state = "CALLING"
  OBVIOUS
<1> DEFINE F == [id |-> "TIMEOUT", left |-> TimerF]
           x == ScheduleTimeout(CancelTimeout(tsx), TimerF, "TIMEOUT")
           rs == [x EXCEPT !.flags = @ \cup {"resched"}]
           sr == ScheduleRetransmit(x, T1)
           y == CASE reliable -> x
                  [] ~reliable /\ "transport" \in x.flags -> rs
                  [] ~reliable /\ "transport" \notin x.flags -> sr
<1>1. /\ tsx \in Tsx /\ reliable \in BOOLEAN /\ errev \in BOOLEAN
      /\ sender # "nobody" /\ sender' = "nobody" /\ UNCHANGED <<reliable, errev>>
      /\ result' = "accepted" /\ Effects /\ UNCHANGED <<branch, responses, sup, recorded>>
      /\ tsx' = tsx_set_state(y, "CALLING")
  BY DEF IInv, Typed, Accepted, StartTimers
<1>2. /\ tsx.state = "NULL" /\ tsx.code = 0 /\ tsx.armed /\ tsx.calls = 0 /\ tsx.told = 0
      /\ ~tsx.lost /\ tsx.retransmit = None
      /\ "resched" \notin tsx.flags /\ "send" \notin tsx.flags /\ Live
  BY <1>1 DEF IInv, Sending, Codes, Timing, Posted, Live
<1>3. F \in Timer /\ F # NoTimer /\ F.id = "TIMEOUT"
  BY TimerTypes DEF NoTimer
<1>4. /\ x \in Tsx /\ x.state = tsx.state /\ x.code = tsx.code
      /\ x.timeout = F /\ x.retransmit = tsx.retransmit
      /\ SameSends(tsx, x) /\ SameReport(tsx, x) /\ SameGhosts(tsx, x) /\ Held(tsx, x)
  BY <1>1, <1>3, RearmEffect
<1> HIDE DEF x, F
<1>5. /\ rs \in Tsx /\ rs.state = x.state /\ rs.code = x.code /\ rs.flags = x.flags \cup {"resched"}
      /\ rs.transport = x.transport /\ rs.pending = x.pending /\ rs.attached = x.attached
      /\ rs.sent = x.sent /\ rs.count = x.count /\ SameTimers(x, rs) /\ SameReport(x, rs) /\ SameGhosts(x, rs)
      /\ rs.refs = x.refs
  <2>1. x.flags \cup {"resched"} \in SUBSET Flags
    BY <1>4 DEF Tsx, Flags
  <2> QED
    BY <1>4, <2>1 DEF Tsx, SameTimers, SameReport, SameGhosts
<1> HIDE DEF rs
<1>7. /\ sr \in Tsx /\ sr.state = x.state /\ sr.code = x.code /\ sr.timeout = x.timeout
      /\ sr.retransmit = T1
      /\ SameSends(x, sr) /\ SameReport(x, sr) /\ SameGhosts(x, sr) /\ Held(x, sr)
  BY <1>2, <1>4, TimerTypes, RetransmitSet
<1> HIDE DEF sr
<1>8. /\ y \in Tsx /\ y.state = tsx.state /\ y.code = tsx.code /\ y.timeout = F
      /\ y.transport = tsx.transport /\ y.pending = tsx.pending /\ y.attached = tsx.attached
      /\ y.sent = tsx.sent /\ y.count = tsx.count /\ y.retransmit \in {None, T1}
      /\ SameReport(tsx, y) /\ SameGhosts(tsx, y)
      /\ \/ y.flags = tsx.flags /\ (reliable \/ "transport" \in tsx.flags => y.retransmit = None)
         \/ y.flags = tsx.flags \cup {"resched"} /\ y.retransmit = None
      /\ Held(tsx, y)
  <2>a. Owned(tsx) /\ Owned(x) /\ Held(x, rs)
    BY <1>2, <1>4, <1>5, SameHolders DEF Owned
  <2>b. Held(tsx, rs) /\ Held(tsx, sr)
    BY <1>1, <1>4, <1>5, <1>7, <2>a, HeldTrans
  <2>1. CASE reliable
    <3>1. y = x
      BY <2>1
    <3> QED
      BY <1>2, <1>4, <3>1 DEF SameSends
  <2>2. CASE ~reliable /\ "transport" \in x.flags
    <3>1. y = rs
      BY <2>2
    <3>2. SameReport(tsx, rs) /\ SameGhosts(tsx, rs)
      BY <1>4, <1>5 DEF SameReport, SameGhosts
    <3> QED
      BY <1>2, <1>4, <1>5, <2>b, <3>1, <3>2 DEF SameSends, SameTimers
  <2>3. CASE ~reliable /\ "transport" \notin x.flags
    <3>1. y = sr
      BY <2>3
    <3>2. SameReport(tsx, sr) /\ SameGhosts(tsx, sr)
      BY <1>4, <1>7 DEF SameReport, SameGhosts
    <3> QED
      BY <1>2, <1>4, <1>7, <2>3, <2>b, <3>1, <3>2 DEF SameSends
  <2> QED
    BY <1>1, <2>1, <2>2, <2>3
<1> HIDE DEF y
<1>9. Rank("CALLING") >= Rank(y.state) /\ Owned(y) /\ Owned(tsx)
  BY <1>2, <1>8, Ranks DEF Owned
<1>10. /\ tsx' \in Tsx /\ tsx'.state = "CALLING" /\ tsx'.code = y.code
       /\ SameSends(y, tsx') /\ SameTimers(y, tsx') /\ SameGhosts(y, tsx') /\ Reports(y, tsx')
       /\ Held(y, tsx')
  BY <1>1, <1>8, <1>9, EnterEffect
<1>a. Counted'
  <2>1. Held(tsx, tsx')
    BY <1>1, <1>8, <1>9, <1>10, HeldTrans
  <2> QED
    BY <1>1, <1>9, <1>10, <2>1, Kept
<1>11. SameReport(tsx, tsx') /\ SameGhosts(tsx, tsx')
  <2>1. SameReport(y, tsx')
    BY <1>2, <1>8, <1>10 DEF Reports
  <2> QED
    BY <1>8, <1>10, <2>1 DEF SameReport, SameGhosts
<1>12. /\ tsx'.code = 0 /\ tsx'.timeout = F
       /\ tsx'.transport = tsx.transport /\ tsx'.pending = tsx.pending /\ tsx'.attached = tsx.attached
       /\ tsx'.sent = tsx.sent /\ tsx'.count = tsx.count /\ tsx'.retransmit \in {None, T1}
       /\ \/ tsx'.flags = tsx.flags /\ (reliable \/ "transport" \in tsx.flags => tsx'.retransmit = None)
          \/ tsx'.flags = tsx.flags \cup {"resched"} /\ tsx'.retransmit = None
  BY <1>2, <1>8, <1>10 DEF SameSends, SameTimers
<1>13. /\ tsx.pending # "none" <=> "transport" \in tsx.flags
       /\ tsx.pending = "first" <=> tsx.attached
       /\ tsx.pending # "first" <=> tsx.transport
       /\ tsx.pending # "first" <=> "resolved" \in tsx.flags
  BY <1>2 DEF IInv, Sending
<1>14. Keeps(tsx')
  BY <1>3, <1>10, <1>11, <1>12 DEF IInv, Typed, Tsx, Keeps, SameReport
<1>15. Sending'
  BY <1>1, <1>10, <1>12, <1>13 DEF Sending, Live
<1>16. Timing'
  BY <1>1, <1>2, <1>10, <1>12, <1>13 DEF Timing, Live
<1>17. Codes'
  BY <1>2, <1>10, <1>11, <1>12 DEF Codes, SameReport
<1>18. Returned' /\ AssertionsHold'
  BY <1>1, <1>10, <1>11 DEF IInv, Returned, AssertionsHold, SameGhosts
<1>19. Posted' /\ AlwaysDriven'
  BY <1>1, <1>2, <1>3, <1>10, <1>11, <1>12 DEF IInv, Posted, AlwaysDriven, Live, SameGhosts
<1>20. Typed' /\ Silent' /\ Source' /\ AnswerIsForThis'
  BY <1>1, <1>14, Rest
<1>21. Schedule'
  <2>1. tsx'.count = 0
    BY <1>2, <1>12 DEF IInv, Schedule
  <2>2. Copies(tsx') <= tsx'.count + 1
    BY <1>12 DEF IInv, Schedule, Copies
  <2>3. tsx'.timeout.left = TimerF
    BY <1>12 DEF F
  <2>4. Since(tsx', 0)
    <3>1. \A n \in 0 .. tsx'.count : n <= 0 /\ SendTime[n] <= 0
      <4>1. \A n \in 0 .. 0 : n = 0
        OBVIOUS
      <4> QED
        BY <2>1, <4>1, SendTimes
    <3>2. ASSUME tsx'.retransmit = T1
          PROVE  /\ tsx'.count + 1 <= 0 + T1
                 /\ tsx'.count + 1 <= TimerF => SendTime[tsx'.count + 1] <= 0 + T1
      <4>1. 0 \in 0 .. TimerF /\ SendTime[0] <= 0 /\ T1 \in Nat \ {0} /\ Interval(0) <= T1
        BY SendTimes, Intervals, TimersAssumption
      <4> QED
        BY <2>1, <4>1, NextSend
    <3> QED
      BY <1>12, <2>3, <3>1, <3>2, TimersAssumption DEF Since
  <2>5. 0 \in 0 .. TimerF
    BY TimersAssumption
  <2> QED
    BY <2>1, <2>2, <2>4, <2>5, OnceAtZero DEF Schedule
<1> QED
  BY <1>10, <1>15, <1>16, <1>17, <1>18, <1>19, <1>20, <1>21, <1>a DEF IInv

\* What pjsip_endpt_send_request leaves behind: the first send done, pending, or refused
\* before it was tried; a send that failed, which the callback was told; no transaction at all.
Fresh(y) ==
    /\ y \in Tsx /\ y.retransmit = None /\ y.count = 0 /\ y.lost = FALSE /\ y.asserts = TRUE
    /\ Spare(y) = 0
    /\ \/ /\ y.state = "NULL" /\ y.flags = {"resolved"} /\ y.transport = TRUE
          /\ y.pending = "none" /\ y.attached = FALSE /\ y.sent = 1
       \/ /\ y.state = "NULL" /\ y.flags = {"transport"} /\ y.transport = FALSE
          /\ y.pending = "first" /\ y.attached = TRUE /\ y.sent = 0
       \/ /\ y.state = "NULL" /\ y.flags = {"transport"} /\ y.transport = FALSE
          /\ y.pending = "none" /\ y.attached = FALSE /\ y.sent = 0
       \/ /\ y.state = "TERMINATED" /\ y.flags = {"resolved"} /\ y.transport = FALSE
          /\ y.pending = "none" /\ y.attached = FALSE /\ y.sent = 0
       \/ /\ y.state = "none" /\ y.flags = {} /\ y.transport = FALSE
          /\ y.pending = "none" /\ y.attached = FALSE /\ y.sent = 0
    /\ IF y.state = "TERMINATED"
       THEN /\ y.code = 503 /\ y.timeout = Due /\ y.armed = FALSE /\ y.told = 503 /\ y.calls = 1
       ELSE /\ y.code = 0 /\ y.timeout = NoTimer /\ y.told = 0 /\ y.calls = 0
            /\ y.armed = (y.state = "NULL")

\* tsx_create
LEMMA NewTsxFields ==
    /\ NewTsx \in Tsx /\ NewTsx.state = "NULL" /\ NewTsx.code = 0 /\ NewTsx.flags = {}
    /\ NewTsx.transport = FALSE /\ NewTsx.timeout = NoTimer /\ NewTsx.retransmit = None
    /\ NewTsx.pending = "none" /\ NewTsx.attached = FALSE /\ NewTsx.armed = TRUE
    /\ NewTsx.sent = 0 /\ NewTsx.told = 0 /\ NewTsx.calls = 0 /\ NewTsx.lost = FALSE
    /\ NewTsx.asserts = TRUE /\ NewTsx.count = 0 /\ NewTsx.refs = 1
<1>1. NewTsx \in Tsx
  BY TimerTypes DEF NewTsx, Tsx, StateNames
<1> QED
  BY <1>1 DEF NewTsx

\* No memory for a transaction.
LEMMA NoTsxFresh == Fresh(NoTsx)
<1> DEFINE y == [NewTsx EXCEPT !.state = "none", !.armed = FALSE, !.refs = 0]
<1>1. y \in Tsx
  <2>1. /\ "none" \in StateNames /\ FALSE \in BOOLEAN /\ 0 \in Int
    BY DEF StateNames
  <2> QED
    BY <2>1, NewTsxFields DEF Tsx
<1>2. /\ y.state = "none" /\ y.code = 0 /\ y.flags = {} /\ y.transport = FALSE
      /\ y.timeout = NoTimer /\ y.retransmit = None /\ y.pending = "none"
      /\ y.attached = FALSE /\ y.armed = FALSE /\ y.sent = 0 /\ y.told = 0 /\ y.calls = 0
      /\ y.lost = FALSE /\ y.asserts = TRUE /\ y.count = 0 /\ y.refs = 0
  BY NewTsxFields DEF Tsx
<1>3. NoTsx = y
  BY DEF NoTsx
<1> HIDE DEF y
<1>4. Spare(y) = 0
  <2>1. One(Owned(y)) = 0
    BY <1>2 DEF Owned, One
  <2>2. One(y.timeout # NoTimer) = 0
    BY <1>2 DEF One
  <2>3. One(y.retransmit # None) = 0
    BY <1>2 DEF One
  <2>4. One(y.pending # "none") = 0
    BY <1>2 DEF One
  <2> QED
    BY <1>2, <2>1, <2>2, <2>3, <2>4 DEF Spare, Holders
<1> QED
  BY <1>1, <1>2, <1>3, <1>4 DEF Fresh

\* tsx_on_state_null up to the first send.
LEMMA FirstSendFresh ==
    ASSUME reliable \in BOOLEAN, NEW out \in Outcomes \cup {"refused"}
    PROVE  Fresh(tsx_send_msg(NewTsx, out))
<1> USE NewTsxFields
<1> DEFINE n == AddRef(NewTsx)
           y == [n EXCEPT !.flags = @ \cup {"transport"}, !.attached = TRUE, !.pending = "first"]
           g == DecRef(y)
           d == [g EXCEPT !.pending = "none", !.attached = FALSE,
                          !.flags = (@ \ {"transport"}) \cup {"resolved"}]
           found == [d EXCEPT !.transport = TRUE, !.sent = @ + 1]
<1>1. tsx_send_msg(NewTsx, out) = FirstSend(NewTsx, out)
  BY DEF tsx_send_msg
<1>2. {"transport"} \in SUBSET Flags /\ {"resolved"} \in SUBSET Flags
  BY DEF Flags
<1>3. /\ y \in Tsx /\ y.state = "NULL" /\ y.code = 0 /\ y.flags = {"transport"} /\ y.transport = FALSE
      /\ y.timeout = NoTimer /\ y.retransmit = None /\ y.pending = "first"
      /\ y.attached = TRUE /\ y.armed = TRUE /\ y.sent = 0 /\ y.told = 0 /\ y.calls = 0
      /\ y.lost = FALSE /\ y.asserts = TRUE /\ y.count = 0 /\ y.refs = 2
  <2>1. Same(NewTsx, n) /\ n.refs = 2
    BY AddRefEffect
  <2> HIDE DEF n
  <2>2. /\ n \in Tsx /\ n.state = "NULL" /\ n.code = 0 /\ n.flags = {} /\ n.transport = FALSE
        /\ n.timeout = NoTimer /\ n.retransmit = None /\ n.armed = TRUE /\ n.sent = 0 /\ n.told = 0
        /\ n.calls = 0 /\ n.lost = FALSE /\ n.asserts = TRUE /\ n.count = 0 /\ n.refs = 2
    <3>1. n.armed = TRUE /\ n.lost = FALSE /\ n.asserts = TRUE /\ n.transport = FALSE
      BY <2>1 DEF Same, SameSends, SameReport, SameGhosts
    <3> QED
      BY <2>1, <3>1 DEF Same, SameSends, SameTimers, SameReport, SameGhosts
  <2>3. n.flags \cup {"transport"} = {"transport"}
    BY <2>2
  <2> QED
    BY <1>2, <2>2, <2>3 DEF Tsx
<1> HIDE DEF n
<1>a. /\ g \in Tsx /\ g.state = "NULL" /\ g.code = 0 /\ g.flags = {"transport"} /\ g.transport = FALSE
      /\ g.timeout = NoTimer /\ g.retransmit = None /\ g.armed = TRUE /\ g.sent = 0 /\ g.told = 0
      /\ g.calls = 0 /\ g.lost = FALSE /\ g.asserts = TRUE /\ g.count = 0 /\ g.refs = 1
  <2> HIDE DEF y
  <2>1. Same(y, g) /\ g.refs = 1
    BY <1>3, DecRefEffect
  <2> HIDE DEF g
  <2>2. g.armed = TRUE /\ g.lost = FALSE /\ g.asserts = TRUE /\ g.transport = FALSE
    BY <1>3, <2>1 DEF Same, SameSends, SameReport, SameGhosts
  <2> QED
    BY <1>3, <2>1, <2>2 DEF Same, SameSends, SameTimers, SameReport, SameGhosts
<1>4. CASE out = "pending"
  <2>1. FirstSend(NewTsx, out) = y
    BY <1>4 DEF FirstSend, n
  <2> HIDE DEF y
  <2>2. Spare(y) = 0
    BY <1>3 DEF Spare, Holders, Owned, One
  <2> QED
    BY <1>1, <1>3, <2>1, <2>2 DEF Fresh
<1>5. CASE out = "refused"
  <2> DEFINE z == [g EXCEPT !.attached = FALSE, !.pending = "none"]
  <2>1. FirstSend(NewTsx, out) = z
    BY <1>5 DEF FirstSend, n
  <2> HIDE DEF g
  <2>2. /\ z \in Tsx /\ z.state = "NULL" /\ z.code = 0 /\ z.flags = {"transport"} /\ z.transport = FALSE
        /\ z.timeout = NoTimer /\ z.retransmit = None /\ z.pending = "none"
        /\ z.attached = FALSE /\ z.armed = TRUE /\ z.sent = 0 /\ z.told = 0 /\ z.calls = 0
        /\ z.lost = FALSE /\ z.asserts = TRUE /\ z.count = 0 /\ z.refs = 1
    BY <1>a DEF Tsx
  <2> HIDE DEF z
  <2>3. Spare(z) = 0
    BY <2>2 DEF Spare, Holders, Owned, One
  <2> QED
    BY <1>1, <2>1, <2>2, <2>3 DEF Fresh
<1>6. /\ d \in Tsx /\ d.state = "NULL" /\ d.code = 0 /\ d.flags = {"resolved"} /\ d.transport = FALSE
      /\ d.timeout = NoTimer /\ d.retransmit = None /\ d.pending = "none"
      /\ d.attached = FALSE /\ d.armed = TRUE /\ d.sent = 0 /\ d.told = 0 /\ d.calls = 0
      /\ d.lost = FALSE /\ d.asserts = TRUE /\ d.count = 0 /\ d.refs = 1
  <2> HIDE DEF g
  <2>1. (g.flags \ {"transport"}) \cup {"resolved"} = {"resolved"}
    BY <1>a
  <2> QED
    BY <1>2, <1>a, <2>1 DEF Tsx
<1>7. CASE out = "sent"
  <2>1. /\ found \in Tsx /\ found.state = "NULL" /\ found.code = 0 /\ found.flags = {"resolved"}
        /\ found.transport = TRUE /\ found.timeout = NoTimer /\ found.retransmit = None
        /\ found.pending = "none" /\ found.attached = FALSE /\ found.armed = TRUE
        /\ found.sent = 1 /\ found.told = 0 /\ found.calls = 0
        /\ found.lost = FALSE /\ found.asserts = TRUE /\ found.count = 0 /\ found.refs = 1
    <3> HIDE DEF d
    <3>1. d.sent + 1 = 1 /\ 1 \in Nat
      BY <1>6
    <3> QED
      BY <1>6, <3>1 DEF Tsx
  <2>2. send_msg_callback(y, TRUE, "sent") = found
    <3>1. y.attached /\ "send" \notin found.flags /\ "resched" \notin found.flags
      BY <1>3, <2>1
    <3> QED
      BY <3>1 DEF send_msg_callback
  <2>3. FirstSend(NewTsx, out) = found
    BY <1>7, <2>2 DEF FirstSend, n
  <2> HIDE DEF found
  <2>4. Spare(found) = 0
    BY <2>1 DEF Spare, Holders, Owned, One
  <2> QED
    BY <1>1, <2>1, <2>3, <2>4 DEF Fresh
<1>8. CASE out = "error"
  <2>1. send_msg_callback(y, FALSE, "sent") = Fail(d, 503)
    <3>1. y.attached /\ d.state \notin {"TERMINATED", "DESTROYED"}
      BY <1>3, <1>6
    <3> QED
      BY <3>1 DEF send_msg_callback
  <2>2. FirstSend(NewTsx, out) = Fail(d, 503)
    BY <1>8, <2>1 DEF FirstSend, n
  <2> HIDE DEF d
  <2>3. d.armed /\ Owned(d) /\ Spare(d) = 0 /\ Safe(d)
    BY <1>6 DEF Safe, Spare, Holders, Owned, One
  <2>4. Fails(d, Fail(d, 503), 503) /\ Spare(Fail(d, 503)) = 0
    BY <1>6, <2>3, FailEffect DEF Held
  <2> DEFINE z == Fail(d, 503)
  <2>5. /\ z \in Tsx /\ z.state = "TERMINATED" /\ z.code = 503 /\ z.flags = {"resolved"}
        /\ z.transport = FALSE /\ z.timeout = Due /\ z.retransmit = None /\ z.pending = "none"
        /\ z.attached = FALSE /\ z.armed = FALSE /\ z.sent = 0 /\ z.told = 503 /\ z.calls = 1
        /\ z.lost = FALSE /\ z.asserts = TRUE /\ z.count = 0
    <3>1. z.attached = FALSE /\ z.armed = FALSE
      <4>1. z.attached = (d.attached /\ "transport" \notin d.flags) /\ z.armed = FALSE
        BY <2>4 DEF Fails
      <4> HIDE DEF z
      <4> QED
        BY <1>6, <4>1
    <3>2. z.flags = {"resolved"}
      BY <1>6, <2>4 DEF Fails
    <3>3. z.lost = FALSE /\ z.asserts = TRUE
      BY <1>6, <2>4 DEF Fails, SameGhosts
    <3>4. /\ z \in Tsx /\ z.state = "TERMINATED" /\ z.code = 503
          /\ z.transport = FALSE /\ z.timeout = Due /\ z.retransmit = None /\ z.pending = "none"
          /\ z.sent = 0 /\ z.count = 0
      BY <1>6, <2>4 DEF Fails
    <3>5. z.told = 503 /\ z.calls = 1
      BY <1>6, <2>4 DEF Fails
    <3> QED
      BY <3>1, <3>2, <3>3, <3>4, <3>5
  <2> HIDE DEF z
  <2>6. tsx_send_msg(NewTsx, out) = z
    BY <1>1, <2>2 DEF z
  <2> QED
    BY <2>4, <2>5, <2>6 DEF Fresh, z
<1> QED
  BY <1>4, <1>5, <1>7, <1>8 DEF Outcomes

\* A new REGISTER takes the other branch; what is left of the one before last is gone.
LEMMA RegisterOK ==
    ASSUME IInv, NEW t \in {"timer", "event"},
           NEW out \in Outcomes \cup {"refused", "nomem"}, Register(t, out)
    PROVE  IInv'
<1> DEFINE b == 1 - branch
<1>1. /\ Gone /\ Unlocked /\ sender' = (IF Rejected(tsx') THEN "nobody" ELSE t)
      /\ branch' = b /\ result' = (IF Rejected(tsx') THEN "rejected" ELSE "none")
      /\ regc' = (IF ~Rejected(tsx') THEN "sent" ELSE IF t = "timer" THEN "none" ELSE "idle")
      /\ requests' = (requests \ {b}) \cup (IF tsx'.sent > 0 THEN {b} ELSE {})
      /\ responses' = {r \in responses : r.branch # b /\ r.code # 100}
      /\ threads' = {th \in threads : th.branch # b}
      /\ recorded' = FALSE /\ UNCHANGED <<registered, listed, expires, reliable, errev>>
  BY DEF Register, SendRequest
<1>2. Fresh(tsx')
  <2>1. CASE out = "nomem"
    BY <2>1, NoTsxFresh DEF Register, SendRequest
  <2>2. CASE out # "nomem"
    <3>1. tsx' = tsx_send_msg(NewTsx, out)
      BY <2>2 DEF Register, SendRequest
    <3> QED
      BY <2>2, <3>1, FirstSendFresh DEF IInv, Typed
  <2> QED
    BY <2>1, <2>2
<1>3. branch \in Branches /\ b \in Branches /\ b # branch
  BY DEF IInv, Typed, Branches
<1>4. errev = FALSE
  BY <1>1 DEF IInv, Typed, Posted, Live, Gone, LeftBehind, Unlocked
<1>5. /\ tsx'.state \in {"NULL", "TERMINATED", "none"}
      /\ Rejected(tsx') <=> tsx'.state # "NULL" \/ (tsx'.pending = "none" /\ "transport" \in tsx'.flags)
  BY <1>2 DEF Fresh, Rejected, Refused
<1>6. Typed'
  <2>1. tsx' \in Tsx /\ (tsx'.timeout.id = "inactive" <=> tsx'.timeout = NoTimer)
    BY <1>2 DEF Fresh, NoTimer, Due
  <2>2. /\ sender' \in {"nobody", "timer", "event"} /\ result' \in {"none", "accepted", "rejected"}
        /\ regc' \in {"none", "sent", "active", "idle"} /\ branch' \in Branches
        /\ requests' \subseteq Branches
        /\ responses' \subseteq [branch : Branches, code : {100, 200, SIP_FORBIDDEN}]
        /\ threads' \subseteq [branch : Branches, pc : {"lookup", "answer"}]
    BY <1>1, <1>3 DEF IInv, Typed
  <2> QED
    BY <1>1, <2>1, <2>2 DEF IInv, Typed
<1>7. Sending'
  BY <1>1, <1>2, <1>5 DEF Sending, Live, Fresh
<1>8. Timing'
  BY <1>1, <1>2, <1>5 DEF Timing, Live, Fresh, NoTimer
<1>9. Silent'
  BY <1>1, <1>2 DEF Silent, Fresh
<1>10. Codes'
  <2>1. CASE tsx'.state = "TERMINATED"
    <3>1. tsx'.code = 503 /\ ~tsx'.armed /\ tsx'.calls = 1
      BY <1>2, <2>1 DEF Fresh
    <3> QED
      BY <2>1, <3>1 DEF Codes
  <2>2. CASE tsx'.state = "NULL"
    <3>1. tsx'.code = 0 /\ tsx'.armed /\ tsx'.calls = 0 /\ tsx'.told = 0
      BY <1>2, <2>2 DEF Fresh
    <3> QED
      BY <2>2, <3>1 DEF Codes
  <2>3. CASE tsx'.state = "none"
    <3>1. tsx'.code = 0 /\ ~tsx'.armed /\ tsx'.calls = 0 /\ tsx'.told = 0
      BY <1>2, <2>3 DEF Fresh
    <3> QED
      BY <2>3, <3>1 DEF Codes
  <2> QED
    BY <1>5, <2>1, <2>2, <2>3
<1>11. Posted' /\ AlwaysDriven'
  BY <1>1, <1>2, <1>4 DEF Posted, AlwaysDriven, Running, Fresh, Due, NoTimer
<1>12. Source' /\ AnswerIsForThis'
  <2>1. tsx'.code \in {0, 503} /\ tsx'.told \in {0, 503}
    BY <1>2 DEF Fresh
  <2> QED
    BY <1>1, <2>1 DEF IInv, Source, AnswerIsForThis, SIP_FORBIDDEN
<1>13. Returned'
  BY <1>1, <1>2, <1>5 DEF Returned, Fresh
<1>14. AssertionsHold'
  BY <1>2 DEF AssertionsHold, Fresh
<1>15. Schedule'
  <2>1. tsx'.count = 0 /\ Copies(tsx') <= 1
    BY <1>2 DEF Fresh, Copies
  <2> QED
    BY <1>5, <2>1, UnrepeatedOK DEF Unrepeated, Waiting
<1>16. Counted'
  <2>1. tsx' \in Tsx /\ Spare(tsx') = One(errev')
    BY <1>1, <1>2, <1>4 DEF Fresh, One
  <2> QED
    BY <2>1, BalancedAfter
<1> QED
  BY <1>6, <1>7, <1>8, <1>9, <1>10, <1>11, <1>12, <1>13, <1>14, <1>15, <1>16 DEF IInv

-----------------------------------------------------------------------------
(* The steps of SipSupService *)

\* A step that does not touch SipSubService leaves most of the invariant as it is.
LEMMA Elsewhere ==
    ASSUME IInv, UNCHANGED <<tsxVars, sub>>
    PROVE  Core' /\ Counted' /\ tsx' = tsx /\ branch' = branch
<1>1. /\ reliable' = reliable /\ tsx' = tsx /\ sender' = sender /\ errev' = errev
      /\ result' = result /\ branch' = branch
  BY DEF tsxVars, sub
<1>2. Core
  BY DEF IInv, Core
<1>3. Sending' /\ Timing'
  BY <1>1, <1>2 DEF Core, Sending, Timing, Live
<1>4. Codes' /\ Returned' /\ AssertionsHold'
  BY <1>1, <1>2 DEF Core, Codes, Returned, AssertionsHold
<1>5. Posted' /\ AlwaysDriven'
  BY <1>1, <1>2 DEF Core, Posted, Live, AlwaysDriven, Running
<1>6. Schedule'
  BY <1>1, <1>2 DEF Core, Schedule
<1>7. Counted'
  BY <1>1 DEF IInv, Counted
<1> QED
  BY <1>1, <1>3, <1>4, <1>5, <1>6, <1>7 DEF Core

\* A copy of a REGISTER that is on the wire is not the one whose first send still runs.
LEMMA ReceiveOK == ASSUME IInv, NEW b \in Branches, Receive(b) PROVE IInv'
<1>1. /\ b \in requests /\ requests' \subseteq requests /\ requests \subseteq Branches
      /\ threads' = threads \cup {[branch |-> b, pc |-> "lookup"]}
      /\ UNCHANGED <<tsxVars, sub, responses, listed, expires, recorded>>
  BY DEF Receive, IInv, Typed
<1>2. Core' /\ Counted' /\ tsx' = tsx /\ branch' = branch
  BY <1>1, Elsewhere
<1>3. Typed'
  BY <1>1 DEF IInv, Typed, tsxVars, sub
<1>4. Silent'
  BY <1>1, <1>2 DEF IInv, Silent
<1>5. Source' /\ AnswerIsForThis'
  BY <1>1, <1>2 DEF IInv, Source, AnswerIsForThis
<1> QED
  BY <1>2, <1>3, <1>4, <1>5 DEF IInv, Core

\* A thread of SipSupService speaks of the REGISTER it was given, hence not of a silent one.
LEMMA TryingOK == ASSUME IInv, NEW th \in threads, Trying(th) PROVE IInv'
<1>1. /\ responses' = responses \cup {[branch |-> th.branch, code |-> 100]}
      /\ UNCHANGED <<tsxVars, sub, requests, threads, listed, expires, recorded>>
  BY DEF Trying, sup
<1>2. Core' /\ Counted' /\ tsx' = tsx /\ branch' = branch
  BY <1>1, Elsewhere
<1>3. Typed'
  BY <1>1 DEF IInv, Typed, tsxVars, sub
<1>4. Silent'
  BY <1>1, <1>2 DEF IInv, Silent
<1>5. Source' /\ AnswerIsForThis'
  BY <1>1, <1>2 DEF IInv, Source, AnswerIsForThis, SIP_FORBIDDEN
<1> QED
  BY <1>2, <1>3, <1>4, <1>5 DEF IInv, Core

\* A REGISTER that is recorded is the one the thread was given.
LEMMA RecordOK == ASSUME IInv, NEW th \in threads, Record(th) PROVE IInv'
<1> DEFINE w == [th EXCEPT !.pc = "answer"]
<1>1. /\ threads' = (threads \ {th}) \cup {w}
      /\ expires' = (expires \/ listed)
      /\ recorded' = (recorded \/ (listed /\ th.branch = branch))
      /\ UNCHANGED <<tsxVars, sub, requests, responses, listed>>
  BY DEF Record, net
<1>2. w \in [branch : Branches, pc : {"lookup", "answer"}] /\ w.branch = th.branch
  BY DEF IInv, Typed
<1> HIDE DEF w
<1>3. Core' /\ Counted' /\ tsx' = tsx /\ branch' = branch
  BY <1>1, Elsewhere
<1>4. recorded' \in BOOLEAN /\ (recorded => recorded') /\ (listed /\ th.branch = branch => recorded')
  BY <1>1 DEF IInv, Typed
<1>5. Typed'
  BY <1>1, <1>2, <1>4 DEF IInv, Typed, tsxVars, sub
<1>6. Silent'
  BY <1>1, <1>2, <1>3 DEF IInv, Silent
<1>7. Source' /\ AnswerIsForThis'
  BY <1>1, <1>2, <1>3, <1>4 DEF IInv, Source, AnswerIsForThis
<1> QED
  BY <1>3, <1>5, <1>6, <1>7 DEF IInv, Core

\* A 200 follows what was recorded; the list cannot lose a platform in between.
LEMMA AnswerOK == ASSUME IInv, NEW th \in threads, Answer(th) PROVE IInv'
<1> DEFINE code == IF listed THEN 200 ELSE SIP_FORBIDDEN
           ans == [branch |-> th.branch, code |-> code]
<1>1. /\ th.pc = "answer" /\ threads' = threads \ {th}
      /\ responses' = responses \/ responses' = responses \cup {ans}
      /\ UNCHANGED <<tsxVars, sub, requests, listed, expires, recorded>>
  BY DEF Answer
<1>2. /\ ans \in [branch : Branches, code : {100, 200, SIP_FORBIDDEN}] /\ ans.branch = th.branch
      /\ ans.code = 200 => listed
      /\ ans.code = SIP_FORBIDDEN => ~listed
  BY DEF IInv, Typed, SIP_FORBIDDEN
<1> HIDE DEF ans
<1>3. Core' /\ Counted' /\ tsx' = tsx /\ branch' = branch
  BY <1>1, Elsewhere
<1>4. Typed'
  BY <1>1, <1>2 DEF IInv, Typed, tsxVars, sub
<1>5. Silent'
  BY <1>1, <1>2, <1>3 DEF IInv, Silent
<1>6. Source' /\ AnswerIsForThis'
  BY <1>1, <1>2, <1>3 DEF IInv, Source, AnswerIsForThis
<1> QED
  BY <1>3, <1>4, <1>5, <1>6 DEF IInv, Core

\* A restart forgets what was recorded, not that it was.
LEMMA RestartOK == IInv /\ Restart => IInv'
<1> SUFFICES ASSUME IInv, Restart PROVE IInv'
  OBVIOUS
<1>1. threads' = {} /\ expires' = FALSE /\ UNCHANGED <<tsxVars, sub, requests, responses, listed, recorded>>
  BY DEF Restart, net
<1>2. Core' /\ Counted' /\ tsx' = tsx /\ branch' = branch
  BY <1>1, Elsewhere
<1>3. Typed'
  <2>1. expires' \in BOOLEAN
    BY <1>1
  <2>2. threads' \subseteq [branch : Branches, pc : {"lookup", "answer"}]
    BY <1>1
  <2> QED
    BY <1>1, <2>1, <2>2 DEF IInv, Typed, tsxVars, sub
<1>4. Silent'
  BY <1>1, <1>2 DEF IInv, Silent
<1>5. Source' /\ AnswerIsForThis'
  BY <1>1, <1>2 DEF IInv, Source, AnswerIsForThis
<1> QED
  BY <1>2, <1>3, <1>4, <1>5 DEF IInv, Core

-----------------------------------------------------------------------------
(* The theorems *)

LEMMA InitOK == Init => IInv
<1> SUFFICES ASSUME Init PROVE IInv
  OBVIOUS
<1>1. /\ reliable \in BOOLEAN /\ sender = "nobody" /\ errev = FALSE /\ regc = "none"
      /\ registered = FALSE /\ result = "none" /\ branch = 0 /\ requests = {} /\ responses = {}
      /\ threads = {} /\ listed \in BOOLEAN /\ expires = FALSE /\ recorded = FALSE
  BY DEF Init, TsxInit
<1>2. /\ tsx \in Tsx /\ tsx.state = "none" /\ tsx.code = 0 /\ tsx.flags = {} /\ tsx.transport = FALSE
      /\ tsx.timeout = NoTimer /\ tsx.retransmit = None /\ tsx.pending = "none"
      /\ tsx.attached = FALSE /\ tsx.armed = FALSE /\ tsx.told = 0 /\ tsx.calls = 0
      /\ tsx.lost = FALSE /\ tsx.asserts = TRUE /\ tsx.count = 0 /\ tsx.sent = 0
  <2>1. Fresh(tsx) /\ tsx.state = "none"
    BY NoTsxFresh, NewTsxFields DEF Init, TsxInit, NoTsx, Tsx
  <2>2. tsx.armed = FALSE /\ tsx.attached = FALSE
    BY <2>1 DEF Fresh
  <2> QED
    BY <2>1, <2>2 DEF Fresh
<1>3. Typed
  <2>1. errev \in BOOLEAN /\ registered \in BOOLEAN /\ expires \in BOOLEAN /\ recorded \in BOOLEAN
    BY <1>1
  <2>2. /\ requests \subseteq Branches
        /\ responses \subseteq [branch : Branches, code : {100, 200, SIP_FORBIDDEN}]
        /\ threads \subseteq [branch : Branches, pc : {"lookup", "answer"}]
    BY <1>1
  <2>3. tsx.timeout.id = "inactive" <=> tsx.timeout = NoTimer
    BY <1>2 DEF NoTimer
  <2>4. branch \in Branches
    BY <1>1 DEF Branches
  <2> QED
    BY <1>1, <1>2, <2>1, <2>2, <2>3, <2>4 DEF Typed
<1>4. Sending /\ Timing
  BY <1>1, <1>2 DEF Sending, Timing, Live, NoTimer
<1>5. Silent /\ Source /\ AnswerIsForThis
  BY <1>1, <1>2 DEF Silent, Source, AnswerIsForThis, SIP_FORBIDDEN
<1>6. Codes
  BY <1>2 DEF Codes
<1>7. Posted /\ Returned /\ AssertionsHold /\ AlwaysDriven
  BY <1>1, <1>2 DEF Posted, Returned, AssertionsHold, AlwaysDriven, Running
<1>8. Schedule
  BY <1>2, OnceAtZero DEF Schedule, Copies, Waiting
<1>9. Counted
  <2>1. tsx.refs = 0
    BY NewTsxFields DEF Init, TsxInit, NoTsx, Tsx
  <2> QED
    BY <1>1, <1>2, <2>1 DEF Counted, Holders, Owned, One
<1> QED
  BY <1>3, <1>4, <1>5, <1>6, <1>7, <1>8, <1>9 DEF IInv

\* Every step of Registration keeps the invariant.
LEMMA NextOK == IInv /\ [Next]_vars => IInv'
<1> SUFFICES ASSUME IInv, [Next]_vars PROVE IInv'
  OBVIOUS
<1>1. CASE Attempt \/ Refresh
  BY <1>1, RegisterOK DEF Attempt, Refresh
<1>2. CASE Accepted
  BY <1>2, AcceptedOK
<1>3. CASE Transaction
  <2>1. Aside
    BY <1>3 DEF Transaction, Aside
  <2>2. CASE TsxTimers
    BY <2>1, <2>2, TimeoutFiresOK, TransportErrFiresOK, TransportErrLockedOK, TickOK,
       RetransmitFiresOK DEF TsxTimers
  <2>3. CASE TransportEnds
    BY <2>1, <2>3, FirstSendEndsOK, TransportCallbackOK DEF TransportEnds
  <2>4. CASE Disconnected
    BY <2>1, <2>4, DisconnectedOK
  <2> QED
    BY <1>3, <2>2, <2>3, <2>4 DEF Transaction
<1>4. CASE \E r \in responses : Response(r)
  BY <1>4, ResponseOK
<1>5. CASE SupService
  BY <1>5, ReceiveOK, TryingOK, RecordOK, AnswerOK, RestartOK DEF SupService
<1>6. CASE UNCHANGED vars
  <2>1. UNCHANGED <<tsxVars, sub, requests, responses, threads, listed, expires, recorded>>
    BY <1>6 DEF vars, net, sup
  <2>2. Core' /\ Counted' /\ tsx' = tsx /\ branch' = branch
    BY <2>1, Elsewhere
  <2>3. Typed' /\ Silent' /\ Source' /\ AnswerIsForThis'
    BY <2>1, <2>2 DEF IInv, Typed, Silent, Source, AnswerIsForThis, tsxVars, sub
  <2> QED
    BY <2>2, <2>3 DEF IInv, Core
<1> QED
  BY <1>1, <1>2, <1>3, <1>4, <1>5, <1>6 DEF Next, SubService

\* In every order of answers, timers, late sends, disconnects and restarts the
\* transaction and its peer stay within IInv.
THEOREM Invariance == Spec => []IInv
BY InitOK, NextOK, PTL DEF Spec

\* The handlers of sip_transaction.c keep each other's assumptions: no assertion fails,
\* no timer, send, listener or thread uses a transaction whose memory is freed, and the
\* memory of a transaction that was destroyed is freed when the last of them is done.
THEOREM HandlersSound == Spec => []Sound
<1>1. IInv => Sound
  <2> SUFFICES ASSUME IInv PROVE Sound
    OBVIOUS
  <2>1. tsx \in Tsx
    BY DEF IInv, Typed
  <2>2. StateNames = {States[i] : i \in DOMAIN States}
    <3>1. DOMAIN States = 1 .. 7
      BY DEF States
    <3>2. /\ States[1] = "none" /\ States[2] = "NULL" /\ States[3] = "CALLING"
          /\ States[4] = "PROCEEDING" /\ States[5] = "COMPLETED" /\ States[6] = "TERMINATED"
          /\ States[7] = "DESTROYED"
      BY DEF States
    <3> QED
      BY <3>1, <3>2 DEF StateNames
  <2>3. /\ One(Owned(tsx)) \in {0, 1} /\ One(tsx.timeout # NoTimer) \in {0, 1}
        /\ One(tsx.retransmit # None) \in {0, 1} /\ One(tsx.pending # "none") \in {0, 1}
        /\ One(errev) \in {0, 1}
        /\ One(Owned(tsx)) = 0 <=> ~Owned(tsx)
        /\ One(tsx.timeout # NoTimer) = 0 <=> tsx.timeout = NoTimer
        /\ One(tsx.retransmit # None) = 0 <=> tsx.retransmit = None
        /\ One(tsx.pending # "none") = 0 <=> tsx.pending = "none"
        /\ One(errev) = 0 <=> ~errev
    BY DEF One
  <2>4. /\ tsx.refs \in Nat
        /\ tsx.refs = 0 <=> /\ ~Owned(tsx) /\ tsx.timeout = NoTimer /\ tsx.retransmit = None
                            /\ tsx.pending = "none" /\ ~errev
    BY <2>3 DEF IInv, Counted, Holders
  <2>5. TypeOK
    BY <2>1, <2>2, <2>4 DEF IInv, Typed, TypeOK, Tsx, Timer, Flags
  <2>6. ASSUME ~Owned(tsx) PROVE ~tsx.transport /\ sender = "nobody"
    BY <2>6 DEF IInv, Sending, Owned
  <2>7. NoUseAfterFree
    BY <2>4, <2>6 DEF NoUseAfterFree, Freed, InUse
  <2>8. NoLeak
    BY <2>4 DEF NoLeak, Freed, InUse, Owned
  <2>9. NoDestroyLater
    BY DEF IInv, Sending, NoDestroyLater
  <2> QED
    BY <2>5, <2>7, <2>8, <2>9 DEF Sound, IInv
<1> QED
  BY <1>1, Invariance, PTL

\* What regc_tsx_callback is told of a REGISTER is what SipSupService did with this very
\* one, whatever answers to the one before it the network still delivers.
THEOREM AnswersForThis == Spec => []AnswerIsForThis
<1>1. IInv => AnswerIsForThis
  BY DEF IInv
<1> QED
  BY <1>1, Invariance, PTL

\* A running transaction has a timer that will drive it on, or a transport error that is
\* about to end it, or was left behind by one that came too late.
THEOREM NeverStuck == Spec => []AlwaysDriven
<1>1. IInv => AlwaysDriven
  BY DEF IInv
<1> QED
  BY <1>1, Invariance, PTL

\* No request is sent more often than RFC 3261 allows before timer F ends it, and over
\* TCP no request is sent twice: a send the transport takes its time for is not repeated
\* in a burst when it is finished, and a 100 does not bring the next copy forward.
THEOREM SendsWithinRFC == Spec => []SendsBounded
<1>1. IInv => SendsBounded
  <2> SUFFICES ASSUME IInv PROVE tsx.sent <= SendsAllowed
    BY DEF SendsBounded
  <2>1. tsx.sent \in Nat /\ tsx.count \in Nat /\ reliable \in BOOLEAN
    BY DEF IInv, Typed, Tsx
  <2>2. tsx.sent <= tsx.count + 1
    BY <2>1 DEF IInv, Schedule, Copies
  <2>3. CASE reliable
    BY <2>1, <2>2, <2>3 DEF IInv, Schedule, SendsAllowed
  <2>4. CASE ~reliable
    <3> DEFINE allowed == {n \in 0 .. TimerF : SendTime[n] <= TimerF}
    <3>1. IsFiniteSet(0 .. TimerF)
      BY FS_Interval, TimersAssumption
    <3>2. IsFiniteSet(allowed)
      BY <3>1, FS_Subset
    <3>3. 0 .. tsx.count \in SUBSET allowed
      BY <2>1, TimersAssumption DEF IInv, Schedule
    <3>4. Cardinality(0 .. tsx.count) = tsx.count + 1
      BY <2>1, FS_Interval
    <3>5. Cardinality(0 .. tsx.count) <= Cardinality(allowed) /\ Cardinality(allowed) \in Nat
      BY <3>2, <3>3, FS_Subset, FS_CardinalityType
    <3>6. SendsAllowed = Cardinality(allowed)
      BY <2>4 DEF SendsAllowed
    <3> HIDE DEF allowed
    <3> QED
      BY <2>1, <2>2, <3>4, <3>5, <3>6
  <2> QED
    BY <2>3, <2>4
<1> QED
  BY <1>1, Invariance, PTL

\* What the caller of pjsip_endpt_send_request can see of a request, in a state of IInv.
LEMMA Visible ==
    IInv => /\ tsx.calls \in {0, 1} /\ result \in {"none", "accepted", "rejected"}
            /\ result = "none" => tsx.calls = 0
            /\ Gone => result = "rejected" \/ tsx.calls = 1 \/ result = "none"
            /\ sender # "nobody" => result = "none"
<1> SUFFICES ASSUME IInv
             PROVE  /\ tsx.calls \in {0, 1} /\ result \in {"none", "accepted", "rejected"}
                    /\ result = "none" => tsx.calls = 0
                    /\ Gone => result = "rejected" \/ tsx.calls = 1 \/ result = "none"
                    /\ sender # "nobody" => result = "none"
  OBVIOUS
<1>1. tsx.state \in StateNames
  BY DEF IInv, Typed, Tsx
<1>2. tsx.calls \in {0, 1} /\ (result = "none" => tsx.calls = 0)
  BY <1>1 DEF IInv, Codes, Returned, StateNames
<1>3. Gone => result = "rejected" \/ tsx.calls = 1 \/ result = "none"
  BY <1>1 DEF IInv, Codes, Returned, Posted, Gone, LeftBehind, Unlocked
<1> QED
  BY <1>2, <1>3 DEF IInv, Typed, Returned

\* pjsip_endpt_send_request keeps the promise RegClient relies on, all but that an
\* accepted request is reported in the end: a request is reported at most once, and
\* not before the call that sends it has returned, unless that call rejects it.
THEOREM KeepsRequestContract == Spec => Contract!Init /\ [][Contract!Next]_(Contract!vars)
<1>1. Init => Contract!Init
  <2> SUFFICES ASSUME Init PROVE result = "none" /\ tsx.calls = 0
    BY DEF Contract!Init
  <2>1. tsx.calls = 0
    BY NoTsxFresh, NewTsxFields DEF Init, TsxInit, NoTsx, Tsx
  <2> QED
    BY <2>1 DEF Init
<1>2. IInv /\ IInv' /\ [Next]_vars => [Contract!Next]_(Contract!vars)
  <2> SUFFICES ASSUME IInv, IInv', [Next]_vars PROVE [Contract!Next]_(Contract!vars)
    OBVIOUS
  <2> USE DEF Contract!Next, Contract!vars, Contract!Accept, Contract!Reject, Contract!Tell,
              Contract!Again, Contract!RejectAgain
  <2>1. /\ tsx.calls \in {0, 1} /\ result \in {"none", "accepted", "rejected"}
        /\ result = "none" => tsx.calls = 0
        /\ Gone => result = "rejected" \/ tsx.calls = 1 \/ result = "none"
        /\ sender # "nobody" => result = "none"
    BY Visible
  <2>2. tsx'.calls \in {0, 1} /\ (result' = "none" => tsx'.calls = 0)
    <3>1. (IInv => tsx.calls \in {0, 1} /\ (result = "none" => tsx.calls = 0))'
      BY Visible, PTL
    <3> QED
      BY <3>1
  <2>3. CASE Attempt \/ Refresh
    <3>1. Gone /\ result' \in {"none", "rejected"}
      BY <2>3 DEF Attempt, Refresh, Register
    <3> QED
      BY <2>1, <2>2, <3>1
  <2>4. CASE Accepted
    <3>1. result = "none" /\ result' = "accepted"
      BY <2>1, <2>4 DEF Accepted, StartTimers
    <3>2. tsx'.calls = 0
      <4>1. tsx'.state = "CALLING"
        BY <2>4, AcceptedOK
      <4> QED
        BY <4>1 DEF IInv, Codes
    <3> QED
      BY <2>1, <3>1, <3>2
  <2>5. CASE result' = result
    BY <2>1, <2>2, <2>5
  <2>6. Attempt \/ Refresh \/ Accepted \/ result' = result
    BY DEF Next, SubService, SupService, Transaction, Response, Receive, Trying, Record, Answer,
           Restart, sub, vars
  <2> QED
    BY <2>3, <2>4, <2>5, <2>6
<1> QED
  BY <1>1, <1>2, Invariance, PTL DEF Spec
=============================================================================
