-------------------------- MODULE RegClientProofs ---------------------------
(***************************************************************************)
(* For every set of answers and of configured intervals, and for any value *)
(* of the library's three times: no use of a freed regc, one transaction   *)
(* at a time, a balanced busy counter, no silent end of a registration, a  *)
(* refresh before the registration ends, and the contract SubService       *)
(* relies on.                                                              *)
(*                                                                         *)
(* Every argument rests on which functions may be on the two stacks.       *)
(* Shape says so: a send is below at most one callback, the one            *)
(* pjsip_endpt_send_request makes when it fails; on the event thread it is *)
(* itself called from a callback or from the refresh timer.  Control adds  *)
(* that the timer thread, until its REGISTER is on the wire, is alone with *)
(* the regc.  Token says who is responsible for the next thing to happen:  *)
(* a transaction under way, the armed timer, or a function on a stack,     *)
(* never two of them.  Reported follows the result from the answer to      *)
(* client_cb.                                                              *)
(***************************************************************************)
EXTENDS RegClient, FiniteSetTheorems, SequenceTheorems, TLAPS

Depth(t) == Len(stack[t])
Fn(t, i) == stack[t][i].fn
Pc(t, i) == stack[t][i].pc
Ans(t, i) == stack[t][i].ans

SendPc == {"enter", "check", "request", "failed", "sent", "unsent"}
TsxPc == {"enter", "lock", "reregister", "unlock", "release", "tell", "relock", "dec"}
RefreshPc == {"enter", "register", "tell", "dec"}

\* the callback pjsip_endpt_send_request makes when it fails
Inner(t, i) ==
    Fn(t, i) = "tsxcb" /\ Ans(t, i).code = 503 /\ Pc(t, i) \in {"enter", "lock", "tell", "relock"}

TimerShape ==
    /\ Depth("timer") \in 0 .. 2
    /\ Depth("timer") > 0 => Fn("timer", 1) = "send"
    /\ Depth("timer") = 1 => Pc("timer", 1) \in SendPc
    /\ Depth("timer") = 2 => Pc("timer", 1) = "failed" /\ Inner("timer", 2)

EventShape ==
    /\ Depth("event") \in 0 .. 3
    /\ Depth("event") = 1 => \/ Fn("event", 1) = "tsxcb" /\ Pc("event", 1) \in TsxPc
                             \/ Fn("event", 1) = "refresh" /\ Pc("event", 1) \in RefreshPc
    /\ Depth("event") > 1 => /\ Fn("event", 1) \in {"tsxcb", "refresh"}
                             /\ Pc("event", 1) = "sending" /\ Fn("event", 2) = "send"
    /\ Depth("event") = 2 => Pc("event", 2) \in SendPc
    /\ Depth("event") = 3 => Pc("event", 2) = "failed" /\ Inner("event", 3)

Shape == TimerShape /\ EventShape

\* the event thread runs one function only, fn at pc
Only(fn, pc) == Depth("event") = 1 /\ Fn("event", 1) = fn /\ Pc("event", 1) = pc
SentAgain == Depth("event") = 2 /\ Pc("event", 2) = "sent"
TimerSent == Depth("timer") = 1 /\ Pc("timer", 1) = "sent"

\* the callback of the event thread is repeating a REGISTER, with the lock in its hands
UnderLock == /\ Depth("event") > 0 /\ Fn("event", 1) = "tsxcb"
             /\ Pc("event", 1) \in {"reregister", "sending", "unlock", "release"}

Before == {"create", "init", "register", "destroy", "failed"}

Control ==
    /\ ~delete_flag
    /\ gb = "send" <=> Depth("timer") # 0
    /\ gb \in Before \/ (Depth("timer") # 0 /\ ~TimerSent)
          => Depth("event") = 0 /\ tsx = 0 /\ timer = None
    /\ gb \in Before => ~has_tsx
    /\ gb = "create" => mem = "none"
    /\ gb \in {"init", "register", "send", "destroy", "ok"} => mem = "live"
    /\ gb = "failed" => mem # "live"
    /\ lock = IF UnderLock THEN "event" ELSE Nobody

\* the innermost function of a thread has still to decide what becomes of has_tsx
Choosing ==
    \/ Depth("timer") = 1 /\ Pc("timer", 1) = "request"
    \/ Depth("timer") = 2 /\ Pc("timer", 2) \in {"enter", "lock"}
    \/ Only("tsxcb", "enter") \/ Only("tsxcb", "lock")
    \/ Depth("event") = 2 /\ Pc("event", 2) = "request"
    \/ Depth("event") = 3 /\ Pc("event", 3) \in {"enter", "lock"}
\* ... or, having failed, to reset it
Failing == \/ Depth("timer") = 1 /\ Pc("timer", 1) = "failed"
           \/ Depth("event") = 2 /\ Pc("event", 2) = "failed"

Token ==
    /\ tsx \in {0, 1}
    /\ tsx = 1 => /\ has_tsx /\ timer = None
                  /\ \/ Depth("event") = 0 \/ SentAgain \/ Only("refresh", "dec")
                     \/ Only("tsxcb", "unlock") \/ Only("tsxcb", "dec")
    /\ Choosing => has_tsx /\ tsx = 0 /\ timer = None
    /\ has_tsx => tsx = 1 \/ Choosing \/ Failing
    /\ timer # None => \/ Depth("event") = 0 \/ Only("tsxcb", "tell") \/ Only("tsxcb", "relock")

Success(code) == code \div 100 = 2

\* client_cb has been told the last outcome
Settled == Only("tsxcb", "relock")
           \/ (Depth("event") = 0 /\ tsx = 0 /\ (gb = "ok" \/ TimerSent))

Reported ==
    /\ SentAgain \/ Only("tsxcb", "unlock") \/ Only("tsxcb", "dec") => tsx = 1
    /\ Only("refresh", "dec") => tsx = 1 \/ told.code = 400
    /\ UnderLock => Ans("event", 1).code = 423
    /\ Only("tsxcb", "tell") /\ Success(Ans("event", 1).code) => expires = 0 \/ timer # None
    /\ Depth("event") > 0 /\ Fn("event", 1) = "tsxcb" => Ans("event", 1).code # 0
    /\ Settled => told.code # 0
    /\ Settled /\ Success(told.code) => told.expiration = 0 \/ timer # None

Busy(t, i) == IF i <= Depth(t) /\ Pc(t, i) # "enter" THEN 1 ELSE 0
Counted == busy_ctr = Busy("timer", 1) + Busy("timer", 2)
                      + Busy("event", 1) + Busy("event", 2) + Busy("event", 3)

IInv == TypeOK /\ Shape /\ Control /\ Token /\ Reported /\ Counted /\ RefreshInTime

-----------------------------------------------------------------------------
(* What the steps do to a stack *)

LEMMA TopFrame ==
    ASSUME TypeOK, NEW t \in Threads, In(t)
    PROVE  /\ Depth(t) \in Nat \ {0} /\ Top(t) = stack[t][Depth(t)] /\ Top(t) \in FrameType
           /\ stack[t] \in Seq(FrameType) /\ DOMAIN stack[t] = 1 .. Depth(t)
BY DEF TypeOK, In, Top, Depth, Last

LEMMA AtPcFrames ==
    ASSUME NEW s \in Seq(FrameType), s # <<>>, NEW pc \in Statements
    PROVE  /\ AtPc(s, pc) \in Seq(FrameType) /\ Len(AtPc(s, pc)) = Len(s)
           /\ \A i \in 1 .. Len(s) : i # Len(s) => AtPc(s, pc)[i] = s[i]
           /\ AtPc(s, pc)[Len(s)] = [s[Len(s)] EXCEPT !.pc = pc]
<1>1. Len(s) \in Nat \ {0} /\ s[Len(s)] \in FrameType
  OBVIOUS
<1>2. [s[Len(s)] EXCEPT !.pc = pc] \in FrameType
  BY <1>1 DEF FrameType
<1> QED
  BY <1>1, <1>2 DEF AtPc

\* Goto changes the statement of the innermost frame of one thread.
LEMMA GotoEffect ==
    ASSUME TypeOK, NEW t \in Threads, In(t), NEW pc \in Statements, Goto(t, pc)
    PROVE  /\ stack' \in [Threads -> Seq(FrameType)]
           /\ \A u \in Threads : u # t => stack'[u] = stack[u]
           /\ Len(stack'[t]) = Len(stack[t]) /\ stack'[t] # <<>>
           /\ \A i \in 1 .. Len(stack[t]) : i # Len(stack[t]) => stack'[t][i] = stack[t][i]
           /\ stack'[t][Len(stack[t])].pc = pc
           /\ stack'[t][Len(stack[t])].fn = stack[t][Len(stack[t])].fn
           /\ stack'[t][Len(stack[t])].ans = stack[t][Len(stack[t])].ans
<1>1. stack'[t] = AtPc(stack[t], pc) /\ \A u \in Threads : u # t => stack'[u] = stack[u]
  BY DEF TypeOK, Goto
<1>2. stack[t] \in Seq(FrameType) /\ stack[t] # <<>>
  BY DEF TypeOK, In
<1>3. stack' \in [Threads -> Seq(FrameType)]
  BY <1>1, <1>2, AtPcFrames DEF TypeOK, Goto
<1>4. stack[t][Len(stack[t])] \in FrameType
  BY <1>2
<1>5. /\ Len(stack'[t]) = Len(stack[t])
      /\ \A i \in 1 .. Len(stack[t]) : i # Len(stack[t]) => stack'[t][i] = stack[t][i]
      /\ stack'[t][Len(stack[t])] = [stack[t][Len(stack[t])] EXCEPT !.pc = pc]
  BY <1>1, <1>2, AtPcFrames
<1>6. /\ stack'[t][Len(stack[t])].pc = pc
      /\ stack'[t][Len(stack[t])].fn = stack[t][Len(stack[t])].fn
      /\ stack'[t][Len(stack[t])].ans = stack[t][Len(stack[t])].ans
  BY <1>4, <1>5 DEF FrameType
<1>7. stack'[t] # <<>>
  BY <1>2, <1>5
<1> QED
  BY <1>1, <1>3, <1>5, <1>6, <1>7

\* Call does the same and adds a frame.
LEMMA CallEffect ==
    ASSUME TypeOK, NEW t \in Threads, In(t), NEW pc \in Statements, NEW fn \in {"send", "tsxcb", "refresh"},
           NEW ans \in Answers \cup {NoAnswer, Local(408), Local(503)}, Call(t, pc, fn, ans)
    PROVE  /\ stack' \in [Threads -> Seq(FrameType)]
           /\ \A u \in Threads : u # t => stack'[u] = stack[u]
           /\ Len(stack'[t]) = Len(stack[t]) + 1 /\ stack'[t] # <<>>
           /\ \A i \in 1 .. Len(stack[t]) : i # Len(stack[t]) => stack'[t][i] = stack[t][i]
           /\ stack'[t][Len(stack[t])].pc = pc
           /\ stack'[t][Len(stack[t])].fn = stack[t][Len(stack[t])].fn
           /\ stack'[t][Len(stack[t])].ans = stack[t][Len(stack[t])].ans
           /\ stack'[t][Len(stack[t]) + 1].pc = "enter"
           /\ stack'[t][Len(stack[t]) + 1].fn = fn
           /\ stack'[t][Len(stack[t]) + 1].ans = ans
<1> DEFINE below == AtPc(stack[t], pc)
<1>1. stack'[t] = Append(below, Frame(fn, ans)) /\ \A u \in Threads : u # t => stack'[u] = stack[u]
  BY DEF TypeOK, Call
<1>2. stack[t] \in Seq(FrameType) /\ stack[t] # <<>> /\ Len(stack[t]) \in Nat \ {0}
  BY DEF TypeOK, In
<1>3. /\ below \in Seq(FrameType) /\ Len(below) = Len(stack[t])
      /\ \A i \in 1 .. Len(stack[t]) : i # Len(stack[t]) => below[i] = stack[t][i]
      /\ below[Len(stack[t])] = [stack[t][Len(stack[t])] EXCEPT !.pc = pc]
  BY <1>2, AtPcFrames
<1> HIDE DEF below
<1>4. Frame(fn, ans) \in FrameType
  BY DEF Frame, FrameType, Statements
<1>5. /\ stack'[t] \in Seq(FrameType) /\ Len(stack'[t]) = Len(stack[t]) + 1
      /\ \A i \in 1 .. Len(stack[t]) : stack'[t][i] = below[i]
      /\ stack'[t][Len(stack[t]) + 1] = Frame(fn, ans)
  BY <1>1, <1>2, <1>3, <1>4
<1>6. stack' \in [Threads -> Seq(FrameType)]
  BY <1>1, <1>5 DEF TypeOK, Call
<1>7. stack[t][Len(stack[t])] \in FrameType
  BY <1>2
<1>8. Len(stack[t]) \in 1 .. Len(stack[t])
  BY <1>2
<1>9. /\ below[Len(stack[t])].pc = pc
      /\ below[Len(stack[t])].fn = stack[t][Len(stack[t])].fn
      /\ below[Len(stack[t])].ans = stack[t][Len(stack[t])].ans
  BY <1>3, <1>7 DEF FrameType
<1>10. Frame(fn, ans).pc = "enter" /\ Frame(fn, ans).fn = fn /\ Frame(fn, ans).ans = ans
  BY DEF Frame
<1>11. \A i \in 1 .. Len(stack[t]) : i # Len(stack[t]) => stack'[t][i] = stack[t][i]
  BY <1>3, <1>5
<1>12. stack'[t][Len(stack[t])] = below[Len(stack[t])]
  BY <1>5, <1>8
<1>13. stack'[t] # <<>>
  BY <1>2, <1>5
<1> QED
  BY <1>1, <1>5, <1>6, <1>9, <1>10, <1>11, <1>12, <1>13

LEMMA FrontFrames ==
    ASSUME NEW s \in Seq(FrameType), s # <<>>
    PROVE  /\ Front(s) \in Seq(FrameType) /\ Len(Front(s)) = Len(s) - 1
           /\ \A i \in 1 .. Len(s) - 1 : Front(s)[i] = s[i]
<1> DEFINE n == Len(s) - 1
<1>1. n \in Nat /\ Len(s) = n + 1
  OBVIOUS
<1>2. \A i \in 1 .. n : s[i] \in FrameType
  BY <1>1
<1> HIDE DEF n
<1>3. n \in Int /\ 1 \in Int
  BY <1>1
<1>4. /\ SubSeq(s, 1, n) \in Seq(FrameType)
      /\ Len(SubSeq(s, 1, n)) = IF 1 <= n THEN n - 1 + 1 ELSE 0
      /\ \A i \in 1 .. n - 1 + 1 : SubSeq(s, 1, n)[i] = s[1 + i - 1]
  BY <1>2, <1>3, SubSeqProperties
<1>5. Len(SubSeq(s, 1, n)) = n /\ \A i \in 1 .. n : SubSeq(s, 1, n)[i] = s[i]
  BY <1>1, <1>4
<1>6. Front(s) = SubSeq(s, 1, n) /\ n = Len(s) - 1
  BY DEF Front, n
<1> QED
  BY <1>4, <1>5, <1>6

-----------------------------------------------------------------------------
(* The same, for the frames a thread may have: what becomes of frame k, its     *)
(* innermost, and of those below it                                             *)

Other(t) == IF t = "timer" THEN "event" ELSE "timer"
Aside(t) == stack' \in [Threads -> Seq(FrameType)] /\ stack'[Other(t)] = stack[Other(t)]

\* frame k goes on at pc
Moves(t, k, pc) ==
    /\ Aside(t) /\ Depth(t)' = k
    /\ Fn(t, k)' = Fn(t, k) /\ Ans(t, k)' = Ans(t, k) /\ Pc(t, k)' = pc
    /\ k > 1 => stack'[t][1] = stack[t][1]
    /\ k > 2 => stack'[t][2] = stack[t][2]

\* fn is called and becomes frame n; the one below it waits at pc
Calls(t, n, pc, fn, ans) ==
    /\ Aside(t) /\ Depth(t)' = n
    /\ Fn(t, n)' = fn /\ Ans(t, n)' = ans /\ Pc(t, n)' = "enter"
    /\ n = 2 => Fn(t, 1)' = Fn(t, 1) /\ Ans(t, 1)' = Ans(t, 1) /\ Pc(t, 1)' = pc
    /\ n = 3 => /\ Fn(t, 2)' = Fn(t, 2) /\ Ans(t, 2)' = Ans(t, 2) /\ Pc(t, 2)' = pc
                /\ stack'[t][1] = stack[t][1]

\* fn is the first function of the library a thread enters
Enters(t, fn, ans) ==
    /\ Aside(t) /\ Depth(t)' = 1
    /\ Fn(t, 1)' = fn /\ Ans(t, 1)' = ans /\ Pc(t, 1)' = "enter"

\* t leaves the library
Leaves(t) == Aside(t) /\ Depth(t)' = 0

LEMMA GotoMoves ==
    ASSUME TypeOK, NEW t \in Threads, NEW k \in 1 .. 3, Depth(t) = k, NEW pc \in Statements, Goto(t, pc)
    PROVE  Moves(t, k, pc)
<1>1. In(t) /\ Len(stack[t]) = k
  BY DEF TypeOK, In, Depth
<1>2. /\ stack' \in [Threads -> Seq(FrameType)]
      /\ \A u \in Threads : u # t => stack'[u] = stack[u]
      /\ Len(stack'[t]) = k
      /\ \A i \in 1 .. k : i # k => stack'[t][i] = stack[t][i]
      /\ stack'[t][k].pc = pc /\ stack'[t][k].fn = stack[t][k].fn /\ stack'[t][k].ans = stack[t][k].ans
  BY <1>1, GotoEffect
<1>3. Aside(t)
  BY <1>2 DEF Aside, Other, Threads
<1>4. (k > 1 => 1 \in 1 .. k /\ 1 # k) /\ (k > 2 => 2 \in 1 .. k /\ 2 # k)
  OBVIOUS
<1> QED
  BY <1>2, <1>3, <1>4 DEF Moves, Depth, Fn, Pc, Ans

LEMMA CallCalls ==
    ASSUME TypeOK, NEW t \in Threads, NEW k \in 1 .. 2, Depth(t) = k, NEW pc \in Statements,
           NEW fn \in {"send", "tsxcb", "refresh"},
           NEW ans \in Answers \cup {NoAnswer, Local(408), Local(503)}, Call(t, pc, fn, ans)
    PROVE  Calls(t, k + 1, pc, fn, ans)
<1>1. In(t) /\ Len(stack[t]) = k
  BY DEF TypeOK, In, Depth
<1>2. /\ stack' \in [Threads -> Seq(FrameType)]
      /\ \A u \in Threads : u # t => stack'[u] = stack[u]
      /\ Len(stack'[t]) = k + 1
      /\ \A i \in 1 .. k : i # k => stack'[t][i] = stack[t][i]
      /\ stack'[t][k].pc = pc /\ stack'[t][k].fn = stack[t][k].fn /\ stack'[t][k].ans = stack[t][k].ans
      /\ stack'[t][k + 1].pc = "enter" /\ stack'[t][k + 1].fn = fn /\ stack'[t][k + 1].ans = ans
  BY <1>1, CallEffect
<1>3. Aside(t)
  BY <1>2 DEF Aside, Other, Threads
<1>4. k = 2 => 1 \in 1 .. k /\ 1 # k
  OBVIOUS
<1>5. (k + 1 = 2 <=> k = 1) /\ (k + 1 = 3 <=> k = 2)
  OBVIOUS
<1> QED
  BY <1>2, <1>3, <1>4, <1>5 DEF Calls, Depth, Fn, Pc, Ans

Pushes(t, fn, ans) == stack' = [stack EXCEPT ![t] = <<Frame(fn, ans)>>]

LEMMA PushEnters ==
    ASSUME TypeOK, NEW t \in Threads, NEW fn \in {"send", "tsxcb", "refresh"},
           NEW ans \in Answers \cup {NoAnswer, Local(408), Local(503)},
           Pushes(t, fn, ans)
    PROVE  Enters(t, fn, ans)
<1>1. Frame(fn, ans) \in FrameType
  BY DEF Frame, FrameType, Statements
<1>2. stack'[t] = <<Frame(fn, ans)>> /\ Aside(t)
  BY <1>1 DEF TypeOK, Pushes, Aside, Other, Threads
<1>3. Len(stack'[t]) = 1 /\ stack'[t][1] = Frame(fn, ans)
  BY <1>2
<1>4. Frame(fn, ans).pc = "enter" /\ Frame(fn, ans).fn = fn /\ Frame(fn, ans).ans = ans
  BY DEF Frame
<1> QED
  BY <1>2, <1>3, <1>4 DEF Enters, Depth, Fn, Pc, Ans

\* A callback returns, or a send to gbRegister: the frame below is as it was.
LEMMA ReturnPops ==
    ASSUME TypeOK, NEW t \in Threads, NEW k \in 1 .. 3, Depth(t) = k, NEW ok, Return(t, ok),
           k = 1 \/ Fn(t, k) # "send"
    PROVE  /\ k > 1 => Moves(t, k - 1, Pc(t, k - 1))
           /\ k = 1 => Leaves(t)
           /\ gb' = IF t = "timer" /\ k = 1 THEN IF ok THEN "ok" ELSE "destroy" ELSE gb
<1> DEFINE below == Front(stack[t])
<1>1. In(t) /\ Len(stack[t]) = k /\ stack[t] \in Seq(FrameType) /\ stack[t] # <<>>
  BY DEF TypeOK, In, Depth
<1>2. below \in Seq(FrameType) /\ Len(below) = k - 1 /\ \A i \in 1 .. k - 1 : below[i] = stack[t][i]
  BY <1>1, FrontFrames
<1>3. Top(t).fn = Fn(t, k)
  BY <1>1, TopFrame DEF Fn, Depth
<1>4. below = <<>> <=> k = 1
  BY <1>2
<1>5. stack' = [stack EXCEPT ![t] = below]
  BY <1>3, <1>4 DEF Return
<1>6. gb' = IF t = "timer" /\ k = 1 THEN IF ok THEN "ok" ELSE "destroy" ELSE gb
  BY <1>4 DEF Return
<1> HIDE DEF below
<1>7. stack'[t] = below /\ Aside(t)
  BY <1>2, <1>5 DEF TypeOK, Aside, Other, Threads
<1>8. /\ k > 1 => k - 1 \in 1 .. k - 1
      /\ k - 1 > 1 => 1 \in 1 .. k - 1
      /\ ~(k - 1 > 2) /\ (k = 1 => k - 1 = 0)
  OBVIOUS
<1> QED
  BY <1>2, <1>6, <1>7, <1>8 DEF Moves, Leaves, Depth, Fn, Pc, Ans

\* pjsip_regc_send returns to the function of the library that called it.
LEMMA ReturnSends ==
    ASSUME TypeOK, NEW ok \in BOOLEAN, Return("event", ok),
           Depth("event") = 2, Fn("event", 2) = "send", Fn("event", 1) \in {"tsxcb", "refresh"}
    PROVE  Moves("event", 1, AfterSend(Fn("event", 1), ok)) /\ gb' = gb
<1> DEFINE below == Front(stack["event"])
<1>0. "event" \in Threads
  BY DEF Threads
<1>1. In("event") /\ Len(stack["event"]) = 2 /\ stack["event"] \in Seq(FrameType) /\ stack["event"] # <<>>
  <2>1. stack["event"] \in Seq(FrameType) /\ Len(stack["event"]) = 2
    BY <1>0 DEF TypeOK, Depth
  <2>2. stack["event"] # <<>>
    BY <2>1
  <2> QED
    BY <2>1, <2>2 DEF In
<1>2. below \in Seq(FrameType) /\ Len(below) = 1 /\ below[1] = stack["event"][1] /\ below # <<>>
  <2>1. below \in Seq(FrameType) /\ Len(below) = Len(stack["event"]) - 1 /\ \A i \in 1 .. Len(stack["event"]) - 1 : below[i] = stack["event"][i]
    BY <1>1, FrontFrames
  <2>2. 2 - 1 = 1 /\ 1 \in 1 .. 1
    OBVIOUS
  <2>3. Len(below) = 1 /\ below[1] = stack["event"][1]
    BY <1>1, <2>1, <2>2
  <2> QED
    BY <2>1, <2>3
<1>3. Top("event").fn = "send" /\ Last(below).fn = Fn("event", 1)
  BY <1>0, <1>1, <1>2, TopFrame DEF Fn, Depth, Last
<1> DEFINE pc == AfterSend(Fn("event", 1), ok)
<1>4. pc \in Statements
  BY DEF AfterSend, Statements
<1>5. stack' = [stack EXCEPT !["event"] = AtPc(below, pc)] /\ gb' = gb
  BY <1>2, <1>3 DEF Return
<1> HIDE DEF below, pc
<1>6. AtPc(below, pc) \in Seq(FrameType) /\ Len(AtPc(below, pc)) = 1 /\ AtPc(below, pc)[1] = [below[1] EXCEPT !.pc = pc]
  BY <1>2, <1>4, AtPcFrames
<1>7. stack'["event"] = AtPc(below, pc) /\ Aside("event")
  BY <1>0, <1>5, <1>6 DEF TypeOK, Aside, Other, Threads
<1>8. below[1] \in FrameType
  BY <1>2
<1>9. stack'["event"][1].fn = stack["event"][1].fn /\ stack'["event"][1].ans = stack["event"][1].ans /\ stack'["event"][1].pc = pc
  BY <1>2, <1>6, <1>7, <1>8 DEF FrameType
<1> QED
  BY <1>5, <1>6, <1>7, <1>9 DEF Moves, Depth, Fn, Pc, Ans, pc

-----------------------------------------------------------------------------
(* Where a thread is when it takes a step of a function *)

SendLevel(t) == IF t = "timer" THEN 1 ELSE 2

LEMMA SendPlace ==
    ASSUME IInv, NEW t \in Threads, NEW pc, At(t, "send", pc)
    PROVE  Depth(t) = SendLevel(t) /\ Fn(t, SendLevel(t)) = "send" /\ Pc(t, SendLevel(t)) = pc
<1>1. In(t) /\ Depth(t) \in Nat \ {0} /\ Top(t) = stack[t][Depth(t)] /\ Top(t).fn = "send" /\ Top(t).pc = pc
  BY TopFrame DEF IInv, At
<1> QED
  BY <1>1 DEF IInv, Shape, TimerShape, EventShape, Fn, Pc, Inner, Threads, Depth, SendLevel

LEMMA TsxPlace ==
    ASSUME IInv, NEW t \in Threads, NEW pc, At(t, "tsxcb", pc)
    PROVE  \/ /\ Depth(t) = SendLevel(t) + 1 /\ Inner(t, SendLevel(t) + 1)
              /\ Pc(t, SendLevel(t) + 1) = pc /\ Top(t).ans = Ans(t, SendLevel(t) + 1)
           \/ t = "event" /\ Only("tsxcb", pc) /\ Top(t).ans = Ans("event", 1)
<1>1. In(t) /\ Depth(t) \in Nat \ {0} /\ Top(t) = stack[t][Depth(t)] /\ Top(t).fn = "tsxcb" /\ Top(t).pc = pc
  BY TopFrame DEF IInv, At
<1> QED
  BY <1>1 DEF IInv, Shape, TimerShape, EventShape, Fn, Pc, Ans, Inner, Threads, Depth, SendLevel, Only

LEMMA RefreshPlace ==
    ASSUME IInv, NEW pc, At("event", "refresh", pc)
    PROVE  Only("refresh", pc)
<1>1. "event" \in Threads /\ In("event")
  BY DEF Threads, At
<1>2. Depth("event") \in Nat \ {0} /\ Top("event") = stack["event"][Depth("event")] /\ Top("event").fn = "refresh" /\ Top("event").pc = pc
  BY <1>1, TopFrame DEF IInv, At
<1> QED
  BY <1>2 DEF IInv, Shape, TimerShape, EventShape, Fn, Pc, Inner, Depth, Only

\* t is in pjsip_regc_send, at pc
Sends(t, pc) ==
    Depth(t) = SendLevel(t) /\ Fn(t, SendLevel(t)) = "send" /\ Pc(t, SendLevel(t)) = pc

LEMMA SendGoto ==
    ASSUME IInv, NEW t \in Threads, NEW pc0, At(t, "send", pc0), NEW pc \in Statements, Goto(t, pc)
    PROVE  /\ t = "timer" => Sends("timer", pc0) /\ Moves("timer", 1, pc)
           /\ t = "event" => Sends("event", pc0) /\ Moves("event", 2, pc)
<1>1. Depth(t) = SendLevel(t) /\ Fn(t, SendLevel(t)) = "send" /\ Pc(t, SendLevel(t)) = pc0
  BY SendPlace
<1>2. SendLevel(t) \in 1 .. 3 /\ TypeOK
  BY DEF SendLevel, IInv
<1>3. Moves(t, SendLevel(t), pc)
  BY <1>1, <1>2, GotoMoves
<1> QED
  BY <1>1, <1>3 DEF SendLevel, Sends

LEMMA LocalCode == \A c : Local(c).code = c
BY DEF Local, NoAnswer

LEMMA SendCall ==
    ASSUME IInv, NEW t \in Threads, NEW pc0, At(t, "send", pc0), NEW pc \in Statements,
           Call(t, pc, "tsxcb", Local(503))
    PROVE  /\ t = "timer" => Sends("timer", pc0) /\ Calls("timer", 2, pc, "tsxcb", Local(503))
           /\ t = "event" => Sends("event", pc0) /\ Calls("event", 3, pc, "tsxcb", Local(503))
<1>1. Depth(t) = SendLevel(t) /\ Fn(t, SendLevel(t)) = "send" /\ Pc(t, SendLevel(t)) = pc0
  BY SendPlace
<1>2. SendLevel(t) \in 1 .. 2 /\ TypeOK
  BY DEF SendLevel, IInv
<1>3. Local(503) \in Answers \cup {NoAnswer, Local(408), Local(503)}
  OBVIOUS
<1>4. Calls(t, SendLevel(t) + 1, pc, "tsxcb", Local(503))
  BY <1>1, <1>2, <1>3, CallCalls
<1> QED
  BY <1>1, <1>4 DEF SendLevel, Sends

LEMMA SendReturn ==
    ASSUME IInv, NEW t \in Threads, NEW pc0, At(t, "send", pc0), NEW ok \in BOOLEAN, Return(t, ok)
    PROVE  /\ t = "timer" => /\ Sends("timer", pc0) /\ Leaves("timer")
                             /\ gb' = IF ok THEN "ok" ELSE "destroy"
           /\ t = "event" => /\ Sends("event", pc0) /\ gb' = gb
                             /\ Moves("event", 1, AfterSend(Fn("event", 1), ok))
<1>1. Depth(t) = SendLevel(t) /\ Fn(t, SendLevel(t)) = "send" /\ Pc(t, SendLevel(t)) = pc0 /\ TypeOK
  BY SendPlace DEF IInv
<1>2. CASE t = "timer"
  <2>1. Depth("timer") = 1 /\ 1 \in 1 .. 3 /\ "timer" \in Threads /\ Return("timer", ok)
    BY <1>1, <1>2 DEF SendLevel, Threads
  <2>2. Leaves("timer") /\ gb' = IF ok THEN "ok" ELSE "destroy"
    BY <1>1, <2>1, ReturnPops
  <2> QED
    BY <1>1, <1>2, <2>2 DEF Sends
<1>3. CASE t = "event"
  <2>1. Depth("event") = 2 /\ Fn("event", 2) = "send" /\ Return("event", ok)
    BY <1>1, <1>3 DEF SendLevel
  <2>2. Fn("event", 1) \in {"tsxcb", "refresh"}
    BY <2>1 DEF IInv, Shape, EventShape
  <2> QED
    BY <1>1, <1>3, <2>1, <2>2, ReturnSends DEF Sends
<1> QED
  BY <1>2, <1>3 DEF Threads

\* t is in a callback made by a failed send, its frame k, at pc
Called(t, k, pc) == Depth(t) = k /\ Inner(t, k) /\ Pc(t, k) = pc

LEMMA TsxWhere ==
    ASSUME IInv, NEW t \in Threads, NEW pc, At(t, "tsxcb", pc)
    PROVE  \/ t = "timer" /\ Called("timer", 2, pc) /\ Top("timer").ans = Ans("timer", 2)
           \/ t = "event" /\ Called("event", 3, pc) /\ Top("event").ans = Ans("event", 3)
           \/ t = "event" /\ Only("tsxcb", pc) /\ Top("event").ans = Ans("event", 1)
<1>1. SendLevel("timer") + 1 = 2 /\ SendLevel("event") + 1 = 3
  BY DEF SendLevel
<1> QED
  BY <1>1, TsxPlace DEF Called, Threads

LEMMA TsxGoto ==
    ASSUME IInv, NEW t \in Threads, NEW pc0, At(t, "tsxcb", pc0), NEW pc \in Statements, Goto(t, pc)
    PROVE  \/ t = "timer" /\ Called("timer", 2, pc0) /\ Moves("timer", 2, pc)
           \/ t = "event" /\ Called("event", 3, pc0) /\ Moves("event", 3, pc)
           \/ t = "event" /\ Only("tsxcb", pc0) /\ Moves("event", 1, pc)
<1>1. TypeOK /\ 1 \in 1 .. 3 /\ 2 \in 1 .. 3 /\ 3 \in 1 .. 3
  BY DEF IInv
<1>2. CASE t = "timer" /\ Called("timer", 2, pc0)
  <2>1. Depth("timer") = 2 /\ "timer" \in Threads /\ Goto("timer", pc)
    BY <1>2 DEF Called, Threads
  <2> QED
    BY <1>1, <1>2, <2>1, GotoMoves
<1>3. CASE t = "event" /\ Called("event", 3, pc0)
  <2>1. Depth("event") = 3 /\ "event" \in Threads /\ Goto("event", pc)
    BY <1>3 DEF Called, Threads
  <2> QED
    BY <1>1, <1>3, <2>1, GotoMoves
<1>4. CASE t = "event" /\ Only("tsxcb", pc0)
  <2>1. Depth("event") = 1 /\ "event" \in Threads /\ Goto("event", pc)
    BY <1>4 DEF Only, Threads
  <2> QED
    BY <1>1, <1>4, <2>1, GotoMoves
<1> QED
  BY <1>2, <1>3, <1>4, TsxWhere

LEMMA TsxReturn ==
    ASSUME IInv, NEW t \in Threads, NEW pc0, At(t, "tsxcb", pc0), NEW ok, Return(t, ok)
    PROVE  /\ gb' = gb
           /\ \/ t = "timer" /\ Called("timer", 2, pc0) /\ Moves("timer", 1, Pc("timer", 1))
              \/ t = "event" /\ Called("event", 3, pc0) /\ Moves("event", 2, Pc("event", 2))
              \/ t = "event" /\ Only("tsxcb", pc0) /\ Leaves("event")
<1>1. TypeOK /\ 1 \in 1 .. 3 /\ 2 \in 1 .. 3 /\ 3 \in 1 .. 3 /\ 2 - 1 = 1 /\ 3 - 1 = 2 /\ 2 > 1 /\ 3 > 1
  BY DEF IInv
<1>2. CASE t = "timer" /\ Called("timer", 2, pc0)
  <2>1. Depth("timer") = 2 /\ Fn("timer", 2) # "send" /\ "timer" \in Threads /\ Return("timer", ok)
    BY <1>2 DEF Called, Inner, Threads
  <2>2. Moves("timer", 2 - 1, Pc("timer", 2 - 1)) /\ gb' = gb
    BY <1>1, <2>1, ReturnPops
  <2> QED
    BY <1>1, <1>2, <2>2
<1>3. CASE t = "event" /\ Called("event", 3, pc0)
  <2>1. Depth("event") = 3 /\ Fn("event", 3) # "send" /\ "event" \in Threads /\ Return("event", ok)
    BY <1>3 DEF Called, Inner, Threads
  <2>2. Moves("event", 3 - 1, Pc("event", 3 - 1)) /\ gb' = gb
    BY <1>1, <2>1, ReturnPops
  <2> QED
    BY <1>1, <1>3, <2>2
<1>4. CASE t = "event" /\ Only("tsxcb", pc0)
  <2>1. Depth("event") = 1 /\ "event" \in Threads /\ Return("event", ok)
    BY <1>4 DEF Only, Threads
  <2> QED
    BY <1>1, <1>4, <2>1, ReturnPops
<1> QED
  BY <1>2, <1>3, <1>4, TsxWhere

\* Only the event thread's own callback repeats a REGISTER.
LEMMA OuterCall ==
    ASSUME IInv, NEW fn \in {"tsxcb", "refresh"}, NEW pc0, Only(fn, pc0), NEW pc \in Statements,
           Call("event", pc, "send", NoAnswer)
    PROVE  Calls("event", 2, pc, "send", NoAnswer)
<1>1. TypeOK /\ "event" \in Threads /\ 1 \in 1 .. 2 /\ Depth("event") = 1 /\ 1 + 1 = 2
  BY DEF IInv, Threads, Only
<1>2. NoAnswer \in Answers \cup {NoAnswer, Local(408), Local(503)} /\ "send" \in {"send", "tsxcb", "refresh"}
  OBVIOUS
<1>3. Calls("event", 1 + 1, pc, "send", NoAnswer)
  BY <1>1, <1>2, CallCalls
<1> QED
  BY <1>1, <1>3

LEMMA OuterGoto ==
    ASSUME IInv, NEW fn, NEW pc0, Only(fn, pc0), NEW pc \in Statements, Goto("event", pc)
    PROVE  Moves("event", 1, pc)
<1>1. TypeOK /\ "event" \in Threads /\ 1 \in 1 .. 3 /\ Depth("event") = 1
  BY DEF IInv, Threads, Only
<1> QED
  BY <1>1, GotoMoves

LEMMA OuterReturn ==
    ASSUME IInv, NEW fn, NEW pc0, Only(fn, pc0), NEW ok, Return("event", ok)
    PROVE  Leaves("event") /\ gb' = gb
<1>1. TypeOK /\ "event" \in Threads /\ 1 \in 1 .. 3 /\ Depth("event") = 1
  BY DEF IInv, Threads, Only
<1> QED
  BY <1>1, ReturnPops

(* The times *)

LEMMA AnswerTypes ==
    \A a \in Answers \cup {NoAnswer, Local(408), Local(503)} :
        /\ a.code \in Nat
        /\ a.min \in Nat \cup {None} /\ a.contact \in Nat \cup {None} /\ a.expires \in Nat \cup {None}
<1>1. NoAnswer.code = 0 /\ NoAnswer.min = None /\ NoAnswer.contact = None /\ NoAnswer.expires = None
  BY DEF NoAnswer
<1>2. \A c : Local(c).code = c /\ Local(c).min = None /\ Local(c).contact = None /\ Local(c).expires = None
  BY DEF Local, NoAnswer
<1>3. \A a \in Answers : a.code \in Nat
  BY AnswersAssumption
<1>4. \A a \in Answers : a.min \in Nat \cup {None} /\ a.contact \in Nat \cup {None} /\ a.expires \in Nat \cup {None}
  BY AnswersAssumption
<1> QED
  BY <1>1, <1>2, <1>3, <1>4

\* The refresh is never due at once, and before the end of an interval longer than DelayBefore.
LEMMA DelayBounds ==
    ASSUME TypeOK, NEW e \in Nat \ {0}
    PROVE  Delay(e) \in Nat /\ Delay(e) # None /\ (e > DelayBefore => Delay(e) < e)
<1>1. DelayBefore \in Nat \ {0} /\ (expires \in Nat \/ expires = None)
  BY TimesAssumption DEF TypeOK
<1> DEFINE d == e - DelayBefore
           capped == IF expires # None /\ d > expires THEN expires ELSE d
<1>2. d \in Int /\ d < e
  BY <1>1
<1> HIDE DEF d
<1>3. capped \in Int /\ capped <= d
  BY <1>1, <1>2 DEF None
<1>4. Delay(e) = Max2(capped, DelayBefore)
  BY DEF Delay, d
<1> HIDE DEF capped
<1> QED
  BY <1>1, <1>2, <1>3, <1>4 DEF Max2, None

LEMMA ExpirationType ==
    ASSUME TypeOK, NEW a \in Answers \cup {NoAnswer, Local(408), Local(503)}
    PROVE  calculate_response_expiration(a) \in Nat
<1>1. Default \in Nat
  BY TimesAssumption
<1>2. a.contact \in Nat \cup {None} /\ a.expires \in Nat \cup {None} /\ expires_hdr \in Nat \cup {None}
  BY AnswerTypes DEF TypeOK
<1> QED
  BY <1>1, <1>2 DEF calculate_response_expiration

LEMMA MinExpType ==
    ASSUME TypeOK, NEW a \in Answers \cup {NoAnswer, Local(408), Local(503)}
    PROVE  set_expires(MinExp(a)) \in Nat \cup {None}
<1>1. Guess \in Nat
  BY TimesAssumption
<1>2. a.min \in Nat \cup {None}
  BY AnswerTypes
<1> QED
  BY <1>1, <1>2 DEF set_expires, MinExp

-----------------------------------------------------------------------------
(* Every step keeps the invariant *)

Course == Shape /\ Control /\ Token /\ Reported /\ RefreshInTime

\* the phase of the contract, in terms of the frames
Seen == IF mem # "live" THEN "none"
        ELSE IF \/ tsx > 0
                \/ /\ Depth("event") > 0 /\ Fn("event", 1) = "tsxcb"
                   /\ Pc("event", 1) \notin {"relock", "dec", "unlock"} THEN "sent"
        ELSE IF \/ timer # None
                \/ Depth("event") > 0 /\ Fn("event", 1) = "refresh" /\ Pc("event", 1) # "dec" THEN "active"
        ELSE IF gb = "ok" \/ TimerSent THEN "idle" ELSE "fresh"

\* every step is one of the contract's, or none
Promise ==
    \/ Seen' = Seen
    \/ Seen = "none" /\ Seen' = "fresh"
    \/ Seen = "fresh" /\ Seen' \in {"none", "sent"}
    \/ Seen = "sent" /\ Seen' \in {"active", "idle"}
    \/ Seen = "active" /\ Seen' \in {"sent", "idle"}

LEMMA Typed == IInv => TypeOK /\ Counted
BY DEF IInv

LEMMA Together == TypeOK /\ Course /\ Counted => IInv
BY DEF IInv, Course

LEMMA TogetherNext == (TypeOK /\ Course /\ Counted => IInv)'
BY Together, PTL

USE DEF Shape, TimerShape, EventShape, Inner, Control, Token, Reported, RefreshInTime, Settled, Only,
        SentAgain, TimerSent, UnderLock, Before, Choosing, Failing, Depth, Fn, Pc, Ans,
        SendPc, TsxPc, RefreshPc, app, fields, timers, Aside, Other, SendLevel

\* How a step past the first statement of a function, or from it, is counted.
Counts(pc0) == busy_ctr' = IF pc0 = "enter" THEN busy_ctr + 1 ELSE busy_ctr

LEMMA SendCounts ==
    ASSUME Counted, NEW pc0, NEW pc, pc # "enter", Counts(pc0),
           \/ Sends("timer", pc0) /\ Moves("timer", 1, pc)
           \/ Sends("event", pc0) /\ Moves("event", 2, pc)
    PROVE  Counted'
<1>1. CASE Sends("timer", pc0) /\ Moves("timer", 1, pc)
  BY <1>1 DEF Counted, Counts, Busy, Sends, Moves
<1>2. CASE Sends("event", pc0) /\ Moves("event", 2, pc)
  BY <1>2 DEF Counted, Counts, Busy, Sends, Moves
<1> QED
  BY <1>1, <1>2

LEMMA TsxCounts ==
    ASSUME Counted, NEW pc0, NEW pc, pc # "enter", Counts(pc0),
           \/ Called("timer", 2, pc0) /\ Moves("timer", 2, pc)
           \/ Called("event", 3, pc0) /\ Moves("event", 3, pc)
           \/ Only("tsxcb", pc0) /\ Moves("event", 1, pc)
    PROVE  Counted'
<1>1. CASE Called("timer", 2, pc0) /\ Moves("timer", 2, pc)
  BY <1>1 DEF Counted, Counts, Busy, Called, Moves
<1>2. CASE Called("event", 3, pc0) /\ Moves("event", 3, pc)
  BY <1>2 DEF Counted, Counts, Busy, Called, Moves
<1>3. CASE Only("tsxcb", pc0) /\ Moves("event", 1, pc)
  BY <1>3 DEF Counted, Counts, Busy, Moves
<1> QED
  BY <1>1, <1>2, <1>3

\* The event thread has something to do only once the REGISTER of gbRegister was sent.
LEMMA EventAccepted ==
    ASSUME IInv, Depth("event") > 0 PROVE mem = "live" /\ (gb = "ok" \/ (gb = "send" /\ TimerSent))
<1>1. gb \in {"create", "init", "register", "send", "destroy", "ok", "failed"} /\ Depth("event") # 0
  BY Typed DEF TypeOK, IInv
<1>2. Control
  BY DEF IInv
<1>3. gb \notin Before /\ (gb = "send" => TimerSent)
  BY <1>1, <1>2
<1>4. gb = "send" \/ gb = "ok"
  BY <1>1, <1>3
<1>5. mem = "live"
  BY <1>2, <1>4
<1> QED
  BY <1>3, <1>4, <1>5

LEMMA SendEnterStep == ASSUME IInv, NEW t \in Threads, SendEnter(t) PROVE IInv' /\ Promise
<1>1. /\ t = "timer" => Sends("timer", "enter") /\ Moves("timer", 1, "check")
      /\ t = "event" => Sends("event", "enter") /\ Moves("event", 2, "check")
  BY SendGoto DEF SendEnter, Statements
<1>2. TypeOK'
  BY <1>1, Typed DEF TypeOK, SendEnter, Threads, Moves, Sends
<1>3. Course'
  BY <1>1 DEF IInv, SendEnter, Threads, Course, Moves, Sends
<1>p. Promise
  BY <1>1 DEF IInv, SendEnter, Threads, Promise, Seen, Moves, Sends
<1>4. Counted'
  <2>1. Counted /\ Counts("enter") /\ "check" # "enter"
    BY Typed DEF SendEnter, Counts
  <2> QED
    BY <1>1, <2>1, SendCounts DEF Threads
<1> QED
  BY <1>p, <1>2, <1>3, <1>4, TogetherNext

\* EBUSY is never returned: a thread that gets here finds no transaction pending.
LEMMA SendStartStep == ASSUME IInv, NEW t \in Threads, SendStart(t) PROVE IInv' /\ Promise
<1>1. \/ t = "timer" /\ Sends("timer", "check")
      \/ t = "event" /\ Sends("event", "check")
  BY SendPlace DEF SendStart, Threads, Sends
<1>2. ~has_tsx
  BY <1>1 DEF IInv, Threads, Moves, Sends
<1>3. Goto(t, "request") /\ At(t, "send", "check")
  BY <1>2 DEF SendStart
<1>4. /\ t = "timer" => Sends("timer", "check") /\ Moves("timer", 1, "request")
      /\ t = "event" => Sends("event", "check") /\ Moves("event", 2, "request")
  BY <1>3, SendGoto DEF Statements
<1>5. TypeOK'
  BY <1>2, <1>4, Typed DEF TypeOK, SendStart, Threads, Moves, Sends
<1>6. Course'
  BY <1>2, <1>4 DEF IInv, SendStart, Threads, Course, Moves, Sends
<1>p. Promise
  BY <1>2, <1>4 DEF IInv, SendStart, Threads, Promise, Seen, Moves, Sends
<1>7. Counted'
  <2>1. Counted /\ Counts("check") /\ "request" # "enter"
    BY <1>2, Typed DEF SendStart, Counts
  <2> QED
    BY <1>4, <2>1, SendCounts DEF Threads
<1> QED
  BY <1>p, <1>5, <1>6, <1>7, TogetherNext

LEMMA SendFailedStep == ASSUME IInv, NEW t \in Threads, SendFailed(t) PROVE IInv' /\ Promise
<1>1. /\ t = "timer" => Sends("timer", "failed") /\ Moves("timer", 1, "unsent")
      /\ t = "event" => Sends("event", "failed") /\ Moves("event", 2, "unsent")
  BY SendGoto DEF SendFailed, Statements
<1>2. TypeOK'
  BY <1>1, Typed DEF TypeOK, SendFailed, Threads, Moves, Sends
<1>3. Course'
  BY <1>1 DEF IInv, SendFailed, Threads, Course, Moves, Sends
<1>p. Promise
  BY <1>1 DEF IInv, SendFailed, Threads, Promise, Seen, Moves, Sends
<1>4. Counted'
  <2>1. Counted /\ Counts("failed") /\ "unsent" # "enter"
    BY Typed DEF SendFailed, Counts
  <2> QED
    BY <1>1, <2>1, SendCounts DEF Threads
<1> QED
  BY <1>p, <1>2, <1>3, <1>4, TogetherNext

\* The REGISTER is on the wire, or could not be sent; in the second case the callback may run here.
LEMMA SendRequestStep == ASSUME IInv, NEW t \in Threads, SendRequest(t) PROVE IInv' /\ Promise
<1>0. At(t, "send", "request") /\ UNCHANGED <<gb, mem, busy_ctr, has_tsx, delete_flag, op, expires_hdr, expires, timer, granted, lock, told>>
  BY DEF SendRequest
<1>1. CASE Goto(t, "sent") /\ tsx' = tsx + 1
  <2>1. /\ t = "timer" => Sends("timer", "request") /\ Moves("timer", 1, "sent")
        /\ t = "event" => Sends("event", "request") /\ Moves("event", 2, "sent")
    BY <1>0, <1>1, SendGoto DEF Statements
  <2>2. TypeOK'
    BY <1>0, <1>1, <2>1, Typed DEF TypeOK, Threads, Moves, Calls, Sends
  <2>3. Course'
    BY <1>0, <1>1, <2>1 DEF IInv, Threads, Course, Moves, Calls, Sends
  <2>p. Promise
    BY <1>0, <1>1, <2>1 DEF IInv, Threads, Promise, Seen, Moves, Calls, Sends
  <2>4. Counted'
    <3>1. Counted /\ Counts("request") /\ "sent" # "enter"
      BY <1>0, Typed DEF Counts
    <3> QED
      BY <2>1, <3>1, SendCounts DEF Threads
  <2> QED
    BY <2>p, <2>2, <2>3, <2>4, TogetherNext
<1>2. CASE Goto(t, "failed") /\ UNCHANGED tsx
  <2>1. /\ t = "timer" => Sends("timer", "request") /\ Moves("timer", 1, "failed")
        /\ t = "event" => Sends("event", "request") /\ Moves("event", 2, "failed")
    BY <1>0, <1>2, SendGoto DEF Statements
  <2>2. TypeOK'
    BY <1>0, <1>2, <2>1, Typed DEF TypeOK, Threads, Moves, Calls, Sends
  <2>3. Course'
    BY <1>0, <1>2, <2>1 DEF IInv, Threads, Course, Moves, Calls, Sends
  <2>p. Promise
    BY <1>0, <1>2, <2>1 DEF IInv, Threads, Promise, Seen, Moves, Calls, Sends
  <2>4. Counted'
    <3>1. Counted /\ Counts("request") /\ "failed" # "enter"
      BY <1>0, Typed DEF Counts
    <3> QED
      BY <2>1, <3>1, SendCounts DEF Threads
  <2> QED
    BY <2>p, <2>2, <2>3, <2>4, TogetherNext
<1>3. CASE Call(t, "failed", "tsxcb", Local(503)) /\ UNCHANGED tsx
  <2>1. /\ t = "timer" => Sends("timer", "request") /\ Calls("timer", 2, "failed", "tsxcb", Local(503))
        /\ t = "event" => Sends("event", "request") /\ Calls("event", 3, "failed", "tsxcb", Local(503))
    BY <1>0, <1>3, SendCall DEF Statements
  <2>2. TypeOK'
    BY <1>0, <1>3, <2>1, Typed DEF TypeOK, Threads, Moves, Calls, Sends
  <2>3. Local(503).code = 503
    BY LocalCode
  <2>4. CASE t = "timer"
    <3>1. Sends("timer", "request") /\ Calls("timer", 2, "failed", "tsxcb", Local(503)) /\ Ans("timer", 2)'.code = 503
      BY <2>1, <2>3, <2>4 DEF Calls
    <3>2. Course'
      BY <1>0, <1>3, <3>1 DEF IInv, Threads, Course, Moves, Calls, Sends
    <3>p. Promise
      BY <1>0, <1>3, <3>1 DEF IInv, Threads, Promise, Seen, Moves, Calls, Sends
    <3>3. Counted'
      BY <1>0, <3>1, Typed DEF Counted, Busy, Threads, Moves, Calls, Sends
    <3> QED
      BY <3>p, <2>2, <3>2, <3>3, TogetherNext
  <2>5. CASE t = "event"
    <3>1. Sends("event", "request") /\ Calls("event", 3, "failed", "tsxcb", Local(503)) /\ Ans("event", 3)'.code = 503
      BY <2>1, <2>3, <2>5 DEF Calls
    <3>2. Course'
      BY <1>0, <1>3, <3>1 DEF IInv, Threads, Course, Moves, Calls, Sends
    <3>p. Promise
      BY <1>0, <1>3, <3>1 DEF IInv, Threads, Promise, Seen, Moves, Calls, Sends
    <3>3. Counted'
      BY <1>0, <3>1, Typed DEF Counted, Busy, Threads, Moves, Calls, Sends
    <3> QED
      BY <3>p, <2>2, <3>2, <3>3, TogetherNext
  <2> QED
    BY <2>4, <2>5 DEF Threads
<1> QED
  BY <1>1, <1>2, <1>3 DEF SendRequest

LEMMA SendLeaveStep == ASSUME IInv, NEW t \in Threads, SendLeave(t) PROVE IInv' /\ Promise
<1>1. PICK pc \in {"sent", "unsent"} : At(t, "send", pc) /\ CanLock(t) /\ Leave(t, pc = "sent")
  BY DEF SendLeave
<1> DEFINE ok == pc = "sent"
<1>2. /\ busy_ctr' = busy_ctr - 1 /\ Return(t, ok)
      /\ UNCHANGED <<mem, timer, has_tsx, delete_flag, op, expires_hdr, expires, granted, lock, tsx, told>>
  BY <1>1 DEF IInv, Leave
<1>3. ok \in BOOLEAN /\ (ok <=> pc = "sent")
  OBVIOUS
<1> HIDE DEF ok
<1>4. /\ t = "timer" => /\ Sends("timer", pc) /\ Leaves("timer")
                        /\ gb' = IF ok THEN "ok" ELSE "destroy"
      /\ t = "event" => /\ Sends("event", pc) /\ gb' = gb
                        /\ Moves("event", 1, AfterSend(Fn("event", 1), ok))
  BY <1>1, <1>2, <1>3, SendReturn
<1>5. Fn("event", 1) \in {"tsxcb", "refresh"} =>
         AfterSend(Fn("event", 1), ok) = IF Fn("event", 1) = "refresh" THEN IF ok THEN "dec" ELSE "tell"
                                         ELSE IF ok THEN "unlock" ELSE "release"
  BY DEF AfterSend, IInv
<1>6. Counted'
  <2>0. pc # "enter" /\ Counted
    BY Typed
  <2>1. CASE t = "timer"
    <3>1. /\ Busy("timer", 1) = 1 /\ Busy("timer", 2) = 0
          /\ Busy("timer", 1)' = 0 /\ Busy("timer", 2)' = 0
      BY <1>4, <2>0, <2>1 DEF Busy, Moves, Sends, Leaves
    <3>2. Busy("event", 1)' = Busy("event", 1) /\ Busy("event", 2)' = Busy("event", 2)
          /\ Busy("event", 3)' = Busy("event", 3)
      BY <1>4, <2>1 DEF Busy, Moves, Sends, Leaves
    <3>3. Busy("event", 1) \in Int /\ Busy("event", 2) \in Int /\ Busy("event", 3) \in Int
      BY DEF Busy, Moves, Sends, Leaves
    <3> QED
      BY <1>2, <2>0, <3>1, <3>2, <3>3 DEF Counted
  <2>2. CASE t = "event"
    <3>1. Pc("event", 1) = "sending" /\ Fn("event", 1) \in {"tsxcb", "refresh"}
      BY <1>4, <2>2 DEF IInv, Sends
    <3>2. Pc("event", 1)' # "enter" /\ Depth("event")' = 1
      BY <1>4, <1>5, <2>2, <3>1 DEF Moves
    <3>3. /\ Busy("event", 1) = 1 /\ Busy("event", 2) = 1 /\ Busy("event", 3) = 0
          /\ Busy("event", 1)' = 1 /\ Busy("event", 2)' = 0 /\ Busy("event", 3)' = 0
      BY <1>4, <2>0, <2>2, <3>1, <3>2 DEF Busy, Moves, Sends, Leaves
    <3>4. Busy("timer", 1)' = Busy("timer", 1) /\ Busy("timer", 2)' = Busy("timer", 2)
      BY <1>4, <2>2 DEF Busy, Moves, Sends, Leaves
    <3>5. Busy("timer", 1) \in Int /\ Busy("timer", 2) \in Int
      BY DEF Busy, Moves, Sends, Leaves
    <3> QED
      BY <1>2, <2>0, <3>3, <3>4, <3>5 DEF Counted
  <2> QED
    BY <2>1, <2>2 DEF Threads
<1>7. TypeOK'
  <2>1. busy_ctr' \in Nat
    BY <1>6 DEF Counted, Busy
  <2> QED
    BY <1>2, <1>4, <2>1, Typed DEF TypeOK, Threads, Moves, Sends, Leaves
<1>8. Course'
  <2>1. CASE t = "timer"
    <3>1. Sends("timer", pc) /\ Leaves("timer") /\ gb' = IF ok THEN "ok" ELSE "destroy"
      BY <1>4, <2>1
    <3>2. Shape' /\ Control' /\ RefreshInTime'
      <4>1. Shape'
        <5>1. EventShape /\ stack'["event"] = stack["event"]
          BY <3>1 DEF IInv, Leaves, Threads
        <5>2. Depth("timer")' = 0
          BY <3>1 DEF Leaves
        <5>3. EventShape'
          BY <5>1
        <5>4. TimerShape'
          BY <5>2
        <5> QED
          BY <5>3, <5>4
      <4>2. Control'
        BY <1>2, <1>3, <3>1 DEF IInv, Sends, Leaves
      <4>3. RefreshInTime'
        BY <1>2 DEF IInv
      <4> QED
        BY <4>1, <4>2, <4>3
    <3>3. Token'
      BY <1>2, <1>3, <3>1 DEF IInv, Sends, Leaves
    <3>4. Reported'
      BY <1>2, <1>3, <3>1 DEF IInv, Sends, Leaves
    <3> QED
      BY <3>2, <3>3, <3>4 DEF Course
  <2>2. CASE t = "event"
    <3>1. /\ Sends("event", pc) /\ Fn("event", 1) \in {"tsxcb", "refresh"} /\ gb' = gb
          /\ Moves("event", 1, IF Fn("event", 1) = "refresh" THEN IF ok THEN "dec" ELSE "tell"
                               ELSE IF ok THEN "unlock" ELSE "release")
      <4>1. Fn("event", 1) \in {"tsxcb", "refresh"}
        BY <1>4, <2>2 DEF IInv, Sends
      <4> QED
        BY <1>4, <1>5, <2>2, <4>1
    <3>2. Shape' /\ Control' /\ RefreshInTime'
      BY <1>2, <1>3, <3>1 DEF IInv, Moves, Sends, Leaves
    <3>3. Token'
      BY <1>2, <1>3, <3>1 DEF IInv, Moves, Sends, Leaves
    <3>4. Reported'
      BY <1>2, <1>3, <3>1 DEF IInv, Moves, Sends, Leaves
    <3> QED
      BY <3>2, <3>3, <3>4 DEF Course
  <2> QED
    BY <2>1, <2>2 DEF Threads
<1>p. Promise
  <2>1. CASE t = "timer"
    BY <1>2, <1>3, <1>4, <2>1 DEF IInv, Promise, Seen, Moves, Sends, Leaves
  <2>2. CASE t = "event"
    <3>1. /\ Sends("event", pc) /\ Fn("event", 1) \in {"tsxcb", "refresh"} /\ gb' = gb
          /\ Moves("event", 1, IF Fn("event", 1) = "refresh" THEN IF ok THEN "dec" ELSE "tell"
                               ELSE IF ok THEN "unlock" ELSE "release")
      <4>1. Fn("event", 1) \in {"tsxcb", "refresh"}
        BY <1>4, <2>2 DEF IInv, Sends
      <4> QED
        BY <1>4, <1>5, <2>2, <4>1
    <3> QED
      BY <1>2, <1>3, <3>1 DEF IInv, Promise, Seen, Moves, Sends, Leaves
  <2> QED
    BY <2>1, <2>2 DEF Threads
<1> QED
  BY <1>p, <1>6, <1>7, <1>8, TogetherNext

LEMMA TsxEnterStep == ASSUME IInv, NEW t \in Threads, TsxEnter(t) PROVE IInv' /\ Promise
<1>1. \/ t = "timer" /\ Called("timer", 2, "enter") /\ Moves("timer", 2, "lock")
      \/ t = "event" /\ Called("event", 3, "enter") /\ Moves("event", 3, "lock")
      \/ t = "event" /\ Only("tsxcb", "enter") /\ Moves("event", 1, "lock")
  BY TsxGoto DEF TsxEnter, Statements
<1>2. TypeOK'
  BY <1>1, Typed DEF TypeOK, TsxEnter, Moves, Called
<1>3. Course'
  <2>1. CASE t = "timer"
    <3>1. Shape'
      BY <1>1, <2>1 DEF IInv, TsxEnter, Moves, Called
    <3>2. Control' /\ RefreshInTime'
      BY <1>1, <2>1 DEF IInv, TsxEnter, Moves, Called
    <3>3. Token'
      BY <1>1, <2>1 DEF IInv, TsxEnter, Moves, Called
    <3>4. Reported'
      BY <1>1, <2>1 DEF IInv, TsxEnter, Moves, Called
    <3> QED
      BY <3>1, <3>2, <3>3, <3>4 DEF Course
  <2>2. CASE t = "event"
    <3>1. Shape'
      BY <1>1, <2>2 DEF IInv, TsxEnter, Moves, Called
    <3>2. Control' /\ RefreshInTime'
      BY <1>1, <2>2 DEF IInv, TsxEnter, Moves, Called
    <3>3. Token'
      BY <1>1, <2>2 DEF IInv, TsxEnter, Moves, Called
    <3>4. Reported'
      BY <1>1, <2>2 DEF IInv, TsxEnter, Moves, Called
    <3> QED
      BY <3>1, <3>2, <3>3, <3>4 DEF Course
  <2> QED
    BY <2>1, <2>2 DEF Threads
<1>p. Promise
  BY <1>1 DEF IInv, TsxEnter, Promise, Seen, Moves, Called
<1>4. Counted'
  <2>1. Counted /\ Counts("enter") /\ "lock" # "enter"
    BY Typed DEF TsxEnter, Counts
  <2> QED
    BY <1>1, <2>1, TsxCounts
<1> QED
  BY <1>p, <1>2, <1>3, <1>4, TogetherNext

\* The local 503 of a failed send ends the attempt; what it says is told.
LEMMA InnerLocked ==
    ASSUME IInv, NEW t \in Threads, TsxLocked(t),
           \/ t = "timer" /\ Called("timer", 2, "lock") /\ Top("timer").ans = Ans("timer", 2)
           \/ t = "event" /\ Called("event", 3, "lock") /\ Top("event").ans = Ans("event", 3)
    PROVE  IInv' /\ Promise
<1>1. Top(t).ans.code = 503 /\ ~delete_flag
  BY DEF IInv, Called
<1>2. TsxOutcome(t, Top(t).ans)
  BY <1>1 DEF TsxLocked, TsxChallenge, TsxTooBrief, Unauthorized, TooBrief
<1>3. /\ expires' = None /\ op' = "idle" /\ has_tsx' = FALSE /\ Goto(t, "tell") /\ At(t, "tsxcb", "lock")
      /\ UNCHANGED <<gb, mem, timer, granted, lock, expires_hdr, busy_ctr, delete_flag, tsx, told>>
  BY <1>1, <1>2 DEF TsxOutcome, TsxLocked
<1>4. \/ t = "timer" /\ Called("timer", 2, "lock") /\ Moves("timer", 2, "tell")
      \/ t = "event" /\ Called("event", 3, "lock") /\ Moves("event", 3, "tell")
  <2>1. \/ t = "timer" /\ Called("timer", 2, "lock") /\ Moves("timer", 2, "tell")
        \/ t = "event" /\ Called("event", 3, "lock") /\ Moves("event", 3, "tell")
        \/ t = "event" /\ Only("tsxcb", "lock") /\ Moves("event", 1, "tell")
    BY <1>3, TsxGoto DEF Statements
  <2> QED
    BY <2>1 DEF Called
<1>5. TypeOK'
  <2>1. stack' \in [Threads -> Seq(FrameType)]
    BY <1>4 DEF Moves, Called
  <2>2. TypeOK
    BY Typed
  <2>3. {expires_hdr, expires, timer, granted}' \subseteq Nat \cup {None}
    BY <1>3, <2>2 DEF TypeOK
  <2>4. op' \in {"idle", "registering", "unregistering"} /\ has_tsx' \in BOOLEAN
    BY <1>3
  <2> QED
    BY <1>3, <2>1, <2>2, <2>3, <2>4 DEF TypeOK, Moves, Called
<1>6. Course'
  <2>1. CASE t = "timer"
    BY <1>3, <1>4, <2>1 DEF IInv, Course, Moves, Called
  <2>2. CASE t = "event"
    BY <1>3, <1>4, <2>2 DEF IInv, Course, Moves, Called
  <2> QED
    BY <2>1, <2>2 DEF Threads
<1>p. Promise
  BY <1>3, <1>4 DEF IInv, Promise, Seen, Moves, Called
<1>7. Counted'
  <2>1. Counted /\ Counts("lock") /\ "tell" # "enter"
    BY <1>3, Typed DEF Counts
  <2> QED
    BY <1>4, <2>1, TsxCounts
<1> QED
  BY <1>p, <1>5, <1>6, <1>7, TogetherNext

\* The event thread's own callback: a challenge, a 423 to be repeated, or an outcome.
LEMMA OuterLocked ==
    ASSUME IInv, TsxLocked("event"), Only("tsxcb", "lock"), Top("event").ans = Ans("event", 1)
    PROVE  IInv' /\ Promise
<1> DEFINE ans == Ans("event", 1)
<1>1. /\ has_tsx' = FALSE
      /\ UNCHANGED <<gb, mem, busy_ctr, delete_flag, tsx, told>>
      /\ TsxChallenge("event", ans) \/ TsxTooBrief("event", ans) \/ TsxOutcome("event", ans)
  BY DEF TsxLocked
<1>2. ans \in Answers \cup {NoAnswer, Local(408), Local(503)} /\ TypeOK /\ ~delete_flag
  <2>1. TypeOK /\ ~delete_flag /\ Len(stack["event"]) = 1
    BY DEF IInv
  <2>2. stack["event"] \in Seq(FrameType)
    BY <2>1 DEF TypeOK, Threads
  <2>3. stack["event"][1] \in FrameType
    BY <2>1, <2>2
  <2> QED
    BY <2>1, <2>3 DEF FrameType
<1> HIDE DEF ans
<1>3. CASE TsxChallenge("event", ans)
  <2>1. /\ ans.code \in {401, 407} /\ op' = "idle" /\ Goto("event", "tell")
        /\ UNCHANGED <<lock, expires_hdr, expires, timer, granted>>
    BY <1>2, <1>3 DEF TsxChallenge, Unauthorized
  <2>2. Moves("event", 1, "tell")
    BY <2>1, OuterGoto DEF Statements
  <2>3. ~Success(ans.code)
    BY <2>1 DEF Success
  <2>4. TypeOK'
    <3>1. /\ stack' \in [Threads -> Seq(FrameType)] /\ op' \in {"idle", "registering", "unregistering"}
          /\ has_tsx' \in BOOLEAN
      BY <1>1, <2>1, <2>2 DEF Moves
    <3> QED
      BY <1>1, <1>2, <2>1, <3>1 DEF TypeOK
  <2>5. Course'
    BY <1>1, <2>1, <2>2, <2>3 DEF IInv, Course, ans, Moves
  <2>p. Promise
    BY <1>1, <2>1, <2>2, <2>3 DEF IInv, ans, Promise, Seen, Moves
  <2>6. Counted'
    BY <1>1, <2>2, Typed DEF Counted, Busy, Moves
  <2> QED
    BY <2>p, <2>4, <2>5, <2>6, TogetherNext
<1>4. CASE TsxTooBrief("event", ans)
  <2>1. /\ ans.code = 423 /\ op' = "idle" /\ expires_hdr' = set_expires(MinExp(ans))
        /\ lock' = "event" /\ Goto("event", "reregister")
        /\ UNCHANGED <<expires, timer, granted>>
    BY <1>4 DEF TsxTooBrief, TooBrief
  <2>2. Moves("event", 1, "reregister")
    BY <2>1, OuterGoto DEF Statements
  <2>3. expires_hdr' \in Nat \cup {None}
    BY <1>2, <2>1, MinExpType
  <2>4. TypeOK'
    <3>1. {expires_hdr, expires, timer, granted}' \subseteq Nat \cup {None}
      BY <1>2, <2>1, <2>3 DEF TypeOK
    <3>2. /\ stack' \in [Threads -> Seq(FrameType)] /\ op' \in {"idle", "registering", "unregistering"}
          /\ has_tsx' \in BOOLEAN /\ lock' \in Threads \cup {Nobody}
      BY <1>1, <2>1, <2>2 DEF Threads, Moves
    <3> QED
      BY <1>1, <1>2, <3>1, <3>2 DEF TypeOK, Moves
  <2>5. Course'
    BY <1>1, <2>1, <2>2 DEF IInv, Course, ans, Moves
  <2>p. Promise
    BY <1>1, <2>1, <2>2 DEF IInv, ans, Promise, Seen, Moves
  <2>6. Counted'
    BY <1>1, <2>2, Typed DEF Counted, Busy, Moves
  <2> QED
    BY <2>p, <2>4, <2>5, <2>6, TogetherNext
<1>5. CASE TsxOutcome("event", ans)
  <2>1. /\ op' = "idle" /\ Goto("event", "tell") /\ UNCHANGED <<lock, expires_hdr>>
    BY <1>5 DEF TsxOutcome
  <2>2. Moves("event", 1, "tell")
    BY <2>1, OuterGoto DEF Statements
  <2>3. timer = None
    BY DEF IInv
  <2> DEFINE e == calculate_response_expiration(ans)
  <2>4. /\ expires' \in Nat \cup {None} /\ timer' \in Nat \cup {None} /\ granted' \in Nat \cup {None}
        /\ RefreshInTime'
        /\ Success(ans.code) => expires' = 0 \/ timer' # None
    <3>1. CASE ~Success(ans.code)
      BY <1>2, <1>5, <2>3, <3>1 DEF TsxOutcome, Success, TypeOK
    <3>2. CASE Success(ans.code)
      <4>1. e \in Nat
        BY <1>2, ExpirationType
      <4>2. schedule_registration(e) /\ expires' = e
        BY <1>5, <3>2 DEF TsxOutcome, Success
      <4> HIDE DEF e
      <4>3. CASE e = 0
        BY <1>2, <2>3, <4>1, <4>2, <4>3 DEF schedule_registration, TypeOK
      <4>4. CASE e # 0
        <5>1. timer' = Delay(e) /\ granted' = e /\ e \in Nat \ {0}
          BY <4>1, <4>2, <4>4 DEF schedule_registration
        <5>2. Delay(e) \in Nat /\ Delay(e) # None /\ (e > DelayBefore => Delay(e) < e)
          BY <1>2, <5>1, DelayBounds
        <5> QED
          BY <4>1, <4>2, <5>1, <5>2
      <4> QED
        BY <4>3, <4>4
    <3> QED
      BY <3>1, <3>2
  <2>5. TypeOK'
    <3>1. {expires_hdr, expires, timer, granted}' \subseteq Nat \cup {None}
      BY <1>2, <2>1, <2>4 DEF TypeOK
    <3>2. /\ stack' \in [Threads -> Seq(FrameType)] /\ op' \in {"idle", "registering", "unregistering"}
          /\ has_tsx' \in BOOLEAN /\ lock' = lock
      BY <1>1, <2>1, <2>2 DEF Moves
    <3> QED
      BY <1>1, <1>2, <3>1, <3>2 DEF TypeOK, Moves
  <2>6. Shape' /\ Control' /\ Token'
    BY <1>1, <2>1, <2>2, <2>3 DEF IInv, ans, Moves
  <2>7. Reported'
    BY <1>1, <2>1, <2>2, <2>4 DEF IInv, ans, Moves
  <2>8. Counted'
    BY <1>1, <2>2, Typed DEF Counted, Busy, Moves
  <2>p. Promise
    BY <1>1, <2>1, <2>2, <2>3 DEF IInv, Promise, Seen, Moves
  <2> QED
    BY <2>p, <2>4, <2>5, <2>6, <2>7, <2>8 DEF IInv
<1> QED
  BY <1>1, <1>3, <1>4, <1>5

LEMMA TsxLockedStep == ASSUME IInv, NEW t \in Threads, TsxLocked(t) PROVE IInv' /\ Promise
<1>1. At(t, "tsxcb", "lock")
  BY DEF TsxLocked
<1> QED
  BY <1>1, TsxWhere, InnerLocked, OuterLocked

\* A repetition is sent, or given up; the lock is still held.
LEMMA TsxReregisterStep == ASSUME IInv, NEW t \in Threads, TsxReregister(t) PROVE IInv' /\ Promise
<1>1. t = "event" /\ Only("tsxcb", "reregister")
  <2>1. \/ t = "timer" /\ Called("timer", 2, "reregister")
        \/ t = "event" /\ Called("event", 3, "reregister")
        \/ t = "event" /\ Only("tsxcb", "reregister")
    BY TsxWhere DEF TsxReregister
  <2> QED
    BY <2>1 DEF Called
<1>2. UNCHANGED <<gb, mem, busy_ctr, has_tsx, delete_flag, op, expires_hdr, expires, granted, lock, tsx, told>>
  BY DEF TsxReregister
<1>3. CASE pjsip_regc_register(t) /\ Call(t, "sending", "send", NoAnswer)
  <2>1. Calls("event", 2, "sending", "send", NoAnswer) /\ timer' = None
    BY <1>1, <1>3, OuterCall DEF Statements, pjsip_regc_register
  <2>2. TypeOK'
    BY <1>2, <2>1, Typed DEF TypeOK, Moves, Calls
  <2>3. Course'
    BY <1>1, <1>2, <2>1 DEF IInv, Course, Moves, Calls
  <2>p. Promise
    BY <1>1, <1>2, <2>1 DEF IInv, Promise, Seen, Moves, Calls
  <2>4. Counted'
    BY <1>1, <1>2, <2>1, Typed DEF Counted, Busy, Moves, Calls
  <2> QED
    BY <2>p, <2>2, <2>3, <2>4, TogetherNext
<1>4. CASE Goto(t, IF delete_flag THEN "unlock" ELSE "release") /\ UNCHANGED timer
  <2>1. Goto("event", "release")
    BY <1>1, <1>4 DEF IInv
  <2>2. Moves("event", 1, "release")
    BY <1>1, <2>1, OuterGoto DEF Statements
  <2>3. TypeOK'
    BY <1>2, <1>4, <2>2, Typed DEF TypeOK, Moves, Calls
  <2>4. Course'
    BY <1>1, <1>2, <1>4, <2>2 DEF IInv, Course, Moves, Calls
  <2>p. Promise
    BY <1>1, <1>2, <1>4, <2>2 DEF IInv, Promise, Seen, Moves, Calls
  <2>5. Counted'
    BY <1>1, <1>2, <2>2, Typed DEF Counted, Busy, Moves, Calls
  <2> QED
    BY <2>p, <2>3, <2>4, <2>5, TogetherNext
<1> QED
  BY <1>3, <1>4 DEF TsxReregister

LEMMA TsxUnlockStep == ASSUME IInv, NEW t \in Threads, TsxUnlock(t) PROVE IInv' /\ Promise
<1>1. PICK pc \in {"unlock", "release"} :
         At(t, "tsxcb", pc) /\ Goto(t, IF pc = "unlock" THEN "dec" ELSE "tell")
  BY DEF TsxUnlock
<1>2. t = "event" /\ Only("tsxcb", pc)
  <2>1. \/ t = "timer" /\ Called("timer", 2, pc)
        \/ t = "event" /\ Called("event", 3, pc)
        \/ t = "event" /\ Only("tsxcb", pc)
    BY <1>1, TsxWhere
  <2> QED
    BY <2>1 DEF Called
<1>3. Moves("event", 1, IF pc = "unlock" THEN "dec" ELSE "tell")
  BY <1>1, <1>2, OuterGoto DEF Statements
<1>4. TypeOK'
  BY <1>3, Typed DEF TypeOK, TsxUnlock, Moves
<1>5. Course'
  <2>1. ~Success(423)
    BY DEF Success
  <2> QED
    BY <1>2, <1>3, <2>1 DEF IInv, Course, TsxUnlock, Moves
<1>p. Promise
  BY <1>2, <1>3 DEF IInv, TsxUnlock, Promise, Seen, Moves
<1>6. Counted'
  BY <1>2, <1>3, Typed DEF Counted, Busy, TsxUnlock, Moves
<1> QED
  BY <1>p, <1>4, <1>5, <1>6, TogetherNext

\* client_cb is told the code of the answer, and the interval that was granted.
LEMMA TsxTellStep == ASSUME IInv, NEW t \in Threads, TsxTell(t) PROVE IInv' /\ Promise
<1>1. /\ At(t, "tsxcb", "tell") /\ Goto(t, "relock") /\ TypeOK
      /\ UNCHANGED <<gb, mem, busy_ctr, has_tsx, delete_flag, op, expires_hdr, expires, timer, granted, lock, tsx>>
  BY Typed DEF TsxTell
<1> DEFINE code == Top(t).ans.code
<1>2. told' = [code |-> code, expiration |-> IF Success(code) THEN expires ELSE None]
  BY DEF TsxTell, IInv, Success
<1>3. \/ t = "timer" /\ Called("timer", 2, "tell") /\ code = 503
      \/ t = "event" /\ Called("event", 3, "tell") /\ code = 503
      \/ t = "event" /\ Only("tsxcb", "tell") /\ code = Ans("event", 1).code
  <2>1. \/ t = "timer" /\ Called("timer", 2, "tell") /\ Top("timer").ans = Ans("timer", 2)
        \/ t = "event" /\ Called("event", 3, "tell") /\ Top("event").ans = Ans("event", 3)
        \/ t = "event" /\ Only("tsxcb", "tell") /\ Top("event").ans = Ans("event", 1)
    BY <1>1, TsxWhere
  <2> QED
    BY <2>1 DEF Called
<1>4. code \in Nat
  <2>1. Top(t) \in FrameType
    BY <1>1, TopFrame DEF At
  <2> QED
    BY <2>1, AnswerTypes DEF FrameType
<1> HIDE DEF code
<1>5. \/ t = "timer" /\ Called("timer", 2, "tell") /\ Moves("timer", 2, "relock")
      \/ t = "event" /\ Called("event", 3, "tell") /\ Moves("event", 3, "relock")
      \/ t = "event" /\ Only("tsxcb", "tell") /\ Moves("event", 1, "relock")
  BY <1>1, TsxGoto DEF Statements
<1>6. /\ told'.code = code /\ told'.expiration = IF Success(code) THEN expires ELSE None
      /\ told' \in [code : Nat, expiration : Nat \cup {None}]
  BY <1>1, <1>2, <1>4 DEF TypeOK
<1>7. TypeOK'
  BY <1>1, <1>5, <1>6 DEF TypeOK, Moves, Called
<1>8. Course'
  <2>1. Shape' /\ Control' /\ Token' /\ RefreshInTime'
    <3>1. Shape'
      BY <1>1, <1>5 DEF IInv, Moves, Called
    <3>2. Control'
      BY <1>1, <1>5 DEF IInv, Moves, Called
    <3>3. Token'
      BY <1>1, <1>5 DEF IInv, Moves, Called
    <3>4. RefreshInTime'
      BY <1>1 DEF IInv
    <3> QED
      BY <3>1, <3>2, <3>3, <3>4
  <2>2. Reported'
    BY <1>1, <1>3, <1>5, <1>6 DEF IInv, Moves, Called
  <2> QED
    BY <2>1, <2>2 DEF Course
<1>p. Promise
  <2>1. CASE Called("timer", 2, "tell") /\ Moves("timer", 2, "relock")
    <3>1. stack'["event"] = stack["event"] /\ ~TimerSent /\ ~TimerSent'
      BY <2>1 DEF Moves, Called
    <3>2. Seen' = Seen
      BY <1>1, <3>1 DEF Seen
    <3> QED
      BY <3>2 DEF Promise
  <2>2. CASE Called("event", 3, "tell") /\ Moves("event", 3, "relock")
    BY <1>1, EventAccepted, <2>2 DEF IInv, Promise, Seen, Moves, Called
  <2>3. CASE Only("tsxcb", "tell") /\ Moves("event", 1, "relock")
    BY <1>1, EventAccepted, <2>3 DEF IInv, Promise, Seen, Moves
  <2> QED
    BY <1>5, <2>1, <2>2, <2>3
<1>9. Counted'
  <2>1. Counted /\ Counts("tell") /\ "relock" # "enter"
    BY <1>1, Typed DEF Counts
  <2> QED
    BY <1>5, <2>1, TsxCounts
<1> QED
  BY <1>p, <1>7, <1>8, <1>9, TogetherNext

\* Whoever gives the counter back: nothing was destroyed, so only the counter changes.
LEMMA LeaveKeeps ==
    ASSUME IInv, NEW t, NEW ok, Leave(t, ok)
    PROVE  /\ busy_ctr' = busy_ctr - 1 /\ Return(t, ok)
           /\ UNCHANGED <<mem, timer, has_tsx, delete_flag, op, expires_hdr, expires, granted, lock, tsx, told>>
BY DEF IInv, Leave

LEMMA TsxLeaveStep == ASSUME IInv, NEW t \in Threads, TsxLeave(t) PROVE IInv' /\ Promise
<1>1. PICK pc \in {"dec", "relock"} : At(t, "tsxcb", pc)
  BY DEF TsxLeave
<1>2. /\ busy_ctr' = busy_ctr - 1 /\ Return(t, TRUE)
      /\ UNCHANGED <<mem, timer, has_tsx, delete_flag, op, expires_hdr, expires, granted, lock, tsx, told>>
  BY LeaveKeeps DEF TsxLeave
<1>3. /\ gb' = gb
      /\ \/ t = "timer" /\ Called("timer", 2, pc) /\ Moves("timer", 1, Pc("timer", 1))
         \/ t = "event" /\ Called("event", 3, pc) /\ Moves("event", 2, Pc("event", 2))
         \/ t = "event" /\ Only("tsxcb", pc) /\ Leaves("event")
  BY <1>1, <1>2, TsxReturn
<1>4. Counted'
  <2>1. Counted /\ pc # "enter"
    BY Typed
  <2>2. CASE t = "timer" /\ Called("timer", 2, pc) /\ Moves("timer", 1, Pc("timer", 1))
    BY <1>2, <2>1, <2>2 DEF Counted, Busy, Moves, Leaves, Called
  <2>3. CASE t = "event" /\ Called("event", 3, pc) /\ Moves("event", 2, Pc("event", 2))
    BY <1>2, <2>1, <2>3 DEF Counted, Busy, Moves, Leaves, Called
  <2>4. CASE t = "event" /\ Only("tsxcb", pc) /\ Leaves("event")
    BY <1>2, <2>1, <2>4 DEF Counted, Busy, Moves, Leaves, Called
  <2> QED
    BY <1>3, <2>2, <2>3, <2>4
<1>5. TypeOK'
  <2>1. busy_ctr' \in Nat
    BY <1>4 DEF Counted, Busy
  <2> QED
    BY <1>2, <1>3, <2>1, Typed DEF TypeOK, Moves, Leaves, Called
<1>6. Course'
  <2>1. CASE t = "timer" /\ Called("timer", 2, pc) /\ Moves("timer", 1, Pc("timer", 1))
    BY <1>2, <1>3, <2>1 DEF IInv, Course, Moves, Leaves, Called
  <2>2. CASE t = "event" /\ Called("event", 3, pc) /\ Moves("event", 2, Pc("event", 2))
    BY <1>2, <1>3, <2>2 DEF IInv, Course, Moves, Leaves, Called
  <2>3. CASE t = "event" /\ Only("tsxcb", pc) /\ Leaves("event")
    <3>1. Shape' /\ Control' /\ RefreshInTime'
      BY <1>2, <1>3, <2>3 DEF IInv, Moves, Leaves, Called
    <3>2. Token'
      BY <1>2, <1>3, <2>3 DEF IInv, Moves, Leaves, Called
    <3>3. Reported'
      BY <1>2, <1>3, <2>3 DEF IInv, Moves, Leaves, Called
    <3> QED
      BY <3>1, <3>2, <3>3 DEF Course
  <2> QED
    BY <1>3, <2>1, <2>2, <2>3
<1>p. Promise
  <2>1. CASE t = "timer" /\ Called("timer", 2, pc) /\ Moves("timer", 1, Pc("timer", 1))
    BY <1>2, <1>3, <2>1 DEF IInv, Promise, Seen, Moves, Called
  <2>2. CASE t = "event" /\ Called("event", 3, pc) /\ Moves("event", 2, Pc("event", 2))
    BY <1>2, <1>3, <2>2 DEF IInv, Promise, Seen, Moves, Called
  <2>3. CASE t = "event" /\ Only("tsxcb", pc) /\ Leaves("event")
    BY <1>2, <1>3, <2>3 DEF IInv, Promise, Seen, Leaves
  <2> QED
    BY <1>3, <2>1, <2>2, <2>3
<1> QED
  BY <1>p, <1>4, <1>5, <1>6, TogetherNext

LEMMA TsxEndsStep ==
    ASSUME IInv, NEW ans \in Answers \cup {Local(408), Local(503)}, TsxEnds(ans) PROVE IInv' /\ Promise
<1>1. /\ Depth("event") = 0 /\ tsx > 0 /\ tsx' = tsx - 1 /\ TypeOK
      /\ UNCHANGED <<gb, mem, busy_ctr, has_tsx, delete_flag, op, expires_hdr, expires, timer, granted, lock, told>>
  BY Typed DEF TsxEnds, In
<1>2. Enters("event", "tsxcb", ans)
  <2>1. Pushes("event", "tsxcb", ans)
    BY DEF TsxEnds, Pushes
  <2>2. /\ "event" \in Threads /\ "tsxcb" \in {"send", "tsxcb", "refresh"}
        /\ ans \in Answers \cup {NoAnswer, Local(408), Local(503)}
    BY DEF Threads
  <2>3. TypeOK
    BY Typed
  <2> QED
    BY <2>1, <2>2, <2>3, PushEnters
<1>3. tsx = 1 /\ tsx' = 0
  BY <1>1 DEF IInv
<1>4. TypeOK'
  BY <1>1, <1>2, <1>3 DEF TypeOK, Enters
<1>a. ans.code # 0
  BY AnswersAssumption DEF Local, NoAnswer
<1>5. Course'
  BY <1>1, <1>2, <1>3, <1>a DEF IInv, Course, Enters
<1>p. Promise
  BY <1>1, <1>2, <1>3 DEF IInv, Promise, Seen, Enters
<1>6. Counted'
  BY <1>1, <1>2, Typed DEF Counted, Busy, Enters
<1> QED
  BY <1>p, <1>4, <1>5, <1>6, TogetherNext

LEMMA TimerFiresStep == ASSUME IInv, TimerFires PROVE IInv' /\ Promise
<1>1. /\ Depth("event") = 0 /\ timer # None /\ timer' = None /\ TypeOK
      /\ UNCHANGED <<gb, mem, busy_ctr, has_tsx, delete_flag, op, expires_hdr, expires, granted, lock, tsx, told>>
  BY Typed DEF TimerFires, In
<1>2. Enters("event", "refresh", NoAnswer)
  <2>1. Pushes("event", "refresh", NoAnswer)
    BY DEF TimerFires, Pushes
  <2>2. /\ "event" \in Threads /\ "refresh" \in {"send", "tsxcb", "refresh"}
        /\ NoAnswer \in Answers \cup {NoAnswer, Local(408), Local(503)}
    BY DEF Threads
  <2>3. TypeOK
    BY Typed
  <2> QED
    BY <2>1, <2>2, <2>3, PushEnters
<1>3. TypeOK'
  BY <1>1, <1>2 DEF TypeOK, Enters
<1>4. Course'
  BY <1>1, <1>2 DEF IInv, Course, Enters
<1>p. Promise
  BY <1>1, <1>2 DEF IInv, Promise, Seen, Enters
<1>5. Counted'
  BY <1>1, <1>2, Typed DEF Counted, Busy, Enters
<1> QED
  BY <1>p, <1>3, <1>4, <1>5, TogetherNext

LEMMA RefreshStep == ASSUME IInv, RefreshTimer PROVE IInv' /\ Promise
<1>1. CASE RefreshEnter
  <2>1. Only("refresh", "enter")
    BY <1>1, RefreshPlace DEF RefreshEnter
  <2>2. Moves("event", 1, "register")
    BY <1>1, <2>1, OuterGoto DEF RefreshEnter, Statements
  <2>3. TypeOK'
    BY <1>1, <2>2, Typed DEF TypeOK, RefreshEnter, Moves, Calls, Leaves
  <2>4. Course'
    BY <1>1, <2>1, <2>2 DEF IInv, Course, RefreshEnter, Moves, Calls, Leaves
  <2>p. Promise
    BY <1>1, <2>1, <2>2 DEF IInv, RefreshEnter, Promise, Seen, Moves, Calls, Leaves
  <2>5. Counted'
    BY <1>1, <2>1, <2>2, Typed DEF Counted, Busy, RefreshEnter, Moves, Calls, Leaves
  <2> QED
    BY <2>p, <2>3, <2>4, <2>5, TogetherNext
<1>2. CASE RefreshRegister
  <2>1. /\ Only("refresh", "register")
        /\ UNCHANGED <<gb, mem, busy_ctr, has_tsx, delete_flag, op, expires_hdr, expires, granted, lock, tsx, told>>
    BY <1>2, RefreshPlace DEF RefreshRegister
  <2>2. CASE pjsip_regc_register("event") /\ Call("event", "sending", "send", NoAnswer)
    <3>1. Calls("event", 2, "sending", "send", NoAnswer) /\ timer' = None
      BY <2>1, <2>2, OuterCall DEF Statements, pjsip_regc_register
    <3>2. TypeOK'
      BY <2>1, <3>1, Typed DEF TypeOK, Moves, Calls, Leaves
    <3>3. Course'
      BY <2>1, <3>1 DEF IInv, Course, Moves, Calls, Leaves
    <3>p. Promise
      BY <2>1, <3>1 DEF IInv, Promise, Seen, Moves, Calls, Leaves
    <3>4. Counted'
      BY <2>1, <3>1, Typed DEF Counted, Busy, Moves, Calls, Leaves
    <3> QED
      BY <3>p, <3>2, <3>3, <3>4, TogetherNext
  <2>3. CASE Goto("event", "tell") /\ UNCHANGED timer
    <3>1. Moves("event", 1, "tell")
      BY <2>1, <2>3, OuterGoto DEF Statements
    <3>2. TypeOK'
      BY <2>1, <2>3, <3>1, Typed DEF TypeOK, Moves, Calls, Leaves
    <3>3. Course'
      BY <2>1, <2>3, <3>1 DEF IInv, Course, Moves, Calls, Leaves
    <3>p. Promise
      BY <2>1, <2>3, <3>1 DEF IInv, Promise, Seen, Moves, Calls, Leaves
    <3>4. Counted'
      BY <2>1, <3>1, Typed DEF Counted, Busy, Moves, Calls, Leaves
    <3> QED
      BY <3>p, <3>2, <3>3, <3>4, TogetherNext
  <2> QED
    BY <1>2, <2>2, <2>3 DEF RefreshRegister
<1>3. CASE RefreshTell
  <2>1. /\ Only("refresh", "tell") /\ Goto("event", "dec")
        /\ UNCHANGED <<gb, mem, busy_ctr, has_tsx, delete_flag, op, expires_hdr, expires, timer, granted, lock, tsx>>
    BY <1>3, RefreshPlace DEF RefreshTell
  <2>2. told' = [code |-> 400, expiration |-> None]
    BY <1>3 DEF IInv, RefreshTell
  <2>3. told'.code = 400 /\ told' \in [code : Nat, expiration : Nat \cup {None}]
    BY <2>2
  <2>4. Moves("event", 1, "dec")
    BY <2>1, OuterGoto DEF Statements
  <2>5. TypeOK'
    BY <2>1, <2>3, <2>4, Typed DEF TypeOK, Moves, Calls, Leaves
  <2>6. Course'
    BY <2>1, <2>3, <2>4 DEF IInv, Course, Moves, Calls, Leaves
  <2>p. Promise
    BY <2>1, <2>3, <2>4, EventAccepted DEF IInv, Promise, Seen, Moves, Calls, Leaves
  <2>7. Counted'
    BY <2>1, <2>4, Typed DEF Counted, Busy, Moves, Calls, Leaves
  <2> QED
    BY <2>p, <2>5, <2>6, <2>7, TogetherNext
<1>4. CASE RefreshLeave
  <2>1. /\ Only("refresh", "dec") /\ busy_ctr' = busy_ctr - 1 /\ Return("event", TRUE)
        /\ UNCHANGED <<mem, timer, has_tsx, delete_flag, op, expires_hdr, expires, granted, lock, tsx, told>>
    BY <1>4, RefreshPlace, LeaveKeeps DEF RefreshLeave
  <2>2. Leaves("event") /\ gb' = gb
    BY <2>1, OuterReturn
  <2>3. Counted'
    BY <2>1, <2>2, Typed DEF Counted, Busy, Moves, Calls, Leaves
  <2>4. TypeOK'
    <3>1. busy_ctr' \in Nat
      BY <2>3 DEF Counted, Busy
    <3> QED
      BY <2>1, <2>2, <3>1, Typed DEF TypeOK, Moves, Calls, Leaves
  <2>5. Course'
    <3>1. ~Success(400)
      BY DEF Success
    <3> QED
      BY <2>1, <2>2, <3>1 DEF IInv, Course, Leaves
  <2>p. Promise
    BY <2>1, <2>2 DEF IInv, Promise, Seen, Moves, Calls, Leaves
  <2> QED
    BY <2>p, <2>3, <2>4, <2>5, TogetherNext
<1> QED
  BY <1>1, <1>2, <1>3, <1>4 DEF RefreshTimer

LEMMA GbRegisterStep == ASSUME IInv, GbRegister PROVE IInv' /\ Promise
<1>1. CASE regc_create
  <2>1. /\ gb = "create"
        /\ \/ gb' = "init" /\ mem' = "live"
           \/ gb' = "failed" /\ UNCHANGED mem
        /\ UNCHANGED <<busy_ctr, has_tsx, delete_flag, op, expires_hdr, expires, timer, granted, lock, stack, tsx, told>>
    BY <1>1 DEF regc_create
  <2>2. TypeOK'
    BY <2>1, Typed DEF TypeOK, Enters
  <2>3. Course'
    BY <2>1 DEF IInv, Course, Enters
  <2>p. Promise
    BY <2>1 DEF IInv, Promise, Seen, Enters
  <2>4. Counted'
    BY <2>1, Typed DEF Counted, Busy, Enters
  <2> QED
    BY <2>p, <2>2, <2>3, <2>4, TogetherNext
<1>2. CASE regc_init
  <2>1. /\ gb = "init" /\ gb' \in {"register", "destroy"}
        /\ expires_hdr' \in Configured \cup {expires_hdr}
        /\ UNCHANGED <<mem, busy_ctr, has_tsx, delete_flag, op, expires, timer, granted, lock, stack, tsx, told>>
    BY <1>2 DEF regc_init
  <2>2. expires_hdr' \in Nat \cup {None}
    BY <2>1, Typed, ConfiguredAssumption DEF TypeOK
  <2>3. TypeOK'
    BY <2>1, <2>2, Typed DEF TypeOK, Enters
  <2>4. Course'
    BY <2>1 DEF IInv, Course, Enters
  <2>p. Promise
    BY <2>1 DEF IInv, Promise, Seen, Enters
  <2>5. Counted'
    BY <2>1, Typed DEF Counted, Busy, Enters
  <2> QED
    BY <2>p, <2>3, <2>4, <2>5, TogetherNext
<1>3. CASE regc_register
  <2>1. /\ gb = "register" /\ TypeOK
        /\ UNCHANGED <<mem, busy_ctr, has_tsx, delete_flag, op, expires_hdr, expires, granted, lock, tsx, told>>
    BY <1>3, Typed DEF regc_register
  <2>2. CASE gb' = "send" /\ pjsip_regc_register("timer")
             /\ stack' = [stack EXCEPT !["timer"] = <<Frame("send", NoAnswer)>>]
    <3>1. /\ "timer" \in Threads /\ "send" \in {"send", "tsxcb", "refresh"}
          /\ NoAnswer \in Answers \cup {NoAnswer, Local(408), Local(503)}
      BY DEF Threads
    <3>2. Enters("timer", "send", NoAnswer)
      <4>1. TypeOK /\ Pushes("timer", "send", NoAnswer)
        BY <2>2, Typed DEF Pushes
      <4> QED
        BY <3>1, <4>1, PushEnters
    <3>3. timer' = None
      BY <2>2 DEF pjsip_regc_register
    <3>4. TypeOK'
      BY <2>1, <2>2, <3>2, <3>3 DEF TypeOK, Enters
    <3>5. Course'
      BY <2>1, <2>2, <3>2, <3>3 DEF IInv, Course, Enters
    <3>p. Promise
      BY <2>1, <2>2, <3>2, <3>3 DEF IInv, Promise, Seen, Enters
    <3>6. Counted'
      <4>1. Depth("timer") = 0 /\ Counted
        BY <2>1, Typed DEF IInv
      <4> QED
        BY <2>1, <3>2, <4>1 DEF Counted, Busy, Enters
    <3> QED
      BY <3>p, <3>4, <3>5, <3>6, TogetherNext
  <2>3. CASE gb' = "destroy" /\ UNCHANGED <<timer, stack>>
    <3>1. TypeOK'
      BY <2>1, <2>3 DEF TypeOK, Enters
    <3>2. Course'
      BY <2>1, <2>3 DEF IInv, Course, Enters
    <3>p. Promise
      BY <2>1, <2>3 DEF IInv, Promise, Seen, Enters
    <3>3. Counted'
      BY <2>1, <2>3, Typed DEF Counted, Busy, Enters
    <3> QED
      BY <3>p, <3>1, <3>2, <3>3, TogetherNext
  <2> QED
    BY <1>3, <2>2, <2>3 DEF regc_register
<1>4. CASE DestroyOnError
  \* nobody is in the library, so the regc is not busy and is freed at once
  <2>1. gb = "destroy" /\ ~has_tsx /\ Depth("timer") = 0 /\ Depth("event") = 0
    BY <1>4 DEF IInv, DestroyOnError
  <2>2. busy_ctr = 0
    BY <2>1, Typed DEF Counted, Busy
  <2>3. /\ gb' = "failed" /\ mem' = "freed" /\ timer' = None
        /\ UNCHANGED <<busy_ctr, has_tsx, delete_flag, op, expires_hdr, expires, granted, lock, stack, tsx, told>>
    BY <1>4, <2>1, <2>2 DEF DestroyOnError, pjsip_regc_destroy
  <2>4. TypeOK'
    BY <2>3, Typed DEF TypeOK, Enters
  <2>5. Course'
    BY <2>1, <2>3 DEF IInv, Course, Enters
  <2>p. Promise
    BY <2>1, <2>3 DEF IInv, Promise, Seen, Enters
  <2>6. Counted'
    BY <2>3, Typed DEF Counted, Busy, Enters
  <2> QED
    BY <2>p, <2>4, <2>5, <2>6, TogetherNext
<1> QED
  BY <1>1, <1>2, <1>3, <1>4 DEF GbRegister

LEMMA InitIInv == Init => IInv
<1> SUFFICES ASSUME Init PROVE IInv
  OBVIOUS
<1>1. Depth("timer") = 0 /\ Depth("event") = 0
  BY DEF Init, Threads
<1>2. TypeOK
  <2>1. stack \in [Threads -> Seq(FrameType)]
    BY DEF Init
  <2>2. told \in [code : Nat, expiration : Nat \cup {None}]
    BY DEF Init
  <2>3. {expires_hdr, expires, timer, granted} \subseteq Nat \cup {None} /\ busy_ctr \in Nat /\ tsx \in Nat
    BY DEF Init
  <2> QED
    BY <2>1, <2>2, <2>3 DEF Init, TypeOK
<1>3. Course
  BY <1>1 DEF Init, Course, None, Success
<1>4. Counted
  BY <1>1 DEF Init, Counted, Busy
<1> QED
  BY <1>2, <1>3, <1>4 DEF IInv, Course

LEMMA LibraryStep == ASSUME IInv, NEW t \in Threads, Library(t) PROVE IInv' /\ Promise
BY SendEnterStep, SendStartStep, SendRequestStep, SendFailedStep, SendLeaveStep, TsxEnterStep,
   TsxLockedStep, TsxReregisterStep, TsxUnlockStep, TsxTellStep, TsxLeaveStep DEF Library

LEMMA StutterStep == ASSUME IInv, UNCHANGED vars PROVE IInv' /\ Promise
<1>1. TypeOK'
  BY Typed DEF TypeOK, vars
<1>2. Course'
  BY DEF IInv, Course, vars
<1>3. Counted'
  BY Typed DEF Counted, Busy, vars
<1>p. Promise
  BY DEF Promise, Seen, vars
<1> QED
  BY <1>p, <1>1, <1>2, <1>3 DEF IInv, Course

LEMMA NextIInv == IInv /\ [Next]_vars => IInv' /\ Promise
<1> SUFFICES ASSUME IInv, [Next]_vars PROVE IInv' /\ Promise
  OBVIOUS
<1>1. CASE GbRegister
  BY <1>1, GbRegisterStep
<1>2. CASE TimerFires
  BY <1>2, TimerFiresStep
<1>3. CASE RefreshTimer
  BY <1>3, RefreshStep
<1>4. CASE TsxEndsSomehow
  BY <1>4, TsxEndsStep DEF TsxEndsSomehow
<1>5. CASE \E t \in Threads : Library(t)
  BY <1>5, LibraryStep
<1>6. CASE UNCHANGED vars
  BY <1>6, StutterStep
<1> QED
  BY <1>1, <1>2, <1>3, <1>4, <1>5, <1>6 DEF Next

\* The state of the client, of its two stacks and of what it has reported
\* is described by IInv in every reachable state.
THEOREM Invariance == Spec => []IInv
<1> QED
  BY InitIInv, NextIInv, PTL DEF Spec

-----------------------------------------------------------------------------
(* What follows from it *)

HIDE DEF RefreshInTime

Positions == {<<"timer", 1>>, <<"timer", 2>>, <<"event", 1>>, <<"event", 2>>, <<"event", 3>>}

\* Frames, which the properties count, by position.
LEMMA FramePlaces ==
    ASSUME IInv
    PROVE  /\ Frames \subseteq Positions
           /\ \A t \in Threads : \A i \in 1 .. 3 : <<t, i>> \in Frames <=> i <= Depth(t)
<1>1. /\ DOMAIN stack["timer"] = 1 .. Depth("timer") /\ DOMAIN stack["event"] = 1 .. Depth("event")
      /\ Depth("timer") \in 0 .. 2 /\ Depth("event") \in 0 .. 3
  <2>1. stack["timer"] \in Seq(FrameType) /\ stack["event"] \in Seq(FrameType)
    BY Typed DEF TypeOK, Threads
  <2> QED
    BY <2>1 DEF IInv
<1>2. \A f : f \in Frames <=> \E t \in Threads : \E i \in DOMAIN stack[t] : f = <<t, i>>
  BY DEF Frames
<1>3. \A t \in Threads : \A i \in 1 .. 3 : <<t, i>> \in Frames <=> i \in DOMAIN stack[t]
  BY <1>2
<1>4. \A t \in Threads : \A i \in 1 .. 3 : i \in DOMAIN stack[t] <=> i <= Depth(t)
  BY <1>1 DEF Threads
<1>5. Frames \subseteq Positions
  <2> SUFFICES ASSUME NEW f \in Frames PROVE f \in Positions
    OBVIOUS
  <2>1. PICK t \in Threads : \E i \in DOMAIN stack[t] : f = <<t, i>>
    BY <1>2
  <2>2. PICK i \in DOMAIN stack[t] : f = <<t, i>>
    BY <2>1
  <2>3. CASE t = "timer"
    <3>1. i = 1 \/ i = 2
      BY <1>1, <2>2, <2>3
    <3> QED
      BY <2>2, <2>3, <3>1 DEF Positions
  <2>4. CASE t = "event"
    <3>1. i = 1 \/ i = 2 \/ i = 3
      BY <1>1, <2>2, <2>4
    <3> QED
      BY <2>2, <2>4, <3>1 DEF Positions
  <2> QED
    BY <2>3, <2>4 DEF Threads
<1> QED
  BY <1>3, <1>4, <1>5

Has(S, x) == IF x \in S THEN 1 ELSE 0

LEMMA CountOneMore ==
    ASSUME NEW S, NEW P, NEW x, x \notin P, IsFiniteSet(S \cap P)
    PROVE  /\ IsFiniteSet(S \cap (P \cup {x}))
           /\ Cardinality(S \cap (P \cup {x})) = Cardinality(S \cap P) + Has(S, x)
           /\ Cardinality(S \cap P) \in Nat
<1>0. Cardinality(S \cap P) \in Nat
  BY FS_CardinalityType
<1>1. CASE x \in S
  <2>1. S \cap (P \cup {x}) = (S \cap P) \cup {x} /\ x \notin S \cap P
    BY <1>1
  <2> QED
    BY <1>0, <1>1, <2>1, FS_AddElement DEF Has
<1>2. CASE x \notin S
  <2>1. S \cap (P \cup {x}) = S \cap P
    BY <1>2
  <2> QED
    <3>1. Has(S, x) = 0
      BY <1>2 DEF Has
    <3>2. Cardinality(S \cap P) + 0 = Cardinality(S \cap P)
      BY <1>0
    <3>3. Cardinality(S \cap (P \cup {x})) = Cardinality(S \cap P) /\ IsFiniteSet(S \cap (P \cup {x}))
      BY <2>1
    <3> QED
      BY <1>0, <3>1, <3>2, <3>3
<1> QED
  BY <1>1, <1>2

\* The number of elements of a set of positions.
LEMMA CountPositions ==
    ASSUME NEW S \in SUBSET Positions
    PROVE  Cardinality(S) = Has(S, <<"timer", 1>>) + Has(S, <<"timer", 2>>)
                            + Has(S, <<"event", 1>>) + Has(S, <<"event", 2>>) + Has(S, <<"event", 3>>)
<1> DEFINE P1 == {} \cup {<<"timer", 1>>}
           P2 == P1 \cup {<<"timer", 2>>}
           P3 == P2 \cup {<<"event", 1>>}
           P4 == P3 \cup {<<"event", 2>>}
           P5 == P4 \cup {<<"event", 3>>}
<1>1. /\ <<"timer", 1>> \notin {} /\ <<"timer", 2>> \notin P1 /\ <<"event", 1>> \notin P2
      /\ <<"event", 2>> \notin P3 /\ <<"event", 3>> \notin P4
  OBVIOUS
<1>2. IsFiniteSet(S \cap {}) /\ Cardinality(S \cap {}) = 0
  <2>1. S \cap {} = {}
    OBVIOUS
  <2> QED
    BY <2>1, FS_EmptySet
<1>3. S \cap P5 = S
  BY DEF Positions
<1>4. IsFiniteSet(S \cap P1) /\ Cardinality(S \cap P1) = Cardinality(S \cap {}) + Has(S, <<"timer", 1>>)
  BY <1>1, <1>2, CountOneMore
<1> HIDE DEF P1
<1>5. /\ IsFiniteSet(S \cap P2) /\ Cardinality(S \cap P2) = Cardinality(S \cap P1) + Has(S, <<"timer", 2>>)
  BY <1>1, <1>4, CountOneMore
<1> HIDE DEF P2
<1>6. /\ IsFiniteSet(S \cap P3) /\ Cardinality(S \cap P3) = Cardinality(S \cap P2) + Has(S, <<"event", 1>>)
  BY <1>1, <1>5, CountOneMore
<1> HIDE DEF P3
<1>7. /\ IsFiniteSet(S \cap P4) /\ Cardinality(S \cap P4) = Cardinality(S \cap P3) + Has(S, <<"event", 2>>)
  BY <1>1, <1>6, CountOneMore
<1> HIDE DEF P4
<1>8. /\ IsFiniteSet(S \cap P5) /\ Cardinality(S \cap P5) = Cardinality(S \cap P4) + Has(S, <<"event", 3>>)
  BY <1>1, <1>7, CountOneMore
<1>9. /\ Has(S, <<"timer", 1>>) \in Int /\ Has(S, <<"timer", 2>>) \in Int
      /\ Has(S, <<"event", 1>>) \in Int /\ Has(S, <<"event", 2>>) \in Int /\ Has(S, <<"event", 3>>) \in Int
  BY DEF Has
<1> HIDE DEF P5
<1>10. Cardinality(S) = Cardinality(S \cap P5)
  BY <1>3
<1> QED
  BY <1>2, <1>10, <1>4, <1>5, <1>6, <1>7, <1>8, <1>9

LEMMA Balanced == IInv => BusyBalanced
<1> SUFFICES ASSUME IInv PROVE BusyBalanced
  OBVIOUS
<1> DEFINE S == {f \in Frames : FrameAt(f).pc # "enter"}
<1>1. S \in SUBSET Positions
  BY FramePlaces
<1>2. \A t \in Threads : \A i \in 1 .. 3 : <<t, i>> \in S <=> i <= Depth(t) /\ Pc(t, i) # "enter"
  BY FramePlaces DEF FrameAt
<1> HIDE DEF S
<1>3. /\ Has(S, <<"timer", 1>>) = Busy("timer", 1) /\ Has(S, <<"timer", 2>>) = Busy("timer", 2)
      /\ Has(S, <<"event", 1>>) = Busy("event", 1) /\ Has(S, <<"event", 2>>) = Busy("event", 2)
      /\ Has(S, <<"event", 3>>) = Busy("event", 3)
  BY <1>2 DEF Has, Busy, Threads
<1>4. Counted
  BY Typed
<1> QED
  BY <1>1, <1>3, <1>4, CountPositions DEF BusyBalanced, Counted, S

LEMMA NoFrames == ASSUME IInv PROVE Frames = {} <=> Depth("timer") = 0 /\ Depth("event") = 0
<1>1. Depth("timer") \in Nat /\ Depth("event") \in Nat
  BY DEF IInv
<1>2. /\ <<"timer", 1>> \in Frames <=> 1 <= Depth("timer")
      /\ <<"event", 1>> \in Frames <=> 1 <= Depth("event")
  BY FramePlaces DEF Threads
<1>3. \A f \in Frames : \E t \in Threads : \E i \in 1 .. 3 : f = <<t, i>> /\ i <= Depth(t)
  <2> SUFFICES ASSUME NEW f \in Frames PROVE \E t \in Threads : \E i \in 1 .. 3 : f = <<t, i>> /\ i <= Depth(t)
    OBVIOUS
  <2>1. f \in Positions
    BY FramePlaces
  <2>2. PICK t \in Threads, i \in 1 .. 3 : f = <<t, i>>
    BY <2>1 DEF Positions, Threads
  <2> QED
    BY <2>2, FramePlaces
<1> QED
  BY <1>1, <1>2, <1>3 DEF Threads

LEMMA OnlyOne == IInv => OneTransaction
<1> SUFFICES ASSUME IInv PROVE OneTransaction
  OBVIOUS
<1>1. Undecided \in SUBSET Positions /\ Unreported \in SUBSET Positions
  BY FramePlaces DEF Undecided, Unreported
<1>2. \A t \in Threads : \A i \in 1 .. 3 :
         <<t, i>> \in Undecided <=>
            /\ i <= Depth(t)
            /\ \/ Fn(t, i) = "tsxcb" /\ Pc(t, i) \in {"enter", "lock"}
               \/ Fn(t, i) = "send" /\ Pc(t, i) = "request"
  BY FramePlaces DEF Undecided, FrameAt
<1>3. \A t \in Threads : \A i \in 1 .. 3 :
         <<t, i>> \in Unreported <=> i = Depth(t) /\ Fn(t, i) = "send" /\ Pc(t, i) = "failed"
  <2>1. \A t \in Threads : Depth(t) \in 0 .. 3
    BY DEF IInv, Threads
  <2> SUFFICES ASSUME NEW t \in Threads, NEW i \in 1 .. 3
               PROVE  <<t, i>> \in Unreported <=> i = Depth(t) /\ Fn(t, i) = "send" /\ Pc(t, i) = "failed"
    OBVIOUS
  <2>2. <<t, i>> \in Frames <=> i <= Depth(t)
    BY FramePlaces
  <2>3. i = Depth(t) => i <= Depth(t)
    BY <2>1
  <2>4. <<t, i>>[1] = t /\ <<t, i>>[2] = i
    OBVIOUS
  <2> QED
    BY <2>2, <2>3, <2>4 DEF Unreported, FrameAt
<1>4. Cardinality(Undecided) = IF Choosing THEN 1 ELSE 0
  <2>1. /\ <<"timer", 1>> \in Undecided <=> Depth("timer") = 1 /\ Pc("timer", 1) = "request"
        /\ <<"timer", 2>> \in Undecided <=> Depth("timer") = 2 /\ Pc("timer", 2) \in {"enter", "lock"}
    BY <1>2 DEF IInv, Threads
  <2>2. <<"event", 1>> \in Undecided <=> Only("tsxcb", "enter") \/ Only("tsxcb", "lock")
    <3>1. <<"event", 1>> \in Undecided <=>
             /\ 1 <= Depth("event")
             /\ \/ Fn("event", 1) = "tsxcb" /\ Pc("event", 1) \in {"enter", "lock"}
                \/ Fn("event", 1) = "send" /\ Pc("event", 1) = "request"
      BY <1>2 DEF Threads
    <3> QED
      BY <3>1 DEF IInv
  <2>4. TimerShape /\ EventShape
    BY DEF IInv
  <2>5. Depth("timer") > 0 /\ ~TimerSent => Depth("event") = 0
    BY DEF IInv
  <2>6. Cardinality(Undecided) = Has(Undecided, <<"timer", 1>>) + Has(Undecided, <<"timer", 2>>)
           + Has(Undecided, <<"event", 1>>) + Has(Undecided, <<"event", 2>>) + Has(Undecided, <<"event", 3>>)
    BY <1>1, CountPositions
  <2> HIDE DEF Reported, Control, Token, RefreshInTime, Shape, Settled
  <2>3. /\ <<"event", 2>> \in Undecided <=> Depth("event") = 2 /\ Pc("event", 2) = "request"
        /\ <<"event", 3>> \in Undecided <=> Depth("event") = 3 /\ Pc("event", 3) \in {"enter", "lock"}
    BY <1>2, <2>4 DEF Threads
  <2> QED
    BY <2>1, <2>2, <2>3, <2>4, <2>5, <2>6 DEF Has
<1>5. Cardinality(Unreported) = IF Failing THEN 1 ELSE 0
  <2>1. /\ <<"timer", 1>> \in Unreported <=> Depth("timer") = 1 /\ Pc("timer", 1) = "failed"
        /\ <<"timer", 2>> \notin Unreported
        /\ <<"event", 1>> \notin Unreported
        /\ <<"event", 2>> \in Unreported <=> Depth("event") = 2 /\ Pc("event", 2) = "failed"
        /\ <<"event", 3>> \notin Unreported
    BY <1>3 DEF IInv, Threads
  <2> QED
    BY <1>1, <2>1, CountPositions DEF IInv, Has
<1>6. ~(Choosing /\ Failing)
  BY DEF IInv
<1>7. ~(tsx = 1 /\ Failing)
  BY DEF IInv
<1>8. Token
  BY DEF IInv
<1> QED
  BY <1>4, <1>5, <1>6, <1>7, <1>8 DEF OneTransaction

\* No function of the library is ever in a regc that was freed, no timer fires
\* into it and no transaction calls back; gbRegister frees what it gives up.
THEOREM NeverUsedFreed == Spec => []Sound
<1>1. IInv => Sound
  <2> SUFFICES ASSUME IInv PROVE Sound
    OBVIOUS
  <2>1. /\ gb \in {"create", "init", "register", "send", "destroy", "ok", "failed"}
        /\ mem \in {"none", "live", "freed"} /\ TypeOK
    BY Typed DEF TypeOK
  <2>2. Control
    BY DEF IInv
  <2>3. FailedAttemptFreed
    BY <2>1, <2>2 DEF FailedAttemptFreed
  <2>4. ASSUME mem # "live" PROVE Depth("timer") = 0 /\ Depth("event") = 0 /\ timer = None /\ tsx = 0
    BY <2>1, <2>2, <2>4
  <2>5. NoUseAfterFree
    BY <2>4, NoFrames DEF NoUseAfterFree
  <2> QED
    BY <2>1, <2>3, <2>5 DEF Sound
<1> QED
  BY <1>1, Invariance, PTL

\* busy_ctr is the number of functions that are past their first statement.
THEOREM CounterBalanced == Spec => []BusyBalanced
BY Balanced, Invariance, PTL

\* The REGISTERs of one regc never overlap, and has_tsx says whether one is pending.
THEOREM OneRegisterAtATime == Spec => []OneTransaction
BY OnlyOne, Invariance, PTL

\* A client that has nothing more to do has reported a failure, or an interval of 0.
THEOREM NeverSilentUntold == Spec => []SilentOnlyIfTold
<1>1. IInv => SilentOnlyIfTold
  <2> SUFFICES ASSUME IInv, Quiet
                  PROVE told.code # 0 /\ (told.code \div 100 # 2 \/ told.expiration = 0)
    BY DEF SilentOnlyIfTold
  <2>1. gb = "ok" /\ Depth("event") = 0 /\ tsx = 0 /\ timer = None
    BY NoFrames DEF Quiet
  <2>2. Settled /\ Reported
    BY <2>1 DEF IInv
  <2> QED
    BY <2>1, <2>2 DEF Success
<1> QED
  BY <1>1, Invariance, PTL

\* The refresh is due before the registration ends.
THEOREM RefreshesInTime == Spec => []RefreshInTime
<1>1. IInv => RefreshInTime
  BY DEF IInv
<1> QED
  BY <1>1, Invariance, PTL

\* The phase of the contract is what the frames show.
LEMMA PhaseSeen == IInv => phase = Seen
<1> SUFFICES ASSUME IInv PROVE phase = Seen
  OBVIOUS
<1>1. /\ stack["event"] \in Seq(FrameType) /\ stack["timer"] \in Seq(FrameType)
      /\ Depth("event") \in Nat /\ Depth("timer") \in 0 .. 2 /\ tsx \in {0, 1}
  BY Typed DEF TypeOK, Threads, IInv
<1>2. In("event") <=> Depth("event") > 0
  BY <1>1 DEF In
<1>3. In("event") => Bottom = stack["event"][1]
  BY <1>1 DEF In, Bottom
<1>4. At("timer", "send", "sent") <=> TimerSent
  <2>1. In("timer") <=> Depth("timer") # 0
    BY <1>1 DEF In
  <2>2. In("timer") => Top("timer") = stack["timer"][Depth("timer")]
    BY TopFrame, Typed DEF Threads
  <2>3. At("timer", "send", "sent") => TimerSent
    <3> SUFFICES ASSUME At("timer", "send", "sent") PROVE TimerSent
      OBVIOUS
    <3> QED
      BY SendPlace DEF Threads
  <2>4. TimerSent => At("timer", "send", "sent")
    BY <2>1, <2>2 DEF At, IInv
  <2> QED
    BY <2>3, <2>4
<1>5. Deciding <=> /\ Depth("event") > 0 /\ Fn("event", 1) = "tsxcb"
                   /\ Pc("event", 1) \notin {"relock", "dec", "unlock"}
  BY <1>2, <1>3 DEF Deciding
<1>6. Refreshing <=> Depth("event") > 0 /\ Fn("event", 1) = "refresh" /\ Pc("event", 1) # "dec"
  BY <1>2, <1>3 DEF Refreshing
<1>7. Accepted <=> gb = "ok" \/ TimerSent
  BY <1>4 DEF Accepted
<1>8. tsx > 0 \/ tsx = 0
  BY <1>1
<1> HIDE DEF TimerSent, Fn, Pc, Depth
<1> QED
  BY <1>1, <1>5, <1>6, <1>7, <1>8 DEF phase, Seen

\* The library keeps the contract SubService is written against.
THEOREM KeepsContract == Spec => ImplementsContract
<1>1. Init => Contract!Init
  <2> SUFFICES ASSUME Init PROVE phase = "none"
    BY DEF Contract!Init
  <2> QED
    BY DEF Init, phase
<1>2. (IInv => phase = Seen)'
  BY PhaseSeen, PTL
<1>3. IInv /\ IInv' /\ Promise => [Contract!Next]_phase
  <2> SUFFICES ASSUME IInv, IInv', Promise PROVE [Contract!Next]_phase
    OBVIOUS
  <2>1. phase = Seen
    BY PhaseSeen
  <2>2. phase' = Seen'
    BY <1>2
  <2> HIDE DEF Seen
  <2> QED
    BY <2>1, <2>2 DEF Promise, Contract!Next, Contract!Create, Contract!GiveUp, Contract!Send,
       Contract!Accept, Contract!Refresh, Contract!Fail, Contract!Move
<1> QED
  BY <1>1, <1>3, InitIInv, NextIInv, PTL DEF Spec, ImplementsContract, Contract!Spec
=============================================================================
