----------------------------- MODULE RegClient ------------------------------
(***************************************************************************)
(* PJSIP's registration client (sip_reg.c), as SipSubService uses it: the  *)
(* timer thread creates a regc, sends one REGISTER and destroys the regc   *)
(* if a call failed; the event thread runs regc_tsx_callback when the      *)
(* transaction ends and regc_refresh_timer_cb when the refresh timer       *)
(* fires.  The callback also runs inside pjsip_endpt_send_request, on      *)
(* either thread, when the request cannot be sent.                         *)
(*                                                                         *)
(* Each thread has a stack of the functions of sip_reg.c it is in; lock is *)
(* regc->lock, a recursive mutex.  busy_ctr, _delete_flag (in part) and,   *)
(* after a failed send, has_tsx are accessed without it.  A section under  *)
(* the lock that makes no call out is one step.  auto_reg is always set:   *)
(* gbRegister and the refresh ask for it.  gbRegister sets no credentials, *)
(* so pjsip_auth_clt_reinit_req always fails; it never unregisters.        *)
(***************************************************************************)
EXTENDS Integers, Sequences, FiniteSets, SequencesExt

CONSTANTS Configured,   \* values of node.expires PJSIP accepts; None is the -1 of a missing key
          Answers,      \* final responses: [code, min, contact, expires], each header possibly None
          DelayBefore,  \* DELAY_BEFORE_REFRESH: 5
          Guess,        \* UNSPECIFIED_MIN_EXPIRES: 3601
          Default       \* expiration when nobody names one: 3600

\* PJSIP_REGC_EXPIRATION_NOT_SPECIFIED is (unsigned)-1; a header that is not there
None == -1

ASSUME ConfiguredAssumption == Configured \subseteq (Nat \ {0}) \cup {None}
ASSUME AnswersAssumption ==
    \A a \in Answers : /\ a.code \in 200 .. 699
                       /\ {a.min, a.contact, a.expires} \subseteq Nat \cup {None}
ASSUME TimesAssumption == {DelayBefore, Guess, Default} \subseteq Nat \ {0}

Threads == {"timer", "event"}
Nobody == "nobody"

VARIABLES
    gb,            \* where gbRegister is
    mem,           \* the regc: "none", "live" or "freed"
    has_tsx, busy_ctr, delete_flag, op,   \* fields of the regc
    expires_hdr,   \* its Expires header, None if it sends none
    expires,       \* regc->expires: the interval granted last
    timer,         \* delay of the armed refresh timer, None if it is not armed
    lock,          \* the thread that holds regc->lock over a call, or Nobody
    stack,         \* the frames of each thread, innermost last: [fn, pc, ans]
    tsx,           \* transactions whose callback is still to come
    told,          \* ghost: what client_cb was called with last: [code, expiration]
    granted        \* ghost: the expiration the armed timer was computed from

vars == <<gb, mem, has_tsx, busy_ctr, delete_flag, op, expires_hdr, expires, timer,
          lock, stack, tsx, told, granted>>
app == <<gb, mem>>
fields == <<has_tsx, delete_flag, op, expires_hdr, expires>>
timers == <<timer, granted>>

NoAnswer == [code |-> 0, min |-> None, contact |-> None, expires |-> None]
Local(code) == [NoAnswer EXCEPT !.code = code]     \* made by PJSIP: no message was received

Init ==
    /\ gb = "create" /\ mem = "none"
    /\ has_tsx = FALSE /\ busy_ctr = 0 /\ delete_flag = FALSE /\ op = "idle"
    /\ expires_hdr = None /\ expires = None
    /\ timer = None /\ granted = None
    /\ lock = Nobody
    /\ stack = [t \in Threads |-> <<>>]
    /\ tsx = 0
    /\ told = [code |-> 0, expiration |-> None]

-----------------------------------------------------------------------------
(* Frames and the lock *)

In(t) == stack[t] # <<>>
Top(t) == Last(stack[t])
At(t, fn, pc) == In(t) /\ Top(t).fn = fn /\ Top(t).pc = pc

Frame(fn, ans) == [fn |-> fn, pc |-> "enter", ans |-> ans]
AtPc(frames, pc) == [frames EXCEPT ![Len(frames)].pc = pc]
Goto(t, pc) == stack' = [stack EXCEPT ![t] = AtPc(@, pc)]
\* the frame calls fn, and will go on at pc
Call(t, pc, fn, ans) == stack' = [stack EXCEPT ![t] = Append(AtPc(@, pc), Frame(fn, ans))]

CanLock(t) == lock \in {t, Nobody}

-----------------------------------------------------------------------------
(* pjsip_regc_destroy, pjsip_regc_register, and what happens when a function of  *)
(* sip_reg.c returns to its caller                                               *)

pjsip_regc_destroy(t) ==
    /\ CanLock(t)
    /\ IF has_tsx \/ busy_ctr # 0
       THEN delete_flag' = TRUE /\ UNCHANGED <<mem, timer>>
       ELSE mem' = "freed" /\ timer' = None /\ UNCHANGED delete_flag
    /\ UNCHANGED <<has_tsx, busy_ctr, op, expires_hdr, expires, lock, tsx, told, granted>>

\* pjsip_regc_register succeeds: it disarms the timer (when it fails, before that, nothing changes)
pjsip_regc_register(t) == CanLock(t) /\ timer' = None

\* where the caller of pjsip_regc_send goes on, given the status it returned
AfterSend(fn, ok) ==
    CASE fn = "refresh" -> IF ok THEN "dec" ELSE "tell"
      [] fn = "tsxcb"   -> IF ok \/ delete_flag THEN "unlock" ELSE "release"

\* mutant: gbRegister destroys the regc whether or not it was sent
ReturnDestroys(t, ok) ==
    LET below == Front(stack[t]) IN
    /\ stack' = [stack EXCEPT ![t] =
           IF below = <<>> \/ Top(t).fn # "send" THEN below
           ELSE AtPc(below, AfterSend(Last(below).fn, ok))]
    /\ gb' = IF t = "timer" /\ below = <<>> THEN "destroy" ELSE gb

\* the innermost function of t returns ok to the one below it, or to gbRegister
Return(t, ok) ==
    LET below == Front(stack[t]) IN
    /\ stack' = [stack EXCEPT ![t] =
           IF below = <<>> \/ Top(t).fn # "send" THEN below
           ELSE AtPc(below, AfterSend(Last(below).fn, ok))]
    /\ gb' = IF t = "timer" /\ below = <<>>
             THEN IF ok THEN "ok" ELSE "destroy"
             ELSE gb

\* mutant: a busy counter that is not given back
LeaveKeepsBusy(t, ok) == Return(t, ok) /\ UNCHANGED <<mem, busy_ctr, fields, timers, lock, tsx, told>>

\* busy_ctr is given back; the last one to leave a destroyed regc calls
\* pjsip_regc_destroy again, which frees it unless a transaction is pending
Leave(t, ok) ==
    /\ busy_ctr' = busy_ctr - 1
    /\ busy_ctr = 1 /\ delete_flag => CanLock(t)
    /\ IF busy_ctr = 1 /\ delete_flag /\ ~has_tsx
       THEN mem' = "freed" /\ timer' = None
       ELSE UNCHANGED <<mem, timer>>
    /\ Return(t, ok)
    /\ UNCHANGED <<fields, granted, lock, tsx, told>>

-----------------------------------------------------------------------------
(* gbRegister, on the timer thread *)

regc_create ==
    /\ gb = "create"
    /\ \/ gb' = "init" /\ mem' = "live"
       \/ gb' = "failed" /\ UNCHANGED mem
    /\ UNCHANGED <<busy_ctr, fields, timers, lock, stack, tsx, told>>

\* set_expires; a URI that cannot be parsed makes it fail
regc_init ==
    /\ gb = "init"
    /\ \/ gb' = "register" /\ expires_hdr' \in Configured
       \/ gb' = "destroy" /\ UNCHANGED expires_hdr
    /\ UNCHANGED <<mem, has_tsx, busy_ctr, delete_flag, op, expires, timers, lock, stack, tsx, told>>

regc_register ==
    /\ gb = "register"
    /\ \/ /\ gb' = "send" /\ pjsip_regc_register("timer")
          /\ stack' = [stack EXCEPT !["timer"] = <<Frame("send", NoAnswer)>>]
       \/ gb' = "destroy" /\ UNCHANGED <<timer, stack>>
    /\ UNCHANGED <<mem, busy_ctr, fields, granted, lock, tsx, told>>

\* a call failed: pjsip_regc_destroy, return -1
DestroyOnError ==
    /\ gb = "destroy" /\ gb' = "failed"
    /\ pjsip_regc_destroy("timer")
    /\ UNCHANGED stack

-----------------------------------------------------------------------------
(* pjsip_regc_send, on either thread *)

SendEnter(t) ==
    /\ At(t, "send", "enter")
    /\ busy_ctr' = busy_ctr + 1 /\ Goto(t, "check")
    /\ UNCHANGED <<app, fields, timers, lock, tsx, told>>

\* under the lock; EBUSY when a transaction is pending
SendStart(t) ==
    /\ At(t, "send", "check") /\ CanLock(t)
    /\ IF has_tsx
       THEN busy_ctr' = busy_ctr - 1 /\ Return(t, FALSE) /\ UNCHANGED <<has_tsx, op>>
       ELSE /\ has_tsx' = TRUE
            /\ op' = IF expires_hdr = 0 THEN "unregistering" ELSE "registering"
            /\ Goto(t, "request") /\ UNCHANGED <<gb, busy_ctr>>
    /\ UNCHANGED <<mem, delete_flag, expires_hdr, expires, timers, lock, tsx, told>>

\* pjsip_endpt_send_request, without the lock of this frame: the transaction is
\* under way; or it failed; or it failed after it had called the callback
SendRequest(t) ==
    /\ At(t, "send", "request")
    /\ \/ Goto(t, "sent") /\ tsx' = tsx + 1
       \/ Goto(t, "failed") /\ UNCHANGED tsx
       \/ Call(t, "failed", "tsxcb", Local(503)) /\ UNCHANGED tsx
    /\ UNCHANGED <<app, busy_ctr, fields, timers, lock, told>>

\* mutant: a failed send leaves has_tsx set
SendFailedKeepsFlag(t) ==
    /\ At(t, "send", "failed")
    /\ Goto(t, "unsent")
    /\ UNCHANGED <<app, busy_ctr, fields, timers, lock, tsx, told>>

\* has_tsx is reset without the lock
SendFailed(t) ==
    /\ At(t, "send", "failed")
    /\ has_tsx' = FALSE /\ Goto(t, "unsent")
    /\ UNCHANGED <<app, busy_ctr, delete_flag, op, expires_hdr, expires, timers, lock, tsx, told>>

\* mutant: the status of the send is lost
SendLeaveOk(t) ==
    /\ \E pc \in {"sent", "unsent"} : At(t, "send", pc) /\ CanLock(t) /\ Leave(t, TRUE)

\* the lock is taken once more, for the transport, before the function returns
SendLeave(t) ==
    /\ \E pc \in {"sent", "unsent"} : At(t, "send", pc) /\ CanLock(t) /\ Leave(t, pc = "sent")

-----------------------------------------------------------------------------
(* regc_tsx_callback *)

\* the transaction ends: with an answer, or without one (408 is the timeout, 503
\* a transport that broke)
TsxEnds(ans) ==
    /\ ~In("event") /\ tsx > 0
    /\ tsx' = tsx - 1
    /\ stack' = [stack EXCEPT !["event"] = <<Frame("tsxcb", ans)>>]
    /\ UNCHANGED <<app, busy_ctr, fields, timers, lock, told>>

TsxEnter(t) ==
    /\ At(t, "tsxcb", "enter")
    /\ busy_ctr' = busy_ctr + 1 /\ Goto(t, "lock")
    /\ UNCHANGED <<app, fields, timers, lock, tsx, told>>

\* pjsip_regc_set_expires: a value equal to the one granted last removes the header
set_expires(v) == IF v # expires THEN v ELSE None

calculate_response_expiration(ans) ==
    CASE op # "registering" -> 0
      [] op = "registering" /\ ans.contact # None -> ans.contact
      [] OTHER -> IF ans.expires # None THEN ans.expires
                  ELSE IF expires_hdr # None THEN expires_hdr ELSE Default

\* mutant: the refresh is due when the registration ends
DelayUntilEnd(expiration) ==
    IF expires # None /\ expiration > expires THEN expires ELSE expiration

Max2(a, b) == IF a < b THEN b ELSE a

\* the delay schedule_registration computes
Delay(expiration) ==
    LET d == expiration - DelayBefore
        capped == IF expires # None /\ d > expires THEN expires ELSE d
    IN  Max2(capped, DelayBefore)

\* mutant: the refresh timer is armed by the first registration only
ScheduleOnce(expiration) ==
    IF expiration > 0 /\ expires = None
    THEN timer' = Delay(expiration) /\ granted' = expiration
    ELSE UNCHANGED timers

schedule_registration(expiration) ==
    IF expiration > 0
    THEN timer' = Delay(expiration) /\ granted' = expiration
    ELSE UNCHANGED timers

Unauthorized(ans) == ans.code \in {401, 407}

\* the interval to ask for after a 423, None if it must not be tried again
MinExp(ans) == IF ans.min # None THEN ans.min
               ELSE IF expires_hdr = None \/ expires_hdr # Guess THEN Guess ELSE None
TooBrief(ans) ==
    /\ ans.code = 423 /\ op = "registering" /\ ~delete_flag
    /\ MinExp(ans) # None
    /\ expires_hdr = None \/ expires_hdr < MinExp(ans)

\* under the lock: a challenge that cannot be met, or a regc that was destroyed
TsxChallenge(t, ans) ==
    /\ Unauthorized(ans) \/ delete_flag
    /\ op' = "idle" /\ Goto(t, IF delete_flag THEN "dec" ELSE "tell")
    /\ UNCHANGED <<lock, expires_hdr, expires, timers>>

\* ... a 423 that is tried again; the lock is kept
TsxTooBrief(t, ans) ==
    /\ TooBrief(ans)
    /\ op' = "idle" /\ expires_hdr' = set_expires(MinExp(ans))
    /\ lock' = t /\ Goto(t, "reregister")
    /\ UNCHANGED <<expires, timers>>

\* mutant: only a registration is reported
TsxOutcomeSilent(t, ans) ==
    /\ ~Unauthorized(ans) /\ ~delete_flag /\ ~TooBrief(ans)
    /\ expires' = None /\ op' = "idle" /\ Goto(t, "dec")
    /\ UNCHANGED <<lock, expires_hdr, timers>>

\* ... anything else: an interval is granted, or the attempt is over
TsxOutcome(t, ans) ==
    /\ ~Unauthorized(ans) /\ ~delete_flag /\ ~TooBrief(ans)
    /\ IF ans.code \div 100 = 2
       THEN LET e == calculate_response_expiration(ans)
            IN  schedule_registration(e) /\ expires' = e
       ELSE expires' = None /\ UNCHANGED timers
    /\ op' = "idle" /\ Goto(t, "tell")
    /\ UNCHANGED <<lock, expires_hdr>>

TsxLocked(t) ==
    /\ At(t, "tsxcb", "lock") /\ CanLock(t)
    /\ has_tsx' = FALSE
    /\ LET ans == Top(t).ans
       IN  TsxChallenge(t, ans) \/ TsxTooBrief(t, ans) \/ TsxOutcome(t, ans)
    /\ UNCHANGED <<app, busy_ctr, delete_flag, tsx, told>>

\* pjsip_regc_register and pjsip_regc_send once more; when they fail the lock is released
TsxReregister(t) ==
    /\ At(t, "tsxcb", "reregister")
    /\ \/ pjsip_regc_register(t) /\ Call(t, "sending", "send", NoAnswer)
       \/ Goto(t, IF delete_flag THEN "unlock" ELSE "release") /\ UNCHANGED timer
    /\ UNCHANGED <<app, busy_ctr, fields, granted, lock, tsx, told>>

\* the lock is released, and for good or to call the callback
TsxUnlock(t) ==
    /\ \E pc \in {"unlock", "release"} :
          At(t, "tsxcb", pc) /\ Goto(t, IF pc = "unlock" THEN "dec" ELSE "tell")
    /\ lock' = Nobody
    /\ UNCHANGED <<app, busy_ctr, fields, timers, tsx, told>>

\* call_callback, without the lock: client_cb; the lock is taken again, and released
TsxTell(t) ==
    /\ At(t, "tsxcb", "tell")
    /\ told' = IF delete_flag THEN told
               ELSE [code |-> Top(t).ans.code,
                     expiration |-> IF Top(t).ans.code \div 100 = 2 THEN expires ELSE None]
    /\ Goto(t, "relock")
    /\ UNCHANGED <<app, busy_ctr, fields, timers, lock, tsx>>

TsxLeave(t) ==
    /\ \/ At(t, "tsxcb", "dec")
       \/ At(t, "tsxcb", "relock") /\ CanLock(t)
    /\ Leave(t, TRUE)

-----------------------------------------------------------------------------
(* regc_refresh_timer_cb, on the event thread *)

TimerFires ==
    /\ ~In("event") /\ timer # None
    /\ timer' = None
    /\ stack' = [stack EXCEPT !["event"] = <<Frame("refresh", NoAnswer)>>]
    /\ UNCHANGED <<app, busy_ctr, fields, granted, lock, tsx, told>>

RefreshEnter ==
    /\ At("event", "refresh", "enter")
    /\ busy_ctr' = busy_ctr + 1 /\ Goto("event", "register")
    /\ UNCHANGED <<app, fields, timers, lock, tsx, told>>

RefreshRegister ==
    /\ At("event", "refresh", "register")
    /\ \/ pjsip_regc_register("event") /\ Call("event", "sending", "send", NoAnswer)
       \/ Goto("event", "tell") /\ UNCHANGED timer
    /\ UNCHANGED <<app, busy_ctr, fields, granted, lock, tsx, told>>

\* status is not PJ_SUCCESS: call_callback with 400
RefreshTell ==
    /\ At("event", "refresh", "tell")
    /\ told' = IF delete_flag THEN told ELSE [code |-> 400, expiration |-> None]
    /\ Goto("event", "dec")
    /\ UNCHANGED <<app, busy_ctr, fields, timers, lock, tsx>>

RefreshLeave == At("event", "refresh", "dec") /\ Leave("event", TRUE)

-----------------------------------------------------------------------------
GbRegister == regc_create \/ regc_init \/ regc_register \/ DestroyOnError

Library(t) ==
    \/ SendEnter(t) \/ SendStart(t) \/ SendRequest(t) \/ SendFailed(t)
    \/ SendLeave(t)
    \/ TsxEnter(t) \/ TsxLocked(t) \/ TsxReregister(t) \/ TsxUnlock(t) \/ TsxTell(t)
    \/ TsxLeave(t)

RefreshTimer == RefreshEnter \/ RefreshRegister \/ RefreshTell \/ RefreshLeave

TsxEndsSomehow == \E ans \in Answers \cup {Local(408), Local(503)} : TsxEnds(ans)

Next == GbRegister \/ TimerFires \/ RefreshTimer \/ TsxEndsSomehow
        \/ \E t \in Threads : Library(t)

Spec == Init /\ [][Next]_vars

(***************************************************************************)
(* Both threads run; a transaction ends (its own timeout sees to that) and *)
(* the refresh timer fires.  Nothing is assumed of the outcomes.           *)
(***************************************************************************)
FairSpec ==
    /\ Spec
    /\ WF_vars(GbRegister)
    /\ \A t \in Threads : WF_vars(Library(t))
    /\ WF_vars(TimerFires \/ RefreshTimer \/ TsxEndsSomehow)

-----------------------------------------------------------------------------
(* Properties *)

Statements == {"enter", "check", "request", "failed", "sent", "unsent", "lock", "reregister",
               "sending", "unlock", "release", "tell", "relock", "register", "dec"}
FrameType == [fn : {"send", "tsxcb", "refresh"},
              pc : Statements,
              ans : Answers \cup {NoAnswer, Local(408), Local(503)}]

TypeOK ==
    /\ gb \in {"create", "init", "register", "send", "destroy", "ok", "failed"}
    /\ mem \in {"none", "live", "freed"}
    /\ has_tsx \in BOOLEAN /\ busy_ctr \in Nat /\ delete_flag \in BOOLEAN
    /\ op \in {"idle", "registering", "unregistering"}
    /\ {expires_hdr, expires, timer, granted} \subseteq Nat \cup {None}
    /\ lock \in Threads \cup {Nobody}
    /\ stack \in [Threads -> Seq(FrameType)]
    /\ tsx \in Nat
    /\ told \in [code : Nat, expiration : Nat \cup {None}]

Frames == UNION {{<<t, i>> : i \in DOMAIN stack[t]} : t \in Threads}
FrameAt(f) == stack[f[1]][f[2]]

\* busy_ctr counts the functions of sip_reg.c that are between their first and
\* their last statement: it is what pjsip_regc_destroy relies on.
BusyBalanced == busy_ctr = Cardinality({f \in Frames : FrameAt(f).pc # "enter"})

\* A regc that was freed is in nobody's hands: no function is still in it, no
\* timer will fire into it, no transaction will call back.
NoUseAfterFree == mem # "live" => Frames = {} /\ timer = None /\ tsx = 0

\* has_tsx, which a failed pjsip_regc_send resets without the lock, is set
\* exactly while a callback is to come or a send is being decided.  Hence the
\* assertion of regc_tsx_callback holds, EBUSY is never returned, and the
\* REGISTERs of one regc never overlap.
Undecided == {f \in Frames : \/ FrameAt(f).fn = "tsxcb" /\ FrameAt(f).pc \in {"enter", "lock"}
                             \/ FrameAt(f).fn = "send" /\ FrameAt(f).pc = "request"}
Unreported == {f \in Frames : /\ FrameAt(f).fn = "send" /\ FrameAt(f).pc = "failed"
                              /\ f[2] = Len(stack[f[1]])}
OneTransaction ==
    /\ tsx + Cardinality(Undecided) <= 1
    /\ has_tsx => tsx + Cardinality(Undecided) + Cardinality(Unreported) = 1
    /\ tsx + Cardinality(Undecided) = 1 => has_tsx

\* gbRegister destroys the regc of a failed attempt once, and it is free then:
\* pjsip_regc_destroy never finds it busy, so nothing is left for later.
FailedAttemptFreed == gb = "failed" => mem \in {"none", "freed"}

\* The memory of a regc: freed after a failed attempt, and never used once freed.
Sound == TypeOK /\ NoUseAfterFree /\ FailedAttemptFreed

\* A regc that has nothing more to do (no transaction, no timer, no thread in
\* it) did not fall silent unnoticed: client_cb was called, and the last thing it
\* was told is a failure, or a registration of 0 seconds.
Quiet == gb = "ok" /\ Frames = {} /\ tsx = 0 /\ timer = None
SilentOnlyIfTold == Quiet => told.code # 0 /\ (told.code \div 100 # 2 \/ told.expiration = 0)

\* A refresh is due before the registration it refreshes ends, for every interval
\* longer than DELAY_BEFORE_REFRESH, whatever was granted before.
RefreshInTime == timer # None /\ granted > DelayBefore => timer < granted

\* Every REGISTER that went out is followed by a call of client_cb, however often
\* a 423 makes the client ask for more: each repetition asks for a longer interval
\* than the one before, and the comparison at sip_reg.c:1269 ends them.  The one
\* exception is a registrar that for ever refuses the very interval it granted
\* last: set_expires then drops the header, and there is nothing to compare.
Telling == \E f \in Frames : FrameAt(f).pc = "tell"
HeaderDropped == expires_hdr = None /\ \E t \in Threads : At(t, "tsxcb", "reregister")
EveryRegisterTold == (tsx > 0 ~> Telling) \/ []<>HeaderDropped

\* What SubService takes for granted of a regc.
Bottom == Head(stack["event"])
Deciding == In("event") /\ Bottom.fn = "tsxcb" /\ Bottom.pc \notin {"relock", "dec", "unlock"}
Refreshing == In("event") /\ Bottom.fn = "refresh" /\ Bottom.pc # "dec"
Accepted == gb = "ok" \/ At("timer", "send", "sent")
phase == CASE mem # "live"                       -> "none"
           [] mem = "live" /\ (tsx > 0 \/ Deciding) -> "sent"
           [] mem = "live" /\ tsx = 0 /\ ~Deciding /\ (timer # None \/ Refreshing) -> "active"
           [] OTHER -> IF Accepted THEN "idle" ELSE "fresh"
Contract == INSTANCE RegcContract
ImplementsContract == Contract!Spec
=============================================================================
