------------------------- MODULE ClientTransaction --------------------------
(***************************************************************************)
(* PJSIP's client transaction for a request that is not an INVITE          *)
(* (sip_transaction.c), created by pjsip_endpt_send_request with           *)
(* mod_stateful_util as its user, up to the callback of the registration   *)
(* client.                                                                 *)
(*                                                                         *)
(* A handler runs under grp_lock and is one step: tsx is the transaction,  *)
(* the functions of the source map one record to the next.  Two things     *)
(* happen without that lock: pjsip_tsx_send_msg holds it from the first    *)
(* send to CALLING (sender), while the event thread may post a transport   *)
(* error under the timer lock alone; and tsx_timer_callback reads the      *)
(* state before it takes the lock (errev).                                 *)
(*                                                                         *)
(* The memory goes when the last reference to grp_lock is given back       *)
(* (refs): the transaction's own until it is destroyed, one for each timer *)
(* in the heap or in its callback, one for the send that is under way.     *)
(* The one a handler has through the lock, for its own duration, is left   *)
(* out: it could only keep the memory longer.                              *)
(*                                                                         *)
(* The destination is a numeric address, hence exactly one: a send that    *)
(* failed is not tried elsewhere.  Time passes in steps, timers fire on    *)
(* time; what is due at the same time fires in any order.                  *)
(***************************************************************************)
EXTENDS Integers, Sequences, FiniteSets

CONSTANTS T1, T2, T4,   \* timers of RFC 3261: 500 ms, 4 s, 5 s
          TimerF        \* transaction timeout: 64 * T1

ASSUME TimersAssumption ==
    {T1, T2, T4, TimerF} \subseteq Nat \ {0} /\ T1 <= T2 /\ T4 <= TimerF

None == -1
NoTimer == [id |-> "inactive", left |-> 0]

VARIABLES
    reliable,   \* whether the transport is TCP
    tsx,        \* the transaction
    sender,     \* the thread inside pjsip_tsx_send_msg, which holds grp_lock, or "nobody"
    errev       \* the event thread saw a posted transport error and waits for grp_lock

tsxVars == <<reliable, tsx, sender, errev>>

States == <<"none", "NULL", "CALLING", "PROCEEDING", "COMPLETED", "TERMINATED", "DESTROYED">>
Rank(s) == CHOOSE i \in DOMAIN States : States[i] = s

(***************************************************************************)
(* timeout and retransmit are the two timers with the time left; pending   *)
(* is the send the transport has not finished ("first": send_msg_callback  *)
(* will be called, "again": transport_callback); attached: pending_tx is   *)
(* set; armed: mod_data still holds the callback; refs: references to      *)
(* grp_lock; asserts: no assertion has failed.  sent, told and calls are   *)
(* ghosts: copies put on the wire, the code reported to the callback and   *)
(* how often; lost: a transport error came too late to be acted on.        *)
(***************************************************************************)
NewTsx == [state |-> "NULL", code |-> 0, flags |-> {}, transport |-> FALSE,
           timeout |-> NoTimer, retransmit |-> None, count |-> 0,
           pending |-> "none", attached |-> FALSE, armed |-> TRUE, refs |-> 1,
           sent |-> 0, told |-> 0, calls |-> 0, lost |-> FALSE, asserts |-> TRUE]
NoTsx == [NewTsx EXCEPT !.state = "none", !.armed = FALSE, !.refs = 0]

Assert(x, holds) == [x EXCEPT !.asserts = @ /\ holds]

\* pj_grp_lock_add_ref, pj_grp_lock_dec_ref: at 0 tsx_on_destroy releases the memory,
\* and nothing brings it back
AddRef(x) == [x EXCEPT !.refs = IF @ = 0 THEN 0 ELSE @ + 1]
DecRef(x) == [x EXCEPT !.refs = @ - 1]
Freed(x) == x.refs = 0

-----------------------------------------------------------------------------
(* Timers, state changes and the callback *)

\* pj_timer_heap_schedule asserts that the entry is not scheduled already
ScheduleTimeout(x, delay, id) ==
    AddRef([Assert(x, x.timeout = NoTimer) EXCEPT !.timeout = [id |-> id, left |-> delay]])
ScheduleRetransmit(x, delay) == AddRef([Assert(x, x.retransmit = None) EXCEPT !.retransmit = delay])
\* the entry is no longer in the heap
TimeoutOff(x) == [x EXCEPT !.timeout = NoTimer]
RetransmitOff(x) == [x EXCEPT !.retransmit = None]
CancelTimeout(x) == IF x.timeout = NoTimer THEN x ELSE DecRef(TimeoutOff(x))
CancelRetransmit(x) == IF x.retransmit = None THEN x ELSE DecRef(RetransmitOff(x))

\* mutant: the callback stays installed
mod_util_on_tsx_state_again(x) ==
    IF x.armed /\ x.code >= 200 THEN [x EXCEPT !.told = x.code, !.calls = @ + 1] ELSE x

mod_util_on_tsx_state(x) ==
    IF x.armed /\ x.code >= 200
    THEN [x EXCEPT !.armed = FALSE, !.told = x.code, !.calls = @ + 1]
    ELSE x

\* the transaction is released, its own reference given back: what it held has no
\* meaning any more
tsx_shutdown(x) ==
    DecRef([CancelRetransmit(CancelTimeout(x)) EXCEPT
               !.transport = FALSE, !.flags = @ \ {"resched", "send"},
               !.code = 0, !.count = 0, !.sent = 0])

\* mutant: nothing is scheduled to destroy the transaction
TerminatedForgotten(x) ==
    [CancelTimeout(x) EXCEPT !.attached = @ /\ "transport" \notin x.flags, !.flags = @ \ {"transport"}]

\* TERMINATED: detached from a send that is under way; a timer of 0 destroys it
Terminated(x) ==
    ScheduleTimeout([CancelTimeout(x) EXCEPT !.attached = @ /\ "transport" \notin x.flags,
                                             !.flags = @ \ {"transport"}], 0, "TIMEOUT")

tsx_set_state(x, s) ==
    LET y == mod_util_on_tsx_state([Assert(x, Rank(s) >= Rank(x.state)) EXCEPT !.state = s])
    IN  CASE s = "TERMINATED" -> Terminated(y)
          [] s = "DESTROYED"  -> tsx_shutdown(y)
          [] OTHER            -> y

Fail(x, code) == tsx_set_state([x EXCEPT !.code = code], "TERMINATED")

-----------------------------------------------------------------------------
(* Sending *)

\* mutant: the interval is not doubled
DelayConstant(x) == IF x.code >= 100 THEN T2 ELSE T1

\* doubled each time, up to T2
Delay(x) == LET doubled == 2 ^ x.count * T1
            IN  IF x.code >= 100 \/ doubled \notin T1 .. T2 THEN T2 ELSE doubled

tsx_resched_retransmission(x) ==
    ScheduleRetransmit(Assert(x, "transport" \notin x.flags /\ x.code < 200), Delay(x))

\* mutant: a send that is under way holds no reference
SendAgainUnheld(x, out) ==
    CASE out = "sent"    -> [x EXCEPT !.sent = @ + 1]
      [] out = "pending" -> [x EXCEPT !.pending = "again", !.flags = @ \cup {"transport"}]
      [] out = "error"   -> Fail([x EXCEPT !.transport = FALSE], 503)

\* over the transport the first send found
SendAgain(x, out) ==
    CASE out = "sent"    -> [x EXCEPT !.sent = @ + 1]
      [] out = "pending" -> AddRef([x EXCEPT !.pending = "again", !.flags = @ \cup {"transport"}])
      [] out = "error"   -> Fail([x EXCEPT !.transport = FALSE], 503)

\* the first send is finished
send_msg_callback(x, ok, out) ==
    LET y == [DecRef(x) EXCEPT !.pending = "none", !.attached = FALSE,
                               !.flags = (@ \ {"transport"}) \cup {"resolved"}]
        found == [y EXCEPT !.transport = TRUE, !.sent = @ + 1]
        again == IF "send" \in found.flags
                 THEN SendAgain([found EXCEPT !.flags = @ \ {"send"}], out) ELSE found
        resched == "resched" \in again.flags /\ "transport" \notin again.flags
        calm == [again EXCEPT !.flags = @ \ {"resched"}]
    IN  CASE ~x.attached       -> [DecRef(x) EXCEPT !.pending = "none"]
          [] x.attached /\ ok  -> IF ~resched THEN again
                                  ELSE IF reliable THEN calm ELSE tsx_resched_retransmission(calm)
          [] x.attached /\ ~ok -> IF y.state \in {"TERMINATED", "DESTROYED"} THEN [y EXCEPT !.code = 503]
                                  ELSE Fail(y, 503)

Outcomes == {"sent", "pending", "error"}

\* "refused": an error before anything was tried, without any callback
FirstSend(x, out) ==
    LET y == [AddRef(x) EXCEPT !.flags = @ \cup {"transport"}, !.attached = TRUE, !.pending = "first"]
    IN  CASE out = "sent"    -> send_msg_callback(y, TRUE, "sent")
          [] out = "error"   -> send_msg_callback(y, FALSE, "sent")
          [] out = "pending" -> y
          [] out = "refused" -> [DecRef(y) EXCEPT !.attached = FALSE, !.pending = "none"]

\* a transport that was resolved once and is gone fails an assertion
tsx_send_msg(x, out) ==
    CASE "transport" \in x.flags -> [x EXCEPT !.flags = @ \cup {"send"}]
      [] "transport" \notin x.flags /\ x.pending # "none" -> x
      [] "transport" \notin x.flags /\ x.pending = "none" ->
            IF x.transport THEN SendAgain(x, out)
            ELSE IF "resolved" \in x.flags THEN Fail(Assert(x, FALSE), 503)
            ELSE FirstSend(x, out)

tsx_retransmit(x, out) ==
    LET y == [x EXCEPT !.count = @ + 1]
    IN  IF x.retransmit # None THEN x
        ELSE tsx_send_msg(IF "transport" \in y.flags THEN [y EXCEPT !.flags = @ \cup {"resched"}]
                          ELSE tsx_resched_retransmission(y), out)

-----------------------------------------------------------------------------
(* The handlers of the states *)

\* COMPLETED: timer K absorbs what the network repeats; it is armed before a 2xx is
\* reported, after any other answer is
Completed(x) ==
    LET K(y) == ScheduleTimeout(CancelTimeout(y), IF reliable THEN 0 ELSE T4, "TIMEOUT")
    IN  IF x.code < 300 THEN tsx_set_state(CancelRetransmit(K(x)), "COMPLETED")
        ELSE K(tsx_set_state(CancelTimeout(CancelRetransmit(x)), "COMPLETED"))

tsx_on_state_proceeding_uac(x, code) ==
    LET y == [x EXCEPT !.code = code]
    IN  IF code < 200 THEN tsx_set_state(y, "PROCEEDING") ELSE Completed(y)

calling_rx(x, code) ==
    LET y == CancelRetransmit([x EXCEPT !.flags = @ \ {"resched"}])
        z == IF code >= 200 THEN CancelTimeout(y)
             ELSE IF reliable THEN y ELSE ScheduleRetransmit(y, T2)
    IN  tsx_on_state_proceeding_uac(z, code)

\* a response in any state; in TERMINATED it is not given to the transaction
on_rx(x, code) ==
    CASE x.state = "CALLING"    -> calling_rx(x, code)
      [] x.state = "PROCEEDING" -> tsx_on_state_proceeding_uac(x, code)
      [] OTHER                  -> x

on_timeout(x) ==
    CASE x.state = "CALLING"    -> Fail(CancelRetransmit([x EXCEPT !.flags = @ \ {"resched"}]), 408)
      [] x.state = "PROCEEDING" -> Fail(x, 408)
      [] x.state = "COMPLETED"  -> tsx_set_state(x, "TERMINATED")
      [] x.state = "TERMINATED" -> tsx_set_state(x, "DESTROYED")

on_retransmit(x, out) ==
    CASE x.state \in {"CALLING", "PROCEEDING"} -> tsx_retransmit(x, out)
      [] x.state = "TERMINATED"                -> tsx_set_state(x, "DESTROYED")
      [] OTHER                                 -> x

-----------------------------------------------------------------------------
(* The steps *)

Unlocked == sender = "nobody"
EventIdle == sender # "event" /\ ~errev     \* the event thread is free
Refused(x) == "transport" \in x.flags /\ x.pending = "none"
Rejected(x) == x.state \in {"none", "TERMINATED"} \/ Refused(x)

\* pjsip_endpt_send_request on thread t: the transaction is created, or not, and
\* sends its request; an error is returned, or grp_lock is kept
SendRequest(t, out) ==
    /\ Unlocked
    /\ tsx' = IF out = "nomem" THEN NoTsx ELSE tsx_send_msg(NewTsx, out)
    /\ sender' = IF Rejected(tsx') THEN "nobody" ELSE t
    /\ UNCHANGED <<reliable, errev>>

\* tsx_on_state_null goes on: timer F, timer E, CALLING
StartTimers ==
    /\ sender # "nobody" /\ sender' = "nobody"
    /\ LET x == ScheduleTimeout(CancelTimeout(tsx), TimerF, "TIMEOUT")
           y == CASE reliable -> x
                  [] ~reliable /\ "transport" \in x.flags -> [x EXCEPT !.flags = @ \cup {"resched"}]
                  [] ~reliable /\ "transport" \notin x.flags -> ScheduleRetransmit(x, T1)
       IN  tsx' = tsx_set_state(y, "CALLING")
    /\ UNCHANGED <<reliable, errev>>

\* send_msg_callback for a send that was pending
FirstSendEnds(ok, out) ==
    /\ Unlocked /\ EventIdle /\ tsx.pending = "first"
    /\ tsx' = send_msg_callback(tsx, ok, out)
    /\ UNCHANGED <<reliable, sender, errev>>

PostError(x) == ScheduleTimeout(CancelTimeout(x), 0, "TRANSPORT_ERR")

\* a later send is finished; its reference is given back last
transport_callback(ok) ==
    /\ Unlocked /\ EventIdle /\ tsx.pending = "again"
    /\ LET x == [tsx EXCEPT !.pending = "none", !.flags = @ \ {"transport"}]
       IN  tsx' = DecRef(IF ok THEN [x EXCEPT !.sent = @ + 1] ELSE PostError(x))
    /\ UNCHANGED <<reliable, sender, errev>>

\* tsx_tp_state_callback: the connection is lost; only the timer lock is taken
Disconnected ==
    /\ EventIdle /\ reliable /\ tsx.transport /\ tsx.timeout.id # "TRANSPORT_ERR"
    /\ tsx' = PostError(tsx)
    /\ UNCHANGED <<reliable, sender, errev>>

\* a timer has left the heap; the heap gives its reference back after the callback
TimeoutFires ==
    /\ Unlocked /\ EventIdle /\ tsx.timeout = [id |-> "TIMEOUT", left |-> 0]
    /\ tsx' = DecRef(on_timeout(TimeoutOff(tsx)))
    /\ UNCHANGED <<reliable, sender, errev>>

RetransmitFires(out) ==
    /\ Unlocked /\ EventIdle /\ tsx.retransmit = 0
    /\ tsx' = DecRef(on_retransmit(RetransmitOff(tsx), out))
    /\ UNCHANGED <<reliable, sender, errev>>

\* a posted error: the event thread waits for grp_lock; in TERMINATED nothing is
\* done, though the error took the place of the timer that was to destroy tsx
TransportErrFires ==
    /\ EventIdle /\ tsx.timeout = [id |-> "TRANSPORT_ERR", left |-> 0]
    /\ errev' = (tsx.state \notin {"TERMINATED", "DESTROYED"})
    /\ tsx' = IF errev' THEN TimeoutOff(tsx) ELSE DecRef([TimeoutOff(tsx) EXCEPT !.lost = TRUE])
    /\ UNCHANGED <<reliable, sender>>

\* ... and has it: TERMINATED, the callback after the lock is released, then the timer
TransportErrLocked ==
    /\ Unlocked /\ errev /\ errev' = FALSE
    /\ LET x == [tsx EXCEPT !.transport = FALSE, !.code = IF @ < 200 THEN 503 ELSE @]
           y == CancelTimeout([Assert(x, Rank(x.state) <= Rank("TERMINATED")) EXCEPT
                                 !.state = "TERMINATED", !.flags = @ \ {"transport"},
                                 !.attached = @ /\ "transport" \notin x.flags])
       IN  tsx' = DecRef(ScheduleTimeout(mod_util_on_tsx_state(y), 0, "TIMEOUT"))
    /\ UNCHANGED <<reliable, sender>>

pjsip_tsx_recv_msg(code) ==
    /\ Unlocked /\ EventIdle
    /\ tsx' = on_rx(tsx, code)
    /\ UNCHANGED <<reliable, sender, errev>>

\* time passes when nothing is due
Tick ==
    /\ Unlocked /\ EventIdle
    /\ tsx.retransmit # 0 /\ ~(tsx.timeout # NoTimer /\ tsx.timeout.left = 0)
    /\ tsx.retransmit # None \/ tsx.timeout # NoTimer
    /\ tsx' = [tsx EXCEPT !.retransmit = IF @ = None THEN None ELSE @ - 1,
                          !.timeout.left = IF tsx.timeout = NoTimer THEN 0 ELSE @ - 1]
    /\ UNCHANGED <<reliable, sender, errev>>

TsxTimers == \/ TimeoutFires \/ TransportErrFires \/ TransportErrLocked \/ Tick
             \/ \E out \in Outcomes : RetransmitFires(out)
TransportEnds == \/ \E ok \in BOOLEAN, out \in Outcomes : FirstSendEnds(ok, out)
                 \/ \E ok \in BOOLEAN : transport_callback(ok)

TsxInit == reliable \in BOOLEAN /\ tsx = NoTsx /\ sender = "nobody" /\ errev = FALSE
=============================================================================
