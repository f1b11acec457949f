---------------------------- MODULE Registration ----------------------------
(***************************************************************************)
(* One registration end to end: the REGISTERs of one registration client   *)
(* of SipSubService, each in a client transaction of its own, a network    *)
(* that loses, repeats and reorders (UDP) or does neither (TCP), and       *)
(* SipSupService, which answers every copy it gets on a thread of its own  *)
(* and forgets its list when it is restarted.                              *)
(*                                                                         *)
(* The client is the one of RegcContract (RegClient implements it), and    *)
(* one at a time: the next REGISTER follows when the transaction of the    *)
(* last one is gone.  Requests are told apart by the branch of their Via;  *)
(* two branches are enough, as long as the network delivers nothing that   *)
(* is older than the transaction before the current one.                   *)
(***************************************************************************)
EXTENDS ClientTransaction

Branches == {0, 1}

VARIABLES
    regc,         \* phase of the registration client (RegcContract)
    registered,   \* flag of the platform in SipSubService's list
    result,       \* what pjsip_endpt_send_request returned, "none" while it runs
    branch,       \* branch of the current transaction
    requests,     \* branches of which a copy can be delivered to SipSupService
    responses,    \* answers that can be delivered to SipSubService: [branch, code]
    threads,      \* threads of SipSupService: [branch, pc]
    listed,       \* whether SipSupService knows the sender
    expires,      \* whether its entry holds the interval that was asked for
    recorded      \* ghost: whether the REGISTER of the current transaction was recorded

sub == <<regc, registered, result, branch>>
net == <<requests, responses>>
sup == <<threads, listed, expires>>
vars == <<tsxVars, sub, net, sup, recorded>>

Init ==
    /\ TsxInit
    /\ regc = "none" /\ registered = FALSE /\ result = "none" /\ branch = 0
    /\ requests = {} /\ responses = {}
    /\ threads = {} /\ listed \in BOOLEAN /\ expires = FALSE
    /\ recorded = FALSE

-----------------------------------------------------------------------------
(* SipSubService *)

\* what a step of the transaction means for the client: regc_tsx_callback and
\* client_cb, when it told them; and a copy for the network, when it sent one
Told == tsx'.calls > tsx.calls
Effects ==
    /\ regc' = IF Told THEN IF tsx'.told = 200 THEN "active" ELSE "idle" ELSE regc
    /\ registered' = (registered \/ (Told /\ tsx'.told = 200))
    /\ requests' = IF tsx'.sent > tsx.sent THEN requests \cup {branch} ELSE requests

\* the transaction is gone, or left behind: in TERMINATED by a late transport error,
\* in NULL by a send that was refused
LeftBehind == tsx.lost \/ (tsx.state = "NULL" /\ Unlocked)
Gone == tsx.state \in {"none", "DESTROYED"} \/ LeftBehind

\* pjsip_regc_send on thread t; a rejected request ends the attempt
Register(t, out) ==
    LET b == 1 - branch IN
    /\ Gone /\ tsx.pending = "none"
    /\ SendRequest(t, out)
    /\ branch' = b
    /\ result' = IF Rejected(tsx') THEN "rejected" ELSE "none"
    /\ regc' = IF ~Rejected(tsx') THEN "sent" ELSE IF t = "timer" THEN "none" ELSE "idle"
    /\ requests' = (requests \ {b}) \cup IF tsx'.sent > 0 THEN {b} ELSE {}
    /\ responses' = {r \in responses : r.branch # b /\ r.code # 100}
    /\ threads' = {th \in threads : th.branch # b}
    /\ recorded' = FALSE
    /\ UNCHANGED <<registered, listed, expires>>

\* RegisterProc, for a platform that is not registered
Attempt == /\ regc \in {"none", "idle"} /\ ~registered
           /\ \E out \in Outcomes \cup {"refused", "nomem"} : Register("timer", out)

\* regc_refresh_timer_cb
Refresh == /\ regc = "active" /\ EventIdle
           /\ \E out \in Outcomes \cup {"refused", "nomem"} : Register("event", out)

\* the transaction is under way
Accepted ==
    /\ StartTimers
    /\ result' = "accepted" /\ Effects
    /\ UNCHANGED <<branch, responses, sup, recorded>>

\* a step of the transaction: a timer, a send that is finished, a lost connection
Transaction ==
    /\ TsxTimers \/ TransportEnds \/ Disconnected
    /\ Effects
    /\ UNCHANGED <<result, branch, responses, sup, recorded>>

\* mutant: the response is given to the transaction there is
ResponseAnyBranch(r) ==
    /\ r \in responses /\ pjsip_tsx_recv_msg(r.code) /\ Effects
    /\ responses' = IF reliable THEN responses \ {r} ELSE responses
    /\ UNCHANGED <<result, branch, sup, recorded>>

\* mod_tsx_layer_on_rx_response: the transaction is found by its branch
Response(r) ==
    /\ r \in responses /\ r.branch = branch
    /\ pjsip_tsx_recv_msg(r.code) /\ Effects
    /\ responses' = IF reliable THEN responses \ {r} ELSE responses
    /\ UNCHANGED <<result, branch, sup, recorded>>

-----------------------------------------------------------------------------
(* SipSupService *)

\* a copy of a REGISTER arrives and gets a thread (two threads with copies of the
\* same REGISTER do what one after the other does: the copy waits)
Receive(b) ==
    /\ b \in requests /\ \A th \in threads : th.branch # b
    /\ requests' = IF reliable THEN requests \ {b} ELSE requests
    /\ threads' = threads \cup {[branch |-> b, pc |-> "lookup"]}
    /\ UNCHANGED <<tsxVars, sub, responses, listed, expires, recorded>>

\* a platform other than SipSupService may answer with 100 first
Trying(th) ==
    /\ th \in threads /\ th.pc = "lookup"
    /\ responses' = responses \cup {[branch |-> th.branch, code |-> 100]}
    /\ UNCHANGED <<tsxVars, sub, requests, sup, recorded>>

\* mutant: the refresh of a registered sender is not recorded
RecordOnce(th) ==
    /\ th \in threads /\ th.pc = "lookup"
    /\ threads' = (threads \ {th}) \cup {[th EXCEPT !.pc = "answer"]}
    /\ expires' = (expires \/ (listed /\ ~registered))
    /\ recorded' = (recorded \/ (listed /\ th.branch = branch))
    /\ UNCHANGED <<tsxVars, sub, net, listed>>

\* checkIsExist and setExpires of dealWithRegister
Record(th) ==
    /\ th \in threads /\ th.pc = "lookup"
    /\ threads' = (threads \ {th}) \cup {[th EXCEPT !.pc = "answer"]}
    /\ expires' = (expires \/ listed)
    /\ recorded' = (recorded \/ (listed /\ th.branch = branch))
    /\ UNCHANGED <<tsxVars, sub, net, listed>>

SIP_FORBIDDEN == 404

\* the answer is sent, or a call of PJSIP failed and there is none
Answer(th) ==
    /\ th \in threads /\ th.pc = "answer"
    /\ threads' = threads \ {th}
    /\ \E answer \in {{}, {[branch |-> th.branch, code |-> IF listed THEN 200 ELSE SIP_FORBIDDEN]}} :
          responses' = responses \cup answer
    /\ UNCHANGED <<tsxVars, sub, requests, listed, expires, recorded>>

\* the process is restarted: its threads and what it recorded are lost; GlobalCtl::init
\* makes the list anew from the configuration, every entry with 0
Restart ==
    /\ threads' = {} /\ expires' = FALSE
    /\ UNCHANGED <<tsxVars, sub, net, listed, recorded>>

-----------------------------------------------------------------------------
SubService == Attempt \/ Refresh \/ Accepted \/ Transaction \/ \E r \in responses : Response(r)
SupService == \/ \E b \in Branches : Receive(b)
              \/ \E th \in threads : Trying(th) \/ Record(th) \/ Answer(th)
              \/ Restart

Next == SubService \/ SupService

Spec == Init /\ [][Next]_vars

(***************************************************************************)
(* The threads of SipSubService run, its timers fire, and the transport    *)
(* finishes what it was given.  Nothing is assumed of the network, nor of  *)
(* SipSupService.                                                          *)
(***************************************************************************)
FairSpec ==
    /\ Spec
    /\ WF_vars(Accepted) /\ WF_vars(Refresh)
    /\ WF_vars(TsxTimers /\ Transaction)
    /\ WF_vars(TransportEnds /\ Transaction)

-----------------------------------------------------------------------------
(* Properties *)

TypeOK ==
    /\ tsx.state \in {States[i] : i \in DOMAIN States}
    /\ tsx.flags \subseteq {"transport", "resched", "send", "resolved"}
    /\ tsx.timeout.id \in {"inactive", "TIMEOUT", "TRANSPORT_ERR"} /\ tsx.timeout.left \in 0 .. TimerF
    /\ tsx.retransmit \in 0 .. T2 \cup {None}
    /\ tsx.pending \in {"none", "first", "again"} /\ tsx.refs \in Nat
    /\ sender \in {"nobody", "timer", "event"} /\ errev \in BOOLEAN
    /\ regc \in {"none", "sent", "active", "idle"} /\ result \in {"none", "accepted", "rejected"}
    /\ threads \subseteq [branch : Branches, pc : {"lookup", "answer"}]
    /\ responses \subseteq [branch : Branches, code : {100, 200, SIP_FORBIDDEN}]

\* No assertion of sip_transaction.c fails: states only go up, a timer that runs is
\* not scheduled again, nothing is rescheduled while a send is under way or after
\* a final answer, no send is tried over a transport that is gone.
AssertionsHold == tsx.asserts

\* The transaction's memory is there for everyone who will still use it: a timer in
\* the heap, a send that is under way (whose completion comes long after DESTROYED
\* if it takes its time), the listener of the transport, the callback of a posted
\* error, the thread in pjsip_tsx_send_msg.
InUse == \/ tsx.timeout # NoTimer \/ tsx.retransmit # None
         \/ tsx.pending # "none" \/ tsx.transport
         \/ errev \/ sender # "nobody"
NoUseAfterFree == Freed(tsx) => ~InUse

\* ... and it is freed when the last of them is done with a transaction that was destroyed.
NoLeak == tsx.state = "DESTROYED" /\ ~InUse => Freed(tsx)

\* A transaction that is destroyed waits for no send that would have to destroy it: the
\* "destroy later" branches of tsx_shutdown and send_msg_callback are never taken.
NoDestroyLater == tsx.state = "DESTROYED" => "transport" \notin tsx.flags /\ ~tsx.attached

\* The handlers of the transaction work as they are meant to, in every order of
\* answers, timers, sends that are finished late, and disconnects.
Sound == TypeOK /\ AssertionsHold /\ NoUseAfterFree /\ NoLeak /\ NoDestroyLater

\* The times at which RFC 3261 lets a request be sent: T1 after the first, then
\* doubled up to T2, until timer F ends it.  TCP repeats nothing.
Interval(n) == LET doubled == 2 ^ n * T1 IN IF doubled \in 0 .. T2 THEN doubled ELSE T2
SendTime[n \in 0 .. TimerF] == IF n = 0 THEN 0 ELSE SendTime[n - 1] + Interval(n - 1)
SendsAllowed == IF reliable THEN 1 ELSE Cardinality({n \in 0 .. TimerF : SendTime[n] <= TimerF})
SendsBounded == tsx.sent <= SendsAllowed

\* The callback of the client reports what SipSupService did with this very
\* REGISTER: a 200 only when it was recorded, a SIP_FORBIDDEN only when the sender is not
\* listed; whatever answers to the REGISTER before are still on their way.
AnswerIsForThis == /\ tsx.told = 200 => recorded
                   /\ tsx.told = SIP_FORBIDDEN => ~listed

\* pjsip_endpt_send_request as RegClient takes it: an accepted request is reported
\* to the callback once, in the end, and a rejected one never later.
Contract == INSTANCE RequestContract WITH calls <- tsx.calls
ImplementsRequest == Contract!Spec

\* A transaction that runs is always driven on: until it is destroyed its timeout
\* timer is armed, with timer F, with timer K or with 0, or the event thread is
\* about to end it.  The exception is a transport error that comes when it is
\* already TERMINATED: it takes the place of the timer, and is then ignored.
Running == tsx.state \in {"CALLING", "PROCEEDING", "COMPLETED", "TERMINATED"}
AlwaysDriven == Running => tsx.timeout # NoTimer \/ errev \/ tsx.lost

\* After the last restart of SipSupService its list is filled again by a refresh,
\* unless that refresh fails: then the client has been told.
ListRefilled == <>[][~Restart]_vars => ((registered /\ ~expires) ~> (expires \/ regc = "idle"))
=============================================================================
