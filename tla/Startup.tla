------------------------------ MODULE Startup ------------------------------
(***************************************************************************)
(* How either service comes up: main reads the configuration (LocalConfig) *)
(* and GlobalCtl::init copies its nodes into the list of domains and calls *)
(* InitSip, whose last step starts the event thread (pollingEvent); main   *)
(* then starts the thread func and, in SipSubService, the registration     *)
(* timer, and sleeps.  From the moment it exists the event thread handles  *)
(* messages, while main goes on.  The thread pool, also created by init,   *)
(* has its own module.                                                     *)
(*                                                                         *)
(* Every PJSIP call and thread may fail.  No message is handled before     *)
(* pjsip_endpt_handle_events is called.  Nothing ever sets gStopPool:      *)
(* ~SipCore, the only place that would, is never called.                   *)
(***************************************************************************)
EXTENDS LocalConfig

\* the calls of InitSip, with those of init_transport_layer in their place
InitCalls == << "pj_init", "pjlib_util_init", "endpt_create", "tsx_layer", "ua",
                "udp", "tcp", "register_module", "create_pool", "thread_create" >>

VARIABLES
    role,       \* "sub" or "sup": the service
    main,       \* the statement of the main thread
    copied,     \* length of subDomainInfoList / supDomainInfoList
    done,       \* calls of InitSip that succeeded
    status,     \* its local variable: PJ_SUCCESS or not
    bret,       \* what InitSip returned, "none" before
    event,      \* the event thread: "none", "running" or "ended"
    timer,      \* the registration timer: "none", "running" or "ended"
    handled     \* how the first message was handled: the length of the list then

progress == <<role, main, copied, done, status, bret, event, timer, handled>>
vars == <<readVars, progress>>

NotYet == -1

Init ==
    /\ ReadInit
    /\ role \in {"sub", "sup"} /\ main = "readconf"
    /\ copied = 0 /\ done = 0 /\ status = "success" /\ bret = "none"
    /\ event = "none" /\ timer = "none" /\ handled = NotYet

Killed(thread) == IF thread = "running" THEN "ended" ELSE thread

\* main returns, and takes the other threads with it
Exit ==
    /\ main' = "exited"
    /\ event' = Killed(event) /\ timer' = Killed(timer)

-----------------------------------------------------------------------------
(* main and GlobalCtl::init *)

ReadConf ==
    /\ main = "readconf" /\ ReadNext
    /\ UNCHANGED progress

ReadConfReturns ==
    /\ main = "readconf" /\ ret = "ok"
    /\ main' = "copy"
    /\ UNCHANGED <<readVars, role, copied, done, status, bret, event, timer, handled>>

ReadConfFails ==
    /\ main = "readconf" /\ ret = "error"
    /\ Exit
    /\ UNCHANGED <<readVars, role, copied, done, status, bret, handled>>

CopyNode ==
    /\ main = "copy" /\ copied < Len(nodes)
    /\ copied' = copied + 1
    /\ UNCHANGED <<readVars, role, main, done, status, bret, event, timer, handled>>

\* mutant: InitSip is called before the list is complete
CallInitSipEarly ==
    /\ main = "copy"
    /\ main' = "initsip"
    /\ UNCHANGED <<readVars, role, copied, done, status, bret, event, timer, handled>>

CallInitSip ==
    /\ main = "copy" /\ copied = Len(nodes)
    /\ main' = "initsip"
    /\ UNCHANGED <<readVars, role, copied, done, status, bret, event, timer, handled>>

\* init does not look at what InitSip returned, and returns true
InitReturns ==
    /\ main = "initreturn"
    /\ main' = "func"
    /\ UNCHANGED <<readVars, role, copied, done, status, bret, event, timer, handled>>

CreateFunc ==
    /\ main = "func"
    /\ main' = IF role = "sub" THEN "starttimer" ELSE "sleep"
    /\ UNCHANGED <<readVars, role, copied, done, status, bret, event, timer, handled>>

CreateFuncFails ==
    /\ main = "func"
    /\ Exit
    /\ UNCHANGED <<readVars, role, copied, done, status, bret, handled>>

\* a timer thread that cannot be created is only logged
registerServiceStart ==
    /\ main = "starttimer"
    /\ timer' \in {"running", "none"} /\ main' = "sleep"
    /\ UNCHANGED <<readVars, role, copied, done, status, bret, event, handled>>

-----------------------------------------------------------------------------
(* InitSip *)

InitCall ==
    /\ main = "initsip" /\ done < Len(InitCalls)
    /\ done' = done + 1
    /\ event' = IF InitCalls[done + 1] = "thread_create" THEN "running" ELSE event
    /\ UNCHANGED <<readVars, role, main, copied, status, bret, timer, handled>>

\* break: status is the result of the call, except where a pool is NULL, which
\* leaves the PJ_SUCCESS of the call before
InitCallFails ==
    /\ main = "initsip" /\ done < Len(InitCalls)
    /\ status' = IF InitCalls[done + 1] = "create_pool" THEN status ELSE "failed"
    /\ bret' = IF status' = "success" THEN "true" ELSE "false"
    /\ main' = "initreturn"
    /\ UNCHANGED <<readVars, role, copied, done, event, timer, handled>>

InitSipReturns ==
    /\ main = "initsip" /\ done = Len(InitCalls)
    /\ bret' = IF status = "success" THEN "true" ELSE "false"
    /\ main' = "initreturn"
    /\ UNCHANGED <<readVars, role, copied, done, status, event, timer, handled>>

-----------------------------------------------------------------------------
(* pollingEvent *)

handle_events ==
    /\ event = "running" /\ handled = NotYet
    /\ handled' = copied
    /\ UNCHANGED <<readVars, role, main, copied, done, status, bret, event, timer>>

\* any error ends the thread; nothing starts it again
handle_events_fails ==
    /\ event = "running"
    /\ event' = "ended"
    /\ UNCHANGED <<readVars, role, main, copied, done, status, bret, timer, handled>>

Main ==
    \/ ReadConf \/ ReadConfReturns \/ ReadConfFails \/ CopyNode \/ CallInitSip \/ InitReturns
    \/ CreateFunc \/ CreateFuncFails \/ registerServiceStart
    \/ InitCall \/ InitCallFails \/ InitSipReturns

Next == Main \/ handle_events \/ handle_events_fails

Spec == Init /\ [][Next]_vars

-----------------------------------------------------------------------------
(* Properties *)

\* The types; the list never outgrows the configuration it is copied from.
TypeOK ==
    /\ role \in {"sub", "sup"}
    /\ main \in {"readconf", "copy", "initsip", "initreturn", "func", "starttimer",
                 "sleep", "exited"}
    /\ copied \in 0 .. Len(nodes)
    /\ done \in 0 .. Len(InitCalls)
    /\ status \in {"success", "failed"} /\ bret \in {"none", "true", "false"}
    /\ event \in {"none", "running", "ended"} /\ timer \in {"none", "running", "ended"}
    /\ handled \in Nat \cup {NotYet}

\* A message is handled only when everything it needs is there: ReadConf accepted
\* the file, the list of domains is complete (checkIsExist and RegisterProc read it while main may
\* still be in init) and every call of InitSip succeeded, so GetEndPoint() is
\* an endpoint with its transaction layer, both transports and our module.
ServedWhenComplete ==
    /\ event # "none" => done = Len(InitCalls)
    /\ handled # NotYet => handled = Len(nodes)
    /\ event = "running" => copied = Len(nodes) /\ ret = "ok"

\* If InitSip returned false no message is ever handled, in spite of init, which
\* returns true and lets main go on.
FailedInitServesNobody == bret = "false" => event = "none" /\ handled = NotYet

\* No message is handled by half a service, whether start-up is still under way
\* or has failed.
Sound == TypeOK /\ ServedWhenComplete /\ FailedInitServesNobody
=============================================================================
