----------------------------- MODULE SupService -----------------------------
(***************************************************************************)
(* The request path of SipSupService, the upper platform: the event thread *)
(* clones each incoming request in onRxRequest and starts a detached       *)
(* thread for it (dealTaskThread); the thread of a REGISTER looks its      *)
(* sender up in subDomainInfoList, records the Expires value, builds a     *)
(* response and sends it (SipRegister::dealWithRegister), then frees the   *)
(* threadParam.  Requests are answered statelessly, so a retransmitted     *)
(* request is one more delivery, with a thread of its own.                 *)
(*                                                                         *)
(* checkIsExist and setExpires hold globalLock for their whole body and    *)
(* block on nothing else: each is one step here.  Dereferencing a null     *)
(* pointer ends the process: crashed.  PJSIP and the heap are external:    *)
(* each of their calls may succeed or fail.                                *)
(***************************************************************************)
EXTENDS Integers, Sequences, FiniteSets

CONSTANTS SubIds,     \* sipId of each entry of subDomainInfoList, from the configuration
          Requests,   \* the requests that may arrive: [method, name, user, expires]
          Params,     \* threadParam objects: a bound on the number of deliveries
          Lead,       \* characters before a display name in a printed From: 6
          Offset,     \* characters before the user part, without a display name: 11
          Width,      \* characters parseFromId takes: 20
          NULL

Entries == DOMAIN SubIds

ASSUME ListAssumption == SubIds \in Seq(Seq(Int))

ASSUME RequestsAssumption ==
    \A m \in Requests :
        /\ m.method \in {"REGISTER", "OTHER"} /\ m.name \in Seq(Int)
        /\ m.user \in Seq(Int) /\ m.expires \in Int \cup {NULL}

ASSUME NullAssumption == NULL \notin Params \cup Requests \cup Int

ASSUME WidthAssumption == Offset \in Nat /\ Lead \in 0 .. Offset /\ Width \in Nat

VARIABLES
    expires,    \* the expires field of each entry of subDomainInfoList
    crashed,    \* the process has dereferenced a null pointer
    heap,       \* the threadParams that are allocated
    pc,         \* where the thread of each threadParam is
    req,        \* the request a threadParam was created for
    data,       \* whether its clone of the request was allocated
    code,       \* status_code, per thread
    tx,         \* the response buffer of a thread: "none", "owned" or "given" (to PJSIP)
    sent,       \* ghost: the status code that went out for a threadParam
    writer,     \* ghost: the threadParam whose thread wrote an entry last
    answered    \* ghost: those already answered when a threadParam was created

vars == <<expires, crashed, heap, pc, req, data, code, tx, sent, writer, answered>>
ghosts == <<sent, writer, answered>>

Init ==
    /\ expires = [i \in Entries |-> 0]
    /\ crashed = FALSE
    /\ heap = {}
    /\ pc = [p \in Params |-> "none"]
    /\ req = [p \in Params |-> NULL]
    /\ data = [p \in Params |-> FALSE]
    /\ code = [p \in Params |-> 200]
    /\ tx = [p \in Params |-> "none"]
    /\ sent = [p \in Params |-> NULL]
    /\ writer = [i \in Entries |-> NULL]
    /\ answered = [p \in Params |-> {}]

Goto(p, from, to) == ~crashed /\ pc[p] = from /\ pc' = [pc EXCEPT ![p] = to]

-----------------------------------------------------------------------------
(* SipTaskBase::parseFromId: a fixed slice of the printed From header.  A display *)
(* name (with the quotes and the space printed around it) moves the user part by  *)
(* its length; -1 stands for any character that is not of an id.                  *)

Other(n) == [i \in 1 .. n |-> -1]
PrintFrom(m) == Other(Lead) \o m.name \o Other(Offset - Lead) \o m.user \o Other(Width + 1)

parseFromIdShifted(m) == SubSeq(PrintFrom(m), Offset, Offset + Width - 1)  \* mutant: off by one

parseFromId(m) == SubSeq(PrintFrom(m), Offset + 1, Offset + Width)

FromId(p) == parseFromId(req[p])

(* std::find on subDomainInfoList: the first entry with this sipId. *)
Matches(id) == {i \in Entries : SubIds[i] = id}
IsFind(i, id) == i \in Matches(id) /\ \A j \in Matches(id) : i <= j

checkIsExist(id) == Matches(id) # {}

-----------------------------------------------------------------------------
(* SipCore: onRxRequest on the event thread, dealTaskThread on a thread of its own *)

\* new threadParam, clone (its status is not looked at), new SipRegister for a
\* REGISTER, createThread; when that fails the threadParam is deleted
onRxRequest(p, m) ==
    /\ \E to \in {"start", "refused"} :
          /\ Goto(p, "none", to)
          /\ heap' = IF to = "start" THEN heap \cup {p} ELSE heap
    /\ req' = [req EXCEPT ![p] = m]
    /\ \E ok \in BOOLEAN : data' = [data EXCEPT ![p] = ok]
    /\ answered' = [answered EXCEPT ![p] = {q \in Params : sent[q] # NULL}]
    /\ UNCHANGED <<expires, crashed, code, tx, sent, writer>>

\* param->base is NULL unless the request is a REGISTER: the thread returns at
\* once, and nobody deletes param
dealTaskThreadNoBase(p) ==
    /\ Goto(p, "start", "ended")
    /\ req[p].method # "REGISTER"
    /\ UNCHANGED <<expires, crashed, heap, req, data, code, tx, ghosts>>

dealTaskThread(p) ==
    /\ Goto(p, "start", "run")
    /\ req[p].method = "REGISTER"
    /\ UNCHANGED <<expires, crashed, heap, req, data, code, tx, ghosts>>

\* delete param, after run() returned
DeleteParamOnSuccess(p) ==   \* mutant: deleted only when a response was sent
    /\ Goto(p, "delete", "ended")
    /\ heap' = IF sent[p] # NULL THEN heap \ {p} ELSE heap
    /\ UNCHANGED <<expires, crashed, req, data, code, tx, ghosts>>

DeleteParam(p) ==
    /\ Goto(p, "delete", "ended")
    /\ heap' = heap \ {p}
    /\ UNCHANGED <<expires, crashed, req, data, code, tx, ghosts>>

Crash(p) ==
    /\ ~crashed /\ crashed' = TRUE
    /\ UNCHANGED <<expires, heap, pc, req, data, code, tx, ghosts>>

-----------------------------------------------------------------------------
(* SipRegister: run, RegisterRequestMessage, dealWithRegister *)

\* rdata->msg_info of a clone that was not allocated
RunWithoutData(p) == pc[p] = "run" /\ ~data[p] /\ Crash(p)

SIP_FORBIDDEN == 404

\* mutant: a known sender is answered before its Expires is recorded
LookUpAnswerFirst(p) ==
    /\ data[p]
    /\ Goto(p, "run", IF checkIsExist(FromId(p)) THEN "expires" ELSE "create")
    /\ sent' = [sent EXCEPT ![p] = IF checkIsExist(FromId(p)) THEN 200 ELSE @]
    /\ UNCHANGED <<expires, crashed, heap, req, data, code, tx, writer, answered>>

\* parseFromId and checkIsExist
LookUp(p) ==
    /\ data[p]
    /\ Goto(p, "run", IF checkIsExist(FromId(p)) THEN "expires" ELSE "create")
    /\ code' = [code EXCEPT ![p] = IF checkIsExist(FromId(p)) THEN 200 ELSE SIP_FORBIDDEN]
    /\ UNCHANGED <<expires, crashed, heap, req, data, tx, ghosts>>

\* expires->ivalue when the request has no Expires header
ReadMissingExpires(p) == pc[p] = "expires" /\ req[p].expires = NULL /\ Crash(p)

setExpires(i, id) == IsFind(i, id)

RecordExpiresUnchecked(p) ==   \* mutant: a missing header is recorded as if it were a value
    /\ Goto(p, "expires", "create")
    /\ \E i \in Entries : setExpires(i, FromId(p)) /\ expires' = [expires EXCEPT ![i] = req[p].expires]
    /\ UNCHANGED <<crashed, heap, req, data, code, tx, ghosts>>

RecordExpires(p) ==
    /\ Goto(p, "expires", "create")
    /\ req[p].expires # NULL
    /\ \E i \in Entries :
          /\ setExpires(i, FromId(p))
          /\ expires' = [expires EXCEPT ![i] = req[p].expires]
          /\ writer' = [writer EXCEPT ![i] = p]
    /\ UNCHANGED <<crashed, heap, req, data, code, tx, sent, answered>>

\* pjsip_endpt_create_response, and the Date header
CreateResponse(p) ==
    /\ \E to \in {"addr", "delete"} :
          /\ Goto(p, "create", to)
          /\ tx' = [tx EXCEPT ![p] = IF to = "addr" THEN "owned" ELSE @]
    /\ UNCHANGED <<expires, crashed, heap, req, data, code, ghosts>>

\* pjsip_get_response_addr; on failure the response is released
GetResponseAddr(p) ==
    /\ \E to \in {"send", "delete"} :
          /\ Goto(p, "addr", to)
          /\ tx' = [tx EXCEPT ![p] = IF to = "send" THEN @ ELSE "none"]
    /\ UNCHANGED <<expires, crashed, heap, req, data, code, ghosts>>

\* pjsip_endpt_send_response: PJSIP releases the response it accepted, the
\* caller the one it refused
SendResponse(p) ==
    /\ Goto(p, "send", "delete")
    /\ \E ok \in BOOLEAN :
          /\ tx' = [tx EXCEPT ![p] = IF ok THEN "given" ELSE "none"]
          /\ sent' = [sent EXCEPT ![p] = IF ok THEN code[p] ELSE @]
    /\ UNCHANGED <<expires, crashed, heap, req, data, code, writer, answered>>

-----------------------------------------------------------------------------
Thread(p) ==
    \/ dealTaskThreadNoBase(p) \/ dealTaskThread(p) \/ DeleteParam(p)
    \/ RunWithoutData(p) \/ LookUp(p) \/ ReadMissingExpires(p) \/ RecordExpires(p)
    \/ CreateResponse(p) \/ GetResponseAddr(p) \/ SendResponse(p)

Next == \E p \in Params : Thread(p) \/ \E m \in Requests : onRxRequest(p, m)

Spec == Init /\ [][Next]_vars

-----------------------------------------------------------------------------
(* Properties *)

TypeOK ==
    /\ expires \in [Entries -> Int]
    /\ crashed \in BOOLEAN
    /\ heap \subseteq Params
    /\ pc \in [Params -> {"none", "refused", "start", "run", "expires", "create",
                          "addr", "send", "delete", "ended"}]
    /\ req \in [Params -> Requests \cup {NULL}]
    /\ data \in [Params -> BOOLEAN]
    /\ code \in [Params -> {200, SIP_FORBIDDEN}]
    /\ tx \in [Params -> {"none", "owned", "given"}]
    /\ sent \in [Params -> {200, SIP_FORBIDDEN, NULL}]
    /\ writer \in [Entries -> Params \cup {NULL}]
    /\ answered \in [Params -> SUBSET Params]

\* Memory: onRxRequest and dealTaskThread free what they allocate for a REGISTER
\* exactly once, on every path, error returns included: a running thread still
\* has its threadParam, the thread of a REGISTER that ended has left none, and no
\* thread that ended holds a response buffer.  (Nothing is said here of the
\* threadParam of any other request: see NoPathLeaks.)
HeapAccounted ==
    \A p \in Params :
        /\ pc[p] \in {"none", "refused"} => p \notin heap
        /\ pc[p] \notin {"none", "refused", "ended"} => p \in heap
        /\ pc[p] = "ended" /\ req[p].method = "REGISTER" => p \notin heap
        /\ pc[p] = "ended" => tx[p] # "owned"

\* Memory is accounted for, and every variable keeps its type.
Sound == TypeOK /\ HeapAccounted

\* A sender that prints as the code expects (no display name, an id of Width
\* characters) is answered 200 exactly if the configuration lists it, and only
\* after an Expires went into the first entry with its id; if the configuration
\* does not list it, it is answered SIP_FORBIDDEN.
Plain(m) == m.name = <<>> /\ Len(m.user) = Width
AnswerMatchesList ==
    \A p \in Params :
        sent[p] # NULL /\ Plain(req[p]) =>
            IF \E i \in Entries : SubIds[i] = req[p].user
            THEN /\ sent[p] = 200
                 /\ \E i \in Entries : IsFind(i, req[p].user) /\ writer[i] # NULL
            ELSE sent[p] = SIP_FORBIDDEN

\* A REGISTER that arrives after an earlier one was answered takes effect after
\* it: an entry never goes back to a value whose answer preceded the arrival of
\* a REGISTER that has been answered too.  (Two that overlap may be recorded in
\* either order, since each has a thread of its own.)
AnsweredInOrder ==
    \A i \in Entries, q \in Params :
        (writer[i] # NULL /\ sent[q] = 200 /\ IsFind(i, FromId(q)))
            => writer[i] \notin answered[q]

\* The threads together are the registrar their devices take them for: a REGISTER
\* takes effect at once (in setExpires) or is refused (by checkIsExist), between its
\* arrival and its answer, although lookup, record and answer are three steps with
\* those of other threads in between.  An id has the value of the first entry with it.
Ids == {SubIds[i] : i \in Entries}
Find(id) == CHOOSE i \in Entries : IsFind(i, id)
Ask(m) == [register |-> m.method = "REGISTER", id |-> parseFromId(m), value |-> m.expires]
Status(p) ==
    IF pc[p] = "none" THEN "new"
    ELSE IF req[p].method = "REGISTER" /\ pc[p] \in {"start", "run", "expires"} THEN "open"
    ELSE IF pc[p] \in {"create", "addr", "send"}
         THEN IF code[p] = SIP_FORBIDDEN THEN "refused" ELSE "recorded"
    ELSE "closed"
Registry == INSTANCE Registrar WITH
    Deliveries <- Params, Asks <- {Ask(m) : m \in Requests},
    OK <- 200, Refused <- SIP_FORBIDDEN, Missing <- NULL,
    registry <- [id \in Ids |-> expires[Find(id)]],
    asked <- [p \in Params |-> IF req[p] = NULL THEN NULL ELSE Ask(req[p])],
    status <- [p \in Params |-> Status(p)],
    answer <- sent
ImplementsRegistrar == Registry!RSpec

-----------------------------------------------------------------------------
(* What the notes of the repository say, and the code does not do *)

\* notes/pjsip/GB28181注册_REGISTER_SipRegister.md:65: a REGISTER is answered, with 200 or 403.
RegisterNeverCrashes == (\A p \in Params : data[p] \/ pc[p] = "none") => ~crashed

\* notes/pjsip/pjsip初始化_SipCore.md:384: the threadParam is freed on every path, so none
\* leaks; a thread that has ended has left nothing on the heap, whatever its request was.
NoPathLeaks == \A p \in Params : pc[p] = "ended" => p \notin heap
=============================================================================
