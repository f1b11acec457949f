-------------------------- MODULE SupServiceProofs --------------------------
(***************************************************************************)
(* For every list of devices, every set of requests and every number of    *)
(* deliveries: what the threads of SipSupService leave in memory, what     *)
(* they answer and record, and in which order.                             *)
(*                                                                         *)
(* HeapAccounted needs PathOK: what a thread owns at each statement.       *)
(* AnsweredInOrder needs OrderOK: a REGISTER that is recorded is not       *)
(* answered yet, so it precedes none of those received after its answer.   *)
(***************************************************************************)
EXTENDS SupService, SequenceTheorems, WellFoundedInduction, TLAPS

Recorded == {"create", "addr", "send", "delete", "ended"}

\* What holds at each statement of a request's thread.
PathOK ==
    \A p \in Params :
        /\ pc[p] # "none" => req[p] \in Requests
        /\ pc[p] \notin {"none", "refused", "start", "ended"} => req[p].method = "REGISTER"
        /\ pc[p] \notin {"addr", "send"} => tx[p] # "owned"
        /\ sent[p] # NULL => pc[p] \in {"delete", "ended"} /\ req[p].method = "REGISTER" /\ sent[p] = code[p]
        /\ pc[p] = "expires" => code[p] = 200 /\ checkIsExist(FromId(p))
        /\ pc[p] \in Recorded /\ req[p].method = "REGISTER" /\ code[p] = SIP_FORBIDDEN
              => ~checkIsExist(FromId(p))

\* A thread past setExpires has its entry written, by itself or by a thread
\* that was not answered when its own request arrived.
Wrote(p) == pc[p] \in Recorded /\ req[p].method = "REGISTER" /\ code[p] = 200
OrderOK ==
    /\ \A p, q \in Params : p \in answered[q] => sent[p] # NULL
    /\ \A i \in Entries : writer[i] # NULL => pc[writer[i]] \in Recorded
    /\ \A q \in Params : Wrote(q) =>
          \E i \in Entries : IsFind(i, FromId(q)) /\ writer[i] # NULL
    /\ \A i \in Entries, q \in Params :
          Wrote(q) /\ IsFind(i, FromId(q)) => writer[i] \notin answered[q]

IInv == TypeOK /\ PathOK /\ HeapAccounted /\ OrderOK

-----------------------------------------------------------------------------
\* std::find returns one entry.
LEMMA FindUnique ==
    ASSUME NEW i \in Entries, NEW j \in Entries, NEW id, IsFind(i, id), IsFind(j, id)
    PROVE  i = j
<1>1. Entries = 1 .. Len(SubIds) /\ Len(SubIds) \in Nat
  BY ListAssumption DEF Entries
<1>2. i <= j /\ j <= i
  BY DEF IsFind
<1> QED
  BY <1>1, <1>2

\* The fields of a request.
LEMMA RequestFields ==
    ASSUME NEW m \in Requests
    PROVE  m.method \in {"REGISTER", "OTHER"} /\ m.expires \in Int \cup {NULL}
BY RequestsAssumption

\* parseFromId's fixed slice is the sender's id when the From header has no
\* display name and the id is Width characters long.
LEMMA ParsePlain ==
    ASSUME NEW m \in Requests, Plain(m)
    PROVE  parseFromId(m) = m.user
<1> DEFINE u == m.user
           a == ((Other(Lead) \o m.name) \o Other(Offset - Lead))
           b == Other(Width + 1)
           h == (a \o u) \o b
<1> USE WidthAssumption
<1>1. u \in Seq(Int) /\ Len(u) = Width /\ m.name = <<>>
  BY RequestsAssumption DEF Plain
<1>2. a \in Seq(Int) /\ Len(a) = Offset /\ b \in Seq(Int) /\ Len(b) = Width + 1
  <2>1. \A n \in Nat : Other(n) \in Seq(Int) /\ Len(Other(n)) = n
    BY DEF Other
  <2>2. Lead \in Nat /\ Offset - Lead \in Nat /\ Width + 1 \in Nat
    OBVIOUS
  <2>3. Other(Lead) \o m.name \in Seq(Int) /\ Len(Other(Lead) \o m.name) = Lead
    BY <1>1, <2>1, <2>2
  <2>4. \A c, d \in Seq(Int) : c \o d \in Seq(Int) /\ Len(c \o d) = Len(c) + Len(d)
    BY ConcatProperties
  <2>5. a \in Seq(Int) /\ Len(a) = Lead + (Offset - Lead)
    BY <2>1, <2>2, <2>3, <2>4
  <2>6. Lead + (Offset - Lead) = Offset
    OBVIOUS
  <2> QED
    BY <2>1, <2>2, <2>5, <2>6
<1>3. parseFromId(m) = SubSeq(h, Offset + 1, Offset + Width)
  BY <1>1 DEF parseFromId, PrintFrom
<1> HIDE DEF u, a, b
<1>4. /\ a \o u \in Seq(Int) /\ Len(a \o u) = Offset + Width
      /\ \A i \in 1 .. Offset + Width : (a \o u)[i] = IF i <= Offset THEN a[i] ELSE u[i - Offset]
  BY <1>1, <1>2, ConcatProperties
<1>5. \A i \in 1 .. Offset + Width : h[i] = (a \o u)[i]
  BY <1>2, <1>4, ConcatProperties
<1>6. \A i \in 1 .. Width : h[Offset + i] = u[i]
  <2> SUFFICES ASSUME NEW i \in 1 .. Width PROVE h[Offset + i] = u[i]
    OBVIOUS
  <2>1. Offset + i \in 1 .. Offset + Width /\ ~(Offset + i <= Offset) /\ (Offset + i) - Offset = i
    OBVIOUS
  <2> QED
    BY <1>4, <1>5, <2>1
<1>7. \A i \in Offset + 1 .. Offset + Width : h[i] \in Int
  <2> SUFFICES ASSUME NEW i \in Offset + 1 .. Offset + Width PROVE h[i] \in Int
    OBVIOUS
  <2>1. i - Offset \in 1 .. Width /\ Offset + (i - Offset) = i
    OBVIOUS
  <2>2. u[i - Offset] \in Int
    BY <1>1, <2>1, ElementOfSeq
  <2>3. h[i] = u[i - Offset]
    <3> HIDE DEF h
    <3> QED
      BY <1>6, <2>1
  <2> QED
    BY <2>2, <2>3
<1> DEFINE r == SubSeq(h, Offset + 1, Offset + Width)
<1> HIDE DEF h
<1>8. /\ r \in Seq(Int) /\ Len(r) = Width
      /\ \A i \in 1 .. Width : r[i] = h[Offset + i]
  BY <1>7, SubSeqProperties
<1>9. r = u
  <2> HIDE DEF r
  <2> QED
    BY <1>1, <1>6, <1>8, SeqEqual
<1> QED
  BY <1>3, <1>9 DEF u

LEMMA InitIInv == Init => IInv
<1> SUFFICES ASSUME Init PROVE IInv
  OBVIOUS
<1> USE NullAssumption DEF Init, Recorded
<1>1. TypeOK
  <2>1. data \in [Params -> BOOLEAN] /\ crashed \in BOOLEAN
    BY Zenon
  <2>2. pc \in [Params -> {"none"}] /\ tx \in [Params -> {"none"}]
    BY Zenon
  <2>3. answered \in [Params -> SUBSET Params]
    OBVIOUS
  <2>4. expires \in [Entries -> Int] /\ code \in [Params -> {200}]
    OBVIOUS
  <2>5. req \in [Params -> {NULL}] /\ sent \in [Params -> {NULL}] /\ writer \in [Entries -> {NULL}]
    OBVIOUS
  <2> QED
    BY <2>1, <2>2, <2>3, <2>4, <2>5 DEF TypeOK
<1>2. PathOK
  BY DEF PathOK
<1>3. HeapAccounted
  BY DEF HeapAccounted
<1>4. OrderOK
  BY DEF OrderOK, Wrote
<1> QED
  BY <1>1, <1>2, <1>3, <1>4 DEF IInv

LEMMA NextTypeOK == IInv /\ [Next]_vars => TypeOK'
<1> SUFFICES ASSUME IInv, [Next]_vars PROVE TypeOK'
  OBVIOUS
<1> USE NullAssumption, RequestFields DEF IInv, TypeOK, PathOK, Goto, ghosts, SIP_FORBIDDEN
<1>1. ASSUME NEW p \in Params, dealTaskThreadNoBase(p) PROVE TypeOK'
  BY <1>1 DEF dealTaskThreadNoBase
<1>2. ASSUME NEW p \in Params, dealTaskThread(p) PROVE TypeOK'
  BY <1>2 DEF dealTaskThread
<1>3. ASSUME NEW p \in Params, DeleteParam(p) PROVE TypeOK'
  BY <1>3 DEF DeleteParam
<1>4. ASSUME NEW p \in Params, RunWithoutData(p) PROVE TypeOK'
  BY <1>4 DEF RunWithoutData, Crash
<1>5. ASSUME NEW p \in Params, LookUp(p) PROVE TypeOK'
  BY <1>5 DEF LookUp
<1>6. ASSUME NEW p \in Params, ReadMissingExpires(p) PROVE TypeOK'
  BY <1>6 DEF ReadMissingExpires, Crash
<1>7. ASSUME NEW p \in Params, RecordExpires(p) PROVE TypeOK'
  BY <1>7 DEF RecordExpires
<1>8. ASSUME NEW p \in Params, CreateResponse(p) PROVE TypeOK'
  BY <1>8 DEF CreateResponse
<1>9. ASSUME NEW p \in Params, GetResponseAddr(p) PROVE TypeOK'
  BY <1>9 DEF GetResponseAddr
<1>10. ASSUME NEW p \in Params, SendResponse(p) PROVE TypeOK'
  BY <1>10 DEF SendResponse
<1>11. ASSUME NEW p \in Params, NEW m \in Requests, onRxRequest(p, m) PROVE TypeOK'
  BY <1>11 DEF onRxRequest
<1>12. CASE UNCHANGED vars
  BY <1>12 DEF vars
<1> QED
  BY <1>1, <1>2, <1>3, <1>4, <1>5, <1>6, <1>7, <1>8, <1>9, <1>10, <1>11, <1>12 DEF Next, Thread

LEMMA NextPathOK == IInv /\ [Next]_vars => PathOK'
<1> SUFFICES ASSUME IInv, [Next]_vars PROVE PathOK'
  OBVIOUS
<1> USE NullAssumption DEF IInv, TypeOK, PathOK, Goto, ghosts, Recorded, SIP_FORBIDDEN, FromId
<1>1. ASSUME NEW p \in Params, dealTaskThreadNoBase(p) PROVE PathOK'
  BY <1>1 DEF dealTaskThreadNoBase
<1>2. ASSUME NEW p \in Params, dealTaskThread(p) PROVE PathOK'
  BY <1>2 DEF dealTaskThread
<1>3. ASSUME NEW p \in Params, DeleteParam(p) PROVE PathOK'
  BY <1>3 DEF DeleteParam
<1>4. ASSUME NEW p \in Params, RunWithoutData(p) PROVE PathOK'
  BY <1>4 DEF RunWithoutData, Crash
<1>5. ASSUME NEW p \in Params, LookUp(p) PROVE PathOK'
  BY <1>5 DEF LookUp
<1>6. ASSUME NEW p \in Params, ReadMissingExpires(p) PROVE PathOK'
  BY <1>6 DEF ReadMissingExpires, Crash
<1>7. ASSUME NEW p \in Params, RecordExpires(p) PROVE PathOK'
  BY <1>7 DEF RecordExpires
<1>8. ASSUME NEW p \in Params, CreateResponse(p) PROVE PathOK'
  BY <1>8 DEF CreateResponse
<1>9. ASSUME NEW p \in Params, GetResponseAddr(p) PROVE PathOK'
  BY <1>9 DEF GetResponseAddr
<1>10. ASSUME NEW p \in Params, SendResponse(p) PROVE PathOK'
  BY <1>10 DEF SendResponse
<1>11. ASSUME NEW p \in Params, NEW m \in Requests, onRxRequest(p, m) PROVE PathOK'
  BY <1>11 DEF onRxRequest
<1>12. CASE UNCHANGED vars
  BY <1>12 DEF vars
<1> QED
  BY <1>1, <1>2, <1>3, <1>4, <1>5, <1>6, <1>7, <1>8, <1>9, <1>10, <1>11, <1>12 DEF Next, Thread

LEMMA NextHeapAccounted == IInv /\ [Next]_vars => HeapAccounted'
<1> SUFFICES ASSUME IInv, [Next]_vars PROVE HeapAccounted'
  OBVIOUS
<1> USE NullAssumption DEF IInv, TypeOK, PathOK, HeapAccounted, Goto, ghosts
<1>1. ASSUME NEW p \in Params, dealTaskThreadNoBase(p) PROVE HeapAccounted'
  BY <1>1 DEF dealTaskThreadNoBase
<1>2. ASSUME NEW p \in Params, dealTaskThread(p) PROVE HeapAccounted'
  BY <1>2 DEF dealTaskThread
<1>3. ASSUME NEW p \in Params, DeleteParam(p) PROVE HeapAccounted'
  BY <1>3 DEF DeleteParam
<1>4. ASSUME NEW p \in Params, RunWithoutData(p) PROVE HeapAccounted'
  BY <1>4 DEF RunWithoutData, Crash
<1>5. ASSUME NEW p \in Params, LookUp(p) PROVE HeapAccounted'
  BY <1>5 DEF LookUp
<1>6. ASSUME NEW p \in Params, ReadMissingExpires(p) PROVE HeapAccounted'
  BY <1>6 DEF ReadMissingExpires, Crash
<1>7. ASSUME NEW p \in Params, RecordExpires(p) PROVE HeapAccounted'
  BY <1>7 DEF RecordExpires
<1>8. ASSUME NEW p \in Params, CreateResponse(p) PROVE HeapAccounted'
  BY <1>8 DEF CreateResponse
<1>9. ASSUME NEW p \in Params, GetResponseAddr(p) PROVE HeapAccounted'
  BY <1>9 DEF GetResponseAddr
<1>10. ASSUME NEW p \in Params, SendResponse(p) PROVE HeapAccounted'
  BY <1>10 DEF SendResponse
<1>11. ASSUME NEW p \in Params, NEW m \in Requests, onRxRequest(p, m) PROVE HeapAccounted'
  BY <1>11 DEF onRxRequest
<1>12. CASE UNCHANGED vars
  BY <1>12 DEF vars
<1> QED
  BY <1>1, <1>2, <1>3, <1>4, <1>5, <1>6, <1>7, <1>8, <1>9, <1>10, <1>11, <1>12 DEF Next, Thread

LEMMA NextOrderOK == IInv /\ [Next]_vars => OrderOK'
<1> SUFFICES ASSUME IInv, [Next]_vars PROVE OrderOK'
  OBVIOUS
<1> USE NullAssumption DEF IInv, TypeOK, PathOK, OrderOK, Goto, ghosts, Recorded, Wrote, FromId, SIP_FORBIDDEN
<1>1. ASSUME NEW p \in Params, dealTaskThreadNoBase(p) PROVE OrderOK'
  BY <1>1 DEF dealTaskThreadNoBase
<1>2. ASSUME NEW p \in Params, dealTaskThread(p) PROVE OrderOK'
  BY <1>2 DEF dealTaskThread
<1>3. ASSUME NEW p \in Params, DeleteParam(p) PROVE OrderOK'
  BY <1>3 DEF DeleteParam
<1>4. ASSUME NEW p \in Params, RunWithoutData(p) PROVE OrderOK'
  BY <1>4 DEF RunWithoutData, Crash
<1>5. ASSUME NEW p \in Params, LookUp(p) PROVE OrderOK'
  BY <1>5 DEF LookUp
<1>6. ASSUME NEW p \in Params, ReadMissingExpires(p) PROVE OrderOK'
  BY <1>6 DEF ReadMissingExpires, Crash
<1>7. ASSUME NEW p \in Params, RecordExpires(p) PROVE OrderOK'
  <2>1. PICK i \in Entries : /\ IsFind(i, FromId(p))
                             /\ writer' = [writer EXCEPT ![i] = p]
    BY <1>7 DEF RecordExpires, setExpires
  <2>2. UNCHANGED <<req, code, sent, answered>> /\ pc' = [pc EXCEPT ![p] = "create"]
    BY <1>7 DEF RecordExpires
  <2>3. sent[p] = NULL
    BY <1>7 DEF RecordExpires
  <2>4. \A q \in Params : p \notin answered[q]
    BY <2>3
  <2>5. \A r, q \in Params : (r \in answered[q] => sent[r] # NULL)'
    BY <2>2
  <2>6. \A j \in Entries : (writer[j] # NULL => pc[writer[j]] \in Recorded)'
    BY <2>1, <2>2
  <2>7. ASSUME NEW q \in Params, Wrote(q)'
        PROVE  (\E j \in Entries : IsFind(j, FromId(q)) /\ writer[j] # NULL)'
    <3>1. CASE q = p
      BY <2>1, <2>2, <3>1 DEF IsFind, Matches
    <3>2. CASE q # p
      <4>1. PICK j \in Entries : IsFind(j, FromId(q)) /\ writer[j] # NULL
        BY <2>2, <2>7, <3>2
      <4>2. writer'[j] # NULL
        BY <2>1, <4>1
      <4> QED
        BY <2>2, <4>1, <4>2 DEF IsFind, Matches
    <3> QED
      BY <3>1, <3>2
  <2>8. ASSUME NEW j \in Entries, NEW q \in Params, Wrote(q)', IsFind(j, FromId(q))'
        PROVE  writer'[j] \notin answered'[q]
    <3>1. IsFind(j, FromId(q))
      BY <2>2, <2>8 DEF IsFind, Matches
    <3>2. CASE j = i
      BY <2>1, <2>2, <2>4, <3>2
    <3>3. CASE j # i
      <4>1. q # p
        BY <2>1, <3>1, <3>3, FindUnique
      <4> QED
        BY <2>1, <2>2, <2>8, <3>1, <3>3, <4>1
    <3> QED
      BY <3>2, <3>3
  <2> QED
    BY <2>5, <2>6, <2>7, <2>8
<1>8. ASSUME NEW p \in Params, CreateResponse(p) PROVE OrderOK'
  BY <1>8 DEF CreateResponse
<1>9. ASSUME NEW p \in Params, GetResponseAddr(p) PROVE OrderOK'
  BY <1>9 DEF GetResponseAddr
<1>10. ASSUME NEW p \in Params, SendResponse(p) PROVE OrderOK'
  BY <1>10 DEF SendResponse
<1>11. ASSUME NEW p \in Params, NEW m \in Requests, onRxRequest(p, m) PROVE OrderOK'
  BY <1>11 DEF onRxRequest
<1>12. CASE UNCHANGED vars
  BY <1>12 DEF vars
<1> QED
  BY <1>1, <1>2, <1>3, <1>4, <1>5, <1>6, <1>7, <1>8, <1>9, <1>10, <1>11, <1>12 DEF Next, Thread

-----------------------------------------------------------------------------
\* The inductive invariant holds in every state of the request path.
THEOREM Invariance == Spec => []IInv
<1>1. IInv /\ [Next]_vars => IInv'
  BY NextTypeOK, NextPathOK, NextHeapAccounted, NextOrderOK DEF IInv
<1> QED
  BY InitIInv, <1>1, PTL DEF Spec

\* onRxRequest and dealTaskThread free the threadParam and the response of a
\* REGISTER on every path, and never before its thread is done with them; only
\* numbers are recorded.  (The threadParam of any other request is never freed:
\* the run sup_leak.)
THEOREM MemoryAccounted == Spec => []Sound
BY Invariance, PTL DEF IInv, Sound

\* A sender that prints as parseFromId expects is answered 200 if and only if
\* the configuration lists it, and after its entry was written.
THEOREM AnswersMatchList == Spec => []AnswerMatchesList
<1>1. ASSUME IInv, NEW p \in Params, sent[p] # NULL, Plain(req[p])
      PROVE  IF \E i \in Entries : SubIds[i] = req[p].user
             THEN /\ sent[p] = 200
                  /\ \E i \in Entries : IsFind(i, req[p].user) /\ writer[i] # NULL
             ELSE sent[p] = SIP_FORBIDDEN
  <2>1. /\ req[p] \in Requests /\ req[p].method = "REGISTER"
        /\ pc[p] \in Recorded /\ sent[p] = code[p] /\ code[p] \in {200, SIP_FORBIDDEN}
    BY <1>1 DEF IInv, TypeOK, PathOK, Recorded
  <2>2. FromId(p) = req[p].user
    BY <1>1, <2>1, ParsePlain DEF FromId
  <2>3. CASE code[p] = 200
    <3>1. PICK i \in Entries : IsFind(i, FromId(p)) /\ writer[i] # NULL
      BY <1>1, <2>1, <2>3 DEF IInv, OrderOK, Wrote
    <3> QED
      BY <2>1, <2>2, <2>3, <3>1 DEF IsFind, Matches
  <2>4. CASE code[p] = SIP_FORBIDDEN
    <3>1. ~checkIsExist(FromId(p))
      BY <1>1, <2>1, <2>4 DEF IInv, PathOK
    <3> QED
      BY <2>1, <2>2, <2>4, <3>1 DEF checkIsExist, Matches
  <2> QED
    BY <2>1, <2>3, <2>4
<1>2. IInv => AnswerMatchesList
  BY <1>1 DEF AnswerMatchesList
<1> QED
  BY Invariance, <1>2, PTL

\* dealWithRegister records before it answers, so REGISTERs that do not overlap
\* take effect in the order in which they arrive.
THEOREM OrderKept == Spec => []AnsweredInOrder
<1>1. IInv => AnsweredInOrder
  BY NullAssumption DEF IInv, TypeOK, PathOK, OrderOK, Wrote, Recorded, AnsweredInOrder
<1> QED
  BY Invariance, <1>1, PTL

-----------------------------------------------------------------------------
(* The registrar *)

\* std::find finds an entry for each id of the list, and Find is that entry.
LEMMA FindFinds ==
    ASSUME NEW id \in Ids
    PROVE  Find(id) \in Entries /\ IsFind(Find(id), id) /\ SubIds[Find(id)] = id
<1>1. Entries \subseteq Nat
  BY ListAssumption DEF Entries
<1>2. Matches(id) # {} /\ Matches(id) \subseteq Nat
  BY <1>1 DEF Ids, Matches
<1>3. PICK i \in Matches(id) : ~\E j \in Matches(id) : <<j, i>> \in OpToRel(<, Nat)
  BY <1>2, NatLessThanWellFounded, WFMin
<1>4. \A j \in Matches(id) : i <= j
  BY <1>2, <1>3 DEF OpToRel
<1>5. i \in Entries /\ IsFind(i, id)
  BY <1>4 DEF IsFind, Matches
<1>6. Find(id) \in Entries /\ IsFind(Find(id), id)
  BY <1>5 DEF Find
<1> QED
  BY <1>6 DEF IsFind, Matches

\* The senders checkIsExist knows are those with an id of the list.
LEMMA KnownIds == \A id : checkIsExist(id) <=> id \in Ids
BY DEF checkIsExist, Matches, Ids

\* A step of p's thread leaves what the others have reached.
Alone(p) == \A q \in Params \ {p} : pc'[q] = pc[q] /\ req'[q] = req[q] /\ code'[q] = code[q]

\* A step of p's thread moves the status of p.
LEMMA StatusMoves ==
    ASSUME NEW p \in Params, NEW from, NEW to, Status(p) = from, Status(p)' = to, Alone(p)
    PROVE  Registry!Move(p, from, to)
<1>1. \A q \in Params \ {p} : Status(q)' = Status(q)
  BY DEF Alone, Status
<1> QED
  BY <1>1 DEF Registry!Move

\* ... or leaves it.
LEMMA StatusStays ==
    ASSUME NEW p \in Params, Status(p)' = Status(p), Alone(p), UNCHANGED <<expires, req, sent>>
    PROVE  UNCHANGED Registry!rvars
<1>1. \A q \in Params : Status(q)' = Status(q)
  BY DEF Alone, Status
<1> QED
  BY <1>1 DEF Registry!rvars

\* onRxRequest: the request arrives.
LEMMA RxIsArrive ==
    ASSUME IInv, NEW p \in Params, NEW m \in Requests, onRxRequest(p, m)
    PROVE  Registry!Arrive(p, Ask(m))
<1> USE DEF onRxRequest, Goto, IInv, TypeOK
<1>1. Alone(p) /\ req'[p] = m /\ Status(p) = "new"
  BY DEF Alone, Status
<1>2. Status(p)' = "closed" \/ (m.method = "REGISTER" /\ Status(p)' = "open")
  BY <1>1 DEF Status
<1>3. \/ Registry!Move(p, "new", "closed")
      \/ m.method = "REGISTER" /\ Registry!Move(p, "new", "open")
  BY <1>1, <1>2, StatusMoves
<1>4. [q \in Params |-> IF req[q] = NULL THEN NULL ELSE Ask(req[q])]'
        = [[q \in Params |-> IF req[q] = NULL THEN NULL ELSE Ask(req[q])] EXCEPT ![p] = Ask(m)]
  BY NullAssumption DEF Ask
<1>5. Ask(m).register <=> m.method = "REGISTER"
  BY DEF Ask
<1>6. UNCHANGED <<expires, sent>>
  OBVIOUS
<1> QED
  BY <1>3, <1>4, <1>5, <1>6 DEF Registry!Arrive

\* checkIsExist: an unknown sender is refused here, a known one goes on.
LEMMA LookUpRefuses ==
    ASSUME IInv, NEW p \in Params, LookUp(p)
    PROVE  Registry!Refuse(p) \/ UNCHANGED Registry!rvars
<1> USE DEF LookUp, Goto, IInv, TypeOK, ghosts
<1>1. Alone(p) /\ UNCHANGED <<expires, req, sent>> /\ req[p] \in Requests /\ req[p].method = "REGISTER"
  BY DEF Alone, PathOK
<1>2. Status(p) = "open"
  BY <1>1 DEF Status
<1>3. CASE checkIsExist(FromId(p))
  <2>1. Status(p)' = "open"
    BY <1>1, <1>3 DEF Status
  <2> QED
    BY <1>1, <1>2, <2>1, StatusStays
<1>4. CASE ~checkIsExist(FromId(p))
  <2>1. Status(p)' = "refused"
    BY <1>1, <1>4 DEF Status, SIP_FORBIDDEN
  <2>2. Registry!Move(p, "open", "refused")
    BY <1>1, <1>2, <2>1, StatusMoves
  <2>3. Ask(req[p]).id \notin Ids
    BY <1>4, KnownIds DEF Ask, FromId
  <2> QED
    BY <1>1, <2>2, <2>3, NullAssumption DEF Registry!Refuse
<1> QED
  BY <1>3, <1>4

\* setExpires: the REGISTER takes effect here.
LEMMA RecordIsEffect ==
    ASSUME IInv, NEW p \in Params, RecordExpires(p)
    PROVE  Registry!TakeEffect(p)
<1> USE DEF RecordExpires, Goto, IInv, TypeOK
<1>1. Alone(p) /\ UNCHANGED <<req, sent>> /\ req[p] \in Requests /\ req[p].method = "REGISTER" /\ code'[p] = 200
  BY DEF Alone, PathOK
<1>2. Status(p) = "open" /\ Status(p)' = "recorded"
  BY <1>1 DEF Status, SIP_FORBIDDEN
<1>3. Registry!Move(p, "open", "recorded")
  BY <1>1, <1>2, StatusMoves
<1>4. PICK i \in Entries : IsFind(i, FromId(p)) /\ expires' = [expires EXCEPT ![i] = req[p].expires]
  BY DEF setExpires
<1>5. PICK u, v : u = FromId(p) /\ v = req[p].expires
  OBVIOUS
<1>6. u \in Ids /\ Find(u) = i
  <2>1. SubIds[i] = u
    BY <1>4, <1>5 DEF IsFind, Matches
  <2>2. u \in Ids
    BY <2>1 DEF Ids
  <2> QED
    BY <1>4, <1>5, <2>2, FindFinds, FindUnique
<1>7. \A id \in Ids : expires'[Find(id)] = IF id = u THEN v ELSE expires[Find(id)]
  <2> SUFFICES ASSUME NEW id \in Ids
               PROVE  expires'[Find(id)] = IF id = u THEN v ELSE expires[Find(id)]
    OBVIOUS
  <2>1. Find(id) \in Entries /\ SubIds[Find(id)] = id /\ SubIds[i] = u
    BY <1>6, FindFinds
  <2> QED
    BY <2>1, <1>4, <1>5, <1>6
<1>8. [id \in Ids |-> expires[Find(id)]]' = [[id \in Ids |-> expires[Find(id)]] EXCEPT ![u] = v]
  BY <1>6, <1>7
<1>9. Ask(req[p]).id = u /\ Ask(req[p]).value = v /\ v # NULL /\ req[p] # NULL
  BY <1>1, <1>5, NullAssumption DEF Ask, FromId
<1>10. [q \in Params |-> IF req[q] = NULL THEN NULL ELSE Ask(req[q])][p] = Ask(req[p])
  BY <1>9
<1>11. [q \in Params |-> IF req[q] = NULL THEN NULL ELSE Ask(req[q])]'
          = [q \in Params |-> IF req[q] = NULL THEN NULL ELSE Ask(req[q])]
  BY <1>1
<1> QED
  BY <1>1, <1>3, <1>6, <1>8, <1>9, <1>10, <1>11, Zenon DEF Registry!TakeEffect

\* pjsip_endpt_send_response: the answer tells what checkIsExist found, or is lost.
LEMMA SendIsAnswer ==
    ASSUME IInv, NEW p \in Params, SendResponse(p)
    PROVE  Registry!Answer(p) \/ Registry!GiveUp(p)
<1> USE DEF SendResponse, Goto, IInv, TypeOK
<1>1. Alone(p) /\ UNCHANGED <<expires, req>> /\ Status(p)' = "closed"
  BY DEF Alone, Status
<1>2. \/ Status(p) = "recorded" /\ code[p] = 200
      \/ Status(p) = "refused" /\ code[p] = SIP_FORBIDDEN
  BY DEF Status, PathOK
<1>3. \/ Registry!Move(p, "recorded", "closed") /\ code[p] = 200
      \/ Registry!Move(p, "refused", "closed") /\ code[p] = SIP_FORBIDDEN
  BY <1>1, <1>2, StatusMoves
<1>4. sent' = [sent EXCEPT ![p] = code[p]] \/ sent' = sent
  OBVIOUS
<1> HIDE DEF SendResponse, Goto, IInv, TypeOK
<1> QED
  BY <1>1, <1>3, <1>4 DEF Registry!Answer, Registry!GiveUp

\* A response that cannot be created or addressed is given up.
LEMMA FailIsGiveUp ==
    ASSUME IInv, NEW p \in Params, CreateResponse(p) \/ GetResponseAddr(p)
    PROVE  Registry!GiveUp(p) \/ UNCHANGED Registry!rvars
<1> USE DEF CreateResponse, GetResponseAddr, Goto, IInv, TypeOK, ghosts
<1>1. Alone(p) /\ UNCHANGED <<expires, req, sent>> /\ code'[p] = code[p] /\ Status(p) \in {"recorded", "refused"}
  BY DEF Alone, Status, PathOK
<1>2. Status(p)' = "closed" \/ Status(p)' = Status(p)
  BY <1>1 DEF Status, PathOK
<1>3. CASE Status(p)' = "closed"
  <2>1. Registry!Move(p, "recorded", "closed") \/ Registry!Move(p, "refused", "closed")
    BY <1>1, <1>3, StatusMoves
  <2> QED
    BY <1>1, <2>1 DEF Registry!GiveUp
<1> QED
  BY <1>1, <1>2, <1>3, StatusStays

\* The rest of a thread's steps, and the end of the process, change nothing.
LEMMA OthersStutter ==
    ASSUME IInv, NEW p \in Params,
           \/ dealTaskThreadNoBase(p) \/ dealTaskThread(p) \/ DeleteParam(p)
           \/ RunWithoutData(p) \/ ReadMissingExpires(p)
    PROVE  UNCHANGED Registry!rvars
<1> USE DEF dealTaskThreadNoBase, dealTaskThread, DeleteParam, RunWithoutData,
            ReadMissingExpires, Crash, Goto, IInv, TypeOK, ghosts
<1>1. Alone(p) /\ UNCHANGED <<expires, req, sent>>
  BY DEF Alone
<1>2. Status(p)' = Status(p)
  BY DEF Status, PathOK
<1> QED
  BY <1>1, <1>2, StatusStays

\* For every list, any requests and any number of deliveries: the threads of
\* SipSupService implement a registrar at which each REGISTER takes effect, or is
\* refused, at one moment between its arrival and its answer.
THEOREM Linearizable == Spec => ImplementsRegistrar
<1>1. Init => Registry!RInit
  <2> SUFFICES ASSUME Init PROVE Registry!RInit
    OBVIOUS
  <2> USE DEF Init
  <2>1. [id \in Ids |-> expires[Find(id)]] = [id \in Ids |-> 0]
    BY FindFinds
  <2>2. [p \in Params |-> IF req[p] = NULL THEN NULL ELSE Ask(req[p])] = [p \in Params |-> NULL]
    OBVIOUS
  <2>3. [p \in Params |-> Status(p)] = [p \in Params |-> "new"]
    BY DEF Status
  <2> QED
    BY <2>1, <2>2, <2>3 DEF Registry!RInit
<1>2. ASSUME IInv, [Next]_vars PROVE [Registry!RNext]_(Registry!rvars)
  <2> USE <1>2
  <2>1. ASSUME NEW p \in Params, Thread(p) PROVE Registry!RNext \/ UNCHANGED Registry!rvars
    <3>1. CASE LookUp(p)
      BY <3>1, LookUpRefuses DEF Registry!RNext
    <3>2. CASE RecordExpires(p)
      BY <3>2, RecordIsEffect DEF Registry!RNext
    <3>3. CASE SendResponse(p)
      BY <3>3, SendIsAnswer DEF Registry!RNext
    <3>4. CASE CreateResponse(p) \/ GetResponseAddr(p)
      BY <3>4, FailIsGiveUp DEF Registry!RNext
    <3> QED
      BY <2>1, <3>1, <3>2, <3>3, <3>4, OthersStutter DEF Thread
  <2>2. ASSUME NEW p \in Params, NEW m \in Requests, onRxRequest(p, m) PROVE Registry!RNext
    BY <2>2, RxIsArrive DEF Registry!RNext
  <2>3. CASE UNCHANGED vars
    <3>1. UNCHANGED <<expires, req, sent, pc, code>>
      BY <2>3 DEF vars
    <3>2. \A q \in Params : Status(q)' = Status(q)
      BY <3>1 DEF Status
    <3> QED
      BY <3>1, <3>2 DEF Registry!rvars
  <2> QED
    BY <2>1, <2>2, <2>3 DEF Next
<1> QED
  BY Invariance, <1>1, <1>2, PTL DEF Spec, ImplementsRegistrar, Registry!RSpec
=============================================================================
