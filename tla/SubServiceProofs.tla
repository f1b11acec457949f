-------------------------- MODULE SubServiceProofs --------------------------
(***************************************************************************)
(* For every list of upper platforms, every number of registration clients *)
(* in use at once and every set of answers: gbRegister gives back what it  *)
(* created, and the unlocked flag registered costs one REGISTER at most.   *)
(*                                                                         *)
(* OneLateRegister is not inductive by itself: a second late client would  *)
(* need RegisterProc to be past its test of the flag once more, and it     *)
(* passes the test only while the flag, which is never cleared, is not     *)
(* set.  LateOK says so.  NoRegcAbandoned needs to know that gbRegister's  *)
(* local variable is a client from create to send (CurOK).                 *)
(***************************************************************************)
EXTENDS SubService, TLAPS

\* gbRegister's local variable regc is a client exactly between create and send
CurOK == step \in {"init", "register", "send"} <=> cur \in Slots

\* RegisterProc goes past its test of an entry only while no client was created
\* late for it; such a client is created for a registered entry
LateOK ==
    \A n \in Nodes :
        /\ late[n] <= 1
        /\ late[n] # 0 => registered[n]
        /\ at = n /\ step = "create" => late[n] = 0

IInv == TypeOK /\ CurOK /\ NoRegcAbandoned /\ LateOK

LEMMA StageValues ==
    /\ DOMAIN Stage = {"init", "register", "send"}
    /\ Stage["init"] = "created" /\ Stage["register"] = "inited" /\ Stage["send"] = "ready"
BY DEF Stage

\* The entries are numbered from 1; 0 is none of them.
LEMMA NodesNumbered == Len(Expires) \in Nat \ {0} /\ Nodes = 1 .. Len(Expires)
BY NodesAssumption DEF Nodes

\* RegisterProc goes on to the next entry, or ends.
LEMMA AdvanceTo ==
    ASSUME at \in Nodes, Advance
    PROVE  /\ at' \in Nodes \cup {0} /\ (at' = 0) = (step' = "idle")
           /\ step' \in {"idle", "check"} /\ cur' = NoSlot
BY NodesNumbered DEF Advance

-----------------------------------------------------------------------------
LEMMA InitIInv == Init => IInv
BY SlotsAssumption, NodesNumbered, StageValues
   DEF Init, IInv, TypeOK, CurOK, NoRegcAbandoned, LateOK, RegcState

LEMMA NextTypeOK == IInv /\ [Next]_vars => TypeOK'
<1> SUFFICES ASSUME IInv, [Next]_vars PROVE TypeOK'
  OBVIOUS
<1> USE NodesNumbered, SlotsAssumption DEF IInv, TypeOK, CurOK, Set, RegcState
<1>1. CASE RegisterProc
  BY <1>1 DEF RegisterProc
<1>2. CASE SkipRegistered
  BY <1>2, AdvanceTo DEF SkipRegistered
<1>3. CASE StartUnregistered
  BY <1>3 DEF StartUnregistered
<1>4. CASE regc_create_fails
  BY <1>4, AdvanceTo DEF regc_create_fails
<1>5. CASE regc_init
  BY <1>5 DEF regc_init
<1>6. CASE regc_register
  BY <1>6 DEF regc_register
<1>7. CASE regc_send
  BY <1>7, AdvanceTo DEF regc_send
<1>8. CASE DestroyOnError
  BY <1>8, AdvanceTo DEF DestroyOnError
<1>9. ASSUME NEW k \in Slots, regc_create(k) PROVE TypeOK'
  BY <1>9 DEF regc_create
<1>10. ASSUME NEW n \in Nodes, NEW k \in Slots, Refresh(n, k) PROVE TypeOK'
  BY <1>10 DEF Refresh
<1>11. ASSUME NEW n \in Nodes, NEW k \in Slots, RefreshFails(n, k) PROVE TypeOK'
  BY <1>11 DEF RefreshFails, client_cb
<1>12. ASSUME NEW n \in Nodes, NEW k \in Slots, NEW code \in Codes, Outcome(n, k, code) PROVE TypeOK'
  BY <1>12 DEF Outcome, client_cb
<1>13. CASE UNCHANGED vars
  BY <1>13 DEF vars
<1> QED
  BY <1>1, <1>2, <1>3, <1>4, <1>5, <1>6, <1>7, <1>8, <1>9, <1>10, <1>11, <1>12, <1>13 DEF Next, Timer, Events

LEMMA NextCurOK == IInv /\ [Next]_vars => CurOK'
<1> SUFFICES ASSUME IInv, [Next]_vars PROVE CurOK'
  OBVIOUS
<1> USE NodesNumbered, SlotsAssumption DEF IInv, TypeOK, CurOK
<1>1. CASE RegisterProc
  BY <1>1 DEF RegisterProc
<1>2. CASE SkipRegistered
  BY <1>2, AdvanceTo DEF SkipRegistered
<1>3. CASE StartUnregistered
  BY <1>3 DEF StartUnregistered
<1>4. CASE regc_create_fails
  BY <1>4, AdvanceTo DEF regc_create_fails
<1>5. CASE regc_init
  BY <1>5 DEF regc_init
<1>6. CASE regc_register
  BY <1>6 DEF regc_register
<1>7. CASE regc_send
  BY <1>7, AdvanceTo DEF regc_send
<1>8. CASE DestroyOnError
  BY <1>8, AdvanceTo DEF DestroyOnError
<1>9. ASSUME NEW k \in Slots, regc_create(k) PROVE CurOK'
  BY <1>9 DEF regc_create
<1>10. ASSUME NEW n \in Nodes, NEW k \in Slots, Events(n, k) PROVE CurOK'
  BY <1>10 DEF Events, Refresh, RefreshFails, Outcome
<1>11. CASE UNCHANGED vars
  BY <1>11 DEF vars
<1> QED
  BY <1>1, <1>2, <1>3, <1>4, <1>5, <1>6, <1>7, <1>8, <1>9, <1>10, <1>11 DEF Next, Timer

-----------------------------------------------------------------------------
(* Every client that was not sent is the one in hand, whichever call failed. *)

LEMMA NextNoRegcAbandoned == IInv /\ [Next]_vars => NoRegcAbandoned'
<1> SUFFICES ASSUME IInv, [Next]_vars PROVE NoRegcAbandoned'
  OBVIOUS
<1> USE NodesNumbered, SlotsAssumption, StageValues
    DEF IInv, TypeOK, CurOK, NoRegcAbandoned, Set, RegcState
<1>1. CASE RegisterProc
  BY <1>1 DEF RegisterProc
<1>2. CASE SkipRegistered
  BY <1>2, AdvanceTo DEF SkipRegistered
<1>3. CASE StartUnregistered
  BY <1>3 DEF StartUnregistered
<1>4. CASE regc_create_fails
  BY <1>4, AdvanceTo DEF regc_create_fails
<1>5. CASE regc_init
  BY <1>5 DEF regc_init
<1>6. CASE regc_register
  BY <1>6 DEF regc_register
<1>7. CASE regc_send
  <2>1. at \in Nodes /\ cur \in Slots /\ regc' = [regc EXCEPT ![at][cur] = "sent"]
    BY <1>7 DEF regc_send
  <2>2. at' \in Nodes \cup {0} /\ step' \in {"idle", "check"} /\ cur' = NoSlot
    BY <1>7, <2>1, AdvanceTo DEF regc_send
  <2>3. \A n \in Nodes, k \in Slots : regc'[n][k] = IF n = at /\ k = cur THEN "sent" ELSE regc[n][k]
    BY <2>1
  <2> QED
    BY <1>7, <2>1, <2>2, <2>3 DEF regc_send
<1>8. CASE DestroyOnError
  BY <1>8, AdvanceTo DEF DestroyOnError
<1>9. ASSUME NEW k \in Slots, regc_create(k) PROVE NoRegcAbandoned'
  BY <1>9 DEF regc_create
<1>10. ASSUME NEW n \in Nodes, NEW k \in Slots, Refresh(n, k) PROVE NoRegcAbandoned'
  BY <1>10 DEF Refresh
<1>11. ASSUME NEW n \in Nodes, NEW k \in Slots, RefreshFails(n, k) PROVE NoRegcAbandoned'
  BY <1>11 DEF RefreshFails
<1>12. ASSUME NEW n \in Nodes, NEW k \in Slots, NEW code \in Codes, Outcome(n, k, code)
       PROVE  NoRegcAbandoned'
  BY <1>12 DEF Outcome
<1>13. CASE UNCHANGED vars
  BY <1>13 DEF vars
<1> QED
  BY <1>1, <1>2, <1>3, <1>4, <1>5, <1>6, <1>7, <1>8, <1>9, <1>10, <1>11, <1>12, <1>13 DEF Next, Timer, Events

-----------------------------------------------------------------------------
(* client_cb only ever sets registered, so the test guards all later clients. *)

LEMMA NextLateOK == IInv /\ [Next]_vars => LateOK'
<1> SUFFICES ASSUME IInv, [Next]_vars PROVE LateOK'
  OBVIOUS
<1> USE NodesNumbered DEF IInv, TypeOK, LateOK
<1>1. CASE RegisterProc
  BY <1>1 DEF RegisterProc
<1>2. CASE SkipRegistered
  BY <1>2, AdvanceTo DEF SkipRegistered
<1>3. CASE StartUnregistered
  BY <1>3 DEF StartUnregistered
<1>4. CASE regc_create_fails
  BY <1>4, AdvanceTo DEF regc_create_fails
<1>5. CASE regc_init \/ regc_register
  BY <1>5 DEF regc_init, regc_register
<1>6. CASE regc_send
  BY <1>6, AdvanceTo DEF regc_send
<1>7. CASE DestroyOnError
  BY <1>7, AdvanceTo DEF DestroyOnError
<1>8. ASSUME NEW k \in Slots, regc_create(k) PROVE LateOK'
  BY <1>8 DEF regc_create
<1>9. ASSUME NEW n \in Nodes, NEW k \in Slots, Events(n, k) PROVE LateOK'
  BY <1>9 DEF Events, Refresh, RefreshFails, Outcome, client_cb
<1>10. CASE UNCHANGED vars
  BY <1>10 DEF vars
<1> QED
  BY <1>1, <1>2, <1>3, <1>4, <1>5, <1>6, <1>7, <1>8, <1>9, <1>10 DEF Next, Timer

-----------------------------------------------------------------------------
\* The inductive invariant holds in every state of the two threads.
THEOREM Invariance == Spec => []IInv
<1>1. IInv /\ [Next]_vars => IInv'
  BY NextTypeOK, NextCurOK, NextNoRegcAbandoned, NextLateOK DEF IInv
<1> QED
  BY InitIInv, <1>1, PTL DEF Spec

\* Every variable keeps its type; RegisterProc is idle exactly between two calls.
THEOREM TypeCorrect == Spec => []TypeOK
BY Invariance, PTL DEF IInv

\* gbRegister destroys the client of a failed attempt on every error path, and
\* no other client is ever left half made.
THEOREM NothingAbandoned == Spec => []NoRegcAbandoned
BY Invariance, PTL DEF IInv

\* client_cb sets registered without the lock RegisterProc holds: an entry gets
\* one superfluous client at most from that race, however long the program runs.
THEOREM AtMostOneLate == Spec => []OneLateRegister
<1>1. IInv => OneLateRegister
  BY DEF IInv, LateOK, OneLateRegister
<1> QED
  BY Invariance, <1>1, PTL
=============================================================================
