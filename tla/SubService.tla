----------------------------- MODULE SubService -----------------------------
(***************************************************************************)
(* Registration in SipSubService, the lower platform.  The timer thread    *)
(* calls RegisterProc every few seconds; it walks supDomainInfoList and    *)
(* calls gbRegister for each upper platform that is not registered, which  *)
(* creates a PJSIP registration client (regc) and sends a REGISTER.  The   *)
(* outcome arrives on PJSIP's event thread in client_cb, which writes      *)
(* node.registered without the lock.  RegisterProc holds globalLock, which *)
(* no other thread of this program takes, so the lock is left out.         *)
(*                                                                         *)
(* A regc is taken by its contract (RegcContract, which RegClient shows it *)
(* to implement): every REGISTER that was sent gets an outcome, if need be *)
(* 408 after the timeout; after a 2xx the regc arms a timer and refreshes  *)
(* the registration by itself, unless the interval granted is 0; after any *)
(* other outcome, or when the refresh cannot be sent, it is idle.  Nothing *)
(* in the program destroys a regc after gbRegister returned, or uses it,   *)
(* so the name of an idle one is used again here.                          *)
(***************************************************************************)
EXTENDS Integers, Sequences

CONSTANTS Expires,    \* the expires of each entry of supDomainInfoList
          Slots,      \* names of the regcs of one entry: a bound on those in use at once
          Codes       \* status codes a REGISTER may end with

Nodes == DOMAIN Expires

ASSUME NodesAssumption == Expires \in Seq(Int) /\ Expires # <<>>
ASSUME CodesAssumption == 200 \in Codes /\ Codes \subseteq Nat

NoSlot == "no slot"
ASSUME SlotsAssumption == NoSlot \notin Slots

VARIABLES
    registered,   \* SupDomainInfo.registered, per entry
    at,           \* the entry RegisterProc has reached, 0 between two calls
    step,         \* the statement it has reached there
    cur,          \* gbRegister's local variable regc
    regc,         \* the state of each regc
    late          \* ghost: regcs created for an entry since it was registered

vars == <<registered, at, step, cur, regc, late>>

\* "none": never created, destroyed, or idle after a failure; "ended": idle after
\* a registration for 0 seconds
RegcState == {"none", "created", "inited", "ready", "sent", "active", "ended"}
Idle(n, k) == regc[n][k] \in {"none", "ended"}

Init ==
    /\ registered = [n \in Nodes |-> FALSE]
    /\ at = 0
    /\ step = "idle"
    /\ cur = NoSlot
    /\ regc = [n \in Nodes |-> [k \in Slots |-> "none"]]
    /\ late = [n \in Nodes |-> 0]

Set(n, k, s) == regc' = [regc EXCEPT ![n][k] = s]

-----------------------------------------------------------------------------
(* RegisterProc, called by the timer thread *)

\* the next entry of the list, or the end of RegisterProc
Advance ==
    /\ at' = IF at = Len(Expires) THEN 0 ELSE at + 1
    /\ step' = IF at = Len(Expires) THEN "idle" ELSE "check"
    /\ cur' = NoSlot

RegisterProc ==
    /\ at = 0
    /\ at' = 1 /\ step' = "check"
    /\ UNCHANGED <<registered, cur, regc, late>>

SkipRegistered ==
    /\ step = "check" /\ registered[at]
    /\ Advance
    /\ UNCHANGED <<registered, regc, late>>

\* mutant: registered is not looked at
StartAlways == step = "check" /\ step' = "create" /\ UNCHANGED <<registered, at, cur, regc, late>>

StartUnregistered ==
    /\ step = "check" /\ ~registered[at]
    /\ step' = "create"
    /\ UNCHANGED <<registered, at, cur, regc, late>>

-----------------------------------------------------------------------------
(* gbRegister for entry at: four PJSIP calls, each of which may fail *)

regc_create(k) ==
    /\ step = "create" /\ Idle(at, k)
    /\ Set(at, k, "created") /\ cur' = k /\ step' = "init"
    /\ late' = [late EXCEPT ![at] = IF registered[at] THEN @ + 1 ELSE @]
    /\ UNCHANGED <<registered, at>>

\* pjsip_regc_create fails: there is nothing to destroy
regc_create_fails ==
    /\ step = "create"
    /\ Advance
    /\ UNCHANGED <<registered, regc, late>>

\* pjsip_regc_init refuses an expires of 0
regc_init ==
    /\ step = "init" /\ Expires[at] # 0
    /\ Set(at, cur, "inited") /\ step' = "register"
    /\ UNCHANGED <<registered, at, cur, late>>

regc_register ==
    /\ step = "register"
    /\ Set(at, cur, "ready") /\ step' = "send"
    /\ UNCHANGED <<registered, at, cur, late>>

regc_send ==
    /\ step = "send"
    /\ Set(at, cur, "sent") /\ Advance
    /\ UNCHANGED <<registered, late>>

\* mutant: only a failed send destroys the regc
DestroyAfterSendOnly ==
    /\ step \in {"init", "register", "send"}
    /\ IF step = "send" THEN Set(at, cur, "none") ELSE UNCHANGED regc
    /\ Advance
    /\ UNCHANGED <<registered, late>>

\* mutant: RegisterProc stops where a call failed
DestroyAndStop ==
    /\ step \in {"init", "register", "send"}
    /\ Set(at, cur, "none") /\ step' = "stopped"
    /\ UNCHANGED <<registered, at, cur, late>>

\* pjsip_regc_init, _register or _send fails: pjsip_regc_destroy, return -1
DestroyOnError ==
    /\ step \in {"init", "register", "send"}
    /\ Set(at, cur, "none") /\ Advance
    /\ UNCHANGED <<registered, late>>

-----------------------------------------------------------------------------
(* client_cb, on PJSIP's event thread *)

client_cb(n, code) == IF code = 200 THEN [registered EXCEPT ![n] = TRUE] ELSE registered

\* a REGISTER ends with this code: its regc arms the refresh timer, or is idle
\* (schedule_registration does nothing when the interval granted is 0)
Outcome(n, k, code) ==
    /\ regc[n][k] = "sent"
    /\ \E s \in IF code \div 100 = 2 THEN {"active", "ended"} ELSE {"none"} : Set(n, k, s)
    /\ registered' = client_cb(n, code)
    /\ UNCHANGED <<at, step, cur, late>>

\* the refresh timer fires and the REGISTER is sent again
Refresh(n, k) ==
    /\ regc[n][k] = "active"
    /\ Set(n, k, "sent")
    /\ UNCHANGED <<registered, at, step, cur, late>>

\* the refresh cannot be sent: client_cb with code 400
RefreshFails(n, k) ==
    /\ regc[n][k] = "active"
    /\ Set(n, k, "none")
    /\ registered' = client_cb(n, 400)
    /\ UNCHANGED <<at, step, cur, late>>

-----------------------------------------------------------------------------
Timer ==
    \/ RegisterProc \/ SkipRegistered \/ StartUnregistered
    \/ regc_create_fails \/ regc_init \/ regc_register \/ regc_send \/ DestroyOnError
    \/ \E k \in Slots : regc_create(k)

Events(n, k) == Refresh(n, k) \/ RefreshFails(n, k) \/ \E code \in Codes : Outcome(n, k, code)

Next == Timer \/ \E n \in Nodes, k \in Slots : Events(n, k)

Spec == Init /\ [][Next]_vars

(***************************************************************************)
(* The timer thread and PJSIP's event thread run, and every transaction    *)
(* ends.  Nothing is assumed of the outcome: every call may always fail.   *)
(***************************************************************************)
FairSpec ==
    /\ Spec /\ WF_vars(Timer)
    /\ \A n \in Nodes, k \in Slots : WF_vars(Events(n, k))

\* The upper platform of entry n can be reached: of infinitely many attempts to
\* register, infinitely many come as far as each call and as a 200.
Reachable(n) ==
    /\ SF_vars(at = n /\ \E k \in Slots : regc_create(k))
    /\ SF_vars(regc_init /\ at = n) /\ SF_vars(regc_register /\ at = n)
    /\ SF_vars(regc_send /\ at = n)
    /\ \A k \in Slots : SF_vars(Outcome(n, k, 200))

-----------------------------------------------------------------------------
(* Properties *)

TypeOK ==
    /\ registered \in [Nodes -> BOOLEAN]
    /\ at \in Nodes \cup {0}
    /\ step \in {"idle", "check", "create", "init", "register", "send"}
    /\ (at = 0) = (step = "idle")
    /\ cur \in Slots \cup {NoSlot}
    /\ regc \in [Nodes -> [Slots -> RegcState]]
    /\ late \in [Nodes -> Nat]

\* gbRegister gives back on every error path what it created: a regc that was
\* not sent is the one the timer thread is working on now, in the state that
\* belongs to the statement it has reached.
Stage == [init |-> "created", register |-> "inited", send |-> "ready"]
NoRegcAbandoned ==
    \A n \in Nodes, k \in Slots :
        regc[n][k] \in {"created", "inited", "ready"} <=>
            /\ at = n /\ cur = k
            /\ step \in DOMAIN Stage /\ regc[n][k] = Stage[step]

\* client_cb may set registered after RegisterProc has read it and before
\* gbRegister creates the regc: a registered platform gets one REGISTER too
\* many from that race, and never a second one.
OneLateRegister == \A n \in Nodes : late[n] <= 1

\* As long as an entry is not registered RegisterProc comes back to it and
\* tries again, whatever calls failed for it or for its neighbours before.
KeepsTrying ==
    \A n \in Nodes : ~registered[n] ~> (registered[n] \/ (at = n /\ step = "create"))

\* If the platform of an entry can be reached and PJSIP accepts its expires, it
\* is registered, whatever happens to the other entries of the list.
EventuallyRegistered ==
    \A n \in Nodes : Expires[n] # 0 /\ Reachable(n) => <>registered[n]

\* notes/pjsip/GB28181注册_REGISTER_SipRegister.md:54: as long as it is not
\* registered it is tried again.  An entry whose last registration is gone (no
\* regc is refreshing it, none is under way) is tried again, if its platform can be
\* reached.
Lost(n) == \A k \in Slots : Idle(n, k)
RetriedWhenLost == \A n \in Nodes : Reachable(n) => (Lost(n) ~> ~Lost(n))
=============================================================================
