------------------------------ MODULE Registrar -----------------------------
(***************************************************************************)
(* What SipSupService promises its devices, without threads, entries or    *)
(* locks.  The registry gives each known id the Expires value of the last  *)
(* REGISTER that took effect.  A REGISTER takes effect or is refused at    *)
(* one moment after it arrived, at most once, and is answered after that,  *)
(* with what happened to it; one that is given up gets no answer.          *)
(* SupService.tla implements this module.                                  *)
(***************************************************************************)
CONSTANTS Ids,          \* the known ids
          Deliveries,   \* requests are told apart by their delivery
          Asks,         \* what a request may ask: [register, id, value]
          OK, Refused,  \* the two answers
          Missing       \* no value, no answer, nothing asked

VARIABLES registry,   \* the value of each known id
          asked,      \* what a delivery asks
          status,     \* "new", "open", "recorded", "refused" or "closed"
          answer      \* the answer to it

rvars == <<registry, asked, status, answer>>

RInit ==
    /\ registry = [id \in Ids |-> 0]
    /\ asked = [d \in Deliveries |-> Missing]
    /\ status = [d \in Deliveries |-> "new"]
    /\ answer = [d \in Deliveries |-> Missing]

Move(d, from, to) == status[d] = from /\ status' = [status EXCEPT ![d] = to]

\* Only a REGISTER is handled, and only if there is room for it.
Arrive(d, a) ==
    /\ Move(d, "new", "closed") \/ (a.register /\ Move(d, "new", "open"))
    /\ asked' = [asked EXCEPT ![d] = a]
    /\ UNCHANGED <<registry, answer>>

TakeEffect(d) ==
    /\ Move(d, "open", "recorded")
    /\ asked[d].id \in Ids /\ asked[d].value # Missing
    /\ registry' = [registry EXCEPT ![asked[d].id] = asked[d].value]
    /\ UNCHANGED <<asked, answer>>

Refuse(d) ==
    /\ Move(d, "open", "refused")
    /\ asked[d].id \notin Ids
    /\ UNCHANGED <<registry, asked, answer>>

Answer(d) ==
    /\ \/ Move(d, "recorded", "closed") /\ answer' = [answer EXCEPT ![d] = OK]
       \/ Move(d, "refused", "closed") /\ answer' = [answer EXCEPT ![d] = Refused]
    /\ UNCHANGED <<registry, asked>>

GiveUp(d) ==
    /\ Move(d, "recorded", "closed") \/ Move(d, "refused", "closed")
    /\ UNCHANGED <<registry, asked, answer>>

RNext == \E d \in Deliveries :
            TakeEffect(d) \/ Refuse(d) \/ Answer(d) \/ GiveUp(d) \/ \E a \in Asks : Arrive(d, a)

RSpec == RInit /\ [][RNext]_rvars
=============================================================================
