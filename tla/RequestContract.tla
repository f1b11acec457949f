--------------------------- MODULE RequestContract --------------------------
(***************************************************************************)
(* What pjsip_endpt_send_request promises its caller, and RegClient relies *)
(* on: a request it rejects may have been reported to the callback before  *)
(* it returns, and never is afterwards; a request it accepts is reported   *)
(* exactly once, and in the end it is.                                     *)
(***************************************************************************)
VARIABLES result,   \* of the latest call: "none" until it returns, "accepted" or "rejected"
          calls     \* how often the callback was called for it

vars == <<result, calls>>

Init == result = "none" /\ calls = 0

Accept == result = "none" /\ calls = 0 /\ result' = "accepted" /\ UNCHANGED calls
Reject == result = "none" /\ calls = 0 /\ result' = "rejected" /\ calls' \in {0, 1}
Tell   == result = "accepted" /\ calls = 0 /\ calls' = 1 /\ UNCHANGED result
Again  == /\ result = "rejected" \/ calls = 1
          /\ calls' = 0 /\ result' \in {"none", "accepted"}
RejectAgain == /\ result = "rejected" \/ calls = 1
               /\ result' = "rejected" /\ calls' \in {0, 1}

Next == Accept \/ Reject \/ Tell \/ Again \/ RejectAgain

Spec == Init /\ [][Next]_vars /\ WF_vars(Tell)
=============================================================================
