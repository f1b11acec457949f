---------------------------- MODULE RegcContract ----------------------------
(***************************************************************************)
(* What a registration client promises to gbRegister and to client_cb: a   *)
(* client that could not be used is given back; once its REGISTER is sent  *)
(* the client waits for one outcome; an accepted registration is refreshed *)
(* until a refresh fails or is refused; from then on the client is idle,   *)
(* and stays so.  SubService is written against these phases.              *)
(***************************************************************************)
VARIABLE phase    \* "none", "fresh", "sent", "active" or "idle"

Phases == {"none", "fresh", "sent", "active", "idle"}

Init == phase = "none"

Move(from, to) == phase = from /\ phase' = to

Create  == Move("none", "fresh")
GiveUp  == Move("fresh", "none")
Send    == Move("fresh", "sent")
Accept  == Move("sent", "active")
Refresh == Move("active", "sent")
Fail    == Move("sent", "idle") \/ Move("active", "idle")

Next == Create \/ GiveUp \/ Send \/ Accept \/ Refresh \/ Fail

Spec == Init /\ [][Next]_phase
=============================================================================
