---- MODULE MCSubService ----
(* Three upper platforms; the second has an expires PJSIP refuses. *)
EXTENDS SubService
MCExpires == <<60, 0, 3600>>
====
