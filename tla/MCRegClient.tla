---- MODULE MCRegClient ----
(* Answers with and without an interval, the intervals 0, too short, usual and  *)
(* longer; 423 with and without Min-Expires; a challenge; a refusal.            *)
EXTENDS RegClient
MCConfigured == {4, None}
Ans(code, min, contact, exp) == [code |-> code, min |-> min, contact |-> contact, expires |-> exp]
MCAnswers == {Ans(200, None, None, None), Ans(200, None, 9, None), Ans(200, None, None, 2),
              Ans(200, None, None, 0), Ans(423, None, None, None), Ans(423, 5, None, None),
              Ans(423, 9, None, None), Ans(423, 0, None, None),
              Ans(202, None, 4, None), Ans(401, None, None, None), Ans(404, None, None, None)}
====
