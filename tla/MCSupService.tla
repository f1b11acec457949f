---- MODULE MCSupService ----
(* A configuration with a duplicated id, ids two characters wide, and requests *)
(* from listed, unlisted, longer and shorter senders, and from an unlisted one *)
(* whose display name puts the id of another where the code looks for it.      *)
EXTENDS SupService
A == <<1, 1>>
B == <<1, 2>>
C == <<2, 1>>
MCSubIds == <<A, B, A>>
Reg(user, exp) == [method |-> "REGISTER", name |-> <<>>, user |-> user, expires |-> exp]
MCRequests == {Reg(A, 60), Reg(A, 0), Reg(B, NULL), Reg(C, 60), Reg(<<1>>, 60),
               Reg(<<1, 2, 2>>, 30),
               [method |-> "REGISTER", name |-> <<2, 1, 1>>, user |-> C, expires |-> 60],
               [method |-> "OTHER", name |-> <<>>, user |-> A, expires |-> NULL]}
====
