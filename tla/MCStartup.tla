---- MODULE MCStartup ----
(* A file with three nodes in base 3, so that node 3 has two digits, and every *)
(* file that differs from it by a missing line, an emptied value, two lines    *)
(* exchanged, a key that occurs twice or a name that is cut short.             *)
EXTENDS Startup

\* the names of SipLocalConfig.cpp, cut where two of them part
s == Base
ip_ == Base + 1
local_ == Base + 2
i == Base + 3
d == Base + 4
p == Base + 5
ort == Base + 6
ubnode_ == Base + 7
num_ == Base + 8
o == Base + 9
rt == Base + 10
to == Base + 11
auth_ == Base + 12
local == Base + 13
server == Base + 14
MCSpelling ==
    [localserver |-> <<local, server>>,   sipserver |-> <<s, server>>,
     local_ip |-> <<local_, i, p>>,       local_port |-> <<local_, p, ort>>,
     sip_id |-> <<s, ip_, i, d>>,         sip_ip |-> <<s, ip_, i, p>>,
     sip_port |-> <<s, ip_, p, ort>>,     subnode_num |-> <<s, ubnode_, num_>>,
     id |-> <<s, ip_, s, ubnode_, i, d>>, ip |-> <<s, ip_, s, ubnode_, i, p>>,
     port |-> <<s, ip_, s, ubnode_, p, o, rt>>, poto |-> <<s, ip_, s, ubnode_, p, o, to>>,
     auth |-> <<s, ip_, s, ubnode_, auth_>>]

V(n) == Value("text" \o ToString(n), n)
Line(w, n) == Pair(Spelling[w], V(n))

NodeLines(k) ==
    << Pair(NodeKey("id", k), V(10 * k + 1)), Pair(NodeKey("ip", k), V(10 * k + 2)),
       Pair(NodeKey("port", k), V(10 * k + 3)), Pair(NodeKey("poto", k), V(10 * k + 4)),
       Pair(NodeKey("auth", k), V(10 * k + 5)) >>

Full ==
    << Sect(Spelling["localserver"]), Line("local_ip", 1), Line("local_port", 2), Skipped,
       Sect(Spelling["sipserver"]), Line("sip_id", 3), Line("sip_ip", 4),
       Line("sip_port", 5), Line("subnode_num", 3) >>
    \o NodeLines(1) \o NodeLines(2) \o NodeLines(3)

Pairs == {h \in DOMAIN Full : Full[h].kind = "pair"}

Altered ==
    {Full, <<>>} \cup {RemoveAt(Full, j) : j \in DOMAIN Full}
        \cup {[Full EXCEPT ![j] = Full[k], ![k] = Full[j]] : j, k \in DOMAIN Full}
        \cup {[Full EXCEPT ![j].value = Value("", 0)] : j \in {2, 3, 6, 7, 8, 9}}

\* one key a second time, with another value: before everything, in each section,
\* before, among and behind the nodes
Doubled ==
    {InsertAt(Full, j, Pair(Full[k].name, Value("other", 2))) : j \in {1, 2, 6, 10, 15, 24}, k \in Pairs}

\* the last letter of a name missing, or all of a section's name
Cut ==
    {[Full EXCEPT ![j].name = Front(@)] : j \in DOMAIN Full \ {4}}
        \cup {[Full EXCEPT ![j].name = <<>>] : j \in {1, 5}}

MCFiles == Altered \cup Doubled \cup Cut

MCGarbage == {"", "garbage"}
====
