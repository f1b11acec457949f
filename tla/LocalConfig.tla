---------------------------- MODULE LocalConfig ----------------------------
(***************************************************************************)
(* ConfReader and SipLocalConfig::ReadConf: the configuration file is read *)
(* key by key.  A file is a sequence of lines: section headers, key/value  *)
(* pairs and lines parse_file skips (comments, lines without a key).  A    *)
(* name is a sequence of letters and digits, a digit being a number below  *)
(* Base; Spelling gives the names the program looks for, cut where two of  *)
(* them part, so that a "letter" may be several characters.  Names are     *)
(* compared without case, so they are written in one case here.  A value   *)
(* is what readStr (text) and readInt (num, by atoi) make of it.           *)
(*                                                                         *)
(* readStr returns a buffer it never initialised when the key is missing:  *)
(* any text may come out.  A file that cannot be opened is an empty one.   *)
(***************************************************************************)
EXTENDS Integers, Sequences, SequencesExt

CONSTANTS Files,     \* the configuration files
          Spelling,  \* the letters of each section, key and field of a node
          Base,      \* base of the node numbers in key names: 10
          Garbage    \* what an uninitialised buffer may hold

Sections == {"localserver", "sipserver"}
Words == {"local_ip", "local_port", "sip_id", "sip_ip", "sip_port", "subnode_num"}
TextFields == {"id", "ip"}
NumFields == {"port", "poto", "auth"}
Fields == TextFields \cup NumFields         \* the keys of a node, without its number

ASSUME BaseAssumption == Base \in Nat /\ Base > 1

\* None of the program's names begins another one.
ASSUME SpellingAssumption ==
    /\ Spelling \in [Sections \cup Words \cup Fields -> Seq(Nat)]
    /\ \A s, t \in Sections : IsPrefix(Spelling[s], Spelling[t]) => s = t
    /\ \A v, w \in Words \cup Fields : IsPrefix(Spelling[v], Spelling[w]) => v = w

Sect(s) == [kind |-> "section", name |-> s]
Pair(k, v) == [kind |-> "pair", name |-> k, value |-> v]
Skipped == [kind |-> "skipped", name |-> <<>>]
Value(text, num) == [text |-> text, num |-> num]
Missing == Value("missing", -1)

\* Any name may be between brackets, none at all too; a line that begins with '='
\* has no key, and is skipped.
LineOK(l) ==
    CASE l.kind = "section" -> l.name \in Seq(Nat)
      [] l.kind = "pair"    -> /\ l.name \in Seq(Nat) /\ l.name # <<>>
                               /\ l.value.text \in STRING /\ l.value.num \in Int /\ l.value # Missing
      [] OTHER              -> l.kind = "skipped"

ASSUME GarbageAssumption == Garbage \subseteq STRING
ASSUME FilesAssumption ==
    \A f \in Files : Len(f) \in Nat /\ DOMAIN f = 1 .. Len(f) /\ \A j \in DOMAIN f : LineOK(f[j])

\* to_string(i), for the node numbers that occur here: two digits at most
Digits(i) == IF i < Base THEN <<i>> ELSE <<i \div Base, i % Base>>

-----------------------------------------------------------------------------
(* ConfReader::parse_file: strncasecmp over the length of the name in the file *)

SameNameReversed(inFile, wanted) == IsPrefix(wanted, inFile) \* mutant: length of the wanted key

SameName(inFile, wanted) == IsPrefix(inFile, wanted)

\* the line of the last section header up to line j, 0 if there is none
Header(f, j) == Max({0} \cup {i \in 1 .. j : f[i].kind = "section"})

SectionNone(f, j, section) == TRUE                           \* mutant: sections not told apart

\* the brackets may hold less than the section's name: `[]` opens every section
InSection(f, j, section) == Header(f, j) # 0 /\ IsPrefix(f[Header(f, j)].name, section)

Hits(f, section, key) ==
    {j \in DOMAIN f : f[j].kind = "pair" /\ InSection(f, j, section) /\ SameName(f[j].name, key)}

\* read_profile_string: the first hit, or "not find the key"
read_profile(f, section, key) ==
    IF Hits(f, section, key) = {} THEN Missing
    ELSE f[CHOOSE j \in Hits(f, section, key) : \A i \in Hits(f, section, key) : j <= i].value

readStr(f, section, key) ==
    LET v == read_profile(f, section, key) IN IF v = Missing THEN Garbage ELSE {v.text}
readInt(f, section, key) == read_profile(f, section, key).num

-----------------------------------------------------------------------------
(* SipLocalConfig::ReadConf, one step per key *)

\* the keys in the order in which they are read, and whether they are texts
Keys == << [section |-> "localserver", key |-> "local_ip", text |-> TRUE],
           [section |-> "localserver", key |-> "local_port", text |-> FALSE],
           [section |-> "sipserver", key |-> "sip_id", text |-> TRUE],
           [section |-> "sipserver", key |-> "sip_ip", text |-> TRUE],
           [section |-> "sipserver", key |-> "sip_port", text |-> FALSE] >>
SIP_SECTION == Spelling["sipserver"]

VARIABLES file,     \* the file, which nothing changes
          got,      \* the values of Keys read so far
          num,      \* the number of nodes, Unread before it is read
          nodes,    \* ubNodeInfoList
          ret       \* "reading", then what ReadConf returned: "ok" (0) or "error" (-1)

Unread == -2

readVars == <<file, got, num, nodes, ret>>

ReadInit == file \in Files /\ got = <<>> /\ num = Unread /\ nodes = <<>> /\ ret = "reading"

\* one of the mandatory keys: an empty text or a number that is not positive ends ReadConf
Accept(k, v) == IF k.text THEN v # "" ELSE v > 0

ReadKey ==
    /\ ret = "reading" /\ Len(got) < Len(Keys)
    /\ LET k == Keys[Len(got) + 1] IN
       \E v \in IF k.text THEN readStr(file, Spelling[k.section], Spelling[k.key])
                ELSE {readInt(file, Spelling[k.section], Spelling[k.key])} :
           /\ got' = Append(got, v)
           /\ ret' = IF Accept(k, v) THEN ret ELSE "error"
    /\ UNCHANGED <<file, num, nodes>>

ReadNum ==
    /\ ret = "reading" /\ Len(got) = Len(Keys) /\ num = Unread
    /\ num' = readInt(file, SIP_SECTION, Spelling["subnode_num"])
    /\ UNCHANGED <<file, got, nodes, ret>>

\* the five reads of node i; nothing is tested
NodeKey(field, i) == Spelling[field] \o Digits(i)

ReadNode ==
    LET i == Len(nodes) + 1 IN
    /\ ret = "reading" /\ num >= i
    /\ \E id \in readStr(file, SIP_SECTION, NodeKey("id", i)),
          ip \in readStr(file, SIP_SECTION, NodeKey("ip", i)) :
          nodes' = Append(nodes, [id |-> id, ip |-> ip,
                                  port |-> readInt(file, SIP_SECTION, NodeKey("port", i)),
                                  poto |-> readInt(file, SIP_SECTION, NodeKey("poto", i)),
                                  auth |-> readInt(file, SIP_SECTION, NodeKey("auth", i))])
    /\ UNCHANGED <<file, got, num, ret>>

Finish ==
    /\ ret = "reading" /\ num # Unread /\ num <= Len(nodes)
    /\ ret' = "ok"
    /\ UNCHANGED <<file, got, num, nodes>>

ReadNext == ReadKey \/ ReadNum \/ ReadNode \/ Finish

-----------------------------------------------------------------------------
(* Properties *)

\* No name in the file is cut short: one that begins a name of the program is
\* that name.  (The key of a node without its number is cut short, too.)
SpelledOut(f) ==
    \A j \in DOMAIN f :
        /\ f[j].kind = "section" /\ (\E s \in Sections : IsPrefix(f[j].name, Spelling[s]))
              => \E s \in Sections : f[j].name = Spelling[s]
        /\ f[j].kind = "pair" /\ (\E w \in Words \cup Fields : IsPrefix(f[j].name, Spelling[w]))
              => \E w \in Words : f[j].name = Spelling[w]

\* The reference: the first line in the section whose key is the one asked for.
Exact(section, key) ==
    {j \in DOMAIN file : /\ file[j].kind = "pair" /\ file[j].name = key
                         /\ Header(file, j) # 0 /\ file[Header(file, j)].name = section}
First(S) == file[CHOOSE j \in S : \A i \in S : j <= i].value

\* a number that is not there is -1, a text that is not there what the buffer held
Right(section, key, text, v) ==
    LET E == Exact(section, key)
    IN  IF text THEN v \in IF E = {} THEN Garbage ELSE {First(E).text}
        ELSE v = IF E = {} THEN -1 ELSE First(E).num

\* In a file whose names are spelled out, every mandatory key is read with its
\* own value, wherever its line stands, whichever other line is missing and
\* whatever other names the file has; one that is not there is not found.  A
\* configuration ReadConf accepts has every number it needs, and a positive one.
KeyRight(x) == Right(Spelling[Keys[x].section], Spelling[Keys[x].key], Keys[x].text, got[x])
NumbersPresent ==
    ret = "ok" => \A x \in DOMAIN Keys :
        ~Keys[x].text => Exact(Spelling[Keys[x].section], Spelling[Keys[x].key]) # {} /\ got[x] > 0
KeysFaithful == SpelledOut(file) => (\A x \in DOMAIN got : KeyRight(x)) /\ NumbersPresent

\* In such a file the nodes whose number has one digit are read with their own
\* values; and always as many nodes are read as subnode_num says.
NodeRight(i) ==
    \A f \in Fields : Right(SIP_SECTION, NodeKey(f, i), f \in TextFields, nodes[i][f])
NodesFaithful ==
    /\ SpelledOut(file) => \A i \in DOMAIN nodes : i < Base => NodeRight(i)
    /\ ret = "ok" => Len(nodes) = IF num > 0 THEN num ELSE 0

-----------------------------------------------------------------------------
(* What the code says of itself, and does not do *)

\* ConfReader.cpp:92, "not find the key": a key is found only if the file has it.
\* Every node is read with its own values, also the nodes with two digits.
EveryNodeFaithful == SpelledOut(file) => \A i \in DOMAIN nodes : NodeRight(i)
=============================================================================
