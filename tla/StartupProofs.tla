--------------------------- MODULE StartupProofs ----------------------------
(***************************************************************************)
(* Reading the configuration (LocalConfig), and the start-up that reads it *)
(* (Startup).                                                              *)
(*                                                                         *)
(* For every configuration file whose names are spelled out, and every     *)
(* spelling in which none of the program's names begins another: the       *)
(* prefix comparison of parse_file finds the lines of a mandatory key, and *)
(* of a node with one digit, exactly; hence ReadConf reads their own       *)
(* values, whatever other names the file has.                              *)
(*                                                                         *)
(* KeysFaithful speaks of what ReadConf has returned, so it is inductive   *)
(* only with Progress, which says how far the reading has come: the nodes  *)
(* are read after the keys, and no more of them than subnode_num says.     *)
(*                                                                         *)
(* For every number of nodes and both services: no message is handled      *)
(* before the list of domains and the SIP stack are complete, and none at  *)
(* all when InitSip failed.  Sound speaks of the event thread, which main  *)
(* starts with its last call in InitSip; that nothing is missing then      *)
(* depends on the order of main's statements, which OrderOK states.        *)
(***************************************************************************)
EXTENDS Startup, SequenceTheorems, WellFoundedInduction, TLAPS

-----------------------------------------------------------------------------
(* First and last elements of sets of line numbers *)

\* A set of numbers that is not empty has a first element.
LEMMA HasFirst ==
    ASSUME NEW S, S \subseteq Nat, S # {}
    PROVE  \E j \in S : \A i \in S : j <= i
<1>1. PICK j \in S : \A i \in S : ~(<<i, j>> \in OpToRel(<, Nat))
  BY NatLessThanWellFounded, WFMin
<1>2. \A i \in S : ~(i < j)
  BY <1>1 DEF OpToRel
<1> QED
  BY <1>2

\* A set of numbers up to n that is not empty has a last element.
LEMMA HasLast ==
    ASSUME NEW n \in Nat, NEW S, S \subseteq 0 .. n, S # {}
    PROVE  \E j \in S : \A i \in S : i <= j
<1> DEFINE T == {t \in Nat : \E i \in S : t = n - i}
<1>1. PICK i \in S : TRUE
  OBVIOUS
<1>2. n - i \in T
  BY <1>1
<1>3. T \subseteq Nat /\ T # {}
  BY <1>2
<1>4. PICK t \in T : \A u \in T : t <= u
  <2> HIDE DEF T
  <2> QED
    BY <1>3, HasFirst
<1>5. PICK j \in S : t = n - j
  BY <1>4
<1>6. ASSUME NEW h \in S PROVE h <= j
  <2>1. n - h \in T
    BY <1>6
  <2>2. t <= n - h
    <3> HIDE DEF T
    <3> QED
      BY <2>1, <1>4
  <2> HIDE DEF T
  <2>3. h \in Int /\ j \in Int
    BY <1>6
  <2> QED
    BY <2>2, <2>3, <1>5
<1> QED
  BY <1>5, <1>6

-----------------------------------------------------------------------------
(* What the prefix comparison tells apart *)

\* A name begins another one if they agree as far as the first one goes.
LEMMA PrefixMeans ==
    ASSUME NEW a \in Seq(Nat), NEW b \in Seq(Nat)
    PROVE  IsPrefix(a, b) <=> Len(a) <= Len(b) /\ \A i \in 1 .. Len(a) : a[i] = b[i]
<1>1. CASE ~(Len(a) <= Len(b))
  BY <1>1 DEF IsPrefix
<1>2. CASE Len(a) <= Len(b)
  <2> DEFINE u == SubSeq(a, 1, Len(a))
             v == SubSeq(b, 1, Len(a))
  <2>1. /\ u \in Seq(Nat) /\ Len(u) = Len(a) /\ \A i \in 1 .. Len(a) : u[i] = a[i]
        /\ v \in Seq(Nat) /\ Len(v) = Len(a) /\ \A i \in 1 .. Len(a) : v[i] = b[i]
    BY <1>2
  <2>2. IsPrefix(a, b) <=> u = v
    BY <1>2 DEF IsPrefix
  <2> HIDE DEF u, v
  <2>3. u = v <=> \A i \in 1 .. Len(a) : u[i] = v[i]
    <3>1. Len(u) = Len(v) /\ (\A i \in 1 .. Len(u) : u[i] = v[i]) => u = v
      BY <2>1, SeqEqual
    <3> QED
      BY <2>1, <3>1
  <2>4. (\A i \in 1 .. Len(a) : u[i] = v[i]) <=> \A i \in 1 .. Len(a) : a[i] = b[i]
    BY <2>1
  <2>5. IsPrefix(a, b) <=> \A i \in 1 .. Len(a) : a[i] = b[i]
    BY <2>2, <2>3, <2>4
  <2> QED
    BY <1>2, <2>5
<1> QED
  BY <1>1, <1>2

\* Of two beginnings of one name, one begins the other.
LEMMA PrefixesCompare ==
    ASSUME NEW a \in Seq(Nat), NEW b \in Seq(Nat), NEW c \in Seq(Nat),
           IsPrefix(a, c), IsPrefix(b, c)
    PROVE  IsPrefix(a, b) \/ IsPrefix(b, a)
<1>1. CASE Len(a) <= Len(b)
  BY <1>1, PrefixMeans
<1>2. CASE Len(b) <= Len(a)
  BY <1>2, PrefixMeans
<1> QED
  BY <1>1, <1>2

\* A name that begins another of its own length is that name.
LEMMA PrefixOfSameLength ==
    ASSUME NEW a \in Seq(Nat), NEW b \in Seq(Nat), IsPrefix(a, b), Len(a) >= Len(b)
    PROVE  a = b
BY PrefixMeans

\* Every name begins itself.
LEMMA PrefixOfSelf == ASSUME NEW a \in Seq(Nat) PROVE IsPrefix(a, a)
BY PrefixMeans

\* The names of the program are sequences of letters.
LEMMA SpellingType ==
    /\ \A s \in Sections : Spelling[s] \in Seq(Nat)
    /\ \A w \in Words \cup Fields : Spelling[w] \in Seq(Nat)
BY SpellingAssumption

\* The header of a line is a section header before it, or there is none.
LEMMA HeaderType ==
    ASSUME NEW f \in Files, NEW j \in DOMAIN f, Header(f, j) # 0
    PROVE  /\ Header(f, j) \in DOMAIN f /\ f[Header(f, j)].kind = "section"
           /\ f[Header(f, j)].name \in Seq(Nat)
<1> DEFINE S == {0} \cup {i \in 1 .. j : f[i].kind = "section"}
<1>1. j \in Nat /\ 1 .. j \subseteq DOMAIN f /\ 0 \in S /\ S \subseteq 0 .. j
  BY FilesAssumption
<1>2. Header(f, j) \in S
  <2>1. \E i \in S : \A h \in S : i >= h
    <3>1. S # {}
      BY <1>1
    <3> HIDE DEF S
    <3>2. PICK i \in S : \A h \in S : h <= i
      BY <1>1, <3>1, HasLast
    <3>3. \A h \in S : h \in Int
      BY <1>1
    <3> QED
      BY <3>2, <3>3
  <2>2. Header(f, j) = CHOOSE i \in S : \A h \in S : i >= h
    BY DEF Header, Max
  <2> HIDE DEF S
  <2> QED
    BY <2>1, <2>2
<1>3. Header(f, j) \in 1 .. j /\ f[Header(f, j)].kind = "section"
  BY <1>2
<1> QED
  BY <1>1, <1>3, FilesAssumption DEF LineOK

\* In a file whose names are spelled out, a section is found by its whole name.
LEMMA SectionExact ==
    ASSUME NEW f \in Files, SpelledOut(f), NEW j \in DOMAIN f, NEW s \in Sections
    PROVE  InSection(f, j, Spelling[s]) <=> Header(f, j) # 0 /\ f[Header(f, j)].name = Spelling[s]
<1> SUFFICES ASSUME Header(f, j) # 0
             PROVE  IsPrefix(f[Header(f, j)].name, Spelling[s]) <=> f[Header(f, j)].name = Spelling[s]
  BY DEF InSection
<1>1. PICK h \in DOMAIN f : h = Header(f, j) /\ f[h].kind = "section" /\ f[h].name \in Seq(Nat)
  BY HeaderType
<1>2. ASSUME IsPrefix(f[h].name, Spelling[s]) PROVE f[h].name = Spelling[s]
  <2>1. PICK t \in Sections : f[h].name = Spelling[t]
    BY <1>1, <1>2 DEF SpelledOut
  <2> QED
    BY <1>2, <2>1, SpellingAssumption
<1>3. IsPrefix(Spelling[s], Spelling[s])
  BY SpellingType, PrefixOfSelf
<1> QED
  BY <1>1, <1>2, <1>3

\* The key of a pair is a name and not empty.
LEMMA PairName ==
    ASSUME NEW f \in Files, NEW j \in DOMAIN f, f[j].kind = "pair"
    PROVE  /\ f[j].name \in Seq(Nat) /\ f[j].name # <<>>
           /\ f[j].value.text \in STRING /\ f[j].value.num \in Int /\ f[j].value # Missing
BY FilesAssumption DEF LineOK

-----------------------------------------------------------------------------
(* The lines a key is found in *)

\* The lines that have exactly this key in exactly this section.
Lines(f, section, key) ==
    {j \in DOMAIN f : /\ f[j].kind = "pair" /\ f[j].name = key
                      /\ Header(f, j) # 0 /\ f[Header(f, j)].name = section}

\* Right of LocalConfig, for a file f.
FirstOf(f, S) == f[CHOOSE j \in S : \A i \in S : j <= i].value
RightIn(f, section, key, text, v) ==
    LET L == Lines(f, section, key)
    IN  IF text THEN v \in IF L = {} THEN Garbage ELSE {FirstOf(f, L).text}
        ELSE v = IF L = {} THEN -1 ELSE FirstOf(f, L).num

LEMMA ExactIsLines == ASSUME NEW s, NEW k PROVE Exact(s, k) = Lines(file, s, k)
BY DEF Exact, Lines

LEMMA RightIsRightIn ==
    ASSUME NEW s, NEW k, NEW t, NEW v PROVE Right(s, k, t, v) <=> RightIn(file, s, k, t, v)
BY ExactIsLines DEF Right, RightIn, First, FirstOf

\* A key without a number is found where it stands, and nowhere else.
LEMMA HitsOfWord ==
    ASSUME NEW f \in Files, SpelledOut(f), NEW s \in Sections, NEW w \in Words
    PROVE  Hits(f, Spelling[s], Spelling[w]) = Lines(f, Spelling[s], Spelling[w])
<1>1. ASSUME NEW j \in DOMAIN f, f[j].kind = "pair"
      PROVE  SameName(f[j].name, Spelling[w]) <=> f[j].name = Spelling[w]
  <2>1. IsPrefix(Spelling[w], Spelling[w])
    BY SpellingType, PrefixOfSelf
  <2>2. ASSUME IsPrefix(f[j].name, Spelling[w]) PROVE f[j].name = Spelling[w]
    <3>1. PICK v \in Words : f[j].name = Spelling[v]
      BY <1>1, <2>2 DEF SpelledOut
    <3> QED
      BY <2>2, <3>1, SpellingAssumption
  <2> QED
    BY <2>1, <2>2 DEF SameName
<1> QED
  BY <1>1, SectionExact DEF Hits, Lines

\* The key of a node whose number has one digit: the field's letters, and a digit.
LEMMA NodeKeyLetters ==
    ASSUME NEW w \in Fields, NEW i \in Nat, i < Base
    PROVE  /\ NodeKey(w, i) \in Seq(Nat) /\ Len(NodeKey(w, i)) = Len(Spelling[w]) + 1
           /\ IsPrefix(Spelling[w], NodeKey(w, i))
<1>1. Spelling[w] \in Seq(Nat) /\ <<i>> \in Seq(Nat) /\ Len(<<i>>) = 1
  BY SpellingType
<1>2. NodeKey(w, i) = Spelling[w] \o <<i>>
  BY DEF NodeKey, Digits
<1>3. PICK a, c : a = Spelling[w] /\ c = NodeKey(w, i)
  OBVIOUS
<1>4. /\ a \in Seq(Nat) /\ c \in Seq(Nat) /\ Len(c) = Len(a) + 1
      /\ \A h \in 1 .. Len(a) : c[h] = a[h]
  BY <1>1, <1>2, <1>3
<1>5. Len(a) <= Len(c) /\ \A h \in 1 .. Len(a) : a[h] = c[h]
  BY <1>4
<1>6. IsPrefix(a, c)
  BY <1>4, <1>5, PrefixMeans
<1> QED
  BY <1>3, <1>4, <1>6

\* It is found where it stands, and nowhere else: a line that begins it either
\* begins the field, which only a name of the program may, or has the digit too.
LEMMA HitsOfNode ==
    ASSUME NEW f \in Files, SpelledOut(f), NEW s \in Sections, NEW w \in Fields, NEW i \in Nat, i < Base
    PROVE  Hits(f, Spelling[s], NodeKey(w, i)) = Lines(f, Spelling[s], NodeKey(w, i))
<1>1. /\ NodeKey(w, i) \in Seq(Nat) /\ Len(NodeKey(w, i)) = Len(Spelling[w]) + 1
      /\ IsPrefix(Spelling[w], NodeKey(w, i)) /\ Spelling[w] \in Seq(Nat)
  BY NodeKeyLetters, SpellingType
<1>2. ASSUME NEW j \in DOMAIN f, f[j].kind = "pair"
      PROVE  SameName(f[j].name, NodeKey(w, i)) <=> f[j].name = NodeKey(w, i)
  <2>1. IsPrefix(NodeKey(w, i), NodeKey(w, i))
    BY <1>1, PrefixOfSelf
  <2>2. f[j].name \in Seq(Nat)
    BY <1>2, PairName
  <2>3. ASSUME IsPrefix(f[j].name, NodeKey(w, i)) PROVE f[j].name = NodeKey(w, i)
    <3>1. ~IsPrefix(f[j].name, Spelling[w])
      <4> SUFFICES ASSUME IsPrefix(f[j].name, Spelling[w]) PROVE FALSE
        OBVIOUS
      <4>1. PICK v \in Words : f[j].name = Spelling[v]
        BY <1>2 DEF SpelledOut
      <4>2. v = w
        BY <4>1, SpellingAssumption
      <4> QED
        BY <4>2 DEF Words, Fields, TextFields, NumFields
    <3>2. IsPrefix(Spelling[w], f[j].name)
      BY <1>1, <2>2, <2>3, <3>1, PrefixesCompare
    <3>3. Len(f[j].name) # Len(Spelling[w])
      <4> SUFFICES ASSUME Len(f[j].name) = Len(Spelling[w]) PROVE FALSE
        OBVIOUS
      <4>1. f[j].name = Spelling[w]
        BY <1>1, <2>2, <3>2, PrefixOfSameLength
      <4> QED
        BY <1>1, <3>1, <4>1, PrefixOfSelf
    <3>4. Len(f[j].name) >= Len(NodeKey(w, i))
      BY <1>1, <2>2, <3>2, <3>3, PrefixMeans
    <3> QED
      BY <1>1, <2>2, <2>3, <3>4, PrefixOfSameLength
  <2> QED
    BY <2>1, <2>3 DEF SameName
<1> QED
  BY <1>2, SectionExact DEF Hits, Lines

\* What is read is the first hit; of a text nobody wrote, any garbage comes out.
LEMMA ReadType ==
    ASSUME NEW f \in Files, NEW s, NEW k
    PROVE  readInt(f, s, k) \in Int /\ readStr(f, s, k) \subseteq STRING
<1> DEFINE H == Hits(f, s, k)
           j == CHOOSE h \in H : \A i \in H : h <= i
<1>1. CASE H = {}
  BY <1>1, GarbageAssumption DEF readInt, readStr, read_profile, Missing, Value
<1>2. CASE H # {}
  <2>1. H \subseteq Nat /\ \A h \in H : h \in DOMAIN f /\ f[h].kind = "pair"
    BY FilesAssumption DEF Hits
  <2>2. j \in H
    <3>1. \E h \in H : \A i \in H : h <= i
      <4> HIDE DEF H
      <4> QED
        BY <1>2, <2>1, HasFirst
    <3> QED
      BY <3>1
  <2>3. f[j].value.num \in Int /\ f[j].value.text \in STRING
    <3> HIDE DEF H, j
    <3> QED
      BY <2>1, <2>2, PairName
  <2>4. read_profile(f, s, k) = f[j].value
    BY <1>2 DEF read_profile
  <2> HIDE DEF H, j
  <2> QED
    BY <2>3, <2>4, GarbageAssumption DEF readInt, readStr
<1> QED
  BY <1>1, <1>2

\* A key that is found only where it stands is read with its own value, or is
\* not found.
LEMMA ReadRight ==
    ASSUME NEW f \in Files, NEW s, NEW k, Hits(f, s, k) = Lines(f, s, k)
    PROVE  /\ \A v \in readStr(f, s, k) : RightIn(f, s, k, TRUE, v)
           /\ RightIn(f, s, k, FALSE, readInt(f, s, k))
           /\ Lines(f, s, k) = {} => readInt(f, s, k) = -1
<1> DEFINE E == Lines(f, s, k)
           j == CHOOSE h \in E : \A i \in E : h <= i
<1>1. E = Hits(f, s, k)
  OBVIOUS
<1>2. CASE E = {}
  BY <1>1, <1>2 DEF RightIn, readInt, readStr, read_profile, Missing, Value
<1>3. CASE E # {}
  <2>1. E \subseteq Nat /\ \A h \in E : h \in DOMAIN f /\ f[h].kind = "pair"
    BY FilesAssumption DEF Lines
  <2>2. j \in E
    <3>1. \E h \in E : \A i \in E : h <= i
      <4> HIDE DEF E
      <4> QED
        BY <1>3, <2>1, HasFirst
    <3> QED
      BY <3>1
  <2>3. f[j].value # Missing
    <3> HIDE DEF E, j
    <3> QED
      BY <2>1, <2>2, PairName
  <2>4. read_profile(f, s, k) = f[j].value /\ FirstOf(f, E) = f[j].value
    BY <1>1, <1>3 DEF read_profile, FirstOf
  <2> HIDE DEF j
  <2> QED
    BY <1>3, <2>3, <2>4 DEF readInt, readStr, RightIn
<1> QED
  BY <1>2, <1>3

-----------------------------------------------------------------------------
(* The invariant *)

Node == [id : STRING, ip : STRING, port : Int, poto : Int, auth : Int]

ReadTypeOK ==
    /\ file \in Files
    /\ got \in Seq(STRING \cup Int)
    /\ num \in Int
    /\ nodes \in Seq(Node)

\* How far the reading has come.
Progress ==
    /\ Len(got) <= Len(Keys)
    /\ num # Unread => Len(got) = Len(Keys)
    /\ nodes # <<>> => Len(nodes) <= num
    /\ ret = "ok" => num # Unread /\ num <= Len(nodes)

\* The value of key x of Keys is its own.
KeyOwn(x) == RightIn(file, Spelling[Keys[x].section], Spelling[Keys[x].key], Keys[x].text, got[x])

\* Unless ReadConf has failed, the numbers read so far are in the file, and positive.
NumberThere(x) == ~Keys[x].text => Lines(file, Spelling[Keys[x].section], Spelling[Keys[x].key]) # {} /\ got[x] > 0

KeysOK == SpelledOut(file) => \A x \in DOMAIN got : KeyOwn(x) /\ (ret # "error" => NumberThere(x))

\* The values of node i are its own.
NodeOwn(i) ==
    \A w \in Fields : RightIn(file, SIP_SECTION, NodeKey(w, i), w \in TextFields, nodes[i][w])

NodesOK == SpelledOut(file) => \A i \in DOMAIN nodes : i < Base => NodeOwn(i)

ReadInv == ReadTypeOK /\ Progress /\ KeysOK /\ NodesOK

\* What the table of keys holds.
LEMMA KeysTable ==
    /\ Len(Keys) = 5 /\ DOMAIN Keys = 1 .. 5
    /\ \A x \in 1 .. 5 : Keys[x].text \in BOOLEAN /\ Keys[x].section \in Sections /\ Keys[x].key \in Words
<1> DEFINE P(x) == Keys[x].text \in BOOLEAN /\ Keys[x].section \in Sections /\ Keys[x].key \in Words
<1>1. P(1) /\ P(2)
  BY DEF Keys, Sections, Words
<1>2. P(3) /\ P(4) /\ P(5)
  BY DEF Keys, Sections, Words
<1>3. Len(Keys) = 5 /\ DOMAIN Keys = 1 .. 5
  BY DEF Keys
<1>4. \A x \in 1 .. 5 : x = 1 \/ x = 2 \/ x = 3 \/ x = 4 \/ x = 5
  OBVIOUS
<1> HIDE DEF P
<1>5. \A x \in 1 .. 5 : P(x)
  BY <1>1, <1>2, <1>4
<1> QED
  BY <1>3, <1>5 DEF P

LEMMA InitOK == ReadInit => ReadInv
<1> SUFFICES ASSUME ReadInit PROVE ReadInv
  OBVIOUS
<1>1. ReadTypeOK
  BY DEF ReadInit, ReadTypeOK, Unread
<1>2. Progress
  BY KeysTable DEF ReadInit, Progress, Unread
<1>3. KeysOK /\ NodesOK
  BY DEF ReadInit, KeysOK, NodesOK
<1> QED
  BY <1>1, <1>2, <1>3 DEF ReadInv

\* The properties only look at the file and at the value in question.
LEMMA ReadKeyOK == ReadInv /\ ReadKey => ReadInv'
<1> SUFFICES ASSUME ReadInv, ReadKey PROVE ReadInv'
  OBVIOUS
<1>0. PICK x : x = Len(got) + 1
  OBVIOUS
<1> DEFINE k == Keys[x]
<1>1. /\ got \in Seq(STRING \cup Int) /\ x \in 1 .. 5 /\ ret = "reading"
      /\ UNCHANGED <<file, num, nodes>> /\ file \in Files
  BY <1>0, KeysTable DEF ReadInv, ReadTypeOK, ReadKey
<1>2. PICK v : /\ v \in IF k.text THEN readStr(file, Spelling[k.section], Spelling[k.key])
                        ELSE {readInt(file, Spelling[k.section], Spelling[k.key])}
               /\ got' = Append(got, v)
               /\ ret' = IF Accept(k, v) THEN ret ELSE "error"
  BY <1>0 DEF ReadKey
<1>3. k.section \in Sections /\ k.key \in Words
  BY <1>1, KeysTable
<1>4. k.text \in BOOLEAN
  BY <1>1, KeysTable
<1>5. SpelledOut(file) => Hits(file, Spelling[k.section], Spelling[k.key]) = Lines(file, Spelling[k.section], Spelling[k.key])
  BY <1>1, <1>3, HitsOfWord
<1>6. v \in STRING \cup Int
  <2> HIDE DEF k
  <2>1. readStr(file, Spelling[k.section], Spelling[k.key]) \subseteq STRING /\ readInt(file, Spelling[k.section], Spelling[k.key]) \in Int
    BY <1>1, ReadType
  <2> QED
    BY <1>2, <2>1
<1>7. /\ got' \in Seq(STRING \cup Int) /\ Len(got') = x /\ got'[x] = v
      /\ \A y \in DOMAIN got : y \in DOMAIN got' /\ got'[y] = got[y] /\ y # x
      /\ DOMAIN got' = DOMAIN got \cup {x}
  BY <1>0, <1>1, <1>2, <1>6
<1>8. ASSUME SpelledOut(file)
      PROVE  /\ RightIn(file, Spelling[k.section], Spelling[k.key], k.text, v)
             /\ Accept(k, v) /\ ~k.text => Lines(file, Spelling[k.section], Spelling[k.key]) # {} /\ v > 0
  <2> HIDE DEF k
  <2>1. CASE k.text = TRUE
    BY <2>1, <1>1, <1>2, <1>5, <1>8, ReadRight
  <2>2. CASE k.text = FALSE
    <3>1. v = readInt(file, Spelling[k.section], Spelling[k.key])
      BY <2>2, <1>2
    <3>2. /\ RightIn(file, Spelling[k.section], Spelling[k.key], FALSE, v)
          /\ Lines(file, Spelling[k.section], Spelling[k.key]) = {} => v = -1
      BY <3>1, <1>1, <1>5, <1>8, ReadRight
    <3>3. Accept(k, v) => v > 0
      BY <2>2 DEF Accept
    <3>4. Accept(k, v) => Lines(file, Spelling[k.section], Spelling[k.key]) # {}
      BY <3>2, <3>3
    <3>5. RightIn(file, Spelling[k.section], Spelling[k.key], k.text, v)
      BY <2>2, <3>2 DEF RightIn
    <3> QED
      BY <3>3, <3>4, <3>5
  <2> QED
    BY <1>4, <2>1, <2>2
<1>9. ASSUME SpelledOut(file), NEW y \in DOMAIN got PROVE KeyOwn(y)' /\ (ret' # "error" => NumberThere(y)')
  <2>1. KeyOwn(y) /\ NumberThere(y) /\ got'[y] = got[y] /\ UNCHANGED file
    BY <1>1, <1>7, <1>9 DEF ReadInv, KeysOK
  <2> QED
    BY <2>1 DEF KeyOwn, NumberThere
<1>10. SpelledOut(file) => KeyOwn(x)' /\ (ret' # "error" => NumberThere(x)')
  BY <1>1, <1>2, <1>7, <1>8 DEF KeyOwn, NumberThere
<1>11. KeysOK'
  BY <1>1, <1>7, <1>9, <1>10 DEF KeysOK
<1>12. ReadTypeOK'
  BY <1>1, <1>7 DEF ReadInv, ReadTypeOK
<1>13. NodesOK'
  BY <1>1 DEF ReadInv, NodesOK, NodeOwn
<1>14. Progress'
  <2>1. ret' # "ok" /\ Len(got) # Len(Keys)
    BY <1>0, <1>1, <1>2, KeysTable DEF ReadInv, Progress, ReadTypeOK
  <2> QED
    BY <1>1, <1>7, <2>1, KeysTable DEF ReadInv, Progress
<1> QED
  BY <1>11, <1>12, <1>13, <1>14 DEF ReadInv

\* Nothing but the file and the keys read so far is looked at.
LEMMA KeysKept == KeysOK /\ UNCHANGED <<file, got>> /\ (ret' # "error" => ret # "error") => KeysOK'
BY DEF KeysOK, KeyOwn, NumberThere

LEMMA NodesKept == NodesOK /\ UNCHANGED <<file, nodes>> => NodesOK'
BY DEF NodesOK, NodeOwn

LEMMA ReadNumOK == ReadInv /\ ReadNum => ReadInv'
<1> SUFFICES ASSUME ReadInv, ReadNum PROVE ReadInv'
  OBVIOUS
<1>1. ReadTypeOK'
  BY ReadType DEF ReadInv, ReadTypeOK, ReadNum
<1>2. KeysOK' /\ NodesOK'
  BY KeysKept, NodesKept DEF ReadInv, ReadNum
<1>3. nodes = <<>>
  BY DEF ReadInv, ReadTypeOK, Progress, ReadNum, Unread
<1>4. Progress'
  BY <1>3 DEF ReadInv, Progress, ReadNum
<1> QED
  BY <1>1, <1>2, <1>4 DEF ReadInv

LEMMA FinishOK == ReadInv /\ Finish => ReadInv'
<1> SUFFICES ASSUME ReadInv, Finish PROVE ReadInv'
  OBVIOUS
<1>1. ReadTypeOK'
  BY DEF ReadInv, ReadTypeOK, Finish
<1>2. KeysOK' /\ NodesOK'
  BY KeysKept, NodesKept DEF ReadInv, Finish
<1>3. Progress'
  BY DEF ReadInv, Progress, Finish
<1> QED
  BY <1>1, <1>2, <1>3 DEF ReadInv

LEMMA ReadNodeOK == ReadInv /\ ReadNode => ReadInv'
<1> SUFFICES ASSUME ReadInv, ReadNode PROVE ReadInv'
  OBVIOUS
<1>0. PICK i : i = Len(nodes) + 1
  OBVIOUS
<1> DEFINE Str(w) == readStr(file, SIP_SECTION, NodeKey(w, i))
           Num(w) == readInt(file, SIP_SECTION, NodeKey(w, i))
<1>1. PICK id \in Str("id"), ip \in Str("ip") :
         nodes' = Append(nodes, [id |-> id, ip |-> ip, port |-> Num("port"),
                                 poto |-> Num("poto"), auth |-> Num("auth")])
  BY <1>0 DEF ReadNode
<1> DEFINE n == [id |-> id, ip |-> ip, port |-> Num("port"), poto |-> Num("poto"), auth |-> Num("auth")]
<1>2. /\ nodes \in Seq(Node) /\ file \in Files /\ num \in Int /\ num >= i
      /\ UNCHANGED <<file, got, num, ret>> /\ ret = "reading" /\ i \in Nat
  BY <1>0 DEF ReadInv, ReadTypeOK, ReadNode
<1>3. n \in Node
  BY <1>1, <1>2, ReadType DEF Node
<1>4. /\ nodes' \in Seq(Node) /\ Len(nodes') = i /\ nodes'[i] = n
      /\ DOMAIN nodes' = DOMAIN nodes \cup {i}
      /\ \A h \in DOMAIN nodes : nodes'[h] = nodes[h]
  <2> HIDE DEF n
  <2>1. nodes' = Append(nodes, n)
    BY <1>1 DEF n
  <2> QED
    BY <1>0, <1>2, <1>3, <2>1
<1>5. ASSUME SpelledOut(file), NEW h \in DOMAIN nodes, h < Base PROVE NodeOwn(h)'
  <2>1. NodeOwn(h) /\ nodes'[h] = nodes[h] /\ UNCHANGED file
    BY <1>2, <1>4, <1>5 DEF ReadInv, NodesOK
  <2> QED
    BY <2>1 DEF NodeOwn
<1>6. ASSUME SpelledOut(file), i < Base PROVE NodeOwn(i)'
  <2>1. ASSUME NEW w \in Fields
        PROVE  Hits(file, SIP_SECTION, NodeKey(w, i)) = Lines(file, SIP_SECTION, NodeKey(w, i))
    BY <1>2, <1>6, HitsOfNode DEF SIP_SECTION, Sections
  <2>2. ASSUME NEW w \in Fields
        PROVE  /\ \A v \in Str(w) : RightIn(file, SIP_SECTION, NodeKey(w, i), TRUE, v)
               /\ RightIn(file, SIP_SECTION, NodeKey(w, i), FALSE, Num(w))
    BY <1>2, <2>1, ReadRight
  <2> HIDE DEF Str, Num
  <2>3. ASSUME NEW w \in Fields PROVE RightIn(file, SIP_SECTION, NodeKey(w, i), w \in TextFields, n[w])
    <3>1. CASE w \in TextFields
      <4>1. w = "id" \/ w = "ip"
        BY <3>1 DEF TextFields
      <4>2. n[w] \in Str(w)
        BY <1>1, <4>1
      <4> HIDE DEF n
      <4> QED
        BY <2>2, <2>3, <3>1, <4>2 DEF RightIn
    <3>2. CASE w \notin TextFields
      <4>1. w = "port" \/ w = "poto" \/ w = "auth"
        BY <3>2, <2>3 DEF Fields, NumFields
      <4>2. n[w] = Num(w)
        BY <4>1
      <4> HIDE DEF n
      <4> QED
        BY <2>2, <2>3, <3>2, <4>2 DEF RightIn
    <3> QED
      BY <3>1, <3>2
  <2> HIDE DEF n
  <2> QED
    BY <1>2, <1>4, <2>3 DEF NodeOwn
<1>7. NodesOK'
  BY <1>2, <1>4, <1>5, <1>6 DEF NodesOK
<1>8. ReadTypeOK'
  BY <1>2, <1>4 DEF ReadInv, ReadTypeOK
<1>9. KeysOK'
  BY <1>2, KeysKept DEF ReadInv
<1>10. Progress'
  BY <1>2, <1>4 DEF ReadInv, Progress
<1> QED
  BY <1>7, <1>8, <1>9, <1>10 DEF ReadInv

\* A step that reads nothing leaves all of it.
LEMMA ReadKept == ReadInv /\ UNCHANGED readVars => ReadInv'
<1> SUFFICES ASSUME ReadInv, UNCHANGED readVars PROVE ReadInv'
  OBVIOUS
<1>1. KeysOK' /\ NodesOK'
  BY KeysKept, NodesKept DEF ReadInv, readVars
<1> QED
  BY <1>1 DEF ReadInv, ReadTypeOK, Progress, readVars

LEMMA ReadNextOK == ReadInv /\ ReadNext => ReadInv'
BY ReadKeyOK, ReadNumOK, ReadNodeOK, FinishOK DEF ReadNext

-----------------------------------------------------------------------------
(* Start-up *)

\* What main has done before each of its statements.
OrderOK ==
    /\ main = "readconf" => copied = 0
    /\ main \in {"readconf", "copy"} => done = 0 /\ event = "none"
    /\ main \in {"readconf", "copy", "initsip"} => bret = "none" /\ status = "success"
    /\ main \notin {"readconf", "copy", "exited"} => copied = Len(nodes)
    /\ main \notin {"readconf", "exited"} => ret = "ok"
    /\ event # "none" => copied = Len(nodes) /\ ret = "ok"
    /\ handled # NotYet => event # "none"

IInv == ReadInv /\ Sound /\ OrderOK

LEMMA LastCallStartsThread ==
    /\ Len(InitCalls) = 10
    /\ \A d \in 0 .. 9 : InitCalls[d + 1] = "thread_create" <=> d = 9
BY DEF InitCalls

LEMMA InitIInv == Init => IInv
<1> SUFFICES ASSUME Init PROVE IInv
  OBVIOUS
<1>1. ReadInv
  BY InitOK DEF Init
<1>2. Sound /\ OrderOK
  BY LastCallStartsThread
     DEF Init, ReadInit, Sound, TypeOK, ServedWhenComplete, FailedInitServesNobody, OrderOK, NotYet
<1> QED
  BY <1>1, <1>2 DEF IInv

\* The rest of start-up only looks at the number of nodes, and whether they are all read.
LEMMA NextStarted == Sound /\ OrderOK /\ Len(nodes) \in Nat /\ Len(nodes') \in Nat /\ [Next]_vars => (Sound /\ OrderOK)'
<1> SUFFICES ASSUME Sound, OrderOK, Len(nodes) \in Nat, Len(nodes') \in Nat, [Next]_vars PROVE (Sound /\ OrderOK)'
  OBVIOUS
<1> USE LastCallStartsThread
    DEF Sound, TypeOK, ServedWhenComplete, FailedInitServesNobody, OrderOK, NotYet, Exit, Killed, readVars
<1>1. CASE ReadConf
  BY <1>1 DEF ReadConf, progress
<1>2. CASE ReadConfReturns
  BY <1>2 DEF ReadConfReturns
<1>3. CASE ReadConfFails
  BY <1>3 DEF ReadConfFails
<1>4. CASE CopyNode
  BY <1>4 DEF CopyNode
<1>5. CASE CallInitSip
  BY <1>5 DEF CallInitSip
<1>6. CASE InitReturns
  BY <1>6 DEF InitReturns
<1>7. CASE CreateFunc
  BY <1>7 DEF CreateFunc
<1>8. CASE CreateFuncFails
  BY <1>8 DEF CreateFuncFails
<1>9. CASE registerServiceStart
  BY <1>9 DEF registerServiceStart
<1>10. CASE InitCall
  BY <1>10 DEF InitCall
<1>11. CASE InitCallFails
  BY <1>11 DEF InitCallFails
<1>12. CASE InitSipReturns
  BY <1>12 DEF InitSipReturns
<1>13. CASE handle_events
  BY <1>13 DEF handle_events
<1>14. CASE handle_events_fails
  BY <1>14 DEF handle_events_fails
<1>15. CASE UNCHANGED vars
  BY <1>15 DEF vars, progress
<1> QED
  BY <1>1, <1>2, <1>3, <1>4, <1>5, <1>6, <1>7, <1>8, <1>9, <1>10, <1>11, <1>12, <1>13, <1>14, <1>15
  DEF Next, Main

LEMMA NextIInv == IInv /\ [Next]_vars => IInv'
<1> SUFFICES ASSUME IInv, [Next]_vars PROVE IInv'
  OBVIOUS
<1>1. (ReadNext \/ UNCHANGED readVars)
  BY DEF Next, Main, ReadConf, ReadConfReturns, ReadConfFails, CopyNode, CallInitSip, InitReturns,
         CreateFunc, CreateFuncFails, registerServiceStart, InitCall, InitCallFails,
         InitSipReturns, handle_events, handle_events_fails, vars, readVars
<1>2. ReadInv'
  BY <1>1, ReadNextOK, ReadKept DEF IInv
<1>3. Len(nodes) \in Nat /\ Len(nodes') \in Nat
  BY <1>2 DEF IInv, ReadInv, ReadTypeOK
<1> QED
  BY <1>2, <1>3, NextStarted DEF IInv

-----------------------------------------------------------------------------
\* The inductive invariant holds in every state of start-up, whatever file is read.
THEOREM Invariance == Spec => []IInv
BY InitIInv, NextIInv, PTL DEF Spec

\* In a file whose names are spelled out, every mandatory key is read with its own
\* value by read_profile_string, although it compares beginnings only, and is not
\* found if it is not there; such a file that ReadConf accepts has every number it
\* needs, and a positive one.
THEOREM KeysReadFaithfully == Spec => []KeysFaithful
<1>1. IInv => KeysFaithful
  <2> SUFFICES ASSUME ReadInv, SpelledOut(file) PROVE (\A x \in DOMAIN got : KeyRight(x)) /\ NumbersPresent
    BY DEF IInv, KeysFaithful
  <2>1. \A x \in DOMAIN got : KeyOwn(x)
    BY DEF ReadInv, KeysOK
  <2>2. ASSUME ret = "ok" PROVE DOMAIN got = DOMAIN Keys
    BY <2>2, KeysTable DEF ReadInv, ReadTypeOK, Progress
  <2>3. NumbersPresent
    BY <2>2, ExactIsLines DEF ReadInv, KeysOK, NumberThere, NumbersPresent
  <2> QED
    BY <2>1, <2>3, RightIsRightIn DEF KeyRight, KeyOwn
<1> QED
  BY Invariance, <1>1, PTL

\* In such a file every node whose number has one digit is read with its own
\* values; and ReadConf always returns as many nodes as subnode_num says.
THEOREM NodesReadFaithfully == Spec => []NodesFaithful
<1>1. IInv => NodesFaithful
  <2> SUFFICES ASSUME ReadInv PROVE NodesFaithful
    BY DEF IInv
  <2>1. ASSUME ret = "ok" PROVE Len(nodes) = IF num > 0 THEN num ELSE 0
    BY <2>1 DEF ReadInv, ReadTypeOK, Progress
  <2> QED
    BY <2>1, RightIsRightIn DEF ReadInv, NodesOK, NodeOwn, NodeRight, NodesFaithful
<1> QED
  BY Invariance, <1>1, PTL

\* pollingEvent never serves a message with half a list or half a SIP stack, and
\* never one at all after a failed InitSip, although init drops that result.
THEOREM ServesOnlyComplete == Spec => []Sound
<1>1. IInv => Sound
  BY DEF IInv
<1> QED
  BY Invariance, <1>1, PTL
=============================================================================
