-------------------------- MODULE TimerHeapProofs ---------------------------
(***************************************************************************)
(* PJLIB's timer heap is sound and acts as a queue, for any number of      *)
(* entries, any size to start with and any times.                          *)
(*                                                                         *)
(* The path.  reheap_up and reheap_down walk the tree; Passed, the set of  *)
(* slots they pass, is a recursive function.  It exists, because the least *)
(* set that has slot and is closed under next solves its equation, and it  *)
(* is that set, because a rank falls along next (the slot going up, the    *)
(* slot counted from the end going down).  So it is a path with one end    *)
(* that no two slots lead into, and moving a node along it keeps the nodes *)
(* there are (ShiftHolds), the ids leading to them (IdsFollow), and puts   *)
(* the times in order (UpOrders, DownOrders).                              *)
(*                                                                         *)
(* The free list.  The ids not in use are a chain from freelist to the end *)
(* of the array, given in full by a function on 0 .. L: the invariant says *)
(* there is one, and each operation says which the next one is.            *)
(*                                                                         *)
(* The invariant is IInv: ht is a heap of the scheduled entries (HeapOf).  *)
(***************************************************************************)
EXTENDS TimerHeap, FiniteSetTheorems, WellFoundedInduction, TLAPS

-----------------------------------------------------------------------------
(* The slots a walk passes *)

\* next leads from some of the slots in D to slots in D.
IsNext(D, next) == DOMAIN next \subseteq D /\ \A s \in DOMAIN next : next[s] \in D

\* A walk that is in S stays there.
Closed(next, S) == \A s \in S : s \in DOMAIN next => next[s] \in S

\* The recursive function in Passed is defined: Passed satisfies its equation.
LEMMA PassedUnfolds ==
    ASSUME NEW D, NEW next, IsNext(D, next), NEW s \in D
    PROVE  Passed(D, next, s) = IF s \in DOMAIN next THEN {s} \cup Passed(D, next, next[s]) ELSE {s}
<1> DEFINE Def(f) == [t \in D |-> IF t \in DOMAIN next THEN {t} \cup f[next[t]] ELSE {t}]
           reach == [t \in D |-> {u \in D : \A S \in SUBSET D : t \in S /\ Closed(next, S) => u \in S}]
           path == CHOOSE f : f = Def(f)
<1>1. reach = Def(reach)
  <2>1. ASSUME NEW t \in D PROVE reach[t] = IF t \in DOMAIN next THEN {t} \cup reach[next[t]] ELSE {t}
    <3>1. t \in reach[t]
      OBVIOUS
    <3>2. CASE t \notin DOMAIN next
      <4>1. Closed(next, {t}) /\ {t} \in SUBSET D
        BY <3>2 DEF Closed
      <4>2. \A u \in reach[t] : u \in {t}
        BY <4>1
      <4> QED
        BY <3>1, <3>2, <4>2
    <3>3. CASE t \in DOMAIN next
      <4>1. next[t] \in D
        BY <3>3 DEF IsNext
      <4>2. ASSUME NEW u \in reach[next[t]] PROVE u \in reach[t]
        BY <3>3, <4>1 DEF Closed
      <4>3. ASSUME NEW u \in reach[t], u # t PROVE u \in reach[next[t]]
        <5>1. ASSUME NEW S \in SUBSET D, next[t] \in S, Closed(next, S) PROVE u \in S
          <6>1. S \cup {t} \in SUBSET D /\ Closed(next, S \cup {t})
            BY <5>1 DEF Closed
          <6> QED
            BY <6>1, <4>3
        <5> QED
          BY <5>1, <4>1
      <4> QED
        BY <3>1, <3>3, <4>2, <4>3
    <3> QED
      BY <3>2, <3>3
  <2> HIDE DEF reach
  <2>2. DOMAIN reach = D /\ reach = [t \in D |-> reach[t]]
    BY DEF reach
  <2> QED
    BY <2>1, <2>2
<1>2. path = Def(path)
  <2> HIDE DEF reach, Def
  <2> QED
    BY <1>1
<1>3. \A t \in D : Passed(D, next, t) = path[t]
  BY DEF Passed
<1> HIDE DEF path
<1> QED
  BY <1>2, <1>3 DEF IsNext

\* A set of numbers that is not empty has a least element.
LEMMA Least ==
    ASSUME NEW S, S \subseteq Nat, S # {}
    PROVE  \E j \in S : \A i \in S : j <= i
<1>1. PICK j \in S : \A i \in S : ~(<<i, j>> \in OpToRel(<, Nat))
  BY NatLessThanWellFounded, WFMin
<1>2. \A i \in S : ~(i < j)
  BY <1>1 DEF OpToRel
<1> QED
  BY <1>2

\* rank falls along next
Ranked(D, next, rank) ==
    /\ IsNext(D, next)
    /\ rank \in [D -> Nat]
    /\ \A s \in DOMAIN next : rank[next[s]] < rank[s]

\* A set of slots that is not empty has one of the least rank.
LEMMA LeastRank ==
    ASSUME NEW D, NEW rank \in [D -> Nat], NEW S, S \subseteq D, S # {}
    PROVE  \E s \in S : \A t \in S : rank[s] <= rank[t]
<1> DEFINE R == {rank[s] : s \in S}
<1>1. R \subseteq Nat /\ R # {}
  OBVIOUS
<1>2. PICK r \in R : \A q \in R : r <= q
  <2> HIDE DEF R
  <2> QED
    BY <1>1, Least
<1> QED
  BY <1>2

\* The slots passed are the least set that holds the slot and what follows.
LEMMA PassedIsLeast ==
    ASSUME NEW D, NEW next, NEW rank, Ranked(D, next, rank), NEW S, Closed(next, S), NEW s \in D \cap S
    PROVE  Passed(D, next, s) \subseteq S
<1> DEFINE Bad == {t \in D \cap S : ~(Passed(D, next, t) \subseteq S)}
<1> SUFFICES ASSUME Bad # {} PROVE FALSE
  OBVIOUS
<1>1. PICK t \in Bad : \A u \in Bad : rank[t] <= rank[u]
  <2> Bad \subseteq D
    OBVIOUS
  <2> HIDE DEF Bad
  <2> QED
    BY LeastRank DEF Ranked
<1>2. Passed(D, next, t) = IF t \in DOMAIN next THEN {t} \cup Passed(D, next, next[t]) ELSE {t}
  BY PassedUnfolds DEF Ranked
<1>3. t \in DOMAIN next /\ ~(Passed(D, next, next[t]) \subseteq S)
  BY <1>2
<1>4. next[t] \in Bad
  BY <1>3 DEF Ranked, IsNext, Closed
<1>5. rank[next[t]] < rank[t] /\ rank[t] <= rank[next[t]] /\ rank[t] \in Nat /\ rank[next[t]] \in Nat
  BY <1>1, <1>3, <1>4 DEF Ranked
<1> HIDE DEF Bad
<1> QED
  BY <1>5

\* The slots passed are closed under next, and the walk starts highest.
LEMMA PassedIsClosed ==
    ASSUME NEW D, NEW next, NEW rank, Ranked(D, next, rank), NEW s \in D
    PROVE  /\ s \in Passed(D, next, s) /\ Passed(D, next, s) \subseteq D
           /\ Closed(next, Passed(D, next, s))
           /\ \A t \in Passed(D, next, s) : rank[t] <= rank[s]
<1>1. \A t \in D : t \in Passed(D, next, t)
  BY PassedUnfolds DEF Ranked
<1>2. Closed(next, D)
  BY DEF Ranked, IsNext, Closed
<1>3. Passed(D, next, s) \subseteq D
  BY <1>2, PassedIsLeast
<1>4. Closed(next, {t \in D : rank[t] <= rank[s]})
  <2> SUFFICES ASSUME NEW t \in D, rank[t] <= rank[s], t \in DOMAIN next
               PROVE  next[t] \in D /\ rank[next[t]] <= rank[s]
    BY DEF Closed
  <2>1. next[t] \in D /\ rank[next[t]] < rank[t] /\ rank[t] \in Nat /\ rank[s] \in Nat /\ rank[next[t]] \in Nat
    BY DEF Ranked, IsNext
  <2> QED
    BY <2>1
<1>5. Passed(D, next, s) \subseteq {t \in D : rank[t] <= rank[s]}
  <2>1. s \in {t \in D : rank[t] <= rank[s]}
    BY DEF Ranked
  <2> QED
    BY <1>4, <2>1, PassedIsLeast
<1>6. Closed(next, Passed(D, next, s))
  <2> DEFINE Bad == {t \in D : ~Closed(next, Passed(D, next, t))}
  <2> SUFFICES ASSUME Bad # {} PROVE FALSE
    OBVIOUS
  <2>1. PICK t \in Bad : \A u \in Bad : rank[t] <= rank[u]
    <3> Bad \subseteq D
      OBVIOUS
    <3> HIDE DEF Bad
    <3> QED
      BY LeastRank DEF Ranked
  <2>2. Passed(D, next, t) = IF t \in DOMAIN next THEN {t} \cup Passed(D, next, next[t]) ELSE {t}
    BY PassedUnfolds DEF Ranked
  <2>3. t \in DOMAIN next
    BY <2>2 DEF Closed
  <2>4. next[t] \in D /\ rank[next[t]] < rank[t] /\ rank[t] \in Nat /\ rank[next[t]] \in Nat
    BY <2>3 DEF Ranked, IsNext
  <2>5. next[t] \notin Bad
    <3> HIDE DEF Bad
    <3> QED
      BY <2>1, <2>4
  <2> QED
    BY <2>2, <2>3, <2>4, <2>5, <1>1 DEF Closed
<1> QED
  BY <1>1, <1>3, <1>5, <1>6

\* A path: it starts at slot, next leads through it without branching, and it ends
\* in one slot, which has the least rank.
IsPath(P, next, rank, slot) ==
    /\ slot \in P /\ Closed(next, P)
    /\ \A s \in P : s # slot => \E t \in P \cap DOMAIN next : next[t] = s
    /\ \A s, t \in P \cap DOMAIN next : next[s] = next[t] => s = t
    /\ \E e \in P : /\ e \notin DOMAIN next
                    /\ \A t \in P : rank[e] <= rank[t] /\ (t \notin DOMAIN next => t = e)
    /\ \A t \in P : rank[t] <= rank[slot]

\* The slots passed are a path.
LEMMA PassedIsPath ==
    ASSUME NEW D, NEW next, NEW rank, Ranked(D, next, rank), NEW slot \in D
    PROVE  /\ Passed(D, next, slot) \subseteq D
           /\ IsPath(Passed(D, next, slot), next, rank, slot)
<1> DEFINE f(s) == Passed(D, next, s)
           P == f(slot)
<1>1. /\ slot \in P /\ P \subseteq D /\ Closed(next, P)
      /\ \A t \in P : rank[t] <= rank[slot]
  BY PassedIsClosed
<1>2. \A s \in D : f(s) = IF s \in DOMAIN next THEN {s} \cup f(next[s]) ELSE {s}
  BY PassedUnfolds DEF Ranked
<1>3. \A s \in D : Closed(next, f(s)) /\ s \in f(s) /\ \A t \in f(s) : rank[t] <= rank[s]
  BY PassedIsClosed
<1>a. \A s \in D : rank[s] \in Nat
  BY DEF Ranked
<1>b. \A s \in DOMAIN next : s \in D /\ next[s] \in D /\ rank[next[s]] < rank[s]
  BY DEF Ranked, IsNext
<1>4. \A s, t \in P : s \in f(t) \/ t \in f(s)
  <2> DEFINE S == {s \in P : \A t \in P : s \in f(t) \/ t \in f(s)}
  <2>1. slot \in S
    BY <1>1
  <2>2. Closed(next, S)
    <3> SUFFICES ASSUME NEW s \in S, s \in DOMAIN next PROVE next[s] \in S
      BY DEF Closed
    <3>1. next[s] \in P
      BY <1>1 DEF Closed
    <3>2. ASSUME NEW t \in P PROVE next[s] \in f(t) \/ t \in f(next[s])
      <4>1. CASE s \in f(t)
        BY <4>1, <1>1, <1>3 DEF Closed
      <4>2. CASE t \in f(s)
        BY <4>2, <1>1, <1>2, <1>3, <1>b DEF Closed
      <4> QED
        BY <4>1, <4>2
    <3> QED
      BY <3>1, <3>2
  <2>3. P \subseteq S
    <3> HIDE DEF S
    <3> QED
      BY <2>1, <2>2, <1>1, PassedIsLeast
  <2> QED
    BY <2>3
<1>5. ASSUME NEW s \in P, s # slot PROVE \E t \in P \cap DOMAIN next : next[t] = s
  <2> DEFINE S == {slot} \cup {next[t] : t \in P \cap DOMAIN next}
  <2>1. Closed(next, S)
    BY <1>1 DEF Closed
  <2>2. P \subseteq S
    <3> slot \in D \cap S
      OBVIOUS
    <3> HIDE DEF S
    <3> QED
      BY <2>1, PassedIsLeast
  <2> QED
    BY <2>2, <1>5
<1> HIDE DEF f
<1>6. ASSUME NEW s \in P \cap DOMAIN next, NEW t \in P \cap DOMAIN next, next[s] = next[t] PROVE s = t
  <2>1. ASSUME NEW u \in P \cap DOMAIN next, NEW v \in P \cap DOMAIN next, next[u] = next[v], u \in f(v)
        PROVE  u = v
    <3>1. u = v \/ u \in f(next[u])
      BY <2>1, <1>1, <1>2
    <3>2. u \in f(next[u]) => rank[u] <= rank[next[u]]
      BY <1>3, <1>b
    <3>3. rank[next[u]] < rank[u] /\ rank[u] \in Nat /\ rank[next[u]] \in Nat
      BY <1>a, <1>b
    <3> QED
      BY <3>1, <3>2, <3>3
  <2> QED
    BY <2>1, <1>4, <1>6
<1>7. PICK e \in P : \A t \in P : rank[e] <= rank[t]
  <2> HIDE DEF P
  <2> QED
    BY <1>1, LeastRank DEF Ranked
<1>8. e \notin DOMAIN next
  <2> SUFFICES ASSUME e \in DOMAIN next PROVE FALSE
    OBVIOUS
  <2>1. next[e] \in P
    BY <1>1 DEF Closed
  <2>2. rank[next[e]] < rank[e] /\ rank[e] <= rank[next[e]] /\ rank[e] \in Nat /\ rank[next[e]] \in Nat
    BY <2>1, <1>7, <1>a, <1>b
  <2> QED
    BY <2>2
<1>9. ASSUME NEW t \in P, t \notin DOMAIN next PROVE t = e
  BY <1>1, <1>2, <1>4, <1>8, <1>9
<1> QED
  <2> \E x \in P : /\ x \notin DOMAIN next
                   /\ \A t \in P : rank[x] <= rank[t] /\ (t \notin DOMAIN next => t = x)
    BY <1>7, <1>8, <1>9
  <2> HIDE DEF P
  <2> QED
    BY <1>1, <1>5, <1>6 DEF IsPath, P, f

-----------------------------------------------------------------------------
(* Order *)

\* Left and Parent, the arithmetic of a tree in an array.
LEMMA ParentOf ==
    /\ Parent(0) = 0
    /\ \A s \in Nat \ {0} : /\ Parent(s) \in Nat /\ Parent(s) < s
                            /\ s = Left(Parent(s)) \/ s = Left(Parent(s)) + 1
    /\ \A p \in Nat : /\ Left(p) \in Nat /\ p < Left(p)
                      /\ Parent(Left(p)) = p /\ Parent(Left(p) + 1) = p
BY DEF Parent, Left

\* The slots of an array of n.
D(n) == 0 .. n - 1

\* The parent of a slot in use is in use.
LEMMA ParentIn ==
    ASSUME NEW n \in Nat, NEW s \in D(n)
    PROVE  s \in Nat /\ s < n /\ Parent(s) \in D(n) /\ (s > 0 => Parent(s) < s)
<1>1. s \in Nat /\ s < n
  BY DEF D
<1>2. Parent(s) \in Nat /\ Parent(s) < n /\ (s > 0 => Parent(s) < s)
  BY <1>1, ParentOf
<1> QED
  BY <1>1, <1>2 DEF D

\* A tree with a slot to be filled by a node with time x: the slots on its path
\* take their times from the next one.
Filled(S, v, w, x, P, next) ==
    /\ v \in [S -> Int] /\ w \in [S -> Int] /\ x \in Int /\ P \subseteq S
    /\ \A s \in S : w[s] = IF s \in P THEN IF s \in DOMAIN next THEN v[next[s]] ELSE x ELSE v[s]

\* Ordered but for the slot: its children are not due before its parent.
OrderedBut(S, v, slot) ==
    /\ \A s \in S : s > 0 /\ s # slot /\ Parent(s) # slot => v[Parent(s)] <= v[s]
    /\ \A c \in S : c > 0 /\ slot > 0 /\ Parent(c) = slot => v[Parent(slot)] <= v[c]

\* No slot is due before its parent.
Ordered(S, w) == \A s \in S : w[Parent(s)] <= w[s]

\* reheap_up: filling the path up to the first parent not due later restores the
\* order, when only slot may be due before its parent and not after its children.
LEMMA UpOrders ==
    ASSUME NEW n \in Nat, NEW slot \in D(n), NEW v, NEW w, NEW x, NEW P, NEW next, NEW rank,
           Filled(D(n), v, w, x, P, next), OrderedBut(D(n), v, slot), IsPath(P, next, rank, slot),
           \A s \in D(n) : rank[s] = s,
           next = [s \in {s \in 1 .. slot : x < v[Parent(s)]} |-> Parent(s)],
           \A c \in D(n) : c > 0 /\ Parent(c) = slot => x <= v[c]
    PROVE  Ordered(D(n), w)
<1> SUFFICES ASSUME NEW s \in D(n) PROVE w[Parent(s)] <= w[s]
  BY DEF Ordered
<1>0. \A t : t \in D(n) <=> t \in Nat /\ t < n
  BY DEF D
<1>1. /\ D(n) \subseteq Nat /\ \A t \in D(n) : v[t] \in Int /\ w[t] \in Int
      /\ \A t \in D(n) : t > 0 => Parent(t) \in D(n) /\ Parent(t) < t
      /\ x \in Int /\ P \subseteq D(n) /\ slot \in P
  <2>1. \A t \in D(n) : t > 0 => Parent(t) \in D(n) /\ Parent(t) < t
    BY <1>0, ParentOf
  <2> QED
    BY <1>0, <2>1 DEF Filled, IsPath
<1>2. CASE s = 0
  <2>1. w[s] \in Int /\ Parent(s) = s
    BY <1>1, <1>2, ParentOf
  <2> QED
    BY <2>1
<1>3. CASE s > 0
  <2> DEFINE p == Parent(s)
             up == DOMAIN next
  <2>1. /\ \A t \in up : next[t] = Parent(t) /\ x < v[Parent(t)] /\ t > 0 /\ t \in D(n)
        /\ \A t \in D(n) : t > 0 /\ t \notin up /\ t <= slot => v[Parent(t)] <= x
        /\ p \in D(n) /\ p < s
    <3>1. slot \in Nat /\ slot < n /\ p \in D(n) /\ p < s
      BY <1>0, <1>1, <1>3
    <3>2. up = {t \in 1 .. slot : x < v[Parent(t)]}
      OBVIOUS
    <3>3. \A t \in up : next[t] = Parent(t) /\ x < v[Parent(t)] /\ t \in 1 .. slot
      BY <3>2
    <3>4. ASSUME NEW t \in D(n), t > 0, t \notin up, t <= slot PROVE v[Parent(t)] <= x
      <4>1. t \in 1 .. slot /\ v[Parent(t)] \in Int
        BY <3>1, <3>4, <1>0, <1>1
      <4> QED
        BY <4>1, <3>2, <3>4, <1>1
    <3> HIDE DEF up, p
    <3> QED
      BY <3>1, <3>3, <3>4, <1>0
  <2>2. \A t \in P \cap up : Parent(t) \in P
    BY <2>1 DEF IsPath, Closed
  <2>3. \A t \in P : t <= slot
    BY <1>1 DEF IsPath
  <2>4. \A t \in P : t # slot => x < v[t]
    BY <2>1 DEF IsPath
  <2>5. \A t \in P, u \in P : t \notin up => t <= u
    BY <1>1 DEF IsPath
  <2>6. \A t \in D(n) : w[t] = IF t \in P THEN IF t \in up THEN v[Parent(t)] ELSE x ELSE v[t]
    BY <2>1 DEF Filled
  <2>7. /\ \A t \in D(n) : t > 0 /\ t # slot /\ Parent(t) # slot => v[Parent(t)] <= v[t]
        /\ slot > 0 /\ p = slot => v[Parent(slot)] <= v[s]
        /\ p = slot => x <= v[s]
    BY <1>3 DEF OrderedBut
  <2> HIDE DEF up, p
  <2>8. CASE s \in P /\ s \in up
    <3>1. p \in P /\ w[s] = v[p] /\ p < slot /\ x < v[p]
      BY <2>8, <2>1, <2>2, <2>3, <2>6, <1>1 DEF p
    <3>2. p \in up => p > 0 /\ Parent(p) < slot /\ Parent(p) \in D(n) /\ w[p] = v[Parent(p)]
      BY <3>1, <2>1, <2>6, <1>1
    <3>3. p \in up => v[Parent(p)] <= v[p]
      BY <3>1, <3>2, <2>7, <2>1, <1>1
    <3>4. p \notin up => w[p] = x
      BY <3>1, <2>1, <2>6
    <3> QED
      BY <3>1, <3>2, <3>3, <3>4, <1>1, <2>1 DEF p
  <2>9. CASE s \in P /\ s \notin up
    <3>1. p \notin P
      BY <2>9, <2>5, <2>1, <1>1
    <3>2. w[p] = v[p] /\ w[s] = x /\ v[p] <= x
      BY <3>1, <2>9, <2>1, <2>3, <2>6, <1>3 DEF p
    <3> QED
      BY <3>2 DEF p
  <2>10. CASE s \notin P /\ p \notin P
    BY <2>10, <1>1, <1>3, <2>1, <2>6, <2>7 DEF p
  <2>11. CASE s \notin P /\ p \in P
    <3>1. w[s] = v[s] /\ s # slot
      BY <2>11, <2>6, <1>1
    <3>2. CASE p = slot
      <4>1. p \in up => p > 0 /\ w[p] = v[Parent(slot)]
        BY <3>2, <2>11, <2>1, <2>6
      <4>2. p \notin up => w[p] = x
        BY <2>11, <2>1, <2>6
      <4> QED
        BY <3>1, <3>2, <4>1, <4>2, <2>7 DEF p
    <3>3. CASE p # slot
      <4>1. v[p] <= v[s] /\ x < v[p] /\ p < slot
        BY <3>1, <3>3, <2>11, <2>7, <2>4, <2>3, <1>1, <1>3 DEF p
      <4>2. p \in up => p > 0 /\ Parent(p) < slot /\ Parent(p) \in D(n) /\ w[p] = v[Parent(p)]
        BY <4>1, <2>11, <2>1, <2>6, <1>1
      <4>3. p \in up => v[Parent(p)] <= v[p]
        BY <4>1, <4>2, <2>7, <2>1, <1>1
      <4>4. p \notin up => w[p] = x
        BY <2>11, <2>1, <2>6
      <4> QED
        BY <3>1, <4>1, <4>2, <4>3, <4>4, <2>1, <1>1 DEF p
    <3> QED
      BY <3>2, <3>3
  <2> QED
    BY <2>8, <2>9, <2>10, <2>11
<1> QED
  BY <1>1, <1>2, <1>3

\* child leads from each slot that has one to its child that is due first.
FirstChild(n, v, child) ==
    /\ DOMAIN child = {s \in Nat : Left(s) < n}
    /\ \A s \in DOMAIN child : /\ child[s] \in {Left(s), Left(s) + 1} /\ child[s] < n
                               /\ v[child[s]] <= v[Left(s)]
                               /\ Left(s) + 1 < n => v[child[s]] <= v[Left(s) + 1]

\* Slots lead to child while it is due before x.
SinksTo(next, child, v, x) == next = [s \in {s \in DOMAIN child : v[child[s]] < x} |-> child[s]]

\* reheap_down: filling the path of the children due first restores the order, when
\* the node that takes slot is not due before the parent.
LEMMA DownOrders ==
    ASSUME NEW n \in Nat, NEW slot \in D(n), NEW v, NEW w, NEW x, NEW P, NEW next, NEW rank,
           NEW child, NEW max \in Nat,
           Filled(D(n), v, w, x, P, next), OrderedBut(D(n), v, slot), IsPath(P, next, rank, slot),
           \A s \in D(n) : rank[s] = max - s,
           FirstChild(n, v, child),
           SinksTo(next, child, v, x),
           slot > 0 => v[Parent(slot)] <= x
    PROVE  Ordered(D(n), w)
<1> SUFFICES ASSUME NEW s \in D(n) PROVE w[Parent(s)] <= w[s]
  BY DEF Ordered
<1>0. \A t : t \in D(n) <=> t \in Nat /\ t < n
  BY DEF D
<1>1. /\ D(n) \subseteq Nat /\ \A t \in D(n) : v[t] \in Int /\ w[t] \in Int
      /\ \A t \in D(n) : t > 0 => Parent(t) \in D(n) /\ Parent(t) < t
      /\ x \in Int /\ P \subseteq D(n) /\ slot \in P
  <2>1. \A t \in D(n) : t > 0 => Parent(t) \in D(n) /\ Parent(t) < t
    BY <1>0, ParentOf
  <2> QED
    BY <1>0, <2>1 DEF Filled, IsPath
<1>2. CASE s = 0
  <2>1. w[s] \in Int /\ Parent(s) = s
    BY <1>1, <1>2, ParentOf
  <2> QED
    BY <2>1
<1>3. CASE s > 0
  <2> DEFINE p == Parent(s)
             down == DOMAIN next
  <2>1. /\ \A t \in down : t \in DOMAIN child /\ next[t] = child[t] /\ v[child[t]] < x
        /\ \A t \in DOMAIN child : t \notin down => ~(v[child[t]] < x)
        /\ p \in D(n) /\ p < s
    BY <1>1, <1>3 DEF SinksTo
  <2>2. \A t \in DOMAIN child : child[t] \in D(n) /\ Parent(child[t]) = t /\ t < child[t] /\ t \in D(n)
    <3> SUFFICES ASSUME NEW t \in DOMAIN child
                 PROVE  child[t] \in D(n) /\ Parent(child[t]) = t /\ t < child[t] /\ t \in D(n)
      OBVIOUS
    <3>1. t \in Nat /\ child[t] \in {Left(t), Left(t) + 1} /\ child[t] < n
      BY DEF FirstChild
    <3>2. Left(t) \in Nat /\ t < Left(t) /\ Parent(Left(t)) = t /\ Parent(Left(t) + 1) = t
      BY <3>1, ParentOf
    <3>3. child[t] \in Nat /\ t < child[t] /\ Parent(child[t]) = t /\ t < n
      BY <3>1, <3>2
    <3> QED
      BY <1>0, <3>1, <3>3
  <2>3. p \in DOMAIN child /\ v[child[p]] <= v[s]
    <3>1. p \in Nat /\ Left(p) \in Nat /\ (s = Left(p) \/ s = Left(p) + 1)
      BY ParentOf, <1>1, <1>3
    <3> HIDE DEF p
    <3>2. p \in DOMAIN child
      BY <3>1, <1>0 DEF FirstChild
    <3> QED
      BY <3>1, <3>2, <1>0 DEF FirstChild
  <2>4. \A t \in P \cap down : child[t] \in P
    BY <2>1 DEF IsPath, Closed
  <2>5. \A t \in P : slot <= t
    BY <1>1 DEF IsPath
  <2>6. \A t \in P : t # slot => Parent(t) \in P /\ Parent(t) \in down /\ child[Parent(t)] = t /\ v[t] < x
    BY <2>1, <2>2 DEF IsPath
  <2>7. \A t \in D(n) : w[t] = IF t \in P THEN IF t \in down THEN v[child[t]] ELSE x ELSE v[t]
    BY <2>1 DEF Filled
  <2>8. /\ \A t \in D(n) : t > 0 /\ t # slot /\ Parent(t) # slot => v[Parent(t)] <= v[t]
        /\ \A t \in D(n) : t > 0 /\ slot > 0 /\ Parent(t) = slot => v[Parent(slot)] <= v[t]
    BY DEF OrderedBut
  <2> HIDE DEF down, p
  <2>9. CASE s \in P /\ s # slot
    <3>1. p \in P /\ p \in down /\ child[p] = s /\ w[p] = v[s] /\ v[s] < x
      BY <2>9, <2>6, <2>7, <2>1 DEF p
    <3>2. s \notin down => w[s] = x
      BY <2>9, <2>7
    <3>3. s \in down => w[s] = v[child[s]] /\ v[s] <= v[child[s]]
      <4> HAVE s \in down
      <4>1. w[s] = v[child[s]] /\ s \in DOMAIN child /\ slot < s
        BY <2>9, <2>5, <2>7, <2>1, <1>1
      <4>2. child[s] \in D(n) /\ Parent(child[s]) = s /\ s < child[s]
        BY <4>1, <2>2
      <4>3. v[s] <= v[child[s]]
        BY <4>1, <4>2, <2>8, <1>1
      <4> QED
        BY <4>1, <4>3
    <3> QED
      BY <3>1, <3>2, <3>3, <1>1, <2>1 DEF p
  <2>10. CASE s = slot
    <3>1. p \notin P /\ w[p] = v[p] /\ v[p] <= x
      BY <2>10, <2>5, <2>7, <2>1, <1>1, <1>3 DEF p
    <3>2. s \notin down => w[s] = x
      BY <2>10, <2>7, <1>1
    <3>3. s \in down => w[s] = v[child[s]] /\ v[p] <= v[child[s]]
      <4> HAVE s \in down
      <4>1. w[s] = v[child[s]] /\ s \in DOMAIN child
        BY <2>10, <2>7, <2>1, <1>1
      <4>2. child[s] \in D(n) /\ Parent(child[s]) = s /\ s < child[s]
        BY <4>1, <2>2
      <4>3. v[p] <= v[child[s]]
        BY <4>2, <2>8, <2>10, <1>1, <1>3 DEF p
      <4> QED
        BY <4>1, <4>3
    <3> QED
      BY <3>1, <3>2, <3>3 DEF p
  <2>11. CASE s \notin P /\ p \notin P
    BY <2>11, <1>1, <1>3, <2>1, <2>7, <2>8 DEF p
  <2>12. CASE s \notin P /\ p \in P
    <3>1. w[s] = v[s]
      BY <2>12, <2>7
    <3>2. p \in down => w[p] = v[child[p]]
      BY <2>12, <2>7, <2>1
    <3>3. p \notin down => w[p] = x /\ ~(v[child[p]] < x)
      BY <2>12, <2>7, <2>1, <2>3
    <3>4. v[child[p]] \in Int /\ v[s] \in Int
      BY <2>2, <2>3, <1>1
    <3> QED
      BY <3>1, <3>2, <3>3, <3>4, <2>3, <1>1 DEF p
  <2> QED
    BY <2>9, <2>10, <2>11, <2>12
<1> QED
  BY <1>1, <1>2, <1>3

-----------------------------------------------------------------------------
(* Contents and ids *)

\* The slots in S hold the entries E, each once.
Holds(heap, S, E) ==
    /\ {heap[s] : s \in S} = E
    /\ \A s, t \in S : heap[s] = heap[t] => s = t

\* The slots P are filled from the next one, the last with node.
Shifted(np, hp, S, P, next, node) ==
    \A s \in S : np[s] = IF s \in P THEN IF s \in DOMAIN next THEN hp[next[s]] ELSE node ELSE hp[s]

\* Moving nodes along a path into the slot that is open loses none and doubles none.
LEMMA ShiftHolds ==
    ASSUME NEW S, NEW slot \in S, NEW hp, NEW np, NEW P, P \subseteq S, NEW next, NEW rank,
           IsPath(P, next, rank, slot), \A s \in P \cap DOMAIN next : next[s] # slot,
           NEW E, NEW node, node \notin E, Holds(hp, S \ {slot}, E),
           Shifted(np, hp, S, P, next, node)
    PROVE  Holds(np, S, E \cup {node})
<1> DEFINE M == P \cap DOMAIN next
<1>1. \A s \in M : next[s] \in P /\ next[s] # slot /\ next[s] \in S /\ np[s] = hp[next[s]]
  BY DEF IsPath, Closed, Shifted
<1>2. PICK e \in P : e \notin DOMAIN next /\ \A t \in P : t \notin DOMAIN next => t = e
  BY DEF IsPath
<1>3. \A s \in P : s \in M \/ s = e
  BY <1>2
<1>4. np[e] = node
  BY <1>2 DEF Shifted
<1>5. slot \in P
  BY DEF IsPath
<1>6. \A s \in S \ P : np[s] = hp[s] /\ s \in S \ {slot}
  BY <1>5 DEF Shifted
<1>7. \A s, t \in M : next[s] = next[t] => s = t
  BY DEF IsPath
<1>8. \A s \in P : s # slot => \E t \in M : next[t] = s
  BY DEF IsPath
<1>9. \A s \in S \ {slot} : hp[s] \in E
  BY DEF Holds
<1>10. \A s, t \in S \ {slot} : hp[s] = hp[t] => s = t
  BY DEF Holds
<1> HIDE DEF M
<1>11. ASSUME NEW s \in S, NEW t \in S, np[s] = np[t] PROVE s = t
  <2>1. CASE s \in M /\ t \in M
    BY <2>1, <1>1, <1>7, <1>10, <1>11
  <2>2. CASE s \in S \ P /\ t \in S \ P
    BY <2>2, <1>6, <1>10, <1>11
  <2>3. CASE s \in M /\ t \in S \ P
    BY <2>3, <1>1, <1>6, <1>10, <1>11
  <2>4. CASE t \in M /\ s \in S \ P
    BY <2>4, <1>1, <1>6, <1>10, <1>11
  <2>5. CASE s = e
    BY <2>5, <1>1, <1>3, <1>4, <1>6, <1>9, <1>11
  <2>6. CASE t = e
    BY <2>6, <1>1, <1>3, <1>4, <1>6, <1>9, <1>11
  <2> QED
    BY <2>1, <2>2, <2>3, <2>4, <2>5, <2>6, <1>3
<1>12. ASSUME NEW s \in S PROVE np[s] \in E \cup {node}
  BY <1>1, <1>3, <1>4, <1>6, <1>9
<1>13. ASSUME NEW x \in E \cup {node} PROVE \E s \in S : np[s] = x
  <2>1. CASE x = node
    BY <2>1, <1>2, <1>4
  <2>2. CASE x \in E
    <3>1. PICK s \in S \ {slot} : hp[s] = x
      BY <2>2 DEF Holds
    <3>2. CASE s \in P
      <4>1. PICK t \in M : next[t] = s
        BY <3>2, <1>8
      <4> QED
        BY <3>1, <4>1, <1>1 DEF M
    <3>3. CASE s \notin P
      BY <3>1, <3>3, <1>6
    <3> QED
      BY <3>2, <3>3
  <2> QED
    BY <2>1, <2>2
<1> QED
  BY <1>11, <1>12, <1>13 DEF Holds

\* The ids of the entries E are different, and lie in the array.
IdOK(id, E, max) ==
    /\ \A e \in E : id[e] \in 1 .. max - 1
    /\ \A e, f \in E : id[e] = id[f] => e = f

\* copy_node files the entries in the slots P under their ids.
Refiled(ids2, ids, id, np, P, S) ==
    ids2 = [i \in S |-> IF \E s \in P : id[np[s]] = i
                        THEN CHOOSE s \in P : id[np[s]] = i ELSE ids[i]]

\* The slots S hold E, and all but the slots P are filed already.
FiledBut(P, S, np, E, id, max, ids) ==
    /\ P \subseteq S /\ max \in Nat /\ ids \in [D(max) -> Int]
    /\ Holds(np, S, E) /\ IdOK(id, E, max)
    /\ \A s \in S \ P : ids[id[np[s]]] = s

\* The slots S are filed, and the free ids are as before.
Filed(S, np, E, id, max, ids, ids2) ==
    /\ \A s \in S : ids2[id[np[s]]] = s
    /\ \A i \in D(max) : (\A e \in E : id[e] # i) => ids2[i] = ids[i]

\* copy_node files each node it moves, so the ids of all lead to their slots.
LEMMA IdsFollow ==
    ASSUME NEW S, NEW P, NEW np, NEW E, NEW id, NEW max, NEW ids, NEW ids2,
           FiledBut(P, S, np, E, id, max, ids), Refiled(ids2, ids, id, np, P, D(max))
    PROVE  Filed(S, np, E, id, max, ids, ids2)
<1> USE DEF FiledBut
<1>1. \A s \in S : np[s] \in E
  BY DEF Holds
<1>2. \A s \in S : id[np[s]] \in D(max)
  BY <1>1 DEF IdOK, D
<1>3. \A s, t \in S : id[np[s]] = id[np[t]] => s = t
  BY <1>1 DEF IdOK, Holds
<1>4. ASSUME NEW s \in P PROVE ids2[id[np[s]]] = s
  <2>1. s \in S
    OBVIOUS
  <2>2. id[np[s]] \in D(max) /\ \E t \in P : id[np[t]] = id[np[s]]
    BY <1>2
  <2>3. ids2[id[np[s]]] = CHOOSE t \in P : id[np[t]] = id[np[s]]
    BY <2>2 DEF Refiled
  <2>4. (CHOOSE t \in P : id[np[t]] = id[np[s]]) \in P
    BY <2>2
  <2>5. id[np[CHOOSE t \in P : id[np[t]] = id[np[s]]]] = id[np[s]]
    BY <2>2
  <2> QED
    BY <2>3, <2>4, <2>5, <1>3
<1>5. ASSUME NEW s \in S \ P PROVE ids2[id[np[s]]] = s
  <2>1. ~\E t \in P : id[np[t]] = id[np[s]]
    BY <1>3
  <2> QED
    BY <2>1, <1>2 DEF Refiled
<1>6. ASSUME NEW i \in D(max), \A e \in E : id[e] # i PROVE ids2[i] = ids[i]
  <2>1. ~\E t \in P : id[np[t]] = i
    BY <1>1, <1>6
  <2> QED
    BY <2>1 DEF Refiled
<1> QED
  BY <1>4, <1>5, <1>6 DEF Filed

-----------------------------------------------------------------------------
(* The two ways a node moves *)

\* The fields of a heap.
Shape(h) ==
    /\ h = [heap |-> h.heap, timer_ids |-> h.timer_ids, freelist |-> h.freelist,
            cur_size |-> h.cur_size, max_size |-> h.max_size]
    /\ h.max_size \in Nat /\ h.cur_size \in Nat /\ h.freelist \in Int
    /\ h.heap \in [D(h.max_size) -> Entries \cup {0}]
    /\ h.timer_ids \in [D(h.max_size) -> Int]

\* The slots in S hold the entries E, and their ids lead to the slots.
Loaded(h, id, S, E) ==
    /\ Holds(h.heap, S, E)
    /\ \A s \in S : h.timer_ids[id[h.heap[s]]] = s

\* The slots up to n of g hold E; apart from that and its ids g is h.
Arranged(g, h, id, n, E) ==
    /\ Shape(g) /\ Loaded(g, id, D(n), E)
    /\ g.max_size = h.max_size /\ g.cur_size = h.cur_size /\ g.freelist = h.freelist
    /\ \A i \in D(h.max_size) : (\A e \in E : id[e] # i) => g.timer_ids[i] = h.timer_ids[i]

\* Once slot is filled with node, the slots up to n are loaded.
Open(h, id, n, slot, E, node) ==
    /\ Shape(h) /\ n \in Nat /\ n <= h.max_size /\ slot \in D(n)
    /\ E \subseteq Entries /\ node \in Entries \ E
    /\ Loaded(h, id, D(n) \ {slot}, E)
    /\ IdOK(id, E \cup {node}, h.max_size)

\* What Move does to each field of the heap.
LEMMA MoveFields ==
    ASSUME NEW h, Shape(h), NEW id, NEW node, NEW slot, NEW next, NEW P,
           P = Passed(D(h.max_size), next, slot)
    PROVE  /\ Move(h, id, node, slot, next).heap =
                  [s \in D(h.max_size) |-> IF s \in P THEN IF s \in DOMAIN next THEN h.heap[next[s]] ELSE node
                                           ELSE h.heap[s]]
           /\ P \subseteq D(h.max_size) =>
                  Refiled(Move(h, id, node, slot, next).timer_ids, h.timer_ids, id,
                          Move(h, id, node, slot, next).heap, P, D(h.max_size))
           /\ Move(h, id, node, slot, next) =
                  [heap |-> Move(h, id, node, slot, next).heap,
                   timer_ids |-> Move(h, id, node, slot, next).timer_ids,
                   freelist |-> h.freelist, cur_size |-> h.cur_size, max_size |-> h.max_size]
<1> DEFINE place == [s \in P |-> IF s \in DOMAIN next THEN h.heap[next[s]] ELSE node]
           g == Move(h, id, node, slot, next)
<1>1. DOMAIN h.heap = D(h.max_size) /\ DOMAIN h.timer_ids = D(h.max_size)
  BY DEF Shape
<1>2. g = Place(h, id, place)
  BY <1>1 DEF Move
<1>3. DOMAIN place = P
  OBVIOUS
<1>4. g = [h EXCEPT !.heap = [s \in D(h.max_size) |-> IF s \in P THEN place[s] ELSE h.heap[s]],
                    !.timer_ids = [i \in D(h.max_size) |-> IF \E s \in P : id[place[s]] = i
                                    THEN CHOOSE s \in P : id[place[s]] = i ELSE h.timer_ids[i]]]
  BY <1>1, <1>2, <1>3 DEF Place
<1>5. \A s \in P : place[s] = IF s \in DOMAIN next THEN h.heap[next[s]] ELSE node
  OBVIOUS
<1> HIDE DEF place, g
<1>6. /\ g.heap = [s \in D(h.max_size) |-> IF s \in P THEN place[s] ELSE h.heap[s]]
      /\ g.timer_ids = [i \in D(h.max_size) |-> IF \E s \in P : id[place[s]] = i
                                    THEN CHOOSE s \in P : id[place[s]] = i ELSE h.timer_ids[i]]
      /\ g = [heap |-> g.heap, timer_ids |-> g.timer_ids,
              freelist |-> h.freelist, cur_size |-> h.cur_size, max_size |-> h.max_size]
  BY <1>4 DEF Shape
<1>7. g.heap = [s \in D(h.max_size) |-> IF s \in P THEN IF s \in DOMAIN next THEN h.heap[next[s]] ELSE node
                                           ELSE h.heap[s]]
  BY <1>5, <1>6
<1>8. ASSUME P \subseteq D(h.max_size)
      PROVE  Refiled(g.timer_ids, h.timer_ids, id, g.heap, P, D(h.max_size))
  <2>1. \A s \in P : g.heap[s] = place[s]
    BY <1>6, <1>8
  <2>2. \A i : (\E s \in P : id[g.heap[s]] = i) <=> (\E s \in P : id[place[s]] = i)
    BY <2>1
  <2>3. \A i : (CHOOSE s \in P : id[g.heap[s]] = i) = (CHOOSE s \in P : id[place[s]] = i)
    BY <2>1
  <2> DEFINE new(i) == IF \E s \in P : id[g.heap[s]] = i
                       THEN CHOOSE s \in P : id[g.heap[s]] = i ELSE h.timer_ids[i]
             old(i) == IF \E s \in P : id[place[s]] = i
                       THEN CHOOSE s \in P : id[place[s]] = i ELSE h.timer_ids[i]
  <2>4. \A i : new(i) = old(i)
    BY <2>2, <2>3
  <2>5. g.timer_ids = [i \in D(h.max_size) |-> old(i)]
    BY <1>6
  <2>6. g.timer_ids = [i \in D(h.max_size) |-> new(i)]
    <3> HIDE DEF new, old
    <3> QED
      BY <2>4, <2>5
  <2> QED
    BY <2>6 DEF Refiled
<1> QED
  BY <1>6, <1>7, <1>8 DEF g

\* Move takes the new node in, and keeps nodes and ids together.
LEMMA MoveArranges ==
    ASSUME NEW h, NEW id, NEW n, NEW slot, NEW E, NEW node, Open(h, id, n, slot, E, node),
           NEW next, NEW rank, Ranked(D(h.max_size), next, rank),
           Closed(next, D(n)),
           NEW g, g = Move(h, id, node, slot, next),
           NEW P, P = Passed(D(h.max_size), next, slot)
    PROVE  /\ Arranged(g, h, id, n, E \cup {node})
           /\ P \subseteq D(n) /\ IsPath(P, next, rank, slot)
           /\ Shifted(g.heap, h.heap, D(n), P, next, node)
<1> DEFINE max == h.max_size
<1>1. Shape(h) /\ max \in Nat /\ slot \in D(n) /\ D(n) \subseteq D(max)
  BY DEF Open, Shape, D
<1>2. P \subseteq D(max) /\ IsPath(P, next, rank, slot)
  BY <1>1, PassedIsPath
<1>3. P \subseteq D(n)
  BY <1>1, PassedIsLeast
<1>4. /\ g.heap = [s \in D(max) |-> IF s \in P THEN IF s \in DOMAIN next THEN h.heap[next[s]] ELSE node
                                    ELSE h.heap[s]]
      /\ Refiled(g.timer_ids, h.timer_ids, id, g.heap, P, D(max))
      /\ g = [heap |-> g.heap, timer_ids |-> g.timer_ids,
              freelist |-> h.freelist, cur_size |-> h.cur_size, max_size |-> h.max_size]
  BY <1>1, <1>2, MoveFields
<1>5. \A s \in P \cap DOMAIN next : next[s] # slot /\ next[s] \in D(max)
  <2> SUFFICES ASSUME NEW s \in P \cap DOMAIN next PROVE next[s] # slot /\ next[s] \in D(max)
    OBVIOUS
  <2>1. s \in D(max) /\ next[s] \in D(max) /\ rank[next[s]] < rank[s] /\ slot \in D(max)
    BY <1>1, <1>2 DEF Ranked, IsNext
  <2>2. rank[s] <= rank[slot] /\ rank[s] \in Nat /\ rank[slot] \in Nat /\ rank[next[s]] \in Nat
    BY <1>2, <2>1 DEF Ranked, IsPath
  <2> QED
    BY <2>1, <2>2
<1>6. Shifted(g.heap, h.heap, D(n), P, next, node)
  BY <1>1, <1>4 DEF Shifted
<1>7. Holds(g.heap, D(n), E \cup {node})
  <2>1. Holds(h.heap, D(n) \ {slot}, E) /\ node \notin E
    BY DEF Open, Loaded
  <2> QED
    BY <2>1, <1>1, <1>2, <1>3, <1>5, <1>6, ShiftHolds
<1>8. \A s \in D(n) \ P : h.timer_ids[id[g.heap[s]]] = s
  <2>1. slot \in P
    BY <1>2 DEF IsPath
  <2> QED
    BY <2>1, <1>6 DEF Open, Loaded, Shifted
<1>9. /\ \A s \in D(n) : g.timer_ids[id[g.heap[s]]] = s
      /\ \A i \in D(max) : (\A e \in E \cup {node} : id[e] # i) => g.timer_ids[i] = h.timer_ids[i]
  <2>1. IdOK(id, E \cup {node}, max)
    BY DEF Open
  <2>2. h.timer_ids \in [D(max) -> Int]
    BY <1>1 DEF Shape
  <2>3. Refiled(g.timer_ids, h.timer_ids, id, g.heap, P, D(max)) /\ max \in Nat
    BY <1>1, <1>4
  <2>4. FiledBut(P, D(n), g.heap, E \cup {node}, id, max, h.timer_ids)
    BY <2>1, <2>2, <2>3, <1>3, <1>7, <1>8 DEF FiledBut
  <2> HIDE DEF max
  <2>5. Filed(D(n), g.heap, E \cup {node}, id, max, h.timer_ids, g.timer_ids)
    BY <2>3, <2>4, IdsFollow
  <2> QED
    BY <2>5 DEF Filed
<1>10. g.heap \in [D(max) -> Entries \cup {0}]
  <2>1. h.heap \in [D(max) -> Entries \cup {0}] /\ node \in Entries
    BY <1>1 DEF Shape, Open
  <2> HIDE DEF max
  <2>2. \A s \in D(max) : s \in P => (s \in DOMAIN next => h.heap[next[s]] \in Entries \cup {0})
    BY <2>1, <1>5
  <2> QED
    BY <2>1, <2>2, <1>4
<1>11. g.timer_ids \in [D(max) -> Int]
  <2>1. \A i \in D(max) : h.timer_ids[i] \in Int
    BY <1>1 DEF Shape
  <2>2. \A s \in P : s \in Int
    BY <1>2 DEF D
  <2> HIDE DEF max
  <2>4. ASSUME NEW i \in D(max) PROVE g.timer_ids[i] \in Int
    <3>1. CASE \E s \in P : id[g.heap[s]] = i
      <4>1. g.timer_ids[i] = CHOOSE s \in P : id[g.heap[s]] = i
        BY <3>1, <1>4 DEF Refiled
      <4>2. (CHOOSE s \in P : id[g.heap[s]] = i) \in P
        BY <3>1
      <4> QED
        BY <4>1, <4>2, <2>2
    <3>2. CASE ~\E s \in P : id[g.heap[s]] = i
      BY <3>2, <2>1, <1>4 DEF Refiled
    <3> QED
      BY <3>1, <3>2
  <2>5. DOMAIN g.timer_ids = D(max) /\ g.timer_ids = [i \in D(max) |-> g.timer_ids[i]]
    BY <1>4 DEF Refiled
  <2> QED
    BY <2>4, <2>5
<1>12. g.max_size = max /\ g.cur_size = h.cur_size /\ g.freelist = h.freelist
  BY <1>4
<1>13. Shape(g)
  BY <1>1, <1>4, <1>10, <1>11, <1>12 DEF Shape
<1> QED
  BY <1>2, <1>3, <1>6, <1>7, <1>9, <1>12, <1>13 DEF Arranged, Loaded

\* The times of the slots up to n, x for the slot to be filled.
TimesBut(h, val, n, slot, x) == [s \in D(n) |-> IF s = slot THEN x ELSE val[h.heap[s]]]
\* The times of the nodes in the first n slots.
TimesOf(h, val, n) == [s \in D(n) |-> val[h.heap[s]]]

\* What Move does to the times in the tree.
LEMMA MoveFills ==
    ASSUME NEW h, NEW id, NEW n, NEW slot, NEW E, NEW node, Open(h, id, n, slot, E, node),
           NEW g, NEW P, NEW next, NEW rank, NEW val \in [Entries -> Int],
           Arranged(g, h, id, n, E \cup {node}), P \subseteq D(n), IsPath(P, next, rank, slot),
           \A s \in P \cap DOMAIN next : next[s] # slot,
           Shifted(g.heap, h.heap, D(n), P, next, node)
    PROVE  Filled(D(n), TimesBut(h, val, n, slot, val[node]), TimesOf(g, val, n), val[node], P, next)
<1> DEFINE v == TimesBut(h, val, n, slot, val[node])
           w == TimesOf(g, val, n)
<1>1. \A s \in D(n) : s # slot => h.heap[s] \in Entries
  BY DEF Open, Loaded, Holds
<1>2. \A s \in D(n) : g.heap[s] \in Entries
  BY DEF Open, Arranged, Loaded, Holds
<1>3. node \in Entries /\ slot \in P
  BY DEF Open, IsPath
<1>4. v \in [D(n) -> Int] /\ w \in [D(n) -> Int] /\ val[node] \in Int
  BY <1>1, <1>2, <1>3 DEF TimesBut, TimesOf
<1>5. \A s \in D(n) : v[s] = IF s = slot THEN val[node] ELSE val[h.heap[s]]
  BY DEF TimesBut
<1>6. \A s \in D(n) : w[s] = val[g.heap[s]]
  BY DEF TimesOf
<1>7. \A s \in P \cap DOMAIN next : next[s] \in D(n)
  BY DEF IsPath, Closed
<1> HIDE DEF v, w
<1>8. \A s \in D(n) : w[s] = IF s \in P THEN IF s \in DOMAIN next THEN v[next[s]] ELSE val[node] ELSE v[s]
  BY <1>3, <1>5, <1>6, <1>7 DEF Shifted
<1> QED
  BY <1>4, <1>8 DEF Filled, v, w

\* reheap_up puts node in its place, when only the slots above may be due after it.
LEMMA UpWorks ==
    ASSUME NEW h, NEW id, NEW n, NEW slot, NEW E, NEW node, Open(h, id, n, slot, E, node),
           NEW val \in [Entries -> Int],
           OrderedBut(D(n), TimesBut(h, val, n, slot, val[node]), slot),
           \A c \in D(n) : c > 0 /\ Parent(c) = slot => val[node] <= val[h.heap[c]],
           NEW g, g = reheap_up(h, id, val, node, slot)
    PROVE  Arranged(g, h, id, n, E \cup {node}) /\ Ordered(D(n), TimesOf(g, val, n))
<1> DEFINE max == h.max_size
           v == TimesBut(h, val, n, slot, val[node])
           rises == {s \in 1 .. slot : val[node] < val[h.heap[Parent(s)]]}
           next == [s \in rises |-> Parent(s)]
           rank == [s \in D(max) |-> s]
           P == Passed(D(max), next, slot)
<1>0. n \in Nat /\ max \in Nat /\ n <= max /\ slot \in Nat /\ slot < n /\ slot \in D(n)
  BY DEF Open, Shape, D
<1>1. g = Move(h, id, node, slot, next)
  BY DEF reheap_up
<1>2. \A s \in rises : s \in Nat /\ s > 0 /\ s <= slot /\ Parent(s) \in Nat /\ Parent(s) < s
  BY <1>0, ParentOf
<1>3. \A s \in rises : next[s] = Parent(s) /\ next[s] \in D(n) /\ next[s] \in D(max) /\ s \in D(max) /\ next[s] # slot
  <2> HIDE DEF rises, max
  <2> QED
    BY <1>0, <1>2 DEF D
<1>4. Ranked(D(max), next, rank)
  <2>1. DOMAIN next = rises
    OBVIOUS
  <2>2. rank \in [D(max) -> Nat] /\ \A s \in D(max) : rank[s] = s
    BY DEF D
  <2> HIDE DEF rises, next, rank, max
  <2> QED
    BY <2>1, <2>2, <1>2, <1>3 DEF Ranked, IsNext
<1>5. DOMAIN next = rises
  OBVIOUS
<1>6. /\ Arranged(g, h, id, n, E \cup {node})
      /\ P \subseteq D(n) /\ IsPath(P, next, rank, slot)
      /\ Shifted(g.heap, h.heap, D(n), P, next, node)
  <2>1. Closed(next, D(n))
    BY <1>3, <1>5 DEF Closed
  <2>2. Ranked(D(h.max_size), next, rank) /\ P = Passed(D(h.max_size), next, slot)
    BY <1>4
  <2> HIDE DEF rises, next, rank, P, max
  <2> QED
    BY <2>1, <2>2, <1>1, MoveArranges
<1>7. Filled(D(n), v, TimesOf(g, val, n), val[node], P, next)
  <2> HIDE DEF rises, next, rank, P
  <2> QED
    BY <1>3, <1>5, <1>6, MoveFills
<1>8. next = [s \in {s \in 1 .. slot : val[node] < v[Parent(s)]} |-> Parent(s)]
  <2>1. \A s \in 1 .. slot : v[Parent(s)] = val[h.heap[Parent(s)]]
    <3> SUFFICES ASSUME NEW s \in 1 .. slot PROVE v[Parent(s)] = val[h.heap[Parent(s)]]
      OBVIOUS
    <3>1. s \in Nat \ {0} /\ s <= slot
      BY <1>0
    <3>2. Parent(s) \in Nat /\ Parent(s) < slot
      BY <3>1, <1>0, ParentOf
    <3>3. Parent(s) \in D(n) /\ Parent(s) # slot
      BY <3>2, <1>0 DEF D
    <3> QED
      BY <3>3 DEF TimesBut
  <2> HIDE DEF v
  <2>2. rises = {s \in 1 .. slot : val[node] < v[Parent(s)]}
    BY <2>1
  <2> QED
    BY <2>2
<1>9. \A s \in D(n) : rank[s] = s
  BY <1>0 DEF D
<1>10. \A c \in D(n) : c > 0 /\ Parent(c) = slot => val[node] <= v[c]
  <2> SUFFICES ASSUME NEW c \in D(n), c > 0, Parent(c) = slot PROVE val[node] <= v[c]
    OBVIOUS
  <2>1. c # slot
    BY ParentOf DEF D
  <2>2. v[c] = val[h.heap[c]]
    BY <2>1 DEF TimesBut
  <2> QED
    BY <2>2
<1>11. Ordered(D(n), TimesOf(g, val, n))
  <2> HIDE DEF v, rises, next, rank, P
  <2>1. OrderedBut(D(n), v, slot)
    BY DEF v
  <2> QED
    BY <2>1, <1>0, <1>6, <1>7, <1>8, <1>9, <1>10, UpOrders
<1> QED
  BY <1>6, <1>11

\* reheap_down puts node in its place, when only the slots below may be due before it.
LEMMA DownWorks ==
    ASSUME NEW h, NEW id, NEW n, NEW slot, NEW E, NEW node, Open(h, id, n, slot, E, node),
           h.cur_size = n, h.heap[slot] = node,
           NEW val \in [Entries -> Int],
           OrderedBut(D(n), TimesBut(h, val, n, slot, val[node]), slot),
           slot > 0 => val[h.heap[Parent(slot)]] <= val[node],
           NEW g, g = reheap_down(h, id, val, node, slot)
    PROVE  Arranged(g, h, id, n, E \cup {node}) /\ Ordered(D(n), TimesOf(g, val, n))
<1> DEFINE max == h.max_size
           v == TimesBut(h, val, n, slot, val[node])
           child == [s \in {s \in DOMAIN h.heap : Left(s) < h.cur_size} |-> EarlierChild(h, val, s)]
           sinks == {s \in DOMAIN child : val[h.heap[child[s]]] < val[node]}
           next == [s \in sinks |-> child[s]]
           rank == [s \in D(max) |-> max - s]
           P == Passed(D(max), next, slot)
<1>0. n \in Nat /\ max \in Nat /\ n <= max /\ slot \in Nat /\ slot < n /\ slot \in D(n)
  BY DEF Open, Shape, D
<1>1. g = Move(h, id, node, slot, next)
  BY DEF reheap_down
<1>2. \A s \in D(n) : v[s] = val[h.heap[s]] /\ v[s] \in Int
  <2>1. \A s \in D(n) : s # slot => h.heap[s] \in Entries
    BY DEF Open, Loaded, Holds
  <2>2. node \in Entries
    BY DEF Open
  <2> QED
    BY <2>1, <2>2 DEF TimesBut
<1>3. DOMAIN child = {s \in Nat : Left(s) < n}
  <2>1. DOMAIN child = {s \in D(max) : Left(s) < n}
    BY DEF Open, Shape
  <2>2. \A s \in Nat : Left(s) \in Nat /\ s < Left(s)
    BY ParentOf
  <2>3. \A s : s \in D(max) <=> s \in Nat /\ s < max
    BY <1>0 DEF D
  <2> HIDE DEF child, max
  <2> QED
    BY <2>1, <2>2, <2>3, <1>0
<1>4. \A s \in DOMAIN child : child[s] = EarlierChild(h, val, s)
  OBVIOUS
<1> HIDE DEF child
<1>5. FirstChild(n, v, child)
  <2> SUFFICES ASSUME NEW s \in DOMAIN child
               PROVE  /\ child[s] \in {Left(s), Left(s) + 1} /\ child[s] < n
                      /\ v[child[s]] <= v[Left(s)]
                      /\ Left(s) + 1 < n => v[child[s]] <= v[Left(s) + 1]
    BY <1>3 DEF FirstChild
  <2>1. s \in Nat /\ Left(s) \in Nat /\ Left(s) < n
    BY <1>3, ParentOf
  <2>2. /\ Left(s) \in D(n)
        /\ Left(s) + 1 < n => Left(s) + 1 \in D(n)
    BY <2>1, <1>0 DEF D
  <2>3. child[s] = IF Left(s) + 1 < n /\ v[Left(s) + 1] < v[Left(s)] THEN Left(s) + 1 ELSE Left(s)
    BY <2>2, <1>2, <1>4 DEF EarlierChild
  <2>4. v[Left(s)] \in Int /\ (Left(s) + 1 < n => v[Left(s) + 1] \in Int)
    BY <2>2, <1>2
  <2> HIDE DEF v
  <2> QED
    BY <2>1, <2>3, <2>4
<1>6. \A s \in DOMAIN child : /\ child[s] \in D(n) /\ child[s] \in D(max) /\ s \in D(max)
                             /\ s < child[s] /\ Parent(child[s]) = s
  <2> SUFFICES ASSUME NEW s \in DOMAIN child
               PROVE  /\ child[s] \in D(n) /\ child[s] \in D(max) /\ s \in D(max)
                      /\ s < child[s] /\ Parent(child[s]) = s
    OBVIOUS
  <2>1. s \in Nat /\ Left(s) \in Nat /\ s < Left(s) /\ Parent(Left(s)) = s /\ Parent(Left(s) + 1) = s
    BY <1>3, ParentOf
  <2>2. child[s] \in {Left(s), Left(s) + 1} /\ child[s] < n
    BY <1>5 DEF FirstChild
  <2>3. child[s] \in Nat /\ s < child[s] /\ Parent(child[s]) = s
    BY <2>1, <2>2
  <2> HIDE DEF max
  <2> QED
    BY <2>1, <2>2, <2>3, <1>0 DEF D
<1>7. DOMAIN next = sinks /\ \A s \in sinks : next[s] = child[s] /\ s \in DOMAIN child
  OBVIOUS
<1>8. Ranked(D(max), next, rank)
  <2>1. /\ rank \in [D(max) -> Nat] /\ \A s \in D(max) : rank[s] = max - s /\ s \in Nat
    BY <1>0 DEF D
  <2>2. \A s, t \in D(max) : s < t => rank[t] < rank[s]
    BY <2>1, <1>0
  <2> HIDE DEF sinks, next, rank, max
  <2> QED
    BY <2>1, <2>2, <1>6, <1>7 DEF Ranked, IsNext
<1>9. /\ Arranged(g, h, id, n, E \cup {node})
      /\ P \subseteq D(n) /\ IsPath(P, next, rank, slot)
      /\ Shifted(g.heap, h.heap, D(n), P, next, node)
  <2>1. Closed(next, D(n))
    BY <1>6, <1>7 DEF Closed
  <2>2. Ranked(D(h.max_size), next, rank) /\ P = Passed(D(h.max_size), next, slot)
    BY <1>8
  <2> HIDE DEF sinks, next, rank, P, max
  <2> QED
    BY <2>1, <2>2, <1>1, MoveArranges
<1>10. \A s \in P \cap DOMAIN next : next[s] # slot
  <2>1. \A s \in D(n) : rank[s] = max - s /\ s \in Nat
    BY <1>0 DEF D
  <2>2. \A s \in P : rank[s] <= rank[slot] /\ s \in D(n)
    BY <1>9 DEF IsPath
  <2>3. ASSUME NEW s \in P PROVE slot <= s
    <3>1. max - s <= max - slot /\ s \in Nat
      BY <2>1, <2>2, <1>0
    <3> HIDE DEF max
    <3> QED
      BY <3>1, <1>0
  <2> HIDE DEF sinks, next, rank, P
  <2>4. \A s \in P \cap DOMAIN next : s < next[s] /\ s \in Nat /\ next[s] \in Nat
    BY <1>6, <1>7, <2>1, <2>2
  <2> QED
    BY <2>3, <2>4, <1>0
<1>11. Filled(D(n), v, TimesOf(g, val, n), val[node], P, next)
  <2> HIDE DEF sinks, next, rank, P
  <2> QED
    BY <1>9, <1>10, MoveFills
<1>12. SinksTo(next, child, v, val[node])
  <2> HIDE DEF v
  <2>1. sinks = {s \in DOMAIN child : v[child[s]] < val[node]}
    BY <1>2, <1>6
  <2> QED
    BY <2>1 DEF SinksTo
<1>13. \A s \in D(n) : rank[s] = max - s
  BY <1>0 DEF D
<1>14. slot > 0 => v[Parent(slot)] <= val[node]
  <2> SUFFICES ASSUME slot > 0 PROVE v[Parent(slot)] <= val[node]
    OBVIOUS
  <2>1. Parent(slot) \in D(n)
    BY <1>0, ParentOf DEF D
  <2> HIDE DEF v
  <2> QED
    BY <2>1, <1>2
<1>15. Ordered(D(n), TimesOf(g, val, n))
  <2> HIDE DEF v, sinks, next, rank, P
  <2>1. OrderedBut(D(n), v, slot)
    BY DEF v
  <2> HIDE DEF max
  <2> QED
    BY <2>1, <1>0, <1>5, <1>9, <1>11, <1>12, <1>13, <1>14, DownOrders
<1> QED
  BY <1>9, <1>15

-----------------------------------------------------------------------------
(* The free list *)

\* c is the stack of free ids inside ids: it starts at free, ends one past the
\* array, and holds what is not used.
Chain(c, L, ids, free, max, used) ==
    /\ L \in Nat /\ max \in Nat /\ c \in [0 .. L -> 1 .. max]
    /\ c[0] = free /\ c[L] = max
    /\ \A k \in 0 .. L : k < L => ids[c[k]] = -c[k + 1]
    /\ \A j, k \in 0 .. L : c[j] = c[k] => j = k
    /\ \A i \in 1 .. max : (\E k \in 0 .. L : c[k] = i) <=> i \notin used

\* pop_freelist takes the first id of the chain.
LEMMA ChainPops ==
    ASSUME NEW c, NEW L, NEW ids, NEW free, NEW max, NEW used, Chain(c, L, ids, free, max, used), L > 0
    PROVE  \E d : Chain(d, L - 1, ids, -ids[free], max, used \cup {free})
<1> DEFINE d == [k \in 0 .. L - 1 |-> c[k + 1]]
<1>1. /\ L \in Nat /\ max \in Nat /\ c \in [0 .. L -> 1 .. max] /\ c[0] = free /\ c[L] = max
      /\ \A k \in 0 .. L : k < L => ids[c[k]] = -c[k + 1]
      /\ \A j, k \in 0 .. L : c[j] = c[k] => j = k
      /\ \A i \in 1 .. max : (\E k \in 0 .. L : c[k] = i) <=> i \notin used
  BY DEF Chain
<1>2. \A k \in 0 .. L - 1 : d[k] = c[k + 1] /\ k + 1 \in 0 .. L /\ k \in 0 .. L /\ k \in Nat
  BY <1>1
<1>3. d \in [0 .. L - 1 -> 1 .. max]
  BY <1>1
<1>4. ids[free] = -c[1] /\ c[1] \in 1 .. max /\ d[0] = c[1] /\ -ids[free] = c[1]
  <2>1. 0 \in 0 .. L /\ 1 \in 0 .. L /\ 0 \in 0 .. L - 1 /\ 0 + 1 = 1
    BY <1>1
  <2>2. ids[c[0]] = -c[0 + 1] /\ d[0] = c[0 + 1]
    BY <2>1, <1>1, <1>2
  <2>3. c[1] \in 1 .. max
    BY <2>1, <1>1
  <2> HIDE DEF d
  <2>4. ids[free] = -c[1] /\ d[0] = c[1]
    BY <2>2, <1>1
  <2>5. c[1] \in Int
    BY <2>3
  <2>6. -ids[free] = c[1]
    BY <2>4, <2>5
  <2> QED
    BY <2>3, <2>4, <2>6
<1>5. d[L - 1] = max
  BY <1>1, <1>2
<1> HIDE DEF d
<1>6. ASSUME NEW k \in 0 .. L - 1, k < L - 1 PROVE ids[d[k]] = -d[k + 1]
  <2>1. k + 1 \in 0 .. L - 1 /\ k + 1 < L /\ k + 1 \in 0 .. L
    BY <1>1, <1>6
  <2>2. d[k] = c[k + 1] /\ d[k + 1] = c[(k + 1) + 1]
    BY <2>1, <1>2
  <2> QED
    BY <2>1, <2>2, <1>1
<1>7. ASSUME NEW j \in 0 .. L - 1, NEW k \in 0 .. L - 1, d[j] = d[k] PROVE j = k
  <2>1. j + 1 = k + 1
    BY <1>1, <1>2, <1>7
  <2> QED
    BY <2>1, <1>2
<1>8. ASSUME NEW i \in 1 .. max PROVE (\E k \in 0 .. L - 1 : d[k] = i) <=> i \notin used \cup {free}
  <2>1. ASSUME NEW k \in 0 .. L - 1, d[k] = i PROVE i \notin used \cup {free}
    <3>1. c[k + 1] = i /\ k + 1 \in 0 .. L /\ k + 1 # 0 /\ 0 \in 0 .. L
      BY <2>1, <1>1, <1>2
    <3>2. i # free
      BY <3>1, <1>1
    <3> QED
      BY <3>1, <3>2, <1>1
  <2>2. ASSUME i \notin used \cup {free} PROVE \E k \in 0 .. L - 1 : d[k] = i
    <3>1. PICK k \in 0 .. L : c[k] = i
      BY <2>2, <1>1
    <3>2. k # 0
      BY <3>1, <2>2, <1>1
    <3>3. k - 1 \in 0 .. L - 1 /\ (k - 1) + 1 = k
      BY <3>2, <1>1
    <3>4. d[k - 1] = i
      BY <3>1, <3>3, <1>2
    <3> QED
      BY <3>3, <3>4
  <2> QED
    BY <2>1, <2>2
<1>9. Chain(d, L - 1, ids, -ids[free], max, used \cup {free})
  <2>1. L - 1 \in Nat
    BY <1>1
  <2> QED
    BY <2>1, <1>1, <1>3, <1>4, <1>5, <1>6, <1>7, <1>8 DEF Chain
<1> QED
  BY <1>9

\* push_freelist puts an id back in front of it.
LEMMA ChainPushes ==
    ASSUME NEW c, NEW L, NEW ids, NEW free, NEW max, NEW used, Chain(c, L, ids, free, max, used),
           ids \in [D(max) -> Int], NEW i \in used, i \in 1 .. max - 1,
           NEW ids2, ids2 = [ids EXCEPT ![i] = -free]
    PROVE  \E d : Chain(d, L + 1, ids2, i, max, used \ {i})
<1> DEFINE d == [k \in 0 .. L + 1 |-> IF k = 0 THEN i ELSE c[k - 1]]
<1>1. /\ L \in Nat /\ max \in Nat /\ c \in [0 .. L -> 1 .. max] /\ c[0] = free /\ c[L] = max
      /\ \A k \in 0 .. L : k < L => ids[c[k]] = -c[k + 1]
      /\ \A j, k \in 0 .. L : c[j] = c[k] => j = k
      /\ \A x \in 1 .. max : (\E k \in 0 .. L : c[k] = x) <=> x \notin used
  BY DEF Chain
<1>2. \A k \in 0 .. L + 1 : k # 0 => d[k] = c[k - 1] /\ k - 1 \in 0 .. L /\ k \in Nat
  BY <1>1
<1>3. d[0] = i /\ i \in 1 .. max /\ d[L + 1] = max
  BY <1>1, <1>2
<1>4. d \in [0 .. L + 1 -> 1 .. max]
  BY <1>1, <1>3
<1>5. \A k \in 0 .. L : c[k] # i
  BY <1>1, <1>3
<1>6. /\ ids2[i] = -free
      /\ \A x \in D(max) : x # i => ids2[x] = ids[x]
  BY <1>1 DEF D
<1>7. \A k \in 0 .. L : k < L => c[k] \in D(max)
  <2> SUFFICES ASSUME NEW k \in 0 .. L, k < L PROVE c[k] \in D(max)
    OBVIOUS
  <2>1. c[k] \in 1 .. max /\ c[k] # max
    BY <1>1
  <2> HIDE DEF d
  <2>2. c[k] \in 0 .. max - 1
    BY <2>1, <1>1
  <2> QED
    BY <2>2 DEF D
<1> HIDE DEF d
<1>8. ASSUME NEW k \in 0 .. L + 1, k < L + 1 PROVE ids2[d[k]] = -d[k + 1]
  <2>1. k + 1 \in 0 .. L + 1 /\ k + 1 # 0 /\ (k + 1) - 1 = k /\ d[k + 1] = c[k]
    BY <1>1, <1>2, <1>8
  <2>2. CASE k = 0
    BY <2>1, <2>2, <1>1, <1>3, <1>6
  <2>3. CASE k # 0
    <3>1. d[k] = c[k - 1] /\ k - 1 \in 0 .. L /\ k - 1 < L /\ (k - 1) + 1 = k
      BY <2>3, <1>1, <1>2, <1>8
    <3>2. ids2[c[k - 1]] = ids[c[k - 1]] /\ ids[c[k - 1]] = -c[(k - 1) + 1]
      BY <3>1, <1>1, <1>5, <1>6, <1>7
    <3> QED
      BY <2>1, <3>1, <3>2
  <2> QED
    BY <2>2, <2>3
<1>9. ASSUME NEW j \in 0 .. L + 1, NEW k \in 0 .. L + 1, d[j] = d[k] PROVE j = k
  <2>1. CASE j = 0 \/ k = 0
    BY <2>1, <1>2, <1>3, <1>5, <1>9
  <2>2. CASE j # 0 /\ k # 0
    <3>1. j - 1 = k - 1
      BY <2>2, <1>1, <1>2, <1>9
    <3> QED
      BY <3>1, <2>2, <1>2
  <2> QED
    BY <2>1, <2>2
<1>10. ASSUME NEW x \in 1 .. max PROVE (\E k \in 0 .. L + 1 : d[k] = x) <=> x \notin used \ {i}
  <2>1. ASSUME NEW k \in 0 .. L + 1, d[k] = x PROVE x \notin used \ {i}
    BY <2>1, <1>1, <1>2, <1>3
  <2>2. ASSUME x \notin used \ {i}, x # i PROVE \E k \in 0 .. L + 1 : d[k] = x
    <3>1. PICK k \in 0 .. L : c[k] = x
      BY <2>2, <1>1
    <3>2. k + 1 \in 0 .. L + 1 /\ k + 1 # 0 /\ (k + 1) - 1 = k
      BY <1>1
    <3>3. d[k + 1] = x
      BY <3>1, <3>2, <1>2
    <3> QED
      BY <3>2, <3>3
  <2>3. 0 \in 0 .. L + 1
    BY <1>1
  <2> QED
    BY <2>1, <2>2, <2>3, <1>3
<1>11. Chain(d, L + 1, ids2, i, max, used \ {i})
  <2>1. L + 1 \in Nat
    BY <1>1
  <2> QED
    BY <2>1, <1>1, <1>3, <1>4, <1>8, <1>9, <1>10 DEF Chain
<1> QED
  BY <1>11

\* grow_heap continues the chain where it ends, one past the old array.
LEMMA ChainGrows ==
    ASSUME NEW c, NEW L, NEW ids, NEW free, NEW max, NEW used, Chain(c, L, ids, free, max, used),
           max > 0, used \subseteq 1 .. max - 1,
           NEW ids2, ids2 = [i \in D(2 * max) |-> IF i < max THEN ids[i] ELSE -(i + 1)]
    PROVE  \E d : Chain(d, L + max, ids2, free, 2 * max, used)
<1> DEFINE d == [k \in 0 .. L + max |-> IF k <= L THEN c[k] ELSE max + (k - L)]
<1>1. /\ L \in Nat /\ max \in Nat /\ c \in [0 .. L -> 1 .. max] /\ c[0] = free /\ c[L] = max
      /\ \A k \in 0 .. L : k < L => ids[c[k]] = -c[k + 1]
      /\ \A j, k \in 0 .. L : c[j] = c[k] => j = k
      /\ \A x \in 1 .. max : (\E k \in 0 .. L : c[k] = x) <=> x \notin used
  BY DEF Chain
<1>2. \A k \in 0 .. L : k \in 0 .. L + max /\ d[k] = c[k] /\ c[k] \in 1 .. max
  BY <1>1
<1>3. \A k \in 0 .. L + max : k \in Nat /\ (k >= L => d[k] = max + (k - L))
  BY <1>1
<1>4. \A k \in 0 .. L + max : k \notin 0 .. L => k > L
  BY <1>1
<1>5. d \in [0 .. L + max -> 1 .. 2 * max]
  <2>1. \A k \in 0 .. L + max : d[k] \in 1 .. 2 * max
    <3> HIDE DEF d
    <3> SUFFICES ASSUME NEW k \in 0 .. L + max PROVE d[k] \in 1 .. 2 * max
      OBVIOUS
    <3>1. CASE k \in 0 .. L
      BY <3>1, <1>1, <1>2
    <3>2. CASE k > L
      BY <3>2, <1>1, <1>3
    <3> QED
      BY <3>1, <3>2, <1>4
  <2>2. DOMAIN d = 0 .. L + max /\ d = [k \in 0 .. L + max |-> d[k]]
    OBVIOUS
  <2> HIDE DEF d
  <2> QED
    BY <2>1, <2>2
<1> HIDE DEF d
<1>6. \A i \in 0 .. 2 * max - 1 : ids2[i] = IF i < max THEN ids[i] ELSE -(i + 1)
  BY DEF D
<1>7. ASSUME NEW k \in 0 .. L + max, k < L + max PROVE ids2[d[k]] = -d[k + 1]
  <2>1. CASE k < L
    <3>1. k \in 0 .. L /\ k + 1 \in 0 .. L /\ L \in 0 .. L
      BY <2>1, <1>1
    <3>2. d[k] = c[k] /\ d[k + 1] = c[k + 1] /\ c[k] \in 1 .. max /\ c[k] # max
      BY <2>1, <3>1, <1>1, <1>2
    <3>3. c[k] \in 0 .. 2 * max - 1 /\ c[k] < max
      BY <3>2, <1>1
    <3>4. ids2[c[k]] = ids[c[k]]
      BY <3>3, <1>6
    <3>5. ids[c[k]] = -c[k + 1]
      BY <2>1, <3>1, <1>1
    <3> QED
      BY <3>2, <3>4, <3>5
  <2>2. CASE k >= L
    <3>1. k + 1 \in 0 .. L + max /\ d[k] = max + (k - L) /\ d[k + 1] = max + ((k + 1) - L)
      BY <2>2, <1>1, <1>3, <1>7
    <3>2. d[k] \in 0 .. 2 * max - 1 /\ ~(d[k] < max)
      BY <2>2, <3>1, <1>1, <1>7
    <3>3. ids2[d[k]] = -(d[k] + 1)
      BY <3>2, <1>6
    <3> QED
      BY <3>1, <3>3, <1>1
  <2> QED
    BY <2>1, <2>2, <1>1
<1>8. ASSUME NEW j \in 0 .. L + max, NEW k \in 0 .. L + max, d[j] = d[k] PROVE j = k
  <2>1. CASE j \in 0 .. L /\ k \in 0 .. L
    BY <2>1, <1>1, <1>2, <1>8
  <2>2. CASE j > L /\ k > L
    BY <2>2, <1>1, <1>3, <1>8
  <2>3. CASE j \in 0 .. L /\ k > L
    BY <2>3, <1>1, <1>2, <1>3, <1>8
  <2>4. CASE j > L /\ k \in 0 .. L
    BY <2>4, <1>1, <1>2, <1>3, <1>8
  <2> QED
    BY <2>1, <2>2, <2>3, <2>4, <1>4
<1>9. ASSUME NEW x \in 1 .. 2 * max PROVE (\E k \in 0 .. L + max : d[k] = x) <=> x \notin used
  <2>1. CASE x <= max
    <3>1. x \in 1 .. max
      BY <2>1, <1>1
    <3>2. ASSUME NEW k \in 0 .. L + max, d[k] = x PROVE k \in 0 .. L
      BY <3>2, <2>1, <1>1, <1>3, <1>4
    <3> QED
      BY <3>1, <3>2, <1>1, <1>2
  <2>2. CASE x > max
    <3>1. x \notin used
      BY <2>2, <1>1
    <3>2. (x - max) + L \in 0 .. L + max /\ (x - max) + L >= L /\ max + (((x - max) + L) - L) = x
      BY <2>2, <1>1
    <3>3. d[(x - max) + L] = x
      BY <3>2, <1>3
    <3> QED
      BY <3>1, <3>2, <3>3
  <2> QED
    BY <2>1, <2>2, <1>1
<1>10. d[0] = free /\ d[L + max] = 2 * max
  <2>1. 0 \in 0 .. L /\ L + max \in 0 .. L + max /\ L + max >= L
    BY <1>1
  <2>2. d[0] = c[0] /\ d[L + max] = max + ((L + max) - L)
    BY <2>1, <1>2, <1>3
  <2> QED
    BY <2>2, <1>1
<1>11. Chain(d, L + max, ids2, free, 2 * max, used)
  <2>1. L + max \in Nat /\ 2 * max \in Nat
    BY <1>1
  <2> QED
    BY <2>1, <1>5, <1>7, <1>8, <1>9, <1>10 DEF Chain
<1> QED
  BY <1>11

\* What is filed under the ids in use does not matter to the chain.
LEMMA ChainKept ==
    ASSUME NEW c, NEW L, NEW ids, NEW free, NEW max, NEW used, Chain(c, L, ids, free, max, used),
           NEW ids2, \A i \in D(max) : i \notin used => ids2[i] = ids[i]
    PROVE  Chain(c, L, ids2, free, max, used)
<1>1. /\ L \in Nat /\ max \in Nat /\ c \in [0 .. L -> 1 .. max] /\ c[0] = free /\ c[L] = max
      /\ \A k \in 0 .. L : k < L => ids[c[k]] = -c[k + 1]
      /\ \A j, k \in 0 .. L : c[j] = c[k] => j = k
      /\ \A x \in 1 .. max : (\E k \in 0 .. L : c[k] = x) <=> x \notin used
  BY DEF Chain
<1>2. ASSUME NEW k \in 0 .. L, k < L PROVE ids2[c[k]] = -c[k + 1]
  <2>1. c[k] \in 1 .. max /\ c[k] # max
    BY <1>1, <1>2
  <2>2. c[k] \in 0 .. max - 1
    BY <2>1, <1>1
  <2>3. c[k] \notin used
    BY <2>1, <1>1
  <2>4. ids2[c[k]] = ids[c[k]]
    BY <2>2, <2>3 DEF D
  <2> QED
    BY <2>4, <1>1, <1>2
<1> QED
  BY <1>2 DEF Chain

-----------------------------------------------------------------------------
(* Insertion and removal *)

\* A heap of the entries E, with their ids and times.
HeapOf(h, id, val, E) ==
    /\ Shape(h) /\ h.cur_size + 2 <= h.max_size /\ E \subseteq Entries
    /\ Loaded(h, id, D(h.cur_size), E)
    /\ IdOK(id, E, h.max_size)
    /\ Ordered(D(h.cur_size), TimesOf(h, val, h.cur_size))
    /\ \E c : Chain(c, h.max_size - 1 - h.cur_size, h.timer_ids, h.freelist, h.max_size, {id[e] : e \in E})
    /\ h.timer_ids[0] = -1

\* Ids and times of entries that are not in the heap do not matter to it.
LEMMA HeapOfSame ==
    ASSUME NEW h, NEW id, NEW val, NEW E, HeapOf(h, id, val, E), NEW id2, NEW val2,
           \A e \in E : id2[e] = id[e] /\ val2[e] = val[e]
    PROVE  HeapOf(h, id2, val2, E)
<1>1. \A s \in D(h.cur_size) : h.heap[s] \in E
  BY DEF HeapOf, Loaded, Holds
<1>2. Loaded(h, id2, D(h.cur_size), E)
  BY <1>1 DEF HeapOf, Loaded
<1>3. TimesOf(h, val2, h.cur_size) = TimesOf(h, val, h.cur_size)
  BY <1>1 DEF TimesOf
<1>4. {id2[e] : e \in E} = {id[e] : e \in E}
  OBVIOUS
<1>5. IdOK(id2, E, h.max_size)
  BY DEF HeapOf, IdOK
<1> QED
  BY <1>2, <1>3, <1>4, <1>5 DEF HeapOf

\* The heap after grow_heap, if it had to grow: room for one more, nothing moved.
Roomy(g, f, U) ==
    /\ Shape(g) /\ f.cur_size + 3 <= g.max_size /\ f.max_size <= g.max_size
    /\ g.cur_size = f.cur_size
    /\ \A s \in D(f.max_size) : g.heap[s] = f.heap[s] /\ g.timer_ids[s] = f.timer_ids[s]
    /\ \E c : Chain(c, g.max_size - 1 - (f.cur_size + 1), g.timer_ids, g.freelist, g.max_size, U)

\* insert_node has room for one more and to spare, growing when it must.
LEMMA GrowsWhenFull ==
    ASSUME NEW f, Shape(f), f.cur_size + 2 <= f.max_size, NEW U, U \subseteq 1 .. f.max_size - 1,
           NEW c, Chain(c, f.max_size - 1 - (f.cur_size + 1), f.timer_ids, f.freelist, f.max_size, U),
           NEW g, g = IF f.cur_size + 2 >= f.max_size THEN grow_heap(f) ELSE f
    PROVE  Roomy(g, f, U)
<1>1. f.cur_size \in Nat /\ f.max_size \in Nat /\ f.freelist \in Int
  BY DEF Shape
<1>2. CASE ~(f.cur_size + 2 >= f.max_size)
  <2>1. g = f /\ f.cur_size + 3 <= f.max_size /\ f.max_size <= f.max_size
    BY <1>1, <1>2
  <2> QED
    BY <2>1 DEF Roomy
<1>3. CASE f.cur_size + 2 >= f.max_size
  <2> DEFINE max == f.max_size
             hp == [s \in D(2 * max) |-> IF s < max THEN f.heap[s] ELSE 0]
             ids == [i \in D(2 * max) |-> IF i < max THEN f.timer_ids[i] ELSE -(i + 1)]
  <2>1. g = [f EXCEPT !.max_size = 2 * max, !.heap = hp, !.timer_ids = ids]
    BY <1>3 DEF grow_heap, D
  <2>2. /\ \A s \in D(2 * max) : s \in Nat /\ (s < max => s \in D(max))
        /\ \A s \in D(max) : s \in D(2 * max) /\ s < max
    BY <1>1 DEF D
  <2>3. \A s \in D(max) : f.heap[s] \in Entries \cup {0} /\ f.timer_ids[s] \in Int
    BY DEF Shape
  <2>4. hp \in [D(2 * max) -> Entries \cup {0}]
    <3> HIDE DEF max
    <3> QED
      BY <2>2, <2>3
  <2>5. ids \in [D(2 * max) -> Int]
    <3> HIDE DEF max
    <3> QED
      BY <2>2, <2>3
  <2>6. \A s \in D(max) : hp[s] = f.heap[s] /\ ids[s] = f.timer_ids[s]
    <3> HIDE DEF max
    <3> QED
      BY <2>2
  <2>7. \E d : Chain(d, (max - 1 - (f.cur_size + 1)) + max, ids, f.freelist, 2 * max, U)
    <3>1. max > 0
      BY <1>1
    <3>2. ids = [i \in D(2 * max) |-> IF i < max THEN f.timer_ids[i] ELSE -(i + 1)]
      OBVIOUS
    <3>3. Chain(c, max - 1 - (f.cur_size + 1), f.timer_ids, f.freelist, max, U) /\ U \subseteq 1 .. max - 1
      OBVIOUS
    <3> HIDE DEF max, ids
    <3> QED
      BY <3>1, <3>2, <3>3, ChainGrows
  <2> HIDE DEF hp, ids
  <2>8. /\ g.max_size = 2 * max /\ g.heap = hp /\ g.timer_ids = ids
        /\ g.cur_size = f.cur_size /\ g.freelist = f.freelist
        /\ g = [heap |-> g.heap, timer_ids |-> g.timer_ids, freelist |-> g.freelist,
                cur_size |-> g.cur_size, max_size |-> g.max_size]
    BY <2>1 DEF Shape
  <2>9. 2 * max \in Nat /\ f.cur_size + 3 <= 2 * max /\ max <= 2 * max
    BY <1>1
  <2>10. (max - 1 - (f.cur_size + 1)) + max = 2 * max - 1 - (f.cur_size + 1)
    BY <1>1
  <2>11. Shape(g)
    BY <1>1, <2>4, <2>5, <2>8, <2>9 DEF Shape
  <2>12. \E d : Chain(d, g.max_size - 1 - (f.cur_size + 1), g.timer_ids, g.freelist, g.max_size, U)
    BY <2>7, <2>8, <2>10
  <2> QED
    BY <2>6, <2>8, <2>9, <2>11, <2>12 DEF Roomy
<1> QED
  BY <1>2, <1>3

\* The ids of free entries are those of the chain; the first is in the array.
LEMMA FreeIsFree ==
    ASSUME NEW h, NEW id, NEW val, NEW E, HeapOf(h, id, val, E)
    PROVE  /\ h.freelist \in 1 .. h.max_size - 1
           /\ \A e \in E : id[e] # h.freelist
<1>1. h.cur_size \in Nat /\ h.max_size \in Nat /\ h.cur_size + 2 <= h.max_size
  BY DEF HeapOf, Shape
<1>2. PICK L : L = h.max_size - 1 - h.cur_size
  OBVIOUS
<1>3. PICK c : Chain(c, L, h.timer_ids, h.freelist, h.max_size, {id[e] : e \in E})
  BY <1>2 DEF HeapOf
<1>4. /\ L \in Nat /\ c \in [0 .. L -> 1 .. h.max_size] /\ c[0] = h.freelist /\ c[L] = h.max_size
      /\ \A j, k \in 0 .. L : c[j] = c[k] => j = k
      /\ \A i \in 1 .. h.max_size : (\E k \in 0 .. L : c[k] = i) <=> i \notin {id[e] : e \in E}
  BY <1>3 DEF Chain
<1>5. L > 0 /\ 0 \in 0 .. L /\ L \in 0 .. L
  BY <1>1, <1>2, <1>4
<1>6. h.freelist \in 1 .. h.max_size /\ h.freelist # h.max_size
  BY <1>4, <1>5
<1>7. h.freelist \notin {id[e] : e \in E}
  BY <1>4, <1>5, <1>6
<1>8. h.freelist \in 1 .. h.max_size - 1
  BY <1>1, <1>6
<1> QED
  BY <1>7, <1>8

\* Scheduling keeps the heap: the entry's id is taken off the free list, and the
\* entry goes up from the first free slot.
LEMMA InsertKeeps ==
    ASSUME NEW h, NEW id, NEW val \in [Entries -> Int], NEW E, HeapOf(h, id, val, E),
           NEW e \in Entries \ E, id[e] = h.freelist
    PROVE  HeapOf(insert_node(pop_freelist(h), id, val, e), id, val, E \cup {e})
<1>1. PICK cur, max, free : cur = h.cur_size /\ max = h.max_size /\ free = h.freelist
  OBVIOUS
<1>2. /\ Shape(h) /\ cur \in Nat /\ max \in Nat /\ cur + 2 <= max /\ E \subseteq Entries
      /\ h.heap \in [D(max) -> Entries \cup {0}] /\ h.timer_ids \in [D(max) -> Int]
      /\ Loaded(h, id, D(cur), E) /\ IdOK(id, E, max)
      /\ Ordered(D(cur), TimesOf(h, val, cur)) /\ h.timer_ids[0] = -1
  BY <1>1 DEF HeapOf, Shape
<1>3. free \in 1 .. max - 1 /\ free \in D(max) /\ free \in Nat /\ \A x \in E : id[x] # free
  <2>1. free \in 1 .. max - 1 /\ \A x \in E : id[x] # free
    BY <1>1, FreeIsFree
  <2> QED
    BY <2>1, <1>2 DEF D
<1>4. PICK F : F = E \cup {e}
  OBVIOUS
<1>5. PICK U : U = {id[x] : x \in F}
  OBVIOUS
<1>6. U = {id[x] : x \in E} \cup {free}
  BY <1>1, <1>4, <1>5
<1>7. F \subseteq Entries
  BY <1>2, <1>4
<1>8. IdOK(id, F, max) /\ U \subseteq 1 .. max - 1
  <2>1. IdOK(id, F, max)
    BY <1>1, <1>2, <1>3, <1>4 DEF IdOK
  <2> QED
    BY <2>1, <1>5 DEF IdOK
<1>9. PICK f : f = pop_freelist(h)
  OBVIOUS
<1>10. /\ f.heap = h.heap /\ f.timer_ids = h.timer_ids /\ f.freelist = -h.timer_ids[free]
       /\ f.cur_size = cur /\ f.max_size = max /\ Shape(f)
  <2>1. -h.timer_ids[free] \in Int
    BY <1>2, <1>3
  <2>2. f = [h EXCEPT !.freelist = -h.timer_ids[free]]
    BY <1>1, <1>9 DEF pop_freelist
  <2> QED
    BY <2>1, <2>2, <1>1, <1>2 DEF Shape
<1>11. \E c : Chain(c, max - 1 - (cur + 1), f.timer_ids, f.freelist, max, U)
  <2>1. PICK c : Chain(c, max - 1 - cur, h.timer_ids, free, max, {id[x] : x \in E})
    BY <1>1 DEF HeapOf
  <2>2. max - 1 - cur > 0 /\ max - 1 - cur - 1 = max - 1 - (cur + 1)
    BY <1>2
  <2>3. \E d : Chain(d, max - 1 - cur - 1, h.timer_ids, -h.timer_ids[free], max, {id[x] : x \in E} \cup {free})
    BY <2>1, <2>2, ChainPops
  <2> QED
    BY <2>2, <2>3, <1>6, <1>10
<1>12. PICK g : g = IF f.cur_size + 2 >= f.max_size THEN grow_heap(f) ELSE f
  OBVIOUS
<1>13. Roomy(g, f, U)
  <2>1. PICK c : Chain(c, f.max_size - 1 - (f.cur_size + 1), f.timer_ids, f.freelist, f.max_size, U)
    BY <1>10, <1>11
  <2>2. Shape(f) /\ f.cur_size + 2 <= f.max_size /\ U \subseteq 1 .. f.max_size - 1
    BY <1>2, <1>8, <1>10
  <2> QED
    BY <2>1, <2>2, <1>12, GrowsWhenFull
<1>14. PICK gmax : gmax = g.max_size
  OBVIOUS
<1>15. /\ Shape(g) /\ gmax \in Nat /\ cur + 3 <= gmax /\ max <= gmax /\ g.cur_size = cur
       /\ \A s \in D(max) : g.heap[s] = h.heap[s] /\ g.timer_ids[s] = h.timer_ids[s]
       /\ \E c : Chain(c, gmax - 1 - (cur + 1), g.timer_ids, g.freelist, gmax, U)
  BY <1>10, <1>13, <1>14 DEF Roomy, Shape
<1>16. /\ \A s : s \in D(cur + 1) <=> s \in D(cur) \/ s = cur
       /\ \A s \in D(cur) : s \in D(max) /\ s # cur /\ s \in Nat
       /\ 0 \in D(max)
  <2>1. cur \in Nat /\ max \in Nat /\ cur + 2 <= max
    BY <1>2
  <2>2. \A n, s : s \in D(n) <=> s \in 0 .. n - 1
    BY DEF D
  <2>3. /\ \A s : s \in D(cur) <=> s \in Nat /\ s < cur
        /\ \A s : s \in D(cur + 1) <=> s \in Nat /\ s <= cur
        /\ \A s : s \in D(max) <=> s \in Nat /\ s < max
    BY <2>1, <2>2
  <2> QED
    BY <2>1, <2>3
<1>17. \A s \in D(cur) : h.heap[s] \in E /\ id[h.heap[s]] \in D(max)
  <2>1. \A s \in D(cur) : h.heap[s] \in E
    BY <1>2 DEF Loaded, Holds
  <2>2. \A x \in E : id[x] \in D(max)
    BY <1>4, <1>8 DEF IdOK, D
  <2> QED
    BY <2>1, <2>2
<1>18. Open(g, id, cur + 1, cur, E, e)
  <2>1. D(cur + 1) \ {cur} = D(cur)
    BY <1>16
  <2>2. Holds(g.heap, D(cur), E)
    <3>1. Holds(h.heap, D(cur), E)
      BY <1>2 DEF Loaded
    <3>2. \A s \in D(cur) : g.heap[s] = h.heap[s]
      BY <1>15, <1>16
    <3> QED
      BY <3>1, <3>2 DEF Holds
  <2>3. \A s \in D(cur) : g.timer_ids[id[g.heap[s]]] = s
    BY <1>2, <1>15, <1>16, <1>17 DEF Loaded
  <2>4. IdOK(id, F, gmax)
    BY <1>2, <1>8, <1>15 DEF IdOK
  <2>5. cur + 1 \in Nat /\ cur + 1 <= gmax /\ cur \in D(cur + 1)
    BY <1>2, <1>15, <1>16
  <2> QED
    BY <2>1, <2>2, <2>3, <2>4, <2>5, <1>2, <1>4, <1>14, <1>15 DEF Open, Loaded
<1>19. OrderedBut(D(cur + 1), TimesBut(g, val, cur + 1, cur, val[e]), cur)
  <2> DEFINE v == TimesBut(g, val, cur + 1, cur, val[e])
  <2>1. \A s \in D(cur) : v[s] = val[h.heap[s]]
    BY <1>15, <1>16 DEF TimesBut
  <2>2. \A s \in D(cur) : val[h.heap[Parent(s)]] <= val[h.heap[s]] /\ (s > 0 => Parent(s) \in D(cur))
    <3>1. \A s \in D(cur) : Parent(s) \in D(cur)
      BY <1>2, ParentIn
    <3> QED
      BY <3>1, <1>2 DEF Ordered, TimesOf
  <2>3. \A c \in D(cur + 1) : c > 0 => Parent(c) # cur
    BY <1>2, ParentOf DEF D
  <2> HIDE DEF v
  <2>4. OrderedBut(D(cur + 1), v, cur)
    BY <2>1, <2>2, <2>3, <1>16 DEF OrderedBut
  <2> QED
    BY <2>4 DEF v
<1>20. PICK r : r = reheap_up(g, id, val, e, cur)
  OBVIOUS
<1>21. Arranged(r, g, id, cur + 1, F) /\ Ordered(D(cur + 1), TimesOf(r, val, cur + 1))
  <2>1. \A c \in D(cur + 1) : c > 0 /\ Parent(c) = cur => val[e] <= val[g.heap[c]]
    BY <1>2, ParentOf DEF D
  <2> QED
    BY <2>1, <1>4, <1>18, <1>19, <1>20, UpWorks
<1>22. PICK q : q = insert_node(f, id, val, e)
  OBVIOUS
<1>23. /\ q.heap = r.heap /\ q.timer_ids = r.timer_ids /\ q.freelist = g.freelist
       /\ q.cur_size = cur + 1 /\ q.max_size = gmax /\ Shape(q)
  <2>1. q = [r EXCEPT !.cur_size = r.cur_size + 1]
    BY <1>12, <1>15, <1>20, <1>22 DEF insert_node
  <2>2. Shape(r) /\ r.freelist = g.freelist /\ r.cur_size = cur /\ r.max_size = gmax /\ cur + 1 \in Nat
    BY <1>2, <1>14, <1>15, <1>21 DEF Arranged
  <2> QED
    BY <2>1, <2>2 DEF Shape
<1>24. \A i \in D(gmax) : i \notin U => q.timer_ids[i] = g.timer_ids[i]
  BY <1>5, <1>14, <1>21, <1>23 DEF Arranged
<1>25. \E c : Chain(c, gmax - 1 - (cur + 1), q.timer_ids, q.freelist, gmax, U)
  BY <1>15, <1>23, <1>24, ChainKept
<1>26. q.timer_ids[0] = -1
  <2>1. 0 \notin U /\ 0 \in D(gmax)
    BY <1>8, <1>2, <1>15 DEF D
  <2> QED
    BY <2>1, <1>2, <1>15, <1>16, <1>24
<1>27. IdOK(id, F, gmax)
  BY <1>2, <1>8, <1>15 DEF IdOK
<1>28. Loaded(q, id, D(cur + 1), F) /\ TimesOf(q, val, cur + 1) = TimesOf(r, val, cur + 1)
  BY <1>21, <1>23 DEF Arranged, Loaded, TimesOf
<1>29. (cur + 1) + 2 <= gmax
  BY <1>2, <1>15
<1>30. HeapOf(q, id, val, F)
  BY <1>5, <1>7, <1>21, <1>23, <1>25, <1>26, <1>27, <1>28, <1>29 DEF HeapOf
<1> QED
  BY <1>4, <1>9, <1>22, <1>30

\* The heap without the entry in slot, before the last node takes its place.
TakenOut(h, id, slot, last) ==
    [push_freelist(h, id[h.heap[slot]]) EXCEPT !.cur_size = last, !.heap[last] = 0]

\* h1 is h without the entry e, whose id is back on the free list.
WithoutOne(h1, h, id, E, last, e) ==
    /\ Shape(h1) /\ last \in Nat /\ h1.cur_size = last /\ h1.max_size = h.max_size
    /\ e \in E /\ id[e] \in D(h.max_size) /\ id[e] # 0
    /\ \A s \in D(last) : h1.heap[s] = h.heap[s]
    /\ \A i \in D(h.max_size) : i # id[e] => h1.timer_ids[i] = h.timer_ids[i]
    /\ \E c : Chain(c, h.max_size - 1 - last, h1.timer_ids, h1.freelist, h.max_size,
                     {id[x] : x \in E \ {e}})

\* The first half of remove_node.
LEMMA TakesOut ==
    ASSUME NEW h, NEW id, NEW val \in [Entries -> Int], NEW E, HeapOf(h, id, val, E),
           NEW slot \in D(h.cur_size), NEW last, last = h.cur_size - 1, NEW e, e = h.heap[slot],
           NEW h1, h1 = TakenOut(h, id, slot, last)
    PROVE  WithoutOne(h1, h, id, E, last, e)
<1>1. PICK cur, max, free, i : cur = h.cur_size /\ max = h.max_size /\ free = h.freelist /\ i = id[e]
  OBVIOUS
<1>2. /\ Shape(h) /\ cur \in Nat /\ max \in Nat /\ free \in Int /\ cur + 2 <= max /\ E \subseteq Entries
      /\ h.heap \in [D(max) -> Entries \cup {0}] /\ h.timer_ids \in [D(max) -> Int]
      /\ Loaded(h, id, D(cur), E) /\ IdOK(id, E, max)
  BY <1>1 DEF HeapOf, Shape
<1>3. e \in E /\ last \in Nat /\ last = cur - 1 /\ last \in D(max) /\ last \in D(cur)
  <2>1. slot \in Nat /\ slot < cur
    BY <1>1, <1>2, ParentIn
  <2> QED
    BY <2>1, <1>1, <1>2 DEF Loaded, Holds, D
<1>4. IdOK(id, E, max)
  BY <1>2
<1>5. i \in 1 .. max - 1 /\ i \in D(max) /\ i # 0 /\ i \in Int
  <2>1. i \in 1 .. max - 1
    BY <1>1, <1>3, <1>4 DEF IdOK
  <2> QED
    BY <2>1, <1>2 DEF D
<1>6. PICK hp, ids : hp = [h.heap EXCEPT ![last] = 0] /\ ids = [h.timer_ids EXCEPT ![i] = -free]
  OBVIOUS
<1>7. /\ h1 = [heap |-> hp, timer_ids |-> ids, freelist |-> i, cur_size |-> last, max_size |-> max]
  <2>1. push_freelist(h, i) = [h EXCEPT !.timer_ids[i] = -free, !.freelist = i]
    BY <1>1 DEF push_freelist
  <2>2. h = [heap |-> h.heap, timer_ids |-> h.timer_ids, freelist |-> h.freelist,
             cur_size |-> h.cur_size, max_size |-> h.max_size]
    BY <1>2 DEF Shape
  <2>3. push_freelist(h, i) = [heap |-> h.heap, timer_ids |-> ids, freelist |-> i,
                               cur_size |-> cur, max_size |-> max]
    BY <2>1, <2>2, <1>1, <1>6
  <2>4. PICK p : p = push_freelist(h, i)
    OBVIOUS
  <2>5. h1 = [p EXCEPT !.cur_size = last, !.heap = [p.heap EXCEPT ![last] = 0]]
    BY <2>4, <1>1 DEF TakenOut
  <2>6. p = [heap |-> h.heap, timer_ids |-> ids, freelist |-> i, cur_size |-> cur, max_size |-> max]
    BY <2>3, <2>4
  <2>7. h1 = [p EXCEPT !.cur_size = last, !.heap = hp]
    BY <2>5, <2>6, <1>6
  <2> QED
    BY <2>6, <2>7
<1>8. hp \in [D(max) -> Entries \cup {0}] /\ ids \in [D(max) -> Int]
  <2>1. -free \in Int
    BY <1>2
  <2> QED
    BY <2>1, <1>2, <1>3, <1>6
<1>9. Shape(h1)
  BY <1>2, <1>3, <1>5, <1>7, <1>8 DEF Shape
<1>10. \A s \in D(last) : s \in D(max) /\ s # last
  BY <1>2, <1>3 DEF D
<1>11. \A s \in D(last) : hp[s] = h.heap[s]
  BY <1>2, <1>6, <1>10
<1>12. \A x \in D(max) : x # i => ids[x] = h.timer_ids[x]
  BY <1>2, <1>6
<1>13. PICK U : U = {id[x] : x \in E}
  OBVIOUS
<1>14. U \ {i} = {id[x] : x \in E \ {e}} /\ i \in U
  BY <1>1, <1>3, <1>4, <1>13 DEF IdOK
<1>15. PICK c : Chain(c, max - 1 - cur, h.timer_ids, free, max, U)
  BY <1>1, <1>13 DEF HeapOf
<1>16. \E d : Chain(d, (max - 1 - cur) + 1, ids, i, max, U \ {i})
  BY <1>2, <1>5, <1>6, <1>14, <1>15, ChainPushes
<1>17. (max - 1 - cur) + 1 = max - 1 - last
  BY <1>2, <1>3
<1>18. h1.heap = hp /\ h1.timer_ids = ids /\ h1.freelist = i /\ h1.cur_size = last /\ h1.max_size = max
  BY <1>7
<1>19. \E d : Chain(d, max - 1 - last, ids, i, max, {id[x] : x \in E \ {e}})
  BY <1>14, <1>16, <1>17
<1> QED
  BY <1>1, <1>3, <1>5, <1>9, <1>11, <1>12, <1>18, <1>19 DEF WithoutOne

\* The last node is copied to the slot.
Copied(h1, id, slot, moved) == Place(h1, id, [s \in {slot} |-> moved])

\* h2 is h1 with moved in slot, and filed there.
WithCopy(h2, h1, id, slot, moved) ==
    /\ Shape(h2) /\ h2.cur_size = h1.cur_size /\ h2.max_size = h1.max_size /\ h2.freelist = h1.freelist
    /\ h2.heap[slot] = moved
    /\ \A s \in D(h1.max_size) : s # slot => h2.heap[s] = h1.heap[s]
    /\ \A i \in D(h1.max_size) : i # id[moved] => h2.timer_ids[i] = h1.timer_ids[i]

\* copy_node, for one node.
LEMMA CopiesLast ==
    ASSUME NEW h1, Shape(h1), NEW id, NEW slot, NEW moved \in Entries, slot \in D(h1.max_size), id[moved] \in D(h1.max_size),
           NEW h2, h2 = Copied(h1, id, slot, moved)
    PROVE  WithCopy(h2, h1, id, slot, moved)
<1>1. PICK max : max = h1.max_size
  OBVIOUS
<1>2. max \in Nat /\ h1.heap \in [D(max) -> Entries \cup {0}] /\ h1.timer_ids \in [D(max) -> Int]
  BY <1>1 DEF Shape
<1>3. PICK place : place = [s \in {slot} |-> moved]
  OBVIOUS
<1>4. DOMAIN place = {slot} /\ place[slot] = moved
  BY <1>3
<1>5. PICK hp : hp = [s \in D(max) |-> IF s = slot THEN moved ELSE h1.heap[s]]
  OBVIOUS
<1>6. PICK ids : ids = [i \in D(max) |-> IF id[moved] = i THEN slot ELSE h1.timer_ids[i]]
  OBVIOUS
<1>7. hp = [s \in DOMAIN h1.heap |-> IF s \in DOMAIN place THEN place[s] ELSE h1.heap[s]]
  BY <1>2, <1>4, <1>5
<1>8. ids = [i \in DOMAIN h1.timer_ids |->
                 IF \E s \in DOMAIN place : id[place[s]] = i
                 THEN CHOOSE s \in DOMAIN place : id[place[s]] = i
                 ELSE h1.timer_ids[i]]
  <2> DEFINE new(i) == IF \E s \in DOMAIN place : id[place[s]] = i
                       THEN CHOOSE s \in DOMAIN place : id[place[s]] = i
                       ELSE h1.timer_ids[i]
  <2>1. ASSUME NEW i \in D(max) PROVE ids[i] = new(i)
    <3>1. CASE id[moved] = i
      <4>1. \E s \in DOMAIN place : id[place[s]] = i
        BY <3>1, <1>4
      <4>2. (CHOOSE s \in DOMAIN place : id[place[s]] = i) \in DOMAIN place
        BY <4>1
      <4> QED
        BY <3>1, <4>1, <4>2, <1>4, <1>6
    <3>2. CASE id[moved] # i
      BY <3>2, <1>4, <1>6
    <3> QED
      BY <3>1, <3>2
  <2>2. DOMAIN h1.timer_ids = D(max) /\ ids = [i \in D(max) |-> ids[i]]
    BY <1>2, <1>6
  <2> HIDE DEF new
  <2>3. ids = [i \in DOMAIN h1.timer_ids |-> new(i)]
    BY <2>1, <2>2
  <2> QED
    BY <2>3 DEF new
<1>9. h2 = [h1 EXCEPT !.heap = hp, !.timer_ids = ids]
  BY <1>3, <1>7, <1>8 DEF Place, Copied
<1>10. hp \in [D(max) -> Entries \cup {0}] /\ ids \in [D(max) -> Int]
  <2>1. slot \in Int
    BY <1>1, <1>2 DEF D
  <2> QED
    BY <2>1, <1>2, <1>5, <1>6
<1>11. /\ Shape(h2) /\ h2.heap = hp /\ h2.timer_ids = ids
       /\ h2.cur_size = h1.cur_size /\ h2.max_size = h1.max_size /\ h2.freelist = h1.freelist
  BY <1>1, <1>9, <1>10 DEF Shape
<1> QED
  BY <1>1, <1>2, <1>5, <1>6, <1>11 DEF WithCopy

\* remove_node, with its steps named.
LEMMA RemoveUnfolds ==
    ASSUME NEW h, NEW id, NEW val, NEW slot \in Int, NEW last \in Int, NEW moved, NEW h1, NEW h2,
           last = h.cur_size - 1, moved = h.heap[last], h1 = TakenOut(h, id, slot, last),
           h2 = Copied(h1, id, slot, moved)
    PROVE  /\ slot >= last => remove_node(h, id, val, slot) = h1
           /\ slot < last => remove_node(h, id, val, slot) =
                  IF val[moved] >= val[h2.heap[Parent(slot)]]
                  THEN reheap_down(h2, id, val, moved, slot) ELSE reheap_up(h2, id, val, moved, slot)
<1>1. slot >= last => ~(slot < last)
  OBVIOUS
<1>2. slot < last => ~(slot >= last)
  OBVIOUS
<1>3. remove_node(h, id, val, slot) =
        CASE slot >= last -> h1
          [] slot < last -> IF val[moved] >= val[h2.heap[Parent(slot)]]
                            THEN reheap_down(h2, id, val, moved, slot)
                            ELSE reheap_up(h2, id, val, moved, slot)
  BY DEF remove_node, TakenOut, Copied
<1> QED
  BY <1>1, <1>2, <1>3

\* Removing from any slot keeps the heap: the last node takes the slot and goes
\* down or up from there, whichever it has to.
LEMMA RemoveKeeps ==
    ASSUME NEW h, NEW id, NEW val \in [Entries -> Int], NEW E, HeapOf(h, id, val, E),
           NEW slot \in D(h.cur_size)
    PROVE  HeapOf(remove_node(h, id, val, slot), id, val, E \ {h.heap[slot]})
<1>1. PICK cur, max, last, e : cur = h.cur_size /\ max = h.max_size /\ last = cur - 1 /\ e = h.heap[slot]
  OBVIOUS
<1>2. /\ Shape(h) /\ cur \in Nat /\ max \in Nat /\ cur + 2 <= max /\ E \subseteq Entries
      /\ h.heap \in [D(max) -> Entries \cup {0}] /\ h.timer_ids \in [D(max) -> Int]
      /\ Holds(h.heap, D(cur), E) /\ \A s \in D(cur) : h.timer_ids[id[h.heap[s]]] = s
      /\ IdOK(id, E, max) /\ h.timer_ids[0] = -1
  BY <1>1 DEF HeapOf, Shape, Loaded
<1>3. \A s \in D(cur) : Parent(s) \in D(cur) /\ val[h.heap[Parent(s)]] <= val[h.heap[s]]
  <2>1. \A s \in D(cur) : Parent(s) \in D(cur)
    BY <1>2, ParentIn
  <2>2. Ordered(D(cur), TimesOf(h, val, cur))
    BY <1>1 DEF HeapOf
  <2> QED
    BY <2>1, <2>2 DEF Ordered, TimesOf
<1>4. IdOK(id, E, max)
  BY <1>2
<1>5. PICK h1 : h1 = TakenOut(h, id, slot, last)
  OBVIOUS
<1>6. /\ Shape(h1) /\ last \in Nat /\ h1.cur_size = last /\ h1.max_size = max
      /\ e \in E /\ id[e] \in D(max) /\ id[e] # 0
      /\ \A s \in D(last) : h1.heap[s] = h.heap[s]
      /\ \A i \in D(max) : i # id[e] => h1.timer_ids[i] = h.timer_ids[i]
      /\ \E c : Chain(c, max - 1 - last, h1.timer_ids, h1.freelist, max, {id[x] : x \in E \ {e}})
  <2>1. WithoutOne(h1, h, id, E, last, e)
    BY <1>1, <1>5, TakesOut
  <2> QED
    BY <2>1, <1>1 DEF WithoutOne
<1>7. PICK F : F = E \ {e}
  OBVIOUS
<1>8. PICK U : U = {id[x] : x \in F}
  OBVIOUS
<1>9. PICK c : Chain(c, max - 1 - last, h1.timer_ids, h1.freelist, max, U)
  BY <1>6, <1>7, <1>8
<1>10. /\ F \subseteq Entries
       /\ IdOK(id, F, max) /\ \A x \in F : id[x] # id[e]
       /\ last + 2 <= max
  <2>1. F \subseteq E /\ e \notin F
    BY <1>7
  <2>2. \A x \in F : id[x] # id[e]
    BY <2>1, <1>4, <1>6 DEF IdOK
  <2>3. last + 2 <= max
    BY <1>1, <1>2, <1>6
  <2> QED
    BY <2>1, <2>2, <2>3, <1>2, <1>4 DEF IdOK
<1>11. /\ \A s \in D(cur) : h.heap[s] \in E /\ id[h.heap[s]] \in D(max)
       /\ \A s, t \in D(cur) : h.heap[s] = h.heap[t] => s = t
       /\ \A s \in D(cur) : s # slot => h.heap[s] \in F
       /\ \A x \in F : \E s \in D(cur) : s # slot /\ h.heap[s] = x
  <2>1. \A s \in D(cur) : h.heap[s] \in E
    BY <1>2 DEF Holds
  <2>2. \A x \in E : id[x] \in D(max)
    BY <1>4 DEF IdOK, D
  <2>3. \A s, t \in D(cur) : h.heap[s] = h.heap[t] => s = t
    BY <1>2 DEF Holds
  <2>4. \A x \in E : \E s \in D(cur) : h.heap[s] = x
    BY <1>2 DEF Holds
  <2> QED
    BY <2>1, <2>2, <2>3, <2>4, <1>1, <1>7
<1>12. /\ \A s : s \in D(cur) <=> s \in D(last) \/ s = last
       /\ last \notin D(last) /\ D(last) \subseteq D(max) /\ slot \in D(cur) /\ slot \in Nat
       /\ 0 \in D(max)
       /\ slot \in D(last) <=> slot < last
       /\ \A s \in D(last) : s \in Nat /\ Parent(s) \in D(last)
  <2>1. slot \in D(cur)
    BY <1>1
  <2>2. \A s \in D(last) : s \in Nat /\ Parent(s) \in D(last)
    BY <1>6, ParentIn
  <2>3. cur = last + 1 /\ last + 2 <= max
    BY <1>1, <1>2, <1>10
  <2>4. \A n : \A s : s \in D(n) <=> s \in 0 .. n - 1
    BY DEF D
  <2>5. \A s : s \in D(cur) <=> s \in Nat /\ s <= last
    BY <2>3, <2>4, <1>6
  <2>6. \A s : s \in D(last) <=> s \in Nat /\ s < last
    BY <2>4, <1>6
  <2>7. \A s : s \in D(max) <=> s \in Nat /\ s < max
    BY <2>4, <1>2
  <2>8. /\ \A s : s \in D(cur) <=> s \in D(last) \/ s = last
        /\ last \notin D(last) /\ D(last) \subseteq D(max) /\ 0 \in D(max)
    BY <2>3, <2>5, <2>6, <2>7, <1>2, <1>6
  <2>9. slot \in Nat /\ (slot \in D(last) <=> slot < last)
    BY <2>1, <2>5, <2>6
  <2> QED
    BY <2>1, <2>2, <2>8, <2>9
<1>13. PICK q : q = remove_node(h, id, val, slot)
  OBVIOUS
<1>14. CASE slot >= last
  <2>1. slot = last /\ slot \notin D(last)
    BY <1>14, <1>6, <1>12
  <2>2. q = h1
    <3>1. PICK moved, h2 : moved = h.heap[last] /\ h2 = Copied(h1, id, slot, moved)
      OBVIOUS
    <3>2. slot \in Int /\ last \in Int /\ last = h.cur_size - 1
      BY <1>1, <1>6, <1>12
    <3> QED
      BY <3>1, <3>2, <1>5, <1>13, <1>14, RemoveUnfolds
  <2>3. Holds(h1.heap, D(last), F)
    <3>1. \A s \in D(last) : h1.heap[s] = h.heap[s] /\ s \in D(cur) /\ s # slot
      BY <2>1, <1>6, <1>12
    <3>2. \A s \in D(cur) : s # slot => s \in D(last)
      BY <2>1, <1>12
    <3> QED
      BY <3>1, <3>2, <1>11 DEF Holds
  <2>4. \A s \in D(last) : h1.timer_ids[id[h1.heap[s]]] = s
    <3> SUFFICES ASSUME NEW s \in D(last) PROVE h1.timer_ids[id[h1.heap[s]]] = s
      OBVIOUS
    <3>1. h1.heap[s] = h.heap[s] /\ s \in D(cur) /\ h.heap[s] \in F
      BY <2>1, <1>6, <1>11, <1>12
    <3>2. id[h.heap[s]] # id[e] /\ id[h.heap[s]] \in D(max)
      BY <3>1, <1>10, <1>11
    <3> QED
      BY <3>1, <3>2, <1>2, <1>6
  <2>5. Ordered(D(last), TimesOf(h1, val, last))
    <3> SUFFICES ASSUME NEW s \in D(last)
                 PROVE  TimesOf(h1, val, last)[Parent(s)] <= TimesOf(h1, val, last)[s]
      BY DEF Ordered
    <3>1. Parent(s) \in D(last) /\ s \in D(cur)
      BY <1>12
    <3> QED
      BY <3>1, <1>3, <1>6 DEF TimesOf
  <2>6. h1.timer_ids[0] = -1
    BY <1>2, <1>6, <1>12
  <2>7. HeapOf(h1, id, val, F)
    BY <2>3, <2>4, <2>5, <2>6, <1>6, <1>8, <1>9, <1>10 DEF HeapOf, Loaded
  <2> QED
    BY <2>2, <2>7, <1>1, <1>7, <1>13
<1>15. CASE slot < last
  <2>1. PICK moved : moved = h.heap[last]
    OBVIOUS
  <2>2. PICK h2 : h2 = Copied(h1, id, slot, moved)
    OBVIOUS
  <2>3. /\ slot \in D(last) /\ last \in D(cur) /\ slot # last /\ moved \in F /\ moved \in Entries
        /\ id[moved] \in D(max) /\ slot \in D(max) /\ id[moved] # 0 /\ val[moved] \in Int
    <3>1. slot \in D(last) /\ last \in D(cur) /\ slot # last /\ slot \in D(max)
      BY <1>15, <1>12
    <3>2. moved \in F /\ moved \in Entries
      BY <3>1, <2>1, <1>10, <1>11
    <3>3. id[moved] \in 1 .. max - 1
      BY <3>2, <1>10 DEF IdOK
    <3>4. id[moved] \in D(max) /\ id[moved] # 0
      BY <3>3, <1>2 DEF D
    <3> QED
      BY <3>1, <3>2, <3>4
  <2>4. /\ Shape(h2) /\ h2.cur_size = last /\ h2.max_size = max /\ h2.freelist = h1.freelist
        /\ h2.heap[slot] = moved
        /\ \A s \in D(max) : s # slot => h2.heap[s] = h1.heap[s]
        /\ \A i \in D(max) : i # id[moved] => h2.timer_ids[i] = h1.timer_ids[i]
    <3>1. WithCopy(h2, h1, id, slot, moved)
      BY <2>2, <2>3, <1>6, CopiesLast
    <3> QED
      BY <3>1, <1>6 DEF WithCopy
  <2>5. \A s \in D(last) : s # slot => h2.heap[s] = h.heap[s] /\ s \in D(cur) /\ s # last
    BY <2>4, <1>6, <1>12
  <2>6. PICK G : G = F \ {moved}
    OBVIOUS
  <2>7. Holds(h2.heap, D(last) \ {slot}, G)
    <3>1. \A s \in D(last) \ {slot} : h2.heap[s] \in G
      BY <2>1, <2>3, <2>5, <2>6, <1>11
    <3>2. \A x \in G : \E s \in D(last) \ {slot} : h2.heap[s] = x
      <4> SUFFICES ASSUME NEW x \in G PROVE \E s \in D(last) \ {slot} : h2.heap[s] = x
        OBVIOUS
      <4>1. PICK s \in D(cur) : s # slot /\ h.heap[s] = x
        BY <2>6, <1>11
      <4>2. s # last
        BY <4>1, <2>1, <2>6
      <4> QED
        BY <4>1, <4>2, <2>5, <1>12
    <3>3. \A s, t \in D(last) \ {slot} : h2.heap[s] = h2.heap[t] => s = t
      BY <2>5, <1>11
    <3> QED
      BY <3>1, <3>2, <3>3 DEF Holds
  <2>8. \A s \in D(last) \ {slot} : h2.timer_ids[id[h2.heap[s]]] = s
    <3> SUFFICES ASSUME NEW s \in D(last) \ {slot} PROVE h2.timer_ids[id[h2.heap[s]]] = s
      OBVIOUS
    <3>1. h2.heap[s] = h.heap[s] /\ s \in D(cur) /\ h.heap[s] \in F /\ h.heap[s] \in E /\ h.heap[s] # moved
      BY <2>1, <2>3, <2>5, <1>11
    <3>2. id[h.heap[s]] # id[e] /\ id[h.heap[s]] \in D(max) /\ id[h.heap[s]] # id[moved]
      BY <3>1, <2>3, <1>10, <1>11 DEF IdOK
    <3>3. h2.timer_ids[id[h.heap[s]]] = h.timer_ids[id[h.heap[s]]]
      BY <3>2, <2>4, <1>6
    <3> QED
      BY <3>1, <3>3, <1>2
  <2>9. F = G \cup {moved} /\ moved \notin G
    BY <2>3, <2>6
  <2>10. Open(h2, id, last, slot, G, moved)
    <3>1. last <= max /\ G \subseteq Entries /\ moved \in Entries \ G /\ IdOK(id, G \cup {moved}, max)
      <4>1. last <= max
        BY <1>2, <1>6, <1>10
      <4>2. G \subseteq Entries /\ moved \in Entries \ G
        BY <2>3, <2>6, <1>10
      <4>3. IdOK(id, F, max)
        BY <2>3, <1>10
      <4> QED
        BY <4>1, <4>2, <4>3, <2>9
    <3>2. Shape(h2) /\ h2.max_size = max /\ slot \in D(last) /\ last \in Nat
      BY <2>3, <2>4, <1>6
    <3>3. Loaded(h2, id, D(last) \ {slot}, G)
      BY <2>7, <2>8 DEF Loaded
    <3> QED
      BY <3>1, <3>2, <3>3 DEF Open
  <2>11. \A s \in D(last) : val[h.heap[s]] \in Int
    BY <1>2, <1>11, <1>12
  <2>12. \A s \in D(last) : val[h.heap[Parent(s)]] <= val[h.heap[s]] /\ Parent(s) \in D(last)
                            /\ (s > 0 => Parent(s) < s) /\ s \in Nat
    BY <1>3, <1>6, <1>12, ParentIn
  <2>13. OrderedBut(D(last), TimesBut(h2, val, last, slot, val[moved]), slot)
    <3>1. PICK v : v = TimesBut(h2, val, last, slot, val[moved])
      OBVIOUS
    <3>2. \A s \in D(last) : s # slot => v[s] = val[h.heap[s]]
      BY <3>1, <2>5 DEF TimesBut
    <3>3. \A s \in D(last) : s > 0 /\ s # slot /\ Parent(s) # slot => v[Parent(s)] <= v[s]
      BY <3>2, <2>12
    <3>4. ASSUME NEW c1 \in D(last), c1 > 0, slot > 0, Parent(c1) = slot PROVE v[Parent(slot)] <= v[c1]
      <4>1. c1 # slot /\ Parent(slot) # slot /\ Parent(slot) \in D(last)
        BY <3>4, <2>3, <2>12
      <4>2. val[h.heap[Parent(slot)]] <= val[h.heap[slot]] /\ val[h.heap[slot]] <= val[h.heap[c1]]
        BY <3>4, <2>3, <2>12
      <4>3. v[Parent(slot)] = val[h.heap[Parent(slot)]] /\ v[c1] = val[h.heap[c1]]
        BY <3>2, <4>1
      <4> QED
        BY <4>1, <4>2, <4>3, <2>3, <2>11
    <3> QED
      BY <3>1, <3>3, <3>4 DEF OrderedBut
  <2>14. q = IF val[moved] >= val[h2.heap[Parent(slot)]]
             THEN reheap_down(h2, id, val, moved, slot) ELSE reheap_up(h2, id, val, moved, slot)
    <3>1. slot \in Int /\ last \in Int /\ last = h.cur_size - 1
      BY <1>1, <1>6, <1>12
    <3> QED
      BY <3>1, <2>1, <2>2, <1>5, <1>13, <1>15, RemoveUnfolds
  <2>15. Parent(slot) \in D(last) /\ (slot > 0 => h2.heap[Parent(slot)] = h.heap[Parent(slot)])
    BY <2>3, <2>5, <2>12
  <2>16. Arranged(q, h2, id, last, F) /\ Ordered(D(last), TimesOf(q, val, last))
    <3>1. CASE val[moved] >= val[h2.heap[Parent(slot)]]
      <4>1. q = reheap_down(h2, id, val, moved, slot)
        BY <3>1, <2>14
      <4>2. slot > 0 => val[h2.heap[Parent(slot)]] <= val[moved]
        BY <3>1, <2>3, <2>11, <2>15
      <4> QED
        BY <4>1, <4>2, <2>4, <2>9, <2>10, <2>13, DownWorks
    <3>2. CASE ~(val[moved] >= val[h2.heap[Parent(slot)]])
      <4>1. q = reheap_up(h2, id, val, moved, slot)
        BY <3>2, <2>14
      <4>2. slot > 0
        <5> SUFFICES ASSUME slot = 0 PROVE FALSE
          BY <1>12
        <5> QED
          BY <3>2, <2>3, <2>4, ParentOf
      <4>3. ASSUME NEW c1 \in D(last), c1 > 0, Parent(c1) = slot PROVE val[moved] <= val[h2.heap[c1]]
        <5>1. c1 # slot /\ h2.heap[c1] = h.heap[c1]
          BY <4>3, <2>5, <2>12
        <5>2. val[h.heap[Parent(slot)]] <= val[h.heap[slot]] /\ val[h.heap[slot]] <= val[h.heap[c1]]
          BY <4>3, <2>3, <2>12
        <5>3. ~(val[moved] >= val[h.heap[Parent(slot)]])
          BY <3>2, <4>2, <2>15
        <5> QED
          BY <5>1, <5>2, <5>3, <2>3, <2>11, <2>15
      <4> QED
        BY <4>1, <4>3, <2>9, <2>10, <2>13, UpWorks
    <3> QED
      BY <3>1, <3>2
  <2>17. /\ Shape(q) /\ Loaded(q, id, D(last), F) /\ q.max_size = max /\ q.cur_size = last
         /\ q.freelist = h1.freelist
         /\ \A i \in D(max) : i \notin U => q.timer_ids[i] = h2.timer_ids[i]
    BY <2>4, <2>16, <1>8 DEF Arranged
  <2>18. \A i \in D(max) : i \notin U => q.timer_ids[i] = h1.timer_ids[i]
    BY <2>3, <2>4, <2>17, <1>8
  <2>19. Chain(c, max - 1 - last, q.timer_ids, q.freelist, max, U)
    BY <2>17, <2>18, <1>9, ChainKept
  <2>20. q.timer_ids[0] = -1
    <3>1. 0 \notin U
      <4>1. \A x \in F : id[x] \in 1 .. max - 1
        BY <1>10 DEF IdOK
      <4>2. \A x \in F : id[x] # 0
        BY <4>1, <1>2
      <4> QED
        BY <4>2, <1>8
    <3> QED
      BY <3>1, <2>18, <1>2, <1>6, <1>12
  <2>21. HeapOf(q, id, val, F)
    BY <2>16, <2>17, <2>19, <2>20, <1>8, <1>10 DEF HeapOf
  <2> QED
    BY <2>21, <1>1, <1>7, <1>13
<1> QED
  BY <1>14, <1>15, <1>6, <1>12

-----------------------------------------------------------------------------
(* The state *)

\* Ids and times of the entries.
Types == /\ timer_id \in [Entries -> Int] /\ \A e \in Entries : timer_id[e] >= -1
         /\ value \in [Entries -> Times \cup {0}]

\* The inductive invariant: ht is a heap of exactly the scheduled entries.
IInv == Types /\ HeapOf(ht, timer_id, value, Scheduled)

\* A heap of n slots holds n entries.
LEMMA Counted ==
    ASSUME NEW n \in Nat, NEW heap, NEW E, Holds(heap, D(n), E)
    PROVE  IsFiniteSet(E) /\ Cardinality(E) = n
<1> DEFINE f == [s \in D(n) |-> heap[s]]
<1>1. IsFiniteSet(D(n)) /\ Cardinality(D(n)) = n
  <2>1. 0 \in Int /\ n - 1 \in Int
    OBVIOUS
  <2>2. IsFiniteSet(0 .. n - 1) /\ Cardinality(0 .. n - 1) = IF 0 > n - 1 THEN 0 ELSE (n - 1) - 0 + 1
    BY <2>1, FS_Interval
  <2> QED
    BY <2>2 DEF D
<1>2. f \in Bijection(D(n), E)
  <2>1. f \in [D(n) -> E] /\ \A x \in E : \E s \in D(n) : f[s] = x
    BY DEF Holds
  <2>2. \A s, t \in D(n) : f[s] = f[t] => s = t
    BY DEF Holds
  <2> HIDE DEF f
  <2> QED
    BY <2>1, <2>2 DEF Bijection, Injection, Surjection, IsInjective
<1>3. ExistsBijection(D(n), E)
  BY <1>2 DEF ExistsBijection
<1> QED
  BY <1>1, <1>3, FS_Bijection

\* There are NumEntries entries.
LEMMA EntriesFinite == IsFiniteSet(Entries) /\ Cardinality(Entries) = NumEntries /\ NumEntries \in Nat
<1>1. NumEntries \in Nat
  BY HeapAssumption
<1>2. 1 \in Int /\ NumEntries \in Int
  BY <1>1
<1>3. IsFiniteSet(1 .. NumEntries) /\ Cardinality(1 .. NumEntries) = IF 1 > NumEntries THEN 0 ELSE NumEntries - 1 + 1
  BY <1>2, FS_Interval
<1> QED
  BY <1>1, <1>3 DEF Entries

\* The ids on the free list are those of its chain.
LEMMA FreeIdsAre ==
    ASSUME NEW c, NEW L, NEW U, Chain(c, L, ht.timer_ids, ht.freelist, ht.max_size, U), L <= ht.max_size,
           ht.timer_ids \in [D(ht.max_size) -> Int]
    PROVE  FreeIds = (1 .. ht.max_size) \ U
<1>1. PICK max, ids : max = ht.max_size /\ ids = ht.timer_ids
  OBVIOUS
<1>2. /\ L \in Nat /\ max \in Nat /\ L <= max /\ c \in [0 .. L -> 1 .. max] /\ c[0] = ht.freelist /\ c[L] = max
      /\ \A k \in 0 .. L : k < L => ids[c[k]] = -c[k + 1]
      /\ \A j, k \in 0 .. L : c[j] = c[k] => j = k
      /\ \A x \in 1 .. max : (\E k \in 0 .. L : c[k] = x) <=> x \notin U
      /\ DOMAIN ids = D(max)
  BY <1>1 DEF Chain
<1> DEFINE Link(i) == IF i \in DOMAIN ids THEN -ids[i] ELSE i
           Def(f) == [k \in 0 .. max |-> IF k = 0 THEN ht.freelist ELSE Link(f[k - 1])]
           g == [k \in 0 .. max |-> IF k <= L THEN c[k] ELSE max]
           chain == CHOOSE f : f = Def(f)
<1>3. \A k \in 0 .. max : k \in Nat /\ (k <= L => g[k] = c[k] /\ k \in 0 .. L) /\ (k >= L => g[k] = max)
  BY <1>2
<1>4. \A k \in 0 .. L : c[k] \in 1 .. max /\ k \in 0 .. max /\ (k < L => c[k] \in D(max))
  <2> SUFFICES ASSUME NEW k \in 0 .. L
               PROVE  c[k] \in 1 .. max /\ k \in 0 .. max /\ (k < L => c[k] \in D(max))
    OBVIOUS
  <2> HIDE DEF g, chain
  <2>1. c[k] \in 1 .. max /\ k \in 0 .. max /\ L \in 0 .. L
    BY <1>2
  <2>2. ASSUME k < L PROVE c[k] \in D(max)
    <3>1. c[k] # max
      BY <2>1, <2>2, <1>2
    <3>2. c[k] \in 0 .. max - 1
      BY <2>1, <3>1, <1>2
    <3> QED
      BY <3>2 DEF D
  <2> QED
    BY <2>1, <2>2
<1>5. max \notin D(max)
  BY <1>2 DEF D
<1>6. ASSUME NEW k \in 0 .. max, k # 0 PROVE g[k] = Link(g[k - 1])
  <2> HIDE DEF g, chain
  <2>1. k - 1 \in 0 .. max /\ (k - 1) + 1 = k
    BY <1>2, <1>6
  <2>2. CASE k <= L
    <3>1. k - 1 \in 0 .. L /\ k - 1 < L /\ g[k] = c[k] /\ g[k - 1] = c[k - 1]
      BY <2>1, <2>2, <1>2, <1>3
    <3>2. ids[c[k - 1]] = -c[k] /\ c[k - 1] \in D(max) /\ c[k] \in Int
      BY <3>1, <2>1, <2>2, <1>2, <1>3, <1>4
    <3>3. -ids[c[k - 1]] = c[k]
      BY <3>2
    <3> QED
      BY <3>1, <3>2, <3>3, <1>2
  <2>3. CASE k > L
    <3>1. k - 1 >= L /\ k >= L
      BY <2>1, <2>3, <1>2, <1>3
    <3>2. g[k] = max /\ g[k - 1] = max
      BY <2>1, <3>1, <1>3
    <3> QED
      BY <3>2, <1>2, <1>5
  <2> QED
    BY <2>2, <2>3, <1>2, <1>3
<1>7. g = Def(g)
  <2>1. g[0] = ht.freelist
    BY <1>2, <1>3
  <2>2. g = [k \in 0 .. max |-> g[k]] /\ DOMAIN g = 0 .. max
    OBVIOUS
  <2> HIDE DEF g, Link
  <2> QED
    BY <2>1, <2>2, <1>6
<1>8. chain = Def(chain)
  <2> HIDE DEF g, Def
  <2> QED
    BY <1>7
<1>9. /\ \A k \in 0 .. max : chain[k] = IF k = 0 THEN ht.freelist ELSE Link(chain[k - 1])
  <2> HIDE DEF chain, g, Link
  <2> QED
    BY <1>8
<1>10. FreeIds = {chain[k] : k \in 0 .. max}
  BY <1>1 DEF FreeIds
<1>11. \A k \in 0 .. max : chain[k] = g[k]
  <2> DEFINE Bad == {k \in 0 .. max : chain[k] # g[k]}
  <2> SUFFICES ASSUME Bad # {} PROVE FALSE
    OBVIOUS
  <2> HIDE DEF chain, Link
  <2>1. g[0] = ht.freelist
    BY <1>2, <1>3
  <2> HIDE DEF g
  <2>2. Bad \subseteq Nat
    BY <1>2
  <2>3. PICK k \in Bad : \A j \in Bad : k <= j
    <3> HIDE DEF Bad
    <3> QED
      BY <2>2, Least
  <2>4. k # 0 /\ k \in 0 .. max
    BY <2>1, <1>9
  <2>5. k - 1 \in 0 .. max /\ k - 1 \notin Bad
    <3>1. k - 1 \in 0 .. max /\ ~(k <= k - 1)
      BY <2>4, <1>2
    <3> HIDE DEF Bad
    <3> QED
      BY <3>1, <2>3
  <2>6. chain[k - 1] = g[k - 1]
    BY <2>5
  <2> QED
    BY <2>4, <2>6, <1>6, <1>9
<1> HIDE DEF g, chain, Link
<1>12. ASSUME NEW x PROVE x \in FreeIds <=> x \in (1 .. max) \ U
  <2>1. ASSUME NEW k \in 0 .. max, x = chain[k] PROVE x \in (1 .. max) \ U
    <3>1. PICK j \in 0 .. L : x = c[j]
      <4>1. CASE k <= L
        BY <2>1, <4>1, <1>3, <1>11
      <4>2. CASE k > L
        <5>0. k >= L /\ L \in 0 .. L
          BY <4>2, <1>2, <1>3
        <5>2. g[k] = max
          BY <5>0, <1>3
        <5>1. x = c[L] /\ L \in 0 .. L
          BY <5>0, <5>2, <2>1, <1>2, <1>11
        <5> QED
          BY <5>1
      <4> QED
        BY <4>1, <4>2, <1>2, <1>3
    <3> QED
      BY <3>1, <1>2, <1>4
  <2>2. ASSUME x \in (1 .. max) \ U PROVE \E k \in 0 .. max : x = chain[k]
    <3>1. PICK k \in 0 .. L : c[k] = x
      BY <2>2, <1>2
    <3>2. k \in 0 .. max /\ k <= L
      BY <1>2, <1>4
    <3> QED
      BY <3>1, <3>2, <1>3, <1>11
  <2> QED
    BY <2>1, <2>2, <1>10
<1> QED
  BY <1>1, <1>12

\* The invariant gives what the runs check.
LEMMA IInvSound == IInv => Sound
<1> SUFFICES ASSUME IInv PROVE Sound
  OBVIOUS
<1>1. PICK cur, max : cur = ht.cur_size /\ max = ht.max_size
  OBVIOUS
<1>2. /\ Shape(ht) /\ cur \in Nat /\ max \in Nat /\ cur + 2 <= max
      /\ ht.heap \in [D(max) -> Entries \cup {0}] /\ ht.timer_ids \in [D(max) -> Int]
      /\ Holds(ht.heap, D(cur), Scheduled) /\ \A s \in D(cur) : ht.timer_ids[timer_id[ht.heap[s]]] = s
      /\ Scheduled \subseteq Entries
      /\ \A e \in Scheduled : timer_id[e] \in 1 .. max - 1
      /\ Ordered(D(cur), TimesOf(ht, value, cur)) /\ ht.timer_ids[0] = -1
  BY <1>1 DEF IInv, HeapOf, Shape, Loaded, IdOK
<1>3. Slots = D(cur)
  BY <1>1 DEF Slots, D
<1>4. IsFiniteSet(Scheduled) /\ Cardinality(Scheduled) = cur
  BY <1>2, Counted
<1>5. cur \in 0 .. NumEntries
  <2>1. Cardinality(Scheduled) <= Cardinality(Entries)
    BY <1>2, EntriesFinite, FS_Subset
  <2> QED
    BY <2>1, <1>2, <1>4, EntriesFinite
<1>6. TypeOK
  <2>1. ASSUME NEW e \in Entries PROVE timer_id[e] \in -1 .. max - 1 /\ value[e] \in Times \cup {0}
    <3>1. timer_id[e] \in Int /\ timer_id[e] >= -1 /\ value[e] \in Times \cup {0}
      BY DEF IInv, Types
    <3>2. timer_id[e] >= 1 => timer_id[e] < max
      BY <1>2 DEF Scheduled, Running
    <3>3. timer_id[e] < max
      BY <3>1, <3>2, <1>2
    <3> QED
      BY <3>1, <3>3, <1>2
  <2> QED
    BY <2>1, <1>1, <1>2, <1>5 DEF TypeOK, D
<1>7. HeapOrdered
  <2>1. \A s \in D(cur) : Parent(s) \in D(cur)
    BY <1>2, ParentIn
  <2> QED
    BY <2>1, <1>2, <1>3 DEF HeapOrdered, Ordered, TimesOf
<1>8. IdsMatchSlots
  BY <1>1, <1>2, <1>3, <1>4 DEF IdsMatchSlots, Holds
<1>9. FreelistSound
  <2>1. PICK U : U = {timer_id[e] : e \in Scheduled}
    OBVIOUS
  <2>2. PICK c, L : L = max - 1 - cur /\ Chain(c, L, ht.timer_ids, ht.freelist, max, U)
    BY <1>1, <2>1 DEF IInv, HeapOf
  <2>3. L <= max
    BY <2>2, <1>2
  <2>4. FreeIds = (1 .. max) \ U
    BY <2>2, <2>3, <1>1, <1>2, FreeIdsAre
  <2>5. ht.freelist \in 1 .. max - 1
    BY <1>1, FreeIsFree DEF IInv
  <2>6. ht.freelist < max
    BY <2>5, <1>2
  <2> QED
    BY <2>1, <2>4, <2>6, <1>1, <1>2 DEF FreelistSound
<1> QED
  BY <1>6, <1>7, <1>8, <1>9 DEF Sound

\* pj_timer_heap_create makes an empty heap.
LEMMA InitOK == Init => IInv
<1> SUFFICES ASSUME Init PROVE IInv
  OBVIOUS
<1>1. Size \in Nat /\ Size > 0 /\ NumEntries \in Nat
  BY HeapAssumption
<1>2. Types
  BY DEF Init, Types
<1>3. Scheduled = {}
  BY DEF Init, Scheduled, Running
<1>4. PICK max : max = Size + 2
  OBVIOUS
<1>5. /\ ht.heap = [s \in D(max) |-> 0] /\ ht.timer_ids = [i \in D(max) |-> -(i + 1)]
      /\ ht.freelist = 1 /\ ht.cur_size = 0 /\ ht.max_size = max
      /\ ht = [heap |-> ht.heap, timer_ids |-> ht.timer_ids, freelist |-> ht.freelist,
               cur_size |-> ht.cur_size, max_size |-> ht.max_size]
  BY <1>4 DEF Init, pj_timer_heap_create, D
<1>6. Shape(ht)
  <2>1. ht.heap \in [D(max) -> Entries \cup {0}]
    BY <1>5
  <2>2. ht.timer_ids \in [D(max) -> Int]
    BY <1>5 DEF D
  <2> QED
    BY <2>1, <2>2, <1>1, <1>4, <1>5 DEF Shape
<1>7. D(0) = {}
  BY DEF D
<1>8. Loaded(ht, timer_id, D(0), {}) /\ Ordered(D(0), TimesOf(ht, value, 0))
  BY <1>7 DEF Loaded, Holds, Ordered
<1>9. \E c : Chain(c, max - 1 - 0, ht.timer_ids, 1, max, {})
  <2> DEFINE c == [k \in 0 .. max - 1 |-> k + 1]
  <2>1. max - 1 \in Nat /\ max \in Nat /\ max - 1 - 0 = max - 1
    BY <1>1, <1>4
  <2>2. \A k \in 0 .. max - 1 : c[k] = k + 1 /\ k \in Nat /\ k + 1 \in 1 .. max
    BY <2>1
  <2>3. c \in [0 .. max - 1 -> 1 .. max]
    BY <2>2
  <2> HIDE DEF c
  <2>4. c[0] = 1 /\ c[max - 1] = max
    BY <2>1, <2>2
  <2>5. ASSUME NEW k \in 0 .. max - 1, k < max - 1 PROVE ht.timer_ids[c[k]] = -c[k + 1]
    <3>1. k + 1 \in 0 .. max - 1
      BY <2>1, <2>5
    <3>2. c[k] = k + 1 /\ c[k + 1] = (k + 1) + 1
      BY <3>1, <2>2
    <3>3. ht.timer_ids[k + 1] = -((k + 1) + 1)
      BY <3>1, <1>5 DEF D
    <3> QED
      BY <3>2, <3>3
  <2>6. ASSUME NEW j \in 0 .. max - 1, NEW k \in 0 .. max - 1, c[j] = c[k] PROVE j = k
    <3>1. j + 1 = k + 1 /\ j \in Nat /\ k \in Nat
      BY <2>2, <2>6
    <3> QED
      BY <3>1
  <2>7. ASSUME NEW x \in 1 .. max PROVE \E k \in 0 .. max - 1 : c[k] = x
    <3>1. x - 1 \in 0 .. max - 1 /\ (x - 1) + 1 = x
      BY <2>1
    <3> QED
      BY <3>1, <2>2
  <2>8. Chain(c, max - 1, ht.timer_ids, 1, max, {})
    BY <2>1, <2>3, <2>4, <2>5, <2>6, <2>7 DEF Chain
  <2> QED
    BY <2>1, <2>8
<1>10. ht.timer_ids[0] = -1
  <2>1. 0 \in D(max)
    BY <1>1, <1>4 DEF D
  <2> QED
    BY <2>1, <1>5
<1>11. {timer_id[e] : e \in {}} = {}
  OBVIOUS
<1>12. 0 + 2 <= max
  BY <1>1, <1>4
<1>13. HeapOf(ht, timer_id, value, {})
  BY <1>5, <1>6, <1>8, <1>9, <1>10, <1>11, <1>12 DEF HeapOf, IdOK
<1> QED
  BY <1>2, <1>3, <1>13 DEF IInv

\* Times are numbers, also the one an entry has while it is not scheduled.
LEMMA ValuesAreInts ==
    /\ \A x \in Times \cup {0} : x \in Int
    /\ \A v \in [Entries -> Times \cup {0}] : v \in [Entries -> Int]
<1>1. \A x \in Times \cup {0} : x \in Int
  <2>1. \A x \in Times : x \in Nat
    BY HeapAssumption
  <2> QED
    BY <2>1
<1>2. ASSUME NEW v \in [Entries -> Times \cup {0}]
      PROVE  v \in [Entries -> Int]
  <2>1. \A e \in Entries : v[e] \in Int
    BY <1>1
  <2> QED
    BY <2>1, Zenon
<1> QED
  BY <1>1, <1>2

\* There is room for one more, and an id for it that nobody has.
LEMMA HasRoom ==
    ASSUME IInv
    PROVE  ht.freelist \in Nat /\ ht.freelist >= 1 /\ Room
<1>1. ht.cur_size \in Nat /\ ht.max_size \in Nat /\ ht.cur_size + 2 <= ht.max_size
  BY DEF IInv, HeapOf, Shape
<1>2. ht.freelist \in 1 .. ht.max_size - 1
  BY FreeIsFree DEF IInv
<1> QED
  BY <1>1, <1>2 DEF Room

\* schedule_w_grp_lock: the entry is added.
LEMMA ScheduleOK ==
    ASSUME IInv, NEW e \in Entries, NEW t \in Times, Schedule(e, t)
    PROVE  IInv' /\ due' = [due EXCEPT ![e] = t]
<1>1. PICK free : free = ht.freelist
  OBVIOUS
<1>2. e \in Entries \ Scheduled /\ free \in Nat /\ free >= 1 /\ Room
  BY <1>1, HasRoom DEF Schedule, Scheduled
<1>3. PICK id, val : id = [timer_id EXCEPT ![e] = free] /\ val = [value EXCEPT ![e] = t]
  OBVIOUS
<1>4. timer_id' = id /\ value' = val /\ ht' = insert_node(pop_freelist(ht), id, val, e)
  BY <1>1, <1>2, <1>3 DEF Schedule
<1>5. /\ timer_id \in [Entries -> Int] /\ \A f \in Entries : timer_id[f] >= -1
      /\ value \in [Entries -> Times \cup {0}]
  BY DEF IInv, Types
<1>6. /\ id \in [Entries -> Int] /\ id[e] = free /\ \A f \in Entries : f # e => id[f] = timer_id[f]
      /\ val \in [Entries -> Times \cup {0}] /\ val[e] = t /\ \A f \in Entries : f # e => val[f] = value[f]
  BY <1>2, <1>3, <1>5
<1>7. \A f \in Entries : id[f] >= -1
  BY <1>2, <1>5, <1>6
<1>8. HeapOf(ht, id, val, Scheduled)
  <2>1. \A f \in Scheduled : id[f] = timer_id[f] /\ val[f] = value[f]
    BY <1>2, <1>6 DEF Scheduled
  <2>2. HeapOf(ht, timer_id, value, Scheduled)
    BY DEF IInv
  <2> QED
    BY <2>1, <2>2, HeapOfSame
<1>9. HeapOf(insert_node(pop_freelist(ht), id, val, e), id, val, Scheduled \cup {e})
  <2>1. val \in [Entries -> Int]
    BY <1>6, ValuesAreInts
  <2>2. id[e] = ht.freelist
    BY <1>1, <1>6
  <2> QED
    BY <2>1, <2>2, <1>2, <1>8, InsertKeeps
<1>10. Scheduled' = Scheduled \cup {e}
  <2>1. Scheduled' = {f \in Entries : id[f] >= 1}
    BY <1>4 DEF Scheduled, Running
  <2>2. \A f \in Entries : id[f] >= 1 <=> timer_id[f] >= 1 \/ f = e
    BY <1>2, <1>6
  <2> QED
    BY <2>1, <2>2, <1>2 DEF Scheduled, Running
<1>11. HeapOf(ht', timer_id', value', Scheduled')
  BY <1>4, <1>9, <1>10
<1>12. Types'
  BY <1>4, <1>6, <1>7 DEF Types
<1>13. due' = [due EXCEPT ![e] = t]
  <2>1. due' = [f \in Entries |-> IF id[f] >= 1 THEN val[f] ELSE None]
    BY <1>4 DEF due, Running, None
  <2>2. due = [f \in Entries |-> IF timer_id[f] >= 1 THEN value[f] ELSE None]
    BY DEF due, Running
  <2>3. id[e] >= 1
    BY <1>2, <1>6
  <2> QED
    BY <2>1, <2>2, <2>3, <1>2, <1>6
<1> QED
  BY <1>11, <1>12, <1>13 DEF IInv

\* remove_node, from cancel and from poll: the entry in the slot is taken away.
LEMMA RemoveOK ==
    ASSUME IInv, NEW slot \in D(ht.cur_size), NEW e, e = ht.heap[slot], Remove(e, slot)
    PROVE  IInv' /\ e \in Scheduled /\ due' = [due EXCEPT ![e] = None]
<1>1. /\ timer_id \in [Entries -> Int] /\ \A f \in Entries : timer_id[f] >= -1
      /\ value \in [Entries -> Times \cup {0}]
  BY DEF IInv, Types
<1>2. e \in Scheduled /\ e \in Entries
  BY DEF IInv, HeapOf, Loaded, Holds
<1>3. PICK id, val : id = [timer_id EXCEPT ![e] = -1] /\ val = [value EXCEPT ![e] = 0]
  OBVIOUS
<1>4. timer_id' = id /\ value' = val /\ ht' = remove_node(ht, timer_id, value, slot)
  BY <1>3 DEF Remove
<1>5. /\ id \in [Entries -> Int] /\ id[e] = -1 /\ \A f \in Entries : f # e => id[f] = timer_id[f]
      /\ val \in [Entries -> Times \cup {0}] /\ \A f \in Entries : f # e => val[f] = value[f]
  BY <1>1, <1>2, <1>3
<1>6. HeapOf(ht', timer_id, value, Scheduled \ {e})
  <2>1. value \in [Entries -> Int]
    BY <1>1, ValuesAreInts
  <2>2. HeapOf(ht, timer_id, value, Scheduled)
    BY DEF IInv
  <2>3. HeapOf(remove_node(ht, timer_id, value, slot), timer_id, value, Scheduled \ {e})
    BY <2>1, <2>2, RemoveKeeps
  <2> QED
    BY <2>3, <1>4
<1>7. HeapOf(ht', id, val, Scheduled \ {e})
  <2>1. \A f \in Scheduled \ {e} : id[f] = timer_id[f] /\ val[f] = value[f]
    BY <1>5 DEF Scheduled
  <2> QED
    BY <2>1, <1>6, HeapOfSame
<1>8. Scheduled' = Scheduled \ {e}
  <2>1. Scheduled' = {f \in Entries : id[f] >= 1}
    BY <1>4 DEF Scheduled, Running
  <2>2. \A f \in Entries : id[f] >= 1 <=> timer_id[f] >= 1 /\ f # e
    BY <1>5
  <2> QED
    BY <2>1, <2>2 DEF Scheduled, Running
<1>9. HeapOf(ht', timer_id', value', Scheduled')
  BY <1>4, <1>7, <1>8
<1>10. Types'
  <2>1. \A f \in Entries : id[f] >= -1
    BY <1>1, <1>5
  <2> QED
    BY <2>1, <1>4, <1>5 DEF Types
<1>11. due' = [due EXCEPT ![e] = None]
  <2>1. due' = [f \in Entries |-> IF id[f] >= 1 THEN val[f] ELSE None]
    BY <1>4 DEF due, Running, None
  <2>2. due = [f \in Entries |-> IF timer_id[f] >= 1 THEN value[f] ELSE None]
    BY DEF due, Running
  <2>3. ~(id[e] >= 1)
    BY <1>5
  <2> QED
    BY <2>1, <2>2, <2>3, <1>2, <1>5
<1> QED
  BY <1>2, <1>9, <1>10, <1>11 DEF IInv

\* cancel: the slot its id leads to is the one of the entry, or it has none.
LEMMA CancelOK ==
    ASSUME IInv, NEW e \in Entries, Cancel(e)
    PROVE  IInv' /\ due' = [due EXCEPT ![e] = None]
<1>1. /\ timer_id \in [Entries -> Int] /\ \A f \in Entries : timer_id[f] >= -1
      /\ value \in [Entries -> Times \cup {0}]
  BY DEF IInv, Types
<1>2. PICK cur, max : cur = ht.cur_size /\ max = ht.max_size
  OBVIOUS
<1>3. /\ cur \in Nat /\ max \in Nat /\ Holds(ht.heap, D(cur), Scheduled)
      /\ \A s \in D(cur) : ht.timer_ids[timer_id[ht.heap[s]]] = s
      /\ \A f \in Scheduled : timer_id[f] < max
      /\ ht.timer_ids[0] = -1
  <2>1. /\ cur \in Nat /\ max \in Nat /\ Holds(ht.heap, D(cur), Scheduled)
        /\ \A s \in D(cur) : ht.timer_ids[timer_id[ht.heap[s]]] = s
        /\ \A f \in Scheduled : timer_id[f] \in 1 .. max - 1
        /\ ht.timer_ids[0] = -1
    BY <1>2 DEF IInv, HeapOf, Shape, Loaded, IdOK
  <2> QED
    BY <2>1
<1>4. PICK slot : slot = IF timer_id[e] < 0 \/ timer_id[e] > max THEN -1 ELSE ht.timer_ids[timer_id[e]]
  OBVIOUS
<1>5. IF slot < 0 \/ e # ht.heap[slot]
      THEN timer_id' = [timer_id EXCEPT ![e] = -1] /\ UNCHANGED <<ht, value>>
      ELSE Remove(e, slot)
  BY <1>2, <1>4 DEF Cancel
<1>6. CASE e \in Scheduled
  <2>1. PICK s \in D(cur) : ht.heap[s] = e
    BY <1>3, <1>6 DEF Holds
  <2>2. ht.timer_ids[timer_id[e]] = s /\ timer_id[e] < max /\ timer_id[e] >= 1 /\ timer_id[e] \in Int
    BY <2>1, <1>1, <1>3, <1>6 DEF Scheduled, Running
  <2>3. slot = s /\ s \in Nat
    <3>1. ~(timer_id[e] < 0 \/ timer_id[e] > max)
      BY <2>2, <1>3
    <3> QED
      BY <3>1, <2>2, <1>3, <1>4, ParentIn
  <2>4. Remove(e, s)
    BY <2>1, <2>3, <1>5
  <2> QED
    BY <2>1, <2>4, <1>2, RemoveOK
<1>7. CASE e \notin Scheduled
  <2>1. timer_id[e] \in Int /\ timer_id[e] >= -1 /\ ~(timer_id[e] >= 1)
    BY <1>1, <1>7 DEF Scheduled, Running
  <2>2. timer_id[e] = -1 \/ timer_id[e] = 0
    BY <2>1
  <2>3. slot = -1
    BY <2>2, <1>3, <1>4
  <2>4. timer_id' = [timer_id EXCEPT ![e] = -1] /\ ht' = ht /\ value' = value
    BY <2>3, <1>5
  <2>5. /\ timer_id' \in [Entries -> Int] /\ timer_id'[e] = -1
        /\ \A f \in Entries : f # e => timer_id'[f] = timer_id[f]
    BY <2>4, <1>1
  <2>6. \A f \in Entries : timer_id'[f] >= 1 <=> timer_id[f] >= 1
    BY <2>1, <2>5
  <2>7. Scheduled' = Scheduled
    BY <2>6 DEF Scheduled, Running
  <2>8. HeapOf(ht, timer_id', value, Scheduled)
    <3>1. \A f \in Scheduled : timer_id'[f] = timer_id[f] /\ value[f] = value[f]
      BY <2>5, <1>7 DEF Scheduled
    <3>2. HeapOf(ht, timer_id, value, Scheduled)
      BY DEF IInv
    <3> QED
      BY <3>1, <3>2, HeapOfSame
  <2>9. HeapOf(ht', timer_id', value', Scheduled')
    BY <2>4, <2>7, <2>8
  <2>10. Types'
    <3>1. \A f \in Entries : timer_id'[f] >= -1
      BY <2>5, <1>1
    <3> QED
      BY <3>1, <2>4, <2>5, <1>1 DEF Types
  <2>11. due' = [due EXCEPT ![e] = None]
    <3>1. due' = [f \in Entries |-> IF timer_id'[f] >= 1 THEN value[f] ELSE None]
      BY <2>4 DEF due, Running, None
    <3>2. due = [f \in Entries |-> IF timer_id[f] >= 1 THEN value[f] ELSE None]
      BY DEF due, Running
    <3> QED
      BY <3>1, <3>2, <2>1, <2>6
  <2> QED
    BY <2>9, <2>10, <2>11 DEF IInv
<1> QED
  BY <1>6, <1>7

\* No slot is due before the root: the first that was would have such a parent.
LEMMA RootIsFirst ==
    ASSUME NEW n \in Nat, NEW w \in [D(n) -> Int], Ordered(D(n), w), NEW s \in D(n)
    PROVE  w[0] <= w[s]
<1> DEFINE Bad == {t \in D(n) : ~(w[0] <= w[t])}
<1> SUFFICES ASSUME Bad # {} PROVE FALSE
  OBVIOUS
<1>1. Bad \subseteq Nat
  BY DEF D
<1>2. PICK t \in Bad : \A u \in Bad : t <= u
  <2> HIDE DEF Bad
  <2> QED
    BY <1>1, Least
<1>3. t \in D(n) /\ ~(w[0] <= w[t]) /\ t \in Nat /\ Parent(t) \in D(n) /\ (t > 0 => Parent(t) < t)
  BY ParentIn
<1>4. 0 \in D(n)
  BY <1>3 DEF D
<1>5. t # 0
  BY <1>3, <1>4
<1>6. w[Parent(t)] <= w[t]
  BY <1>3 DEF Ordered
<1>7. Parent(t) \in Bad
  BY <1>3, <1>4, <1>6
<1>8. t <= Parent(t) /\ Parent(t) < t /\ Parent(t) \in Nat
  <2>1. t <= Parent(t)
    <3> HIDE DEF Bad
    <3> QED
      BY <1>2, <1>7
  <2> QED
    BY <2>1, <1>1, <1>3, <1>5, <1>7
<1> HIDE DEF Bad
<1> QED
  BY <1>3, <1>8

\* pj_timer_heap_poll: the root is taken, and nothing is due before it.
LEMMA PollOK ==
    ASSUME IInv, Poll
    PROVE  IInv' /\ \E e \in Entries : First(e) /\ due' = [due EXCEPT ![e] = None]
<1>1. PICK cur, e : cur = ht.cur_size /\ e = ht.heap[0]
  OBVIOUS
<1>2. /\ cur \in Nat /\ Holds(ht.heap, D(cur), Scheduled) /\ Ordered(D(cur), TimesOf(ht, value, cur))
      /\ Scheduled \subseteq Entries /\ value \in [Entries -> Int]
  BY <1>1, ValuesAreInts DEF IInv, Types, HeapOf, Shape, Loaded
<1>3. cur > 0 /\ Remove(e, 0) /\ 0 \in D(cur)
  BY <1>1, <1>2 DEF Poll, D
<1>4. IInv' /\ e \in Scheduled /\ due' = [due EXCEPT ![e] = None]
  BY <1>1, <1>3, RemoveOK
<1>5. \A s \in D(cur) : value[e] <= value[ht.heap[s]]
  <2>1. PICK w : w = TimesOf(ht, value, cur)
    OBVIOUS
  <2>2. w \in [D(cur) -> Int] /\ \A s \in D(cur) : w[s] = value[ht.heap[s]]
    BY <2>1, <1>2 DEF TimesOf, Holds
  <2>3. \A s \in D(cur) : w[0] <= w[s]
    BY <2>1, <2>2, <1>2, RootIsFirst
  <2> QED
    BY <2>2, <2>3, <1>1, <1>3
<1>6. \A f \in Scheduled : value[e] <= value[f]
  BY <1>2, <1>5 DEF Holds
<1>7. \A f \in Entries : /\ f \in Scheduled => due[f] = value[f]
                         /\ f \notin Scheduled => due[f] = None
  BY DEF due, Scheduled
<1>8. due[e] # None
  <2>1. value[e] \in Times \cup {0}
    BY <1>4 DEF IInv, Types, Scheduled
  <2>2. value[e] # -1
    BY <2>1, HeapAssumption
  <2> QED
    BY <2>2, <1>4, <1>7 DEF Scheduled, None
<1>9. First(e)
  BY <1>2, <1>4, <1>6, <1>7, <1>8 DEF First
<1> QED
  BY <1>2, <1>4, <1>9

\* Every operation keeps the invariant.
LEMMA NextOK == IInv /\ [Next]_vars => IInv'
<1> SUFFICES ASSUME IInv, [Next]_vars PROVE IInv'
  OBVIOUS
<1>1. CASE \E e \in Entries, t \in Times : Schedule(e, t)
  BY <1>1, ScheduleOK
<1>2. CASE \E e \in Entries : Cancel(e)
  BY <1>2, CancelOK
<1>3. CASE Poll
  BY <1>3, PollOK
<1>4. CASE UNCHANGED vars
  <2>1. ht' = ht /\ timer_id' = timer_id /\ value' = value
    BY <1>4 DEF vars
  <2>2. Scheduled' = Scheduled
    BY <2>1 DEF Scheduled, Running
  <2> QED
    BY <2>1, <2>2 DEF IInv, Types
<1> QED
  BY <1>1, <1>2, <1>3, <1>4 DEF Next

\* For any number of entries, any size and any times: through every sequence of
\* insertions, cancellations and polls, and whichever entries the ids pass to, the
\* tree is ordered, the ids lead to the slots, and the free list holds exactly the
\* ids that are not in use (timer.c).
THEOREM HeapSound == Spec => []Sound
<1> QED
  BY InitOK, NextOK, IInvSound, PTL DEF Spec

\* schedule_w_grp_lock always finds room (Room holds in every state) and adds the
\* entry, cancel takes away the entry it is called with and no other, and
\* pj_timer_heap_poll takes one that no other is due before.
THEOREM HeapIsQueue == Spec => ActsAsQueue
<1>1. IInv => Room
  BY HasRoom
<1>2. IInv /\ [Next]_vars => [Queued]_vars
  <2> SUFFICES ASSUME IInv PROVE Queued
    OBVIOUS
  <2> QED
    BY ScheduleOK, CancelOK, PollOK DEF Queued
<1> QED
  BY <1>1, <1>2, InitOK, NextOK, PTL DEF Spec, ActsAsQueue
=============================================================================
