----------------------------- MODULE TimerHeap ------------------------------
(***************************************************************************)
(* PJLIB's timer heap (timer.c), on which every timer of PJSIP runs: a     *)
(* binary heap of entries in an array, and timer_ids, which maps the id of *)
(* a scheduled entry to its slot and links the ids not in use into a stack *)
(* of negative values.  Every operation runs under the heap's lock; as     *)
(* pj_timer_heap_poll releases it around a callback, a poll is a sequence  *)
(* of steps that take one entry each, with anything in between.            *)
(*                                                                         *)
(* Only comparisons of times matter, so an entry is scheduled for any time *)
(* and poll reads any time as now.  What is left in slots past cur_size is *)
(* never read, and not kept.  Memory for a larger array is always found,   *)
(* as grow_heap assumes.                                                   *)
(***************************************************************************)
EXTENDS Integers, FiniteSets

CONSTANTS NumEntries,   \* entries there are
          Times,        \* values of the clock
          Size          \* size the heap is created with (PJSIP_MAX_TIMER_COUNT)

ASSUME HeapAssumption == {NumEntries, Size} \subseteq Nat \ {0} /\ Times \subseteq Nat

Entries == 1 .. NumEntries
None == -1

VARIABLES
    ht,        \* the heap: [heap, timer_ids, freelist, cur_size, max_size]
    timer_id,  \* entry->_timer_id: 0 in fresh memory, -1 once it was removed
    value      \* entry->_timer_value, 0 while it is not scheduled

vars == <<ht, timer_id, value>>

\* slots start at 0, as in the source; an unused slot holds 0
pj_timer_heap_create ==
    LET max == Size + 2
    IN  [heap |-> [s \in 0 .. max - 1 |-> 0], timer_ids |-> [i \in 0 .. max - 1 |-> -(i + 1)],
         freelist |-> 1, cur_size |-> 0, max_size |-> max]

Init == /\ ht = pj_timer_heap_create
        /\ timer_id = [e \in Entries |-> 0] /\ value = [e \in Entries |-> 0]

-----------------------------------------------------------------------------
(* The tree *)

Parent(s) == IF s = 0 THEN 0 ELSE (s - 1) \div 2
Left(s) == 2 * s + 1

\* the nodes in place are copied to their slots, and timer_ids follows (copy_node);
\* id gives the ids of the entries
Place(h, id, place) ==
    [h EXCEPT !.heap = [s \in DOMAIN h.heap |-> IF s \in DOMAIN place THEN place[s] ELSE h.heap[s]],
              !.timer_ids = [i \in DOMAIN h.timer_ids |->
                  IF \E s \in DOMAIN place : id[place[s]] = i
                  THEN CHOOSE s \in DOMAIN place : id[place[s]] = i
                  ELSE h.timer_ids[i]]]

\* the slots among slots a node passes from slot, going from s to next[s] while it can
Passed(slots, next, slot) ==
    LET path[s \in slots] == IF s \in DOMAIN next THEN {s} \cup path[next[s]] ELSE {s}
    IN  path[slot]

\* each slot it passes is filled from the following one, and the last one with node
Move(h, id, node, slot, next) ==
    Place(h, id, [s \in Passed(DOMAIN h.heap, next, slot) |->
                      IF s \in DOMAIN next THEN h.heap[next[s]] ELSE node])

\* node goes up from slot while it is due before the parent
reheap_up(h, id, val, node, slot) ==
    LET rises == {s \in 1 .. slot : val[node] < val[h.heap[Parent(s)]]}
    IN  Move(h, id, node, slot, [s \in rises |-> Parent(s)])

\* mutant: the later child
LaterChild(h, val, s) ==
    IF Left(s) + 1 < h.cur_size /\ val[h.heap[Left(s) + 1]] > val[h.heap[Left(s)]]
    THEN Left(s) + 1 ELSE Left(s)

EarlierChild(h, val, s) ==
    IF Left(s) + 1 < h.cur_size /\ val[h.heap[Left(s) + 1]] < val[h.heap[Left(s)]]
    THEN Left(s) + 1 ELSE Left(s)

\* ... and down while the child that is due first is due before it
reheap_down(h, id, val, node, slot) ==
    LET child == [s \in {s \in DOMAIN h.heap : Left(s) < h.cur_size} |-> EarlierChild(h, val, s)]
        sinks == {s \in DOMAIN child : val[h.heap[child[s]]] < val[node]}
    IN  Move(h, id, node, slot, [s \in sinks |-> child[s]])

-----------------------------------------------------------------------------
(* Insertion and removal *)

grow_heap(h) ==
    LET max == 2 * h.max_size
    IN  [h EXCEPT !.max_size = max,
                  !.heap = [s \in 0 .. max - 1 |-> IF s < h.max_size THEN @[s] ELSE 0],
                  !.timer_ids = [i \in 0 .. max - 1 |-> IF i < h.max_size THEN @[i] ELSE -(i + 1)]]

insert_node(h, id, val, e) ==
    LET g == IF h.cur_size + 2 >= h.max_size THEN grow_heap(h) ELSE h
    IN  [reheap_up(g, id, val, e, g.cur_size) EXCEPT !.cur_size = @ + 1]

pop_freelist(h) == [h EXCEPT !.freelist = -h.timer_ids[@]]
push_freelist(h, i) == [h EXCEPT !.timer_ids[i] = -h.freelist, !.freelist = i]

\* mutant: the last node is only ever moved down
remove_node_down(h, id, val, slot) ==
    LET last == h.cur_size - 1
        moved == h.heap[last]
        h1 == [push_freelist(h, id[h.heap[slot]]) EXCEPT !.cur_size = last, !.heap[last] = 0]
        h2 == Place(h1, id, [s \in {slot} |-> moved])
    IN  IF slot >= last THEN h1 ELSE reheap_down(h2, id, val, moved, slot)

\* the last node takes the slot, and goes down or up from there
remove_node(h, id, val, slot) ==
    LET last == h.cur_size - 1
        moved == h.heap[last]
        h1 == [push_freelist(h, id[h.heap[slot]]) EXCEPT !.cur_size = last, !.heap[last] = 0]
        h2 == Place(h1, id, [s \in {slot} |-> moved])
    IN  CASE slot >= last -> h1
          [] slot < last  -> IF val[moved] >= val[h2.heap[Parent(slot)]]
                                    THEN reheap_down(h2, id, val, moved, slot)
                                    ELSE reheap_up(h2, id, val, moved, slot)

-----------------------------------------------------------------------------
(* The operations *)

Running(e) == timer_id[e] >= 1           \* pj_timer_entry_running
Scheduled == {e \in Entries : Running(e)}
Room == ht.cur_size < ht.max_size

\* schedule_w_grp_lock: any entry that is not scheduled, with the id freed last; a full
\* heap refuses it
Schedule(e, t) ==
    /\ ~Running(e)
    /\ IF Room
       THEN LET id == [timer_id EXCEPT ![e] = ht.freelist]
                val == [value EXCEPT ![e] = t]
            IN  /\ timer_id' = id /\ value' = val
                /\ ht' = insert_node(pop_freelist(ht), id, val, e)
       ELSE UNCHANGED vars

\* an entry that is not in the heap is only marked; value of removed entries is not read again
Remove(e, slot) ==
    /\ timer_id' = [timer_id EXCEPT ![e] = -1] /\ value' = [value EXCEPT ![e] = 0]
    /\ ht' = remove_node(ht, timer_id, value, slot)

Cancel(e) ==
    LET slot == IF timer_id[e] < 0 \/ timer_id[e] > ht.max_size THEN -1 ELSE ht.timer_ids[timer_id[e]]
    IN  IF slot < 0 \/ e # ht.heap[slot]
        THEN timer_id' = [timer_id EXCEPT ![e] = -1] /\ UNCHANGED <<ht, value>>
        ELSE Remove(e, slot)

\* pj_timer_heap_poll takes the entry at the root, once its time has come
Poll ==
    /\ ht.cur_size > 0 /\ \E now \in Times : value[ht.heap[0]] <= now
    /\ Remove(ht.heap[0], 0)

Next == \/ \E e \in Entries, t \in Times : Schedule(e, t)
        \/ \E e \in Entries : Cancel(e)
        \/ Poll

Spec == Init /\ [][Next]_vars

-----------------------------------------------------------------------------
(* Properties *)

Slots == 0 .. ht.cur_size - 1

TypeOK ==
    /\ ht.cur_size \in 0 .. NumEntries /\ ht.max_size \in Nat
    /\ DOMAIN ht.heap = 0 .. ht.max_size - 1 /\ DOMAIN ht.timer_ids = DOMAIN ht.heap
    /\ \A e \in Entries : timer_id[e] \in -1 .. ht.max_size - 1 /\ value[e] \in Times \cup {0}

\* No entry is due before its parent in the tree, so heap[0] is due first, through
\* any sequence of insertions and removals at any slot.
HeapOrdered == \A s \in Slots : value[ht.heap[Parent(s)]] <= value[ht.heap[s]]

\* Slots and ids are two views of the same set: the scheduled entries are those in
\* the heap, each once, and timer_ids leads from its id to its slot.
IdsMatchSlots ==
    /\ {ht.heap[s] : s \in Slots} = Scheduled /\ Cardinality(Scheduled) = ht.cur_size
    /\ \A s \in Slots : ht.timer_ids[timer_id[ht.heap[s]]] = s

\* The stack inside timer_ids holds exactly the ids that are not in use, and ends
\* one past the array, where growing continues it.  Id 0, which the zeroed memory of
\* a transaction's timers holds, is never handed out.
FreeIds == LET chain[k \in 0 .. ht.max_size] ==
                   IF k = 0 THEN ht.freelist
                   ELSE LET i == chain[k - 1] IN IF i \in DOMAIN ht.timer_ids THEN -ht.timer_ids[i] ELSE i
           IN  {chain[k] : k \in 0 .. ht.max_size}
FreelistSound ==
    /\ FreeIds = (1 .. ht.max_size) \ {timer_id[e] : e \in Scheduled}
    /\ ht.timer_ids[0] = -1 /\ ht.freelist < ht.max_size

\* Order, ids and free list hold together through every operation, while ids pass from
\* entry to entry: each of them relies on the other two in the next one.
Sound == TypeOK /\ HeapOrdered /\ IdsMatchSlots /\ FreelistSound

\* The heap is the set of timed entries its users take it for.  There is room before
\* every Schedule, so that it is never refused, and it adds the entry with its time;
\* cancelling, which goes by the id, takes away that very entry if it is scheduled,
\* and no other, also when its id was another's before; a poll takes one that no
\* other is due before.
due == [e \in Entries |-> IF Running(e) THEN value[e] ELSE None]
First(e) == due[e] # None /\ \A f \in Entries : due[f] # None => due[e] <= due[f]
Queued == /\ \A e \in Entries, t \in Times : Schedule(e, t) => due' = [due EXCEPT ![e] = t]
          /\ \A e \in Entries : Cancel(e) => due' = [due EXCEPT ![e] = None]
          /\ Poll => \E e \in Entries : First(e) /\ due' = [due EXCEPT ![e] = None]
ActsAsQueue == []Room /\ [][Queued]_vars
=============================================================================
