---------------------------- MODULE MCTimerHeap -----------------------------
(***************************************************************************)
(* The timer heap for TLC.  Entries that are not scheduled and have the    *)
(* same _timer_id differ in nothing, so the first of them stands for all.  *)
(* The number of times an entry is cancelled or times out is bounded.      *)
(***************************************************************************)
EXTENDS TimerHeap

CONSTANT MaxRemovals   \* calls of Cancel and Poll in a behaviour

VARIABLE removals

Chosen == {e \in Entries : Running(e) \/ \A f \in 1 .. e - 1 : timer_id[f] # timer_id[e]}

MCInit == Init /\ removals = 0

MCNext == \/ \E e \in Chosen, t \in Times : Schedule(e, t) /\ UNCHANGED removals
          \/ /\ removals < MaxRemovals /\ removals' = removals + 1
             /\ (\E e \in Chosen : Cancel(e)) \/ Poll

MCSpec == MCInit /\ [][MCNext]_<<vars, removals>>
=============================================================================
