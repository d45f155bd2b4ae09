------------------------------ MODULE FifoQueue ------------------------------
(***************************************************************************)
(* What the ring promises its callers: a bounded first-in first-out queue. *)
(* A push that succeeds appends its item in one step, a pop that succeeds  *)
(* takes the oldest item in one step, and each caller gets back the item   *)
(* it took.                                                                *)
(***************************************************************************)
EXTENDS Naturals, Sequences

CONSTANTS Capacity, Threads, Item, None

VARIABLES queue,  \* the items pushed and not taken
          taken   \* the item each thread has taken and not returned with

Init == queue = <<>> /\ taken = [t \in Threads |-> None]

Put(i) ==
  /\ Len(queue) < Capacity
  /\ queue' = Append(queue, i)
  /\ UNCHANGED taken

Take(t) ==
  /\ queue # <<>> /\ taken[t] = None
  /\ taken' = [taken EXCEPT ![t] = Head(queue)]
  /\ queue' = Tail(queue)

Return(t) ==
  /\ taken[t] # None
  /\ taken' = [taken EXCEPT ![t] = None]
  /\ UNCHANGED queue

Next ==
  \/ \E i \in Item : Put(i)
  \/ \E t \in Threads : Take(t) \/ Return(t)

Spec == Init /\ [][Next]_<<queue, taken>>
==============================================================================
