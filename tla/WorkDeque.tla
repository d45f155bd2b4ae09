----------------------------- MODULE WorkDeque -----------------------------
(***************************************************************************)
(* What a worker's deque promises: its owner adds and takes at the new     *)
(* end, thieves take at the old end, each in one step, and each item is    *)
(* taken by one of them.  (The steal may also give up, or find nothing,    *)
(* at any time.)                                                           *)
(***************************************************************************)
EXTENDS Naturals, Sequences

CONSTANTS Capacity, Owner, Thieves, Item, None

VARIABLES deque,  \* the items not taken, oldest first
          taken   \* the item each thread has taken and not returned with

Init == deque = <<>> /\ taken = [p \in Thieves \cup {Owner} |-> None]

Put(i) ==
  /\ Len(deque) < Capacity
  /\ deque' = Append(deque, i)
  /\ UNCHANGED taken

TakeNewest ==
  /\ deque # <<>> /\ taken[Owner] = None
  /\ taken' = [taken EXCEPT ![Owner] = deque[Len(deque)]]
  /\ deque' = SubSeq(deque, 1, Len(deque) - 1)

TakeOldest(t) ==
  /\ deque # <<>> /\ taken[t] = None
  /\ taken' = [taken EXCEPT ![t] = Head(deque)]
  /\ deque' = Tail(deque)

Return(p) ==
  /\ taken[p] # None
  /\ taken' = [taken EXCEPT ![p] = None]
  /\ UNCHANGED deque

Next ==
  \/ \E i \in Item : Put(i)
  \/ TakeNewest
  \/ \E t \in Thieves : TakeOldest(t)
  \/ \E p \in Thieves \cup {Owner} : Return(p)

Spec == Init /\ [][Next]_<<deque, taken>>
==============================================================================
