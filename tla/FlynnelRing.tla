----------------------------- MODULE FlynnelRing -----------------------------
(***************************************************************************)
(* The bounded multi-producer multi-consumer ring (sched/flynnel_ring.rs)  *)
(* behind the injector (sched/injector.rs): per-slot sequence numbers gate *)
(* the slots, producers and consumers race on two counters.                *)
(*                                                                         *)
(* Each action is one atomic access with the local code that follows it.   *)
(* The access to a slot's item is a step of its own, so two threads in one *)
(* slot at once would show.  An item is named by the ticket (the value of  *)
(* `tail`) that its push claimed, which no two pushes share.               *)
(***************************************************************************)
EXTENDS Integers, FiniteSets, Sequences

CONSTANTS Threads,     \* threads that share handles on the ring
          Capacity,    \* slots, after new() has rounded up
          Callers,     \* bound: who uses a ring, {"plain"}, {"blocking"} or both
          MaxTickets   \* bound: tickets claimed at either end

ASSUME CapacityAssumption == Capacity \in Nat /\ Capacity >= 2
ASSUME TicketAssumption == MaxTickets \in Nat /\ Callers \subseteq {"plain", "blocking"}

Slots   == 0 .. Capacity - 1
Tickets == 0 .. MaxTickets - 1
None    == -1
Uninit  == -2   \* the contents of a slot with no item in it

VARIABLES tail, head,  \* the two counters
          seq,         \* each slot's sequence number
          data,        \* the item in each slot
          pc, pos,     \* where each thread is, and the ticket it works on
          item,        \* the item a pop has read
          callers      \* whether push_blocking and pop_blocking are called on this ring
vars == <<tail, head, seq, data, pc, pos, item, callers>>

Slot(p) == p % Capacity

Init ==
  /\ tail = 0 /\ head = 0
  /\ seq = [s \in Slots |-> s]
  /\ data = [s \in Slots |-> Uninit]
  /\ pc = [t \in Threads |-> "idle"]
  /\ pos = [t \in Threads |-> 0]
  /\ item = [t \in Threads |-> None]
  /\ callers \in Callers

Goto(t, l)  == pc' = [pc EXCEPT ![t] = l]
Work(t, p)  == pos' = [pos EXCEPT ![t] = p]
Return(t)   == Goto(t, "idle") /\ Work(t, 0)

-----------------------------------------------------------------------------
(* push                                                                    *)

LoadTail(t) ==
  /\ pc[t] \in {"idle", "pushRace"}
  /\ Goto(t, "pushSeq") /\ Work(t, tail)
  /\ UNCHANGED <<tail, head, seq, data, item, callers>>

\* Mutated form: a ring that moved on passes for a full one.
ReadSeqPush_RaceFull(t) ==
  /\ pc[t] = "pushSeq"
  /\ LET diff == seq[Slot(pos[t])] - pos[t] IN
       \/ diff = 0 /\ Goto(t, "pushCas") /\ UNCHANGED pos
       \/ diff # 0 /\ Return(t)
  /\ UNCHANGED <<tail, head, seq, data, item, callers>>

ReadSeqPush(t) ==
  /\ pc[t] = "pushSeq"
  /\ LET diff == seq[Slot(pos[t])] - pos[t] IN
       \/ diff = 0 /\ Goto(t, "pushCas") /\ UNCHANGED pos
       \/ diff < 0 /\ Return(t)                              \* Full
       \/ diff > 0 /\ Goto(t, "pushRace") /\ UNCHANGED pos
  /\ UNCHANGED <<tail, head, seq, data, item, callers>>

\* Mutated form: a store where the compare-exchange is.
CasTail_Store(t) ==
  /\ pc[t] = "pushCas"
  /\ tail' = pos[t] + 1 /\ Goto(t, "write") /\ UNCHANGED pos
  /\ UNCHANGED <<head, seq, data, item, callers>>

\* The weak exchange may fail with the value it expected.
CasTail(t) ==
  /\ pc[t] = "pushCas"
  /\ \/ /\ tail = pos[t] /\ tail < MaxTickets
        /\ tail' = tail + 1
        /\ Goto(t, "write") /\ UNCHANGED pos
     \/ Goto(t, "pushSeq") /\ Work(t, tail) /\ UNCHANGED tail
  /\ UNCHANGED <<head, seq, data, item, callers>>

\* push_blocking claims first and waits after.
AddTail(t) ==
  /\ callers = "blocking" /\ pc[t] = "idle" /\ tail < MaxTickets
  /\ tail' = tail + 1
  /\ Goto(t, "pushWait") /\ Work(t, tail)
  /\ UNCHANGED <<head, seq, data, item, callers>>

WaitSlot(t) ==
  /\ pc[t] = "pushWait"
  /\ seq[Slot(pos[t])] = pos[t]
  /\ Goto(t, "write")
  /\ UNCHANGED <<tail, head, seq, data, pos, item, callers>>

\* Mutated form: the number is stored before the item is written.
Write_PublishFirst(t) ==
  /\ pc[t] = "write"
  /\ seq' = [seq EXCEPT ![Slot(pos[t])] = pos[t] + 1]
  /\ Goto(t, "publish")
  /\ UNCHANGED <<tail, head, data, pos, item, callers>>

Write(t) ==
  /\ pc[t] = "write"
  /\ data' = [data EXCEPT ![Slot(pos[t])] = pos[t]]
  /\ Goto(t, "publish")
  /\ UNCHANGED <<tail, head, seq, pos, item, callers>>

\* Mutated form: the ticket itself is stored, and no pop takes the item.
Publish_Ticket(t) ==
  /\ pc[t] = "publish"
  /\ seq' = [seq EXCEPT ![Slot(pos[t])] = pos[t]]
  /\ Return(t)
  /\ UNCHANGED <<tail, head, data, item, callers>>

Publish(t) ==
  /\ pc[t] = "publish"
  /\ seq' = [seq EXCEPT ![Slot(pos[t])] = pos[t] + 1]
  /\ Return(t)
  /\ UNCHANGED <<tail, head, data, item, callers>>

-----------------------------------------------------------------------------
(* pop                                                                     *)

LoadHead(t) ==
  /\ pc[t] \in {"idle", "popRace"}
  /\ Goto(t, "popSeq") /\ Work(t, head)
  /\ UNCHANGED <<tail, head, seq, data, item, callers>>

\* Mutated form: a ring that moved on passes for an empty one.
ReadSeqPop_RaceEmpty(t) ==
  /\ pc[t] = "popSeq"
  /\ LET diff == seq[Slot(pos[t])] - (pos[t] + 1) IN
       \/ diff = 0 /\ Goto(t, "popCas") /\ UNCHANGED pos
       \/ diff # 0 /\ Return(t)
  /\ UNCHANGED <<tail, head, seq, data, item, callers>>

ReadSeqPop(t) ==
  /\ pc[t] = "popSeq"
  /\ LET diff == seq[Slot(pos[t])] - (pos[t] + 1) IN
       \/ diff = 0 /\ Goto(t, "popCas") /\ UNCHANGED pos
       \/ diff < 0 /\ Return(t)                              \* Empty
       \/ diff > 0 /\ Goto(t, "popRace") /\ UNCHANGED pos
  /\ UNCHANGED <<tail, head, seq, data, item, callers>>

\* Mutated form: a store where the compare-exchange is.
CasHead_Store(t) ==
  /\ pc[t] = "popCas"
  /\ head' = pos[t] + 1 /\ Goto(t, "read") /\ UNCHANGED pos
  /\ UNCHANGED <<tail, seq, data, item, callers>>

CasHead(t) ==
  /\ pc[t] = "popCas"
  /\ \/ /\ head = pos[t] /\ head < MaxTickets
        /\ head' = head + 1
        /\ Goto(t, "read") /\ UNCHANGED pos
     \/ Goto(t, "popSeq") /\ Work(t, head) /\ UNCHANGED head
  /\ UNCHANGED <<tail, seq, data, item, callers>>

AddHead(t) ==
  /\ callers = "blocking" /\ pc[t] = "idle" /\ head < MaxTickets
  /\ head' = head + 1
  /\ Goto(t, "popWait") /\ Work(t, head)
  /\ UNCHANGED <<tail, seq, data, item, callers>>

\* Mutated form: the wait ends on any published slot.
WaitItem_Any(t) ==
  /\ pc[t] = "popWait"
  /\ seq[Slot(pos[t])] # pos[t]
  /\ Goto(t, "read")
  /\ UNCHANGED <<tail, head, seq, data, pos, item, callers>>

\* Mutated form: the wait is for the number a producer waits for.
WaitItem_OffByOne(t) ==
  /\ pc[t] = "popWait"
  /\ seq[Slot(pos[t])] = pos[t]
  /\ Goto(t, "read")
  /\ UNCHANGED <<tail, head, seq, data, pos, item, callers>>

WaitItem(t) ==
  /\ pc[t] = "popWait"
  /\ seq[Slot(pos[t])] = pos[t] + 1
  /\ Goto(t, "read")
  /\ UNCHANGED <<tail, head, seq, data, pos, item, callers>>

\* assume_init_read moves the item out of its slot.
Read(t) ==
  /\ pc[t] = "read"
  /\ item' = [item EXCEPT ![t] = data[Slot(pos[t])]]
  /\ data' = [data EXCEPT ![Slot(pos[t])] = Uninit]
  /\ Goto(t, "release")
  /\ UNCHANGED <<tail, head, seq, pos, callers>>

\* Mutated form: the slot is left one short of the producer's next lap.
Release_Short(t) ==
  /\ pc[t] = "release"
  /\ seq' = [seq EXCEPT ![Slot(pos[t])] = pos[t] + Capacity - 1]
  /\ Return(t) /\ item' = [item EXCEPT ![t] = None]
  /\ UNCHANGED <<tail, head, data, callers>>

Release(t) ==
  /\ pc[t] = "release"
  /\ seq' = [seq EXCEPT ![Slot(pos[t])] = pos[t] + Capacity]
  /\ Return(t) /\ item' = [item EXCEPT ![t] = None]
  /\ UNCHANGED <<tail, head, data, callers>>

-----------------------------------------------------------------------------
\* A call once begun goes on; whether to call is the thread's own choice.
InCall(t) ==
  \/ (pc[t] # "idle" /\ (LoadTail(t) \/ LoadHead(t)))
  \/ ReadSeqPush(t) \/ CasTail(t) \/ WaitSlot(t) \/ Write(t) \/ Publish(t)
  \/ ReadSeqPop(t) \/ CasHead(t) \/ WaitItem(t) \/ Read(t) \/ Release(t)

Next == \E t \in Threads :
  InCall(t) \/ LoadTail(t) \/ LoadHead(t) \/ AddTail(t) \/ AddHead(t)

Spec == Init /\ [][Next]_vars

\* The scheduler runs every thread.
FairSpec == Spec /\ \A t \in Threads : WF_vars(InCall(t))

-----------------------------------------------------------------------------
(* Properties.                                                             *)

Writing(t) == pc[t] \in {"write", "publish"}
Reading(t) == pc[t] \in {"read", "release"}

\* Type invariant: a pop has read an item, never an uninitialised slot.
TypeOK ==
  /\ tail \in 0 .. MaxTickets /\ head \in 0 .. MaxTickets
  /\ seq \in [Slots -> Nat]
  /\ data \in [Slots -> Tickets \cup {Uninit}]
  /\ pc \in [Threads -> {"idle", "pushSeq", "pushRace", "pushCas", "pushWait", "write",
                         "publish", "popSeq", "popRace", "popCas", "popWait", "read",
                         "release"}]
  /\ pos \in [Threads -> 0 .. MaxTickets]
  /\ item \in [Threads -> Tickets \cup {None}]
  /\ callers \in Callers

\* One thread at a time has the use of a slot's item, whichever mix of the
\* four calls is running: the unsafe accesses of the ring do not race.
SlotExclusive ==
  \A t, u \in Threads :
    /\ Writing(t) \/ Reading(t)
    /\ Writing(u) \/ Reading(u)
    /\ Slot(pos[t]) = Slot(pos[u])
    => t = u

\* Every slot that is about to be read holds the item of that very ticket,
\* and every slot about to be written is empty: nothing uninitialised is
\* read, nothing is read twice, nothing is overwritten, and items come out
\* in the order of their tickets.
ItemsInPlace ==
  \A t \in Threads :
    /\ pc[t] = "read" => data[Slot(pos[t])] = pos[t]
    /\ pc[t] = "write" => data[Slot(pos[t])] = Uninit
    /\ pc[t] = "release" => item[t] = pos[t]

\* What the drop of the ring drains: the tickets from head to tail whose
\* slot says it is published.
Drained == {p \in head .. tail - 1 : seq[Slot(p)] = p + 1}

\* When no call is running, the drop finds every item that is still in a
\* slot, each once, and takes no empty slot for an item.
DropDrainsAll ==
  (\A t \in Threads : pc[t] = "idle") =>
    /\ {data[Slot(p)] : p \in Drained} = {data[s] : s \in Slots} \ {Uninit}
    /\ \A p \in Drained : data[Slot(p)] = p

\* A call in the middle of its work on ticket p.
Pushing(p) == \E u \in Threads : (Writing(u) \/ pc[u] = "pushWait") /\ pos[u] = p
Popping(p) == \E u \in Threads : (Reading(u) \/ pc[u] = "popWait") /\ pos[u] = p

\* A push that returns Full looked at a slot whose last item is still to be
\* popped, or still being read out: it never turns down a free slot, however
\* far the ring moved between the loads of `tail` and of the slot's number.
FullHonest ==
  [][\A t \in Threads : pc[t] = "pushSeq" /\ pc'[t] = "idle" =>
       \/ pos[t] - Capacity >= head
       \/ Popping(pos[t] - Capacity)]_vars

\* A pop that returns Empty looked at a ticket no push has claimed, or one
\* still being written: it never misses an item published before its look.
EmptyHonest ==
  [][\A t \in Threads : pc[t] = "popSeq" /\ pc'[t] = "idle" =>
       pos[t] >= tail \/ Pushing(pos[t])]_vars

\* A blocking pop whose ticket has been pushed returns, and a blocking push
\* whose slot's last item has been popped returns.
BlockedPopReturns ==
  \A t \in Threads : pc[t] = "popWait" /\ pos[t] < tail ~> pc[t] # "popWait"
BlockedPushReturns ==
  \A t \in Threads :
    pc[t] = "pushWait" /\ pos[t] < head + Capacity ~> pc[t] # "pushWait"

\* Under the non-blocking calls alone the ring is the bounded queue of FifoQueue:
\* a push takes effect at its exchange on `tail`, a pop at its exchange on
\* `head`, and a pop returns the item it took there.
Fifo == INSTANCE FifoQueue WITH
  Item  <- Tickets,
  queue <- [i \in 1 .. IF callers = "plain" THEN tail - head ELSE 0 |-> head + i - 1],
  taken <- [t \in Threads |-> IF callers # "plain" THEN None
                              ELSE IF pc[t] = "read" THEN pos[t]
                              ELSE IF pc[t] = "release" THEN item[t] ELSE None]
IsFifo == Fifo!Spec
=============================================================================
