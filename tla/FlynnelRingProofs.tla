------------------------- MODULE FlynnelRingProofs -------------------------
(***************************************************************************)
(* The ring's safety for any number of threads, slots and tickets, with or *)
(* without blocking calls, and its steps as steps of the bounded queue.    *)
(*                                                                         *)
(* The invariant has four parts.  Claims: a ticket is claimed once at each *)
(* end.  Turns: a slot's number is the ticket of the push at work in it,   *)
(* and one more than the ticket of the pop.  Contents: a slot whose turn   *)
(* is ticket p's push is empty, and one whose turn is p's pop holds item p, *)
(* unless that call is about to pass the turn on.  Laps: how far a slot's  *)
(* number may be from the two counters, and who is at work when it lags.   *)
(***************************************************************************)
EXTENDS FlynnelRing, Laps, SequenceTheorems

Pushes(t) == pc[t] \in {"pushWait", "write", "publish"}
Pops(t)   == pc[t] \in {"popWait", "read", "release"}
At(t)     == Slot(pos[t])
Publishing(p) == \E t \in Threads : pc[t] = "publish" /\ pos[t] = p
Releasing(p)  == \E t \in Threads : pc[t] = "release" /\ pos[t] = p

Claims ==
  /\ \A t \in Threads : Pushes(t) => pos[t] < tail
  /\ \A t \in Threads : Pops(t) => pos[t] < head
  /\ \A t, u \in Threads :
       Pushes(t) /\ Pushes(u) /\ pos[t] = pos[u] => t = u
  /\ \A t, u \in Threads :
       Pops(t) /\ Pops(u) /\ pos[t] = pos[u] => t = u

\* An exchange that will succeed finds its slot as it was read.
Turns ==
  \A t \in Threads :
    /\ Writing(t) => seq[At(t)] = pos[t]
    /\ Reading(t) => seq[At(t)] = pos[t] + 1
    /\ pc[t] = "pushCas" => seq[At(t)] = pos[t] \/ pos[t] < tail
    /\ pc[t] = "popCas" => seq[At(t)] = pos[t] + 1 \/ pos[t] < head

Contents ==
  /\ \A p \in Nat : seq[Slot(p)] = p => data[Slot(p)] = Uninit \/ Publishing(p)
  /\ \A p \in Nat : seq[Slot(p)] = p + 1 => data[Slot(p)] = p \/ Releasing(p)
  /\ \A t \in Threads :
       /\ pc[t] = "write" => data[At(t)] = Uninit
       /\ pc[t] = "publish" => data[At(t)] = pos[t]
       /\ pc[t] = "read" => data[At(t)] = pos[t]
       /\ pc[t] = "release" => data[At(t)] = Uninit /\ item[t] = pos[t]

Lag ==
  /\ \A s \in Slots : s <= seq[s]
  /\ \A p \in Nat : p < tail /\ seq[Slot(p)] <= p => Pushing(p)
  /\ \A p \in Nat : p < head /\ seq[Slot(p)] < p + Capacity => Popping(p)
  /\ \A p \in Nat : seq[Slot(p)] = p => p < head + Capacity
  /\ \A p \in Nat : seq[Slot(p)] = p + 1 => p < tail

Placed ==
  \A s \in Slots, p \in Tickets : data[s] = p =>
    Slot(p) = s /\ (seq[s] = p + 1 \/ Publishing(p))

\* Without blocking calls no ticket is claimed ahead of its turn.
Plain ==
  callers = "plain" =>
    head <= tail /\ \A t \in Threads : pc[t] \notin {"pushWait", "popWait"}

IInv == TypeOK /\ Claims /\ Turns /\ Contents /\ Lag /\ Placed /\ Plain

-----------------------------------------------------------------------------
(* Slots.                                                                  *)

LEMMA SlotFacts ==
  /\ \A p \in Nat : Slot(p) \in Slots
  /\ \A p \in Nat : Slot(p + 1) # Slot(p)
  /\ \A p \in Nat : Slot(p + Capacity) = Slot(p)
  /\ \A s \in Slots : s \in Nat /\ s < Capacity /\ Slot(s) = s
<1> USE CapacityAssumption DEF Slot, Slots
<1>a. Capacity \in Nat /\ Capacity > 0 /\ Capacity > 1
  OBVIOUS
<1>1. ASSUME NEW p \in Nat PROVE Slot(p) \in Slots
  BY Division
<1>2. ASSUME NEW p \in Nat PROVE Slot(p + 1) # Slot(p)
  BY <1>a, NextSlot, Zenon
<1>3. ASSUME NEW p \in Nat PROVE Slot(p + Capacity) = Slot(p)
  BY <1>a, NextLap, Zenon
<1>4. ASSUME NEW s \in Slots PROVE s \in Nat /\ s < Capacity /\ Slot(s) = s
  BY FirstLap
<1>5. QED
  BY <1>1, <1>2, <1>3, <1>4

LEMMA InitInv == Init => IInv
<1> SUFFICES ASSUME Init PROVE IInv
  OBVIOUS
<1> USE CapacityAssumption, TicketAssumption DEF Init
<1>1. ASSUME NEW p \in Nat PROVE seq[Slot(p)] = Slot(p) /\ Slot(p) <= p /\ Slot(p) < Capacity
  <2>1. Slot(p) \in Slots
    BY SlotFacts
  <2>2. CASE p < Capacity
    <3>1. p \in Slots
      BY <2>2 DEF Slots
    <3>2. QED
      BY <2>1, <2>2, <3>1, SlotFacts
  <2>3. CASE p >= Capacity
    BY <2>1, <2>3 DEF Slots
  <2>4. QED
    BY <2>2, <2>3
<1>2. TypeOK
  BY DEF TypeOK, Slots
<1>3. Claims /\ Turns
  BY DEF Claims, Turns, Pushes, Pops, Writing, Reading
<1>4. Contents
  BY <1>1, SlotFacts DEF Contents
<1>5. Lag
  <2>1. \A s \in Slots : s <= seq[s]
    BY DEF Slots
  <2>2. QED
    BY <1>1, <2>1 DEF Lag
<1>6. Placed /\ Plain
  BY DEF Placed, Plain, Tickets, Uninit
<1>7. QED
  BY <1>2, <1>3, <1>4, <1>5, <1>6 DEF IInv

-----------------------------------------------------------------------------
(* The steps by what they do.  Every step is one thread's.                 *)

Alone(t) == \A u \in Threads : u # t =>
              pc'[u] = pc[u] /\ pos'[u] = pos[u] /\ item'[u] = item[u]

\* A call that holds no ticket before or after, and changes nothing shared.
Looks(t) ==
  /\ UNCHANGED <<tail, head, seq, data, item, callers>> /\ Alone(t)
  /\ ~Pushes(t) /\ ~Pops(t) /\ ~Pushes(t)' /\ ~Pops(t)'
  /\ pc'[t] = "pushCas" => seq[Slot(pos'[t])] = pos'[t]
  /\ pc'[t] = "popCas" => seq[Slot(pos'[t])] = pos'[t] + 1

ClaimsPush(t) ==
  /\ tail' = tail + 1 /\ UNCHANGED <<head, seq, data, item, callers>> /\ Alone(t)
  /\ ~Pushes(t) /\ ~Pops(t)
  /\ pos'[t] = tail
  /\ \/ pc'[t] = "write" /\ seq[Slot(tail)] = tail
     \/ pc'[t] = "pushWait" /\ callers # "plain"

ClaimsPop(t) ==
  /\ head' = head + 1 /\ UNCHANGED <<tail, seq, data, item, callers>> /\ Alone(t)
  /\ ~Pushes(t) /\ ~Pops(t)
  /\ pos'[t] = head
  /\ \/ pc'[t] = "read" /\ seq[Slot(head)] = head + 1
     \/ pc'[t] = "popWait" /\ callers # "plain"

Step(t) ==
  \/ Looks(t) \/ ClaimsPush(t) \/ ClaimsPop(t) \/ WaitSlot(t) \/ WaitItem(t)
  \/ Write(t) \/ Publish(t) \/ Read(t) \/ Release(t)

LEMMA Kinds ==
  ASSUME IInv, NEW t \in Threads,
         InCall(t) \/ LoadTail(t) \/ LoadHead(t) \/ AddTail(t) \/ AddHead(t)
  PROVE  Step(t)
<1> USE DEF IInv, TypeOK, Goto, Work, Return, Alone, Pushes, Pops
<1>1. CASE LoadTail(t) \/ LoadHead(t)
  <2>1. Looks(t)
    BY <1>1 DEF LoadTail, LoadHead, Looks
  <2>2. QED
    BY <2>1 DEF Step
<1>2. CASE ReadSeqPush(t)
  <2>1. pos[t] \in Int /\ seq[Slot(pos[t])] \in Int
    BY SlotFacts, TicketAssumption
  <2>2. Looks(t)
    BY <1>2, <2>1 DEF ReadSeqPush, Looks
  <2>3. QED
    BY <2>2 DEF Step
<1>3. CASE ReadSeqPop(t)
  <2>1. pos[t] \in Int /\ seq[Slot(pos[t])] \in Int
    BY SlotFacts, TicketAssumption
  <2>2. Looks(t)
    BY <1>3, <2>1 DEF ReadSeqPop, Looks
  <2>3. QED
    BY <2>2 DEF Step
<1>4. CASE CasTail(t)
  <2>1. CASE tail' = tail + 1 /\ tail = pos[t]
    <3>1. seq[Slot(tail)] = tail
      BY <1>4, <2>1 DEF CasTail, Turns, At
    <3>2. ClaimsPush(t)
      BY <1>4, <2>1, <3>1 DEF CasTail, ClaimsPush
    <3>3. QED
      BY <3>2 DEF Step
  <2>2. CASE tail' = tail
    <3>1. Looks(t)
      BY <1>4, <2>2 DEF CasTail, Looks
    <3>2. QED
      BY <3>1 DEF Step
  <2>3. QED
    BY <1>4, <2>1, <2>2 DEF CasTail
<1>5. CASE CasHead(t)
  <2>1. CASE head' = head + 1 /\ head = pos[t]
    <3>1. seq[Slot(head)] = head + 1
      BY <1>5, <2>1 DEF CasHead, Turns, At
    <3>2. ClaimsPop(t)
      BY <1>5, <2>1, <3>1 DEF CasHead, ClaimsPop
    <3>3. QED
      BY <3>2 DEF Step
  <2>2. CASE head' = head
    <3>1. Looks(t)
      BY <1>5, <2>2 DEF CasHead, Looks
    <3>2. QED
      BY <3>1 DEF Step
  <2>3. QED
    BY <1>5, <2>1, <2>2 DEF CasHead
<1>6. CASE AddTail(t)
  <2>1. ClaimsPush(t)
    BY <1>6 DEF AddTail, ClaimsPush
  <2>2. QED
    BY <2>1 DEF Step
<1>7. CASE AddHead(t)
  <2>1. ClaimsPop(t)
    BY <1>7 DEF AddHead, ClaimsPop
  <2>2. QED
    BY <2>1 DEF Step
<1>8. QED
  BY <1>1, <1>2, <1>3, <1>4, <1>5, <1>6, <1>7 DEF InCall, Step

LEMMA TypeStep ==
  ASSUME IInv, NEW t \in Threads,
         InCall(t) \/ LoadTail(t) \/ LoadHead(t) \/ AddTail(t) \/ AddHead(t)
  PROVE  TypeOK'
<1> USE TicketAssumption, CapacityAssumption DEF IInv, TypeOK, Goto, Work, Return
<1>1. pos[t] \in Nat /\ pos[t] <= MaxTickets /\ Slot(pos[t]) \in Slots
  BY SlotFacts
<1>2. CASE LoadTail(t) \/ LoadHead(t) \/ ReadSeqPush(t) \/ ReadSeqPop(t)
  BY <1>1, <1>2 DEF LoadTail, LoadHead, ReadSeqPush, ReadSeqPop
<1>3. CASE CasTail(t) \/ CasHead(t) \/ AddTail(t) \/ AddHead(t)
  BY <1>1, <1>3 DEF CasTail, CasHead, AddTail, AddHead
<1>4. CASE WaitSlot(t) \/ WaitItem(t)
  BY <1>4 DEF WaitSlot, WaitItem
<1>5. CASE Write(t)
  <2>1. pos[t] \in Tickets
    BY <1>1, <1>5 DEF Write, Claims, Pushes, Tickets
  <2>2. QED
    BY <1>1, <1>5, <2>1 DEF Write
<1>6. CASE Publish(t)
  BY <1>1, <1>6 DEF Publish
<1>7. CASE Read(t)
  <2>1. data[Slot(pos[t])] = pos[t] /\ pos[t] \in Tickets
    BY <1>1, <1>7 DEF Read, Claims, Pops, Contents, At, Tickets
  <2>2. QED
    BY <1>1, <1>7, <2>1 DEF Read
<1>8. CASE Release(t)
  BY <1>1, <1>8 DEF Release
<1>9. QED
  BY <1>2, <1>3, <1>4, <1>5, <1>6, <1>7, <1>8 DEF InCall

-----------------------------------------------------------------------------
(* Each kind of step keeps the invariant.                                  *)

LEMMA LooksInv ==
  ASSUME IInv, NEW t \in Threads, Looks(t), TypeOK'
  PROVE  IInv'
<1> USE DEF IInv, Looks, Alone, Pushes, Pops
<1>1. Claims'
  BY DEF Claims
<1>2. Turns'
  <2> SUFFICES ASSUME NEW u \in Threads
               PROVE  /\ Writing(u)' => seq[At(u)'] = pos'[u]
                      /\ Reading(u)' => seq[At(u)'] = pos'[u] + 1
                      /\ pc'[u] = "pushCas" => seq[At(u)'] = pos'[u] \/ pos'[u] < tail
                      /\ pc'[u] = "popCas" => seq[At(u)'] = pos'[u] + 1 \/ pos'[u] < head
    BY DEF Turns
  <2>1. CASE u = t
    BY <2>1 DEF Writing, Reading, At
  <2>2. CASE u # t
    BY <2>2 DEF Turns, Writing, Reading, At
  <2>3. QED
    BY <2>1, <2>2
<1>3. \A p : (Publishing(p) => Publishing(p)') /\ (Releasing(p) => Releasing(p)')
  BY DEF Publishing, Releasing
<1>4. \A p : (Pushing(p) => Pushing(p)') /\ (Popping(p) => Popping(p)')
  BY DEF Pushing, Popping, Writing, Reading
<1>5. Contents'
  BY <1>3 DEF Contents, At
<1>6. Lag'
  BY <1>4 DEF Lag
<1>7. Placed'
  BY <1>3 DEF Placed
<1>8. Plain'
  BY DEF Plain
<1>9. QED
  BY <1>1, <1>2, <1>5, <1>6, <1>7, <1>8

(* A claim takes a ticket no other call holds; its slot has it in turn, or *)
(* the call waits for that.                                                *)
LEMMA ClaimsPushInv ==
  ASSUME IInv, NEW t \in Threads, ClaimsPush(t), TypeOK'
  PROVE  IInv'
<1> USE DEF IInv, ClaimsPush, Alone, Pushes, Pops
<1>0. tail \in Nat /\ head \in Nat /\ pc'[t] \in {"write", "pushWait"}
      /\ (\A u \in Threads : pos[u] \in Nat) /\ seq \in [Slots -> Nat]
  BY TicketAssumption DEF TypeOK
<1>1. Claims'
  BY <1>0 DEF Claims
<1>2. Turns'
  <2> SUFFICES ASSUME NEW u \in Threads
               PROVE  /\ Writing(u)' => seq[At(u)'] = pos'[u]
                      /\ Reading(u)' => seq[At(u)'] = pos'[u] + 1
                      /\ pc'[u] = "pushCas" => seq[At(u)'] = pos'[u] \/ pos'[u] < tail'
                      /\ pc'[u] = "popCas" => seq[At(u)'] = pos'[u] + 1 \/ pos'[u] < head
    BY DEF Turns
  <2>1. CASE u = t
    BY <2>1, <1>0 DEF Writing, Reading, At
  <2>2. CASE u # t
    BY <2>2, <1>0 DEF Turns, Writing, Reading, At
  <2>3. QED
    BY <2>1, <2>2
<1>3. \A p : (Publishing(p) => Publishing(p)') /\ (Releasing(p) => Releasing(p)')
  BY DEF Publishing, Releasing
<1>4. \A p : (Pushing(p) => Pushing(p)') /\ (Popping(p) => Popping(p)')
  BY DEF Pushing, Popping, Writing, Reading
<1>5. Contents'
  <2>1. pc'[t] = "write" => data[Slot(tail)] = Uninit
    <3> SUFFICES ASSUME pc'[t] = "write" PROVE data[Slot(tail)] = Uninit
      OBVIOUS
    <3>1. ~Publishing(tail)
      BY <1>0 DEF Claims, Publishing
    <3>2. QED
      BY <1>0, <3>1 DEF Contents
  <2>2. QED
    BY <1>0, <1>3, <2>1 DEF Contents, At
<1>6. Lag'
  <2>1. \A p : p = tail => Pushing(p)'
    BY <1>0 DEF Pushing, Writing
  <2>2. QED
    BY <1>0, <1>4, <2>1 DEF Lag
<1>7. Placed'
  BY <1>3 DEF Placed
<1>8. Plain'
  BY <1>0 DEF Plain
<1>9. QED
  BY <1>1, <1>2, <1>5, <1>6, <1>7, <1>8

LEMMA ClaimsPopInv ==
  ASSUME IInv, NEW t \in Threads, ClaimsPop(t), TypeOK'
  PROVE  IInv'
<1> USE DEF IInv, ClaimsPop, Alone, Pushes, Pops
<1>0. tail \in Nat /\ head \in Nat /\ pc'[t] \in {"read", "popWait"}
      /\ (\A u \in Threads : pos[u] \in Nat) /\ seq \in [Slots -> Nat]
  BY TicketAssumption DEF TypeOK
<1>1. Claims'
  BY <1>0 DEF Claims
<1>2. Turns'
  <2> SUFFICES ASSUME NEW u \in Threads
               PROVE  /\ Writing(u)' => seq[At(u)'] = pos'[u]
                      /\ Reading(u)' => seq[At(u)'] = pos'[u] + 1
                      /\ pc'[u] = "pushCas" => seq[At(u)'] = pos'[u] \/ pos'[u] < tail
                      /\ pc'[u] = "popCas" => seq[At(u)'] = pos'[u] + 1 \/ pos'[u] < head'
    BY DEF Turns
  <2>1. CASE u = t
    BY <2>1, <1>0 DEF Writing, Reading, At
  <2>2. CASE u # t
    BY <2>2, <1>0 DEF Turns, Writing, Reading, At
  <2>3. QED
    BY <2>1, <2>2
<1>3. \A p : (Publishing(p) => Publishing(p)') /\ (Releasing(p) => Releasing(p)')
  BY DEF Publishing, Releasing
<1>4. \A p : (Pushing(p) => Pushing(p)') /\ (Popping(p) => Popping(p)')
  BY DEF Pushing, Popping, Writing, Reading
<1>5. Contents'
  <2>1. pc'[t] = "read" => data[Slot(head)] = head
    <3> SUFFICES ASSUME pc'[t] = "read" PROVE data[Slot(head)] = head
      OBVIOUS
    <3>1. ~Releasing(head)
      BY <1>0 DEF Claims, Releasing
    <3>2. QED
      BY <1>0, <3>1 DEF Contents
  <2>2. QED
    BY <1>0, <1>3, <2>1 DEF Contents, At
<1>6. Lag'
  <2>1. \A p : p = head => Popping(p)'
    BY <1>0 DEF Popping, Reading
  <2>2. ASSUME NEW p \in Nat, p < head', seq'[Slot(p)] < p + Capacity
        PROVE  Popping(p)'
    <3>1. CASE p = head
      BY <2>1, <3>1
    <3>2. CASE p # head
      BY <1>0, <1>4, <2>2, <3>2 DEF Lag
    <3>3. QED
      BY <3>1, <3>2
  <2>3. \A p \in Nat : seq'[Slot(p)] = p => p < head' + Capacity
    BY <1>0, CapacityAssumption DEF Lag
  <2>4. QED
    BY <1>4, <2>2, <2>3 DEF Lag
<1>7. Placed'
  BY <1>3 DEF Placed
<1>8. Plain'
  <2>1. pc'[t] = "read" => head < tail
    BY <1>0 DEF Lag
  <2>2. QED
    BY <1>0, <2>1 DEF Plain
<1>9. QED
  BY <1>1, <1>2, <1>5, <1>6, <1>7, <1>8

(* A blocking call whose turn has come goes on.                            *)
LEMMA WaitSlotInv ==
  ASSUME IInv, NEW t \in Threads, WaitSlot(t), TypeOK'
  PROVE  IInv'
<1> USE DEF IInv, WaitSlot, Goto, Pushes, Pops
<1>0. /\ pc'[t] = "write" /\ \A u \in Threads : u # t => pc'[u] = pc[u]
      /\ pos[t] \in Nat
  BY TicketAssumption DEF TypeOK
<1>1. Claims'
  BY <1>0 DEF Claims
<1>2. Turns'
  BY <1>0 DEF Turns, Writing, Reading, At
<1>3. \A p : (Publishing(p) => Publishing(p)') /\ (Releasing(p) => Releasing(p)')
  BY <1>0 DEF Publishing, Releasing
<1>4. \A p : (Pushing(p) => Pushing(p)') /\ (Popping(p) => Popping(p)')
  BY <1>0 DEF Pushing, Popping, Writing, Reading
<1>5. Contents'
  <2>1. ~Publishing(pos[t])
    BY <1>0 DEF Claims, Publishing
  <2>2. data[At(t)] = Uninit
    BY <1>0, <2>1 DEF Contents, At
  <2>3. QED
    BY <1>0, <1>3, <2>2 DEF Contents, At
<1>6. Lag'
  BY <1>4 DEF Lag
<1>7. Placed'
  BY <1>3 DEF Placed
<1>8. Plain'
  BY <1>0 DEF Plain
<1>9. QED
  BY <1>1, <1>2, <1>5, <1>6, <1>7, <1>8

LEMMA WaitItemInv ==
  ASSUME IInv, NEW t \in Threads, WaitItem(t), TypeOK'
  PROVE  IInv'
<1> USE DEF IInv, WaitItem, Goto, Pushes, Pops
<1>0. /\ pc'[t] = "read" /\ \A u \in Threads : u # t => pc'[u] = pc[u]
      /\ pos[t] \in Nat
  BY TicketAssumption DEF TypeOK
<1>1. Claims'
  BY <1>0 DEF Claims
<1>2. Turns'
  BY <1>0 DEF Turns, Writing, Reading, At
<1>3. \A p : (Publishing(p) => Publishing(p)') /\ (Releasing(p) => Releasing(p)')
  BY <1>0 DEF Publishing, Releasing
<1>4. \A p : (Pushing(p) => Pushing(p)') /\ (Popping(p) => Popping(p)')
  BY <1>0 DEF Pushing, Popping, Writing, Reading
<1>5. Contents'
  <2>1. ~Releasing(pos[t])
    BY <1>0 DEF Claims, Releasing
  <2>2. data[At(t)] = pos[t]
    BY <1>0, <2>1 DEF Contents, At
  <2>3. QED
    BY <1>0, <1>3, <2>2 DEF Contents, At
<1>6. Lag'
  BY <1>4 DEF Lag
<1>7. Placed'
  BY <1>3 DEF Placed
<1>8. Plain'
  BY <1>0 DEF Plain
<1>9. QED
  BY <1>1, <1>2, <1>5, <1>6, <1>7, <1>8

(* One call at a time is at work in a slot: the slot's number tells which. *)
LEMMA Exclusive ==
  ASSUME IInv, NEW t \in Threads, NEW u \in Threads,
         Writing(t) \/ Reading(t), Writing(u) \/ Reading(u), At(t) = At(u)
  PROVE  t = u
<1> USE DEF IInv, Turns, Claims, Writing, Reading, Pushes, Pops
<1>0. pos[t] \in Nat /\ pos[u] \in Nat
  BY TicketAssumption DEF TypeOK
<1>1. CASE Writing(t) /\ Writing(u)
  BY <1>0, <1>1
<1>2. CASE Reading(t) /\ Reading(u)
  BY <1>0, <1>2
<1>3. CASE Writing(t) /\ Reading(u)
  BY <1>0, <1>3, SlotFacts DEF At
<1>4. CASE Reading(t) /\ Writing(u)
  BY <1>0, <1>4, SlotFacts DEF At
<1>5. QED
  BY <1>1, <1>2, <1>3, <1>4

LEMMA WriteInv ==
  ASSUME IInv, NEW t \in Threads, Write(t), TypeOK'
  PROVE  IInv'
<1> USE DEF IInv, Write, Goto, Pushes, Pops
<1>0. /\ pc'[t] = "publish" /\ \A u \in Threads : u # t => pc'[u] = pc[u]
      /\ \A u \in Threads : pos[u] \in Nat /\ At(u) \in Slots
      /\ data'[At(t)] = pos[t]
      /\ \A s \in Slots : s # At(t) => data'[s] = data[s]
      /\ seq[At(t)] = pos[t]
      /\ UNCHANGED <<tail, head, seq, pos, item>>
  BY TicketAssumption, SlotFacts DEF TypeOK, At, Turns, Writing
<1>1. Claims'
  BY <1>0 DEF Claims
<1>2. Turns'
  BY <1>0 DEF Turns, Writing, Reading, At
<1>3. \A p : (Publishing(p) => Publishing(p)') /\ (Releasing(p) => Releasing(p)')
  BY <1>0 DEF Publishing, Releasing
<1>4. \A p : (Pushing(p) => Pushing(p)') /\ (Popping(p) => Popping(p)')
  BY <1>0 DEF Pushing, Popping, Writing, Reading
<1>a. \A p : p = pos[t] => Publishing(p)'
  BY <1>0 DEF Publishing
<1>5. Contents'
  <2>1. ASSUME NEW p \in Nat, seq'[Slot(p)] = p
        PROVE  data'[Slot(p)] = Uninit \/ Publishing(p)'
    <3>1. CASE Slot(p) = At(t)
      BY <1>0, <1>a, <2>1, <3>1
    <3>2. CASE Slot(p) # At(t)
      BY <1>0, <1>3, <2>1, <3>2, SlotFacts DEF Contents
    <3>3. QED
      BY <3>1, <3>2
  <2>2. ASSUME NEW p \in Nat, seq'[Slot(p)] = p + 1
        PROVE  data'[Slot(p)] = p \/ Releasing(p)'
    <3>1. Slot(p) # At(t)
      BY <1>0, <2>2, SlotFacts DEF At
    <3>2. QED
      BY <1>0, <1>3, <2>2, <3>1, SlotFacts DEF Contents
  <2>3. ASSUME NEW u \in Threads
        PROVE  /\ pc'[u] = "write" => data'[At(u)'] = Uninit
               /\ pc'[u] = "publish" => data'[At(u)'] = pos'[u]
               /\ pc'[u] = "read" => data'[At(u)'] = pos'[u]
               /\ pc'[u] = "release" => data'[At(u)'] = Uninit /\ item'[u] = pos'[u]
    <3>1. At(u)' = At(u)
      BY <1>0 DEF At
    <3>2. CASE u = t
      BY <1>0, <3>1, <3>2
    <3>3. CASE u # t /\ (Writing(u) \/ Reading(u))
      <4>1. At(u) # At(t)
        BY <3>3, Exclusive DEF Writing
      <4>2. QED
        BY <1>0, <3>1, <3>3, <4>1 DEF Contents
    <3>4. CASE u # t /\ ~(Writing(u) \/ Reading(u))
      BY <1>0, <3>4 DEF Writing, Reading
    <3>5. QED
      BY <3>2, <3>3, <3>4
  <2>4. QED
    BY <2>1, <2>2, <2>3 DEF Contents
<1>6. Lag'
  BY <1>0, <1>4 DEF Lag
<1>7. Placed'
  <2> SUFFICES ASSUME NEW s \in Slots, NEW p \in Tickets, data'[s] = p
               PROVE  Slot(p) = s /\ (seq'[s] = p + 1 \/ Publishing(p)')
    BY DEF Placed
  <2>1. CASE s = At(t)
    BY <1>0, <1>a, <2>1 DEF At
  <2>2. CASE s # At(t)
    BY <1>0, <1>3, <2>2 DEF Placed
  <2>3. QED
    BY <2>1, <2>2
<1>8. Plain'
  BY <1>0 DEF Plain
<1>9. QED
  BY <1>1, <1>2, <1>5, <1>6, <1>7, <1>8

(* The push passes its slot on to the pop of the same ticket.              *)
LEMMA PublishInv ==
  ASSUME IInv, NEW t \in Threads, Publish(t), TypeOK'
  PROVE  IInv'
<1> USE DEF IInv, Publish, Return, Goto, Work, Pushes, Pops
<1>0. /\ pc[t] = "publish" /\ pc'[t] = "idle"
      /\ \A u \in Threads : u # t => pc'[u] = pc[u] /\ pos'[u] = pos[u]
      /\ \A u \in Threads : pos[u] \in Nat /\ At(u) \in Slots
      /\ seq \in [Slots -> Nat]
      /\ seq'[At(t)] = pos[t] + 1
      /\ \A s \in Slots : s # At(t) => seq'[s] = seq[s]
      /\ seq[At(t)] = pos[t] /\ pos[t] < tail
      /\ UNCHANGED <<tail, head, data, item>>
      /\ tail \in Nat /\ head \in Nat
  BY TicketAssumption, SlotFacts DEF TypeOK, At, Turns, Writing, Claims
<1>s. \A p \in Nat : Slot(p) \in Slots /\ Slot(p + 1) # Slot(p)
  BY SlotFacts
<1>1. Claims'
  BY <1>0 DEF Claims
<1>2. Turns'
  <2> SUFFICES ASSUME NEW u \in Threads
               PROVE  /\ Writing(u)' => seq'[At(u)'] = pos'[u]
                      /\ Reading(u)' => seq'[At(u)'] = pos'[u] + 1
                      /\ pc'[u] = "pushCas" => seq'[At(u)'] = pos'[u] \/ pos'[u] < tail
                      /\ pc'[u] = "popCas" => seq'[At(u)'] = pos'[u] + 1 \/ pos'[u] < head
    BY <1>0 DEF Turns
  <2>1. CASE u = t
    BY <1>0, <2>1 DEF Writing, Reading
  <2>2. CASE u # t /\ At(u) # At(t)
    BY <1>0, <2>2 DEF Turns, Writing, Reading, At
  <2>3. CASE u # t /\ At(u) = At(t)
    <3>1. ~Writing(u) /\ ~Reading(u)
      BY <1>0, <2>3, Exclusive DEF Writing
    <3>2. pc[u] = "pushCas" => pos[u] < tail
      BY <1>0, <2>3 DEF Turns
    <3>3. pc[u] = "popCas" => pos[u] < head
      BY <1>0, <1>s, <2>3 DEF Turns, At
    <3>4. QED
      BY <1>0, <2>3, <3>1, <3>2, <3>3 DEF Writing, Reading
  <2>4. QED
    BY <2>1, <2>2, <2>3
<1>3. \A p : /\ Publishing(p) /\ p # pos[t] => Publishing(p)'
             /\ Releasing(p) => Releasing(p)'
  BY <1>0 DEF Publishing, Releasing
<1>4. \A p : /\ Pushing(p) /\ p # pos[t] => Pushing(p)'
             /\ Popping(p) => Popping(p)'
  BY <1>0 DEF Pushing, Popping, Writing, Reading
<1>5. Contents'
  <2>1. ASSUME NEW p \in Nat, seq'[Slot(p)] = p
        PROVE  data'[Slot(p)] = Uninit \/ Publishing(p)'
    <3>1. Slot(p) # At(t)
      BY <1>0, <1>s, <2>1 DEF At
    <3>2. p # pos[t]
      BY <3>1 DEF At
    <3>3. QED
      BY <1>0, <1>3, <1>s, <2>1, <3>1, <3>2 DEF Contents
  <2>2. ASSUME NEW p \in Nat, seq'[Slot(p)] = p + 1
        PROVE  data'[Slot(p)] = p \/ Releasing(p)'
    <3>1. CASE Slot(p) = At(t)
      <4>1. p = pos[t]
        BY <1>0, <2>2, <3>1
      <4>2. QED
        BY <1>0, <3>1, <4>1 DEF Contents
    <3>2. CASE Slot(p) # At(t)
      BY <1>0, <1>3, <1>s, <2>2, <3>2 DEF Contents
    <3>3. QED
      BY <3>1, <3>2
  <2>3. ASSUME NEW u \in Threads
        PROVE  /\ pc'[u] = "write" => data'[At(u)'] = Uninit
               /\ pc'[u] = "publish" => data'[At(u)'] = pos'[u]
               /\ pc'[u] = "read" => data'[At(u)'] = pos'[u]
               /\ pc'[u] = "release" => data'[At(u)'] = Uninit /\ item'[u] = pos'[u]
    BY <1>0 DEF Contents, At
  <2>4. QED
    BY <2>1, <2>2, <2>3 DEF Contents
<1>6. Lag'
  <2>1. \A s \in Slots : s <= seq'[s]
    <3>1. At(t) <= pos[t] /\ At(t) \in Int
      BY <1>0, SlotFacts DEF Lag
    <3>2. QED
      BY <1>0, <3>1 DEF Lag
  <2>2. ASSUME NEW p \in Nat, p < tail', seq'[Slot(p)] <= p
        PROVE  Pushing(p)'
    <3>1. p # pos[t]
      BY <1>0, <2>2 DEF At
    <3>2. seq[Slot(p)] <= p
      BY <1>0, <1>s, <2>2
    <3>3. QED
      BY <1>0, <1>4, <2>2, <3>1, <3>2 DEF Lag
  <2>3. ASSUME NEW p \in Nat, p < head', seq'[Slot(p)] < p + Capacity
        PROVE  Popping(p)'
    <3>1. seq[Slot(p)] < p + Capacity
      BY <1>0, <1>s, <2>3, CapacityAssumption
    <3>2. QED
      BY <1>0, <1>4, <2>3, <3>1 DEF Lag
  <2>4. ASSUME NEW p \in Nat, seq'[Slot(p)] = p PROVE p < head' + Capacity
    <3>1. Slot(p) # At(t)
      BY <1>0, <1>s, <2>4 DEF At
    <3>2. QED
      BY <1>0, <1>s, <2>4, <3>1 DEF Lag
  <2>5. ASSUME NEW p \in Nat, seq'[Slot(p)] = p + 1 PROVE p < tail'
    BY <1>0, <1>s, <2>5 DEF Lag
  <2>6. QED
    BY <2>1, <2>2, <2>3, <2>4, <2>5 DEF Lag
<1>7. Placed'
  <2> SUFFICES ASSUME NEW s \in Slots, NEW p \in Tickets, data'[s] = p
               PROVE  Slot(p) = s /\ (seq'[s] = p + 1 \/ Publishing(p)')
    BY DEF Placed
  <2>1. CASE s = At(t)
    BY <1>0, <2>1 DEF At, Contents
  <2>2. CASE s # At(t)
    BY <1>0, <1>3, <2>2 DEF Placed, At
  <2>3. QED
    BY <2>1, <2>2
<1>8. Plain'
  BY <1>0 DEF Plain
<1>9. QED
  BY <1>1, <1>2, <1>5, <1>6, <1>7, <1>8

LEMMA ReadInv ==
  ASSUME IInv, NEW t \in Threads, Read(t), TypeOK'
  PROVE  IInv'
<1> USE DEF IInv, Read, Goto, Pushes, Pops
<1>0. /\ pc[t] = "read" /\ pc'[t] = "release"
      /\ \A u \in Threads : u # t => pc'[u] = pc[u] /\ item'[u] = item[u]
      /\ \A u \in Threads : pos[u] \in Nat /\ At(u) \in Slots
      /\ data'[At(t)] = Uninit /\ item'[t] = pos[t]
      /\ \A s \in Slots : s # At(t) => data'[s] = data[s]
      /\ seq[At(t)] = pos[t] + 1
      /\ UNCHANGED <<tail, head, seq, pos>>
  BY TicketAssumption, SlotFacts DEF TypeOK, At, Turns, Reading, Contents
<1>1. Claims'
  BY <1>0 DEF Claims
<1>2. Turns'
  BY <1>0 DEF Turns, Writing, Reading, At
<1>3. \A p : (Publishing(p) => Publishing(p)') /\ (Releasing(p) => Releasing(p)')
  BY <1>0 DEF Publishing, Releasing
<1>4. \A p : (Pushing(p) => Pushing(p)') /\ (Popping(p) => Popping(p)')
  BY <1>0 DEF Pushing, Popping, Writing, Reading
<1>a. \A p : p = pos[t] => Releasing(p)'
  BY <1>0 DEF Releasing
<1>5. Contents'
  <2>1. ASSUME NEW p \in Nat, seq'[Slot(p)] = p
        PROVE  data'[Slot(p)] = Uninit \/ Publishing(p)'
    BY <1>0, <1>3, <2>1, SlotFacts DEF Contents
  <2>2. ASSUME NEW p \in Nat, seq'[Slot(p)] = p + 1
        PROVE  data'[Slot(p)] = p \/ Releasing(p)'
    <3>1. CASE Slot(p) = At(t)
      BY <1>0, <1>a, <2>2, <3>1
    <3>2. CASE Slot(p) # At(t)
      BY <1>0, <1>3, <2>2, <3>2, SlotFacts DEF Contents
    <3>3. QED
      BY <3>1, <3>2
  <2>3. ASSUME NEW u \in Threads
        PROVE  /\ pc'[u] = "write" => data'[At(u)'] = Uninit
               /\ pc'[u] = "publish" => data'[At(u)'] = pos'[u]
               /\ pc'[u] = "read" => data'[At(u)'] = pos'[u]
               /\ pc'[u] = "release" => data'[At(u)'] = Uninit /\ item'[u] = pos'[u]
    <3>1. At(u)' = At(u)
      BY <1>0 DEF At
    <3>2. CASE u = t
      BY <1>0, <3>1, <3>2
    <3>3. CASE u # t /\ (Writing(u) \/ Reading(u))
      <4>1. At(u) # At(t)
        BY <3>3, Exclusive DEF Reading
      <4>2. QED
        BY <1>0, <3>1, <3>3, <4>1 DEF Contents
    <3>4. CASE u # t /\ ~(Writing(u) \/ Reading(u))
      BY <1>0, <3>4 DEF Writing, Reading
    <3>5. QED
      BY <3>2, <3>3, <3>4
  <2>4. QED
    BY <2>1, <2>2, <2>3 DEF Contents
<1>6. Lag'
  BY <1>0, <1>4 DEF Lag
<1>7. Placed'
  <2> SUFFICES ASSUME NEW s \in Slots, NEW p \in Tickets, data'[s] = p
               PROVE  Slot(p) = s /\ (seq'[s] = p + 1 \/ Publishing(p)')
    BY DEF Placed
  <2>1. CASE s = At(t)
    BY <1>0, <2>1 DEF Tickets, Uninit
  <2>2. CASE s # At(t)
    BY <1>0, <1>3, <2>2 DEF Placed
  <2>3. QED
    BY <2>1, <2>2
<1>8. Plain'
  BY <1>0 DEF Plain
<1>9. QED
  BY <1>1, <1>2, <1>5, <1>6, <1>7, <1>8

(* The pop passes its slot on to the push a lap later.                     *)
LEMMA ReleaseInv ==
  ASSUME IInv, NEW t \in Threads, Release(t), TypeOK'
  PROVE  IInv'
<1> USE DEF IInv, Release, Return, Goto, Work, Pushes, Pops
<1>0. /\ pc[t] = "release" /\ pc'[t] = "idle" /\ item'[t] = None
      /\ \A u \in Threads : u # t => pc'[u] = pc[u] /\ pos'[u] = pos[u] /\ item'[u] = item[u]
      /\ \A u \in Threads : pos[u] \in Nat /\ At(u) \in Slots
      /\ seq \in [Slots -> Nat]
      /\ seq'[At(t)] = pos[t] + Capacity
      /\ \A s \in Slots : s # At(t) => seq'[s] = seq[s]
      /\ seq[At(t)] = pos[t] + 1 /\ pos[t] < head /\ data[At(t)] = Uninit
      /\ UNCHANGED <<tail, head, data>>
      /\ tail \in Nat /\ head \in Nat
  BY TicketAssumption, SlotFacts DEF TypeOK, At, Turns, Reading, Claims, Contents
<1>s. /\ \A p \in Nat : Slot(p) \in Slots /\ Slot(p + 1) # Slot(p)
      /\ \A p \in Nat : Slot(p + Capacity) = Slot(p)
      /\ Capacity \in Nat /\ Capacity > 1
  BY SlotFacts, CapacityAssumption
<1>1. Claims'
  BY <1>0 DEF Claims
<1>2. Turns'
  <2> SUFFICES ASSUME NEW u \in Threads
               PROVE  /\ Writing(u)' => seq'[At(u)'] = pos'[u]
                      /\ Reading(u)' => seq'[At(u)'] = pos'[u] + 1
                      /\ pc'[u] = "pushCas" => seq'[At(u)'] = pos'[u] \/ pos'[u] < tail
                      /\ pc'[u] = "popCas" => seq'[At(u)'] = pos'[u] + 1 \/ pos'[u] < head
    BY <1>0 DEF Turns
  <2>1. CASE u = t
    BY <1>0, <2>1 DEF Writing, Reading
  <2>2. CASE u # t /\ At(u) # At(t)
    BY <1>0, <2>2 DEF Turns, Writing, Reading, At
  <2>3. CASE u # t /\ At(u) = At(t)
    <3>1. ~Writing(u) /\ ~Reading(u)
      BY <1>0, <2>3, Exclusive DEF Reading
    <3>2. pc[u] = "pushCas" => pos[u] < tail
      BY <1>0, <1>s, <2>3 DEF Turns, At
    <3>3. pc[u] = "popCas" => pos[u] < head
      BY <1>0, <2>3 DEF Turns
    <3>4. QED
      BY <1>0, <2>3, <3>1, <3>2, <3>3 DEF Writing, Reading
  <2>4. QED
    BY <2>1, <2>2, <2>3
<1>3. \A p : /\ Publishing(p) => Publishing(p)'
             /\ Releasing(p) /\ p # pos[t] => Releasing(p)'
  BY <1>0 DEF Publishing, Releasing
<1>4. \A p : /\ Pushing(p) => Pushing(p)'
             /\ Popping(p) /\ p # pos[t] => Popping(p)'
  BY <1>0 DEF Pushing, Popping, Writing, Reading
<1>a. \A p \in Nat : seq'[Slot(p)] = p + 1 => Slot(p) # At(t)
  <2> SUFFICES ASSUME NEW p \in Nat, p + 1 = pos[t] + Capacity, Slot(p) = At(t)
               PROVE  FALSE
    BY <1>0, <1>s
  <2>1. Slot(p + 1) = Slot(pos[t])
    BY <1>0, <1>s
  <2>2. QED
    BY <1>s, <2>1 DEF At
<1>5. Contents'
  <2>1. ASSUME NEW p \in Nat, seq'[Slot(p)] = p
        PROVE  data'[Slot(p)] = Uninit \/ Publishing(p)'
    BY <1>0, <1>3, <1>s, <2>1 DEF Contents
  <2>2. ASSUME NEW p \in Nat, seq'[Slot(p)] = p + 1
        PROVE  data'[Slot(p)] = p \/ Releasing(p)'
    <3>1. Slot(p) # At(t) /\ p # pos[t]
      BY <1>a, <2>2 DEF At
    <3>2. QED
      BY <1>0, <1>3, <1>s, <2>2, <3>1 DEF Contents
  <2>3. ASSUME NEW u \in Threads
        PROVE  /\ pc'[u] = "write" => data'[At(u)'] = Uninit
               /\ pc'[u] = "publish" => data'[At(u)'] = pos'[u]
               /\ pc'[u] = "read" => data'[At(u)'] = pos'[u]
               /\ pc'[u] = "release" => data'[At(u)'] = Uninit /\ item'[u] = pos'[u]
    BY <1>0 DEF Contents, At
  <2>4. QED
    BY <2>1, <2>2, <2>3 DEF Contents
<1>6. Lag'
  <2>1. \A s \in Slots : s <= seq'[s]
    <3>1. At(t) <= pos[t] + 1 /\ At(t) \in Int
      BY <1>0, SlotFacts DEF Lag
    <3>2. QED
      BY <1>0, <1>s, <3>1 DEF Lag
  <2>2. ASSUME NEW p \in Nat, p < tail', seq'[Slot(p)] <= p
        PROVE  Pushing(p)'
    <3>1. seq[Slot(p)] <= p
      BY <1>0, <1>s, <2>2
    <3>2. QED
      BY <1>0, <1>4, <2>2, <3>1 DEF Lag
  <2>3. ASSUME NEW p \in Nat, p < head', seq'[Slot(p)] < p + Capacity
        PROVE  Popping(p)'
    <3>1. p # pos[t]
      BY <1>0, <1>s, <2>3 DEF At
    <3>2. seq[Slot(p)] < p + Capacity
      BY <1>0, <1>s, <2>3
    <3>3. QED
      BY <1>0, <1>4, <2>3, <3>1, <3>2 DEF Lag
  <2>4. ASSUME NEW p \in Nat, seq'[Slot(p)] = p PROVE p < head' + Capacity
    BY <1>0, <1>s, <2>4 DEF Lag
  <2>5. ASSUME NEW p \in Nat, seq'[Slot(p)] = p + 1 PROVE p < tail'
    BY <1>0, <1>a, <1>s, <2>5 DEF Lag
  <2>6. QED
    BY <2>1, <2>2, <2>3, <2>4, <2>5 DEF Lag
<1>7. Placed'
  <2> SUFFICES ASSUME NEW s \in Slots, NEW p \in Tickets, data'[s] = p
               PROVE  Slot(p) = s /\ (seq'[s] = p + 1 \/ Publishing(p)')
    BY DEF Placed
  <2>1. s # At(t)
    BY <1>0 DEF Tickets, Uninit
  <2>2. QED
    BY <1>0, <1>3, <2>1 DEF Placed
<1>8. Plain'
  BY <1>0 DEF Plain
<1>9. QED
  BY <1>1, <1>2, <1>5, <1>6, <1>7, <1>8

LEMMA StepInv == IInv /\ [Next]_vars => IInv'
<1> SUFFICES ASSUME IInv, [Next]_vars PROVE IInv'
  OBVIOUS
<1>1. CASE UNCHANGED vars
  BY <1>1 DEF vars, IInv, TypeOK, Claims, Turns, Contents, Lag, Placed, Plain, At,
              Pushes, Pops, Pushing, Popping, Publishing, Releasing, Writing, Reading
<1>2. ASSUME NEW t \in Threads,
             InCall(t) \/ LoadTail(t) \/ LoadHead(t) \/ AddTail(t) \/ AddHead(t)
      PROVE  IInv'
  <2>1. Step(t) /\ TypeOK'
    BY <1>2, Kinds, TypeStep
  <2>2. QED
    BY <2>1, LooksInv, ClaimsPushInv, ClaimsPopInv, WaitSlotInv, WaitItemInv,
       WriteInv, PublishInv, ReadInv, ReleaseInv DEF Step
<1>3. QED
  BY <1>1, <1>2 DEF Next

LEMMA Inductive == Spec => []IInv
  BY InitInv, StepInv, PTL DEF Spec

-----------------------------------------------------------------------------
(* A pop never returns an uninitialised slot, for any size of ring.        *)
THEOREM TypeCorrect == Spec => []TypeOK
<1>1. IInv => TypeOK
  BY DEF IInv
<1>2. QED
  BY <1>1, Inductive, PTL

(* No two threads are in one slot at once, whatever mix of the four calls  *)
(* any number of threads make.                                             *)
THEOREM SlotsExclusive == Spec => []SlotExclusive
<1>1. IInv => SlotExclusive
  BY Exclusive DEF SlotExclusive, At
<1>2. QED
  BY <1>1, Inductive, PTL

(* A slot about to be read holds the item of the reader's ticket, and one  *)
(* about to be written holds none.                                         *)
THEOREM ItemsStayInPlace == Spec => []ItemsInPlace
<1>1. IInv => ItemsInPlace
  BY DEF IInv, Contents, ItemsInPlace, At
<1>2. QED
  BY <1>1, Inductive, PTL

(* The drop of a ring in no call finds every item that is still in it.     *)
THEOREM DropFindsAll == Spec => []DropDrainsAll
<1>1. IInv => DropDrainsAll
  <2> SUFFICES ASSUME IInv, \A t \in Threads : pc[t] = "idle"
               PROVE  /\ {data[Slot(p)] : p \in Drained} = {data[s] : s \in Slots} \ {Uninit}
                      /\ \A p \in Drained : data[Slot(p)] = p
    BY DEF DropDrainsAll
  <2> USE DEF IInv
  <2>1. \A p : ~Publishing(p) /\ ~Releasing(p) /\ ~Pushing(p) /\ ~Popping(p)
    BY DEF Publishing, Releasing, Pushing, Popping, Writing, Reading
  <2>2. ASSUME NEW p \in Drained
        PROVE  p \in Nat /\ Slot(p) \in Slots /\ data[Slot(p)] = p /\ p # Uninit
    <3>1. p \in Nat /\ seq[Slot(p)] = p + 1
      BY DEF Drained, TypeOK
    <3>2. QED
      BY <2>1, <3>1, SlotFacts DEF Contents, Uninit
  <2>3. ASSUME NEW s \in Slots, data[s] # Uninit
        PROVE  data[s] \in Drained /\ Slot(data[s]) = s
    <3>1. data[s] \in Tickets /\ data[s] \in Nat
      BY <2>3 DEF TypeOK, Tickets
    <3>2. Slot(data[s]) = s /\ seq[s] = data[s] + 1
      BY <2>1, <3>1 DEF Placed
    <3>3. data[s] < tail
      BY <3>1, <3>2 DEF Lag
    <3>4. head <= data[s]
      BY <2>1, <3>1, <3>2, CapacityAssumption DEF Lag, TypeOK
    <3>5. QED
      BY <3>1, <3>2, <3>3, <3>4 DEF Drained, TypeOK
  <2>4. QED
    BY <2>2, <2>3
<1>2. QED
  BY <1>1, Inductive, PTL

-----------------------------------------------------------------------------
(* A thread at its look at a slot's number goes on by that look alone.     *)
LEMMA OwnStep ==
  ASSUME IInv, NEW t \in Threads, [Next]_vars, pc'[t] # pc[t]
  PROVE  /\ pc[t] = "pushSeq" => ReadSeqPush(t)
         /\ pc[t] = "popSeq" => ReadSeqPop(t)
<1>1. PICK u \in Threads :
        InCall(u) \/ LoadTail(u) \/ LoadHead(u) \/ AddTail(u) \/ AddHead(u)
  BY DEF Next, vars
<1>2. u = t
  <2> SUFFICES ASSUME u # t PROVE pc'[t] = pc[t]
    OBVIOUS
  <2>1. Step(u)
    BY <1>1, Kinds
  <2>2. CASE Looks(u) \/ ClaimsPush(u) \/ ClaimsPop(u)
    BY <2>2 DEF Looks, ClaimsPush, ClaimsPop, Alone
  <2>3. CASE WaitSlot(u) \/ WaitItem(u) \/ Write(u) \/ Publish(u) \/ Read(u) \/ Release(u)
    BY <2>3 DEF WaitSlot, WaitItem, Write, Publish, Read, Release, Return, Goto, IInv, TypeOK
  <2>4. QED
    BY <2>1, <2>2, <2>3 DEF Step
<1>3. CASE pc[t] = "pushSeq"
  BY <1>1, <1>2, <1>3 DEF InCall, LoadTail, LoadHead, AddTail, AddHead, CasTail, WaitSlot,
     Write, Publish, ReadSeqPop, CasHead, WaitItem, Read, Release
<1>4. CASE pc[t] = "popSeq"
  BY <1>1, <1>2, <1>4 DEF InCall, LoadTail, LoadHead, AddTail, AddHead, CasTail, WaitSlot,
     Write, Publish, ReadSeqPush, CasHead, WaitItem, Read, Release
<1>5. QED
  BY <1>3, <1>4

(* A push returns Full only over an item that is still in its slot or on   *)
(* its way out: a number a lap behind means a pop that has not released.   *)
THEOREM FullIsHonest == Spec => FullHonest
<1>1. IInv /\ [Next]_vars =>
        [\A t \in Threads : pc[t] = "pushSeq" /\ pc'[t] = "idle" =>
           \/ pos[t] - Capacity >= head
           \/ Popping(pos[t] - Capacity)]_vars
  <2> SUFFICES ASSUME IInv, [Next]_vars, NEW t \in Threads,
                      pc[t] = "pushSeq", pc'[t] = "idle", ~(pos[t] - Capacity >= head)
               PROVE  Popping(pos[t] - Capacity)
    OBVIOUS
  <2> DEFINE p == pos[t] - Capacity
  <2>1. /\ pos[t] \in Nat /\ Capacity \in Nat /\ head \in Nat
        /\ Slot(pos[t]) \in Slots /\ seq[Slot(pos[t])] \in Nat
    BY SlotFacts, CapacityAssumption, TicketAssumption DEF IInv, TypeOK
  <2>2. seq[Slot(pos[t])] < pos[t]
    BY <2>1, OwnStep DEF ReadSeqPush, Goto, Return, IInv, TypeOK
  <2>3. pos[t] >= Capacity
    <3> SUFFICES ASSUME pos[t] < Capacity PROVE FALSE
      BY <2>1
    <3>1. pos[t] \in Slots
      BY <2>1 DEF Slots
    <3>2. Slot(pos[t]) = pos[t] /\ pos[t] <= seq[pos[t]]
      BY <3>1, SlotFacts DEF IInv, Lag
    <3>3. QED
      BY <2>1, <2>2, <3>2
  <2>4. p \in Nat /\ p < head /\ p + Capacity = pos[t]
    BY <2>1, <2>3
  <2>5. Slot(p) = Slot(pos[t])
    BY <2>4, SlotFacts
  <2>6. seq[Slot(p)] < p + Capacity
    BY <2>2, <2>4, <2>5
  <2> HIDE DEF p
  <2>7. Popping(p)
    BY <2>4, <2>6 DEF IInv, Lag
  <2>8. QED
    BY <2>7 DEF p
<1>2. QED
  BY <1>1, Inductive, PTL DEF Spec, FullHonest

(* A pop returns Empty only at a ticket that no push holds an item for.    *)
THEOREM EmptyIsHonest == Spec => EmptyHonest
<1>1. IInv /\ [Next]_vars =>
        [\A t \in Threads : pc[t] = "popSeq" /\ pc'[t] = "idle" =>
           pos[t] >= tail \/ Pushing(pos[t])]_vars
  <2> SUFFICES ASSUME IInv, [Next]_vars, NEW t \in Threads,
                      pc[t] = "popSeq", pc'[t] = "idle", ~(pos[t] >= tail)
               PROVE  Pushing(pos[t])
    OBVIOUS
  <2>1. /\ pos[t] \in Nat /\ tail \in Nat
        /\ Slot(pos[t]) \in Slots /\ seq[Slot(pos[t])] \in Nat
    BY SlotFacts, TicketAssumption DEF IInv, TypeOK
  <2>2. seq[Slot(pos[t])] <= pos[t]
    BY <2>1, OwnStep DEF ReadSeqPop, Goto, Return, IInv, TypeOK
  <2>3. QED
    BY <2>1, <2>2 DEF IInv, Lag
<1>2. QED
  BY <1>1, Inductive, PTL DEF Spec, EmptyHonest

-----------------------------------------------------------------------------
(* The bounded queue.                                                      *)

InQueue == IF callers = "plain" THEN tail - head ELSE 0
Queue   == [i \in 1 .. InQueue |-> head + i - 1]
InHand(t) == IF callers # "plain" THEN None
             ELSE IF pc[t] = "read" THEN pos[t]
             ELSE IF pc[t] = "release" THEN item[t] ELSE None
Taken   == [t \in Threads |-> InHand(t)]

(* A run of tickets as a sequence: putting the next, taking the first.     *)
LEMMA RunIsSeq ==
  ASSUME NEW n \in Nat, NEW h \in Nat
  PROVE  LET q == [i \in 1 .. n |-> h + i - 1] IN q \in Seq(Nat) /\ Len(q) = n
  OBVIOUS

LEMMA RunPut ==
  ASSUME NEW n \in Nat, NEW h \in Nat
  PROVE  [i \in 1 .. n + 1 |-> h + i - 1] = Append([i \in 1 .. n |-> h + i - 1], h + n)
  BY RunIsSeq

LEMMA RunTake ==
  ASSUME NEW n \in Nat, NEW h \in Nat
  PROVE  LET q == [i \in 1 .. n + 1 |-> h + i - 1] IN
         q # <<>> /\ Head(q) = h /\ Tail(q) = [i \in 1 .. n |-> h + 1 + i - 1]
<1> DEFINE q == [i \in 1 .. n + 1 |-> h + i - 1]
<1>1. n + 1 \in Nat /\ q \in Seq(Nat) /\ Len(q) = n + 1
  BY RunIsSeq
<1>2. q[1] = h /\ \A i \in 1 .. n : q[i + 1] = h + 1 + i - 1
  OBVIOUS
<1> HIDE DEF q
<1>3. q # <<>> /\ Head(q) = q[1] /\ Tail(q) = [i \in 1 .. n |-> q[i + 1]]
  <2>1. Len(q) # 0 /\ Len(q) - 1 = n
    BY <1>1
  <2>2. q # <<>>
    BY <2>1
  <2>3. Head(q) = q[1]
    BY <1>1, <2>2
  <2>4. Tail(q) \in Seq(Nat) /\ Len(Tail(q)) = n /\ \A i \in 1 .. n : Tail(q)[i] = q[i + 1]
    BY <1>1, <2>2
  <2>5. Tail(q) = [i \in 1 .. n |-> q[i + 1]]
    <3> DEFINE r == [i \in 1 .. n |-> q[i + 1]]
    <3>1. r \in Seq(Nat) /\ Len(r) = n /\ \A i \in 1 .. n : r[i] = q[i + 1]
      BY <1>1
    <3> HIDE DEF r
    <3>2. Tail(q) = r
      BY <2>4, <3>1, SeqEqual
    <3>3. QED
      BY <3>2 DEF r
  <2>6. QED
    BY <2>2, <2>3, <2>5
<1>4. q # <<>> /\ Head(q) = h /\ Tail(q) = [i \in 1 .. n |-> h + 1 + i - 1]
  BY <1>2, <1>3
<1>5. QED
  BY <1>4 DEF q

LEMMA InQueueNat == ASSUME IInv PROVE InQueue \in Nat /\ head \in Nat
  BY DEF IInv, Plain, TypeOK, InQueue

LEMMA QueuePut ==
  ASSUME IInv, InQueue' = InQueue + 1, UNCHANGED head, tail = head + InQueue
  PROVE  Queue' = Append(Queue, tail) /\ Len(Queue) = InQueue
  BY InQueueNat, RunIsSeq, RunPut DEF Queue

LEMMA QueueTake ==
  ASSUME IInv, InQueue' \in Nat, InQueue = InQueue' + 1, head' = head + 1
  PROVE  Queue # <<>> /\ Head(Queue) = head /\ Queue' = Tail(Queue)
<1> DEFINE n == InQueue'
<1>1. n \in Nat /\ head \in Nat /\ Queue = [i \in 1 .. n + 1 |-> head + i - 1]
  BY InQueueNat DEF Queue
<1>2. Queue' = [i \in 1 .. n |-> head + 1 + i - 1]
  BY DEF Queue
<1> HIDE DEF n
<1>3. LET q == [i \in 1 .. n + 1 |-> head + i - 1] IN
        q # <<>> /\ Head(q) = head /\ Tail(q) = [i \in 1 .. n |-> head + 1 + i - 1]
  BY <1>1, RunTake
<1>4. QED
  BY <1>1, <1>2, <1>3

\* A step that takes nothing and puts nothing.
LEMMA Stutters ==
  ASSUME IInv, IInv', UNCHANGED <<tail, head, callers>>, \A t \in Threads : InHand(t)' = InHand(t)
  PROVE  UNCHANGED <<Queue, Taken>>
  BY DEF Queue, Taken, InQueue

LEMMA StepImplements ==
  ASSUME IInv, IInv', NEW t \in Threads, Step(t), callers = "plain", callers' = "plain"
  PROVE  [Fifo!Next]_<<Queue, Taken>>
<1> DEFINE Abstract == [Fifo!Next]_<<Queue, Taken>>
<1>0. /\ tail \in Nat /\ head \in Nat /\ Capacity \in Nat /\ head <= tail
      /\ \A u \in Threads : pos[u] \in Nat
      /\ \A u \in Threads : pc[u] \notin {"pushWait", "popWait"}
      /\ \A u \in Threads : pc'[u] \notin {"pushWait", "popWait"}
      /\ InQueue = tail - head /\ InQueue' = tail' - head'
      /\ \A u \in Threads : pc[u] = "release" => item[u] = pos[u]
  BY TicketAssumption, CapacityAssumption DEF IInv, TypeOK, Plain, InQueue, Contents
<1> USE DEF Goto, Work, Return
<1>1. CASE Looks(t)
  <2>1. \A u \in Threads : InHand(u)' = InHand(u)
    BY <1>1 DEF Looks, Alone, Pops, InHand
  <2>2. QED
    BY <1>1, <2>1, Stutters DEF Looks
<1>2. CASE Write(t) \/ Publish(t)
  <2>1. \A u \in Threads : InHand(u)' = InHand(u)
    BY <1>2 DEF Write, Publish, InHand, IInv, TypeOK
  <2>2. QED
    BY <1>2, <2>1, Stutters DEF Write, Publish
<1>3. CASE Read(t)
  <2>1. item'[t] = pos[t] /\ pc[t] = "read" /\ pc'[t] = "release"
    BY <1>3 DEF Read, IInv, Contents, At, TypeOK
  <2>2. \A u \in Threads : InHand(u)' = InHand(u)
    BY <1>3, <2>1 DEF Read, InHand, IInv, TypeOK
  <2>3. QED
    BY <1>3, <2>2, Stutters DEF Read
<1>4. CASE ClaimsPush(t)
  <2>1. seq[Slot(tail)] = tail /\ tail' = tail + 1 /\ UNCHANGED head
    BY <1>0, <1>4 DEF ClaimsPush
  <2>2. tail < head + Capacity
    BY <1>0, <2>1 DEF IInv, Lag
  <2>3. PICK i \in Tickets : i = tail
    <3>1. tail \in Tickets
      BY <1>0, <1>4, <2>1, TicketAssumption DEF Tickets, IInv, TypeOK
    <3>2. QED
      BY <3>1
  <2>4. Queue' = Append(Queue, tail) /\ Len(Queue) < Capacity
    BY <1>0, <2>1, <2>2, QueuePut
  <2>5. Taken' = Taken
    BY <1>0, <1>4 DEF ClaimsPush, Alone, Pops, Taken, InHand
  <2>6. Fifo!Put(i)
    BY <2>3, <2>4, <2>5 DEF Fifo!Put, Queue, Taken, InQueue, InHand
  <2>7. QED
    BY <2>3, <2>6 DEF Fifo!Next
<1>5. CASE ClaimsPop(t)
  <2>1. seq[Slot(head)] = head + 1 /\ head' = head + 1 /\ UNCHANGED tail
    BY <1>0, <1>5 DEF ClaimsPop
  <2>2. Queue # <<>> /\ Head(Queue) = head /\ Queue' = Tail(Queue)
    <3>1. head < tail
      BY <1>0, <2>1 DEF IInv, Lag
    <3>2. InQueue' \in Nat /\ InQueue = InQueue' + 1
      BY <1>0, <2>1, <3>1
    <3>3. QED
      BY <2>1, <3>2, QueueTake
  <2>3. Taken[t] = None /\ Taken' = [Taken EXCEPT ![t] = head]
    BY <1>0, <1>5 DEF ClaimsPop, Alone, Pops, Taken, InHand
  <2>4. Fifo!Take(t)
    BY <2>2, <2>3 DEF Fifo!Take, Queue, Taken, InQueue, InHand
  <2>5. QED
    BY <2>4 DEF Fifo!Next
<1>6. CASE Release(t)
  <2>1. pc[t] = "release" /\ pc'[t] = "idle" /\ \A u \in Threads : u # t => pc'[u] = pc[u] /\ pos'[u] = pos[u] /\ item'[u] = item[u]
    BY <1>6 DEF Release, IInv, TypeOK
  <2>a. Taken[t] # None
    BY <1>0, <2>1 DEF Taken, InHand, None
  <2>b. Taken' = [Taken EXCEPT ![t] = None]
    BY <2>1 DEF Taken, InHand
  <2>2. Taken[t] # None /\ Taken' = [Taken EXCEPT ![t] = None]
    BY <2>a, <2>b
  <2>3. Queue' = Queue
    BY <1>6 DEF Release, Queue, InQueue
  <2>4. Fifo!Return(t)
    BY <2>2, <2>3 DEF Fifo!Return, Queue, Taken, InQueue, InHand
  <2>5. QED
    BY <2>4 DEF Fifo!Next
<1>7. QED
  BY <1>0, <1>1, <1>2, <1>3, <1>4, <1>5, <1>6 DEF Step, WaitSlot, WaitItem

LEMMA InitImplements == Init => Fifo!Init
<1> SUFFICES ASSUME Init PROVE Queue = <<>> /\ Taken = [t \in Threads |-> None]
  BY DEF Fifo!Init, Queue, Taken, InQueue, InHand
<1>1. Queue = <<>>
  <2>1. InQueue = 0 /\ head = 0
    BY DEF Init, InQueue
  <2>2. Queue \in Seq(Nat) /\ Len(Queue) = 0
    BY <2>1, RunIsSeq DEF Queue
  <2>3. QED
    BY <2>2, EmptySeq
<1>2. Taken = [t \in Threads |-> None]
  BY DEF Init, Taken, InHand
<1>3. QED
  BY <1>1, <1>2

LEMMA NextImplements ==
  IInv /\ IInv' /\ [Next]_vars => [Fifo!Next]_<<Queue, Taken>>
<1> SUFFICES ASSUME IInv, IInv', [Next]_vars PROVE [Fifo!Next]_<<Queue, Taken>>
  OBVIOUS
<1>1. CASE UNCHANGED vars
  BY <1>1 DEF vars, Queue, Taken, InQueue, InHand
<1>2. ASSUME NEW t \in Threads,
             InCall(t) \/ LoadTail(t) \/ LoadHead(t) \/ AddTail(t) \/ AddHead(t)
      PROVE  [Fifo!Next]_<<Queue, Taken>>
  <2>1. Step(t)
    BY <1>2, Kinds
  <2>2. callers' = callers
    BY <2>1 DEF Step, Looks, ClaimsPush, ClaimsPop, WaitSlot, WaitItem, Write, Publish,
                Read, Release
  <2>3. CASE callers = "plain"
    BY <2>1, <2>2, <2>3, StepImplements
  <2>4. CASE callers # "plain"
    <3>1. InQueue = 0 /\ InQueue' = 0
      BY <2>2, <2>4 DEF InQueue
    <3>2. Queue' = Queue
      BY <3>1 DEF Queue
    <3>3. Taken' = Taken
      BY <2>2, <2>4 DEF Taken, InHand
    <3>4. QED
      BY <3>2, <3>3
  <2>5. QED
    BY <2>3, <2>4
<1>3. QED
  BY <1>1, <1>2 DEF Next

(* For any number of threads and slots, a ring used through the calls that *)
(* do not block is the bounded first-in first-out queue: a push takes      *)
(* effect at its exchange on `tail`, a pop at its exchange on `head`.      *)
THEOREM IsBoundedQueue == Spec => IsFifo
<1>1. Init => Fifo!Init
  BY InitImplements
<1>2. IInv /\ IInv' /\ [Next]_vars => [Fifo!Next]_<<Queue, Taken>>
  BY NextImplements
<1>3. QED
  BY <1>1, <1>2, Inductive, PTL DEF Spec, IsFifo, Fifo!Spec, Queue, Taken, InQueue, InHand
=============================================================================
