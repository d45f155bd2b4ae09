------------------------------ MODULE KhlDeque ------------------------------
(***************************************************************************)
(* The per-slot deque (sched/khl_local.rs), the worker deque's default     *)
(* backing: one owner publishes bodies and takes the newest, thieves claim *)
(* the oldest by an exchange on `head`.  A slot's sequence number says     *)
(* whose turn the slot is; `bottom` says how far the owner has published.  *)
(*                                                                         *)
(* Each action is one atomic access with the local code that follows it;   *)
(* reading or writing a body is a step of its own.  A body is named by the *)
(* number of bodies published before it.  The owner's accumulator, which   *)
(* gathers up to three jobs into a body, is private to the owner.          *)
(***************************************************************************)
EXTENDS Integers, Sequences

CONSTANTS Owner, Thieves,
          Capacity,    \* slots, after new_khl has rounded up
          MaxBodies    \* bound: bodies ever published

ASSUME KhlAssumption ==
  /\ Owner \notin Thieves
  /\ Capacity \in Nat /\ Capacity >= 2
  /\ MaxBodies \in Nat

Threads == Thieves \cup {Owner}
Slots   == 0 .. Capacity - 1
Bodies  == 0 .. MaxBodies - 1
None    == -1
Uninit  == -2   \* the contents of a slot with no body in it

VARIABLES head, bottom, \* the two counters
          seq,          \* each slot's sequence number
          data,         \* the body in each slot
          made,         \* bodies published so far
          pc, pos,      \* where each thread is, and the index it works on
          item          \* the body a pop or steal has read
vars == <<head, bottom, seq, data, made, pc, pos, item>>

Slot(i) == i % Capacity

Init ==
  /\ head = 0 /\ bottom = 0 /\ made = 0
  /\ seq = [s \in Slots |-> s]
  /\ data = [s \in Slots |-> Uninit]
  /\ pc = [p \in Threads |-> "idle"]
  /\ pos = [p \in Threads |-> 0]
  /\ item = [p \in Threads |-> None]

Goto(p, l) == pc' = [pc EXCEPT ![p] = l]
Work(p, i) == pos' = [pos EXCEPT ![p] = i]
Return(p)  == Goto(p, "idle") /\ Work(p, 0)

\* A body moves out of its slot.
ReadBody(p, from, to) ==
  /\ pc[p] = from /\ Goto(p, to)
  /\ item' = [item EXCEPT ![p] = data[Slot(pos[p])]]
  /\ data' = [data EXCEPT ![Slot(pos[p])] = Uninit]
  /\ UNCHANGED <<head, bottom, seq, made, pos>>

\* The slot's number is set for the round that may use it next.
LeaveSlot(p, from, n) ==
  /\ pc[p] = from
  /\ seq' = [seq EXCEPT ![Slot(pos[p])] = n]
  /\ item' = [item EXCEPT ![p] = None]
  /\ Return(p)
  /\ UNCHANGED <<head, bottom, data, made>>

-----------------------------------------------------------------------------
(* publish and try_publish.                                                *)

BeginPush == \E l \in {"waitSlot", "trySlot"} :
  /\ pc[Owner] = "idle" /\ made < MaxBodies
  /\ Goto(Owner, l) /\ Work(Owner, bottom)
  /\ UNCHANGED <<head, bottom, seq, data, made, item>>

\* publish spins until the slot is released.
WaitSlot ==
  /\ pc[Owner] = "waitSlot" /\ seq[Slot(pos[Owner])] = pos[Owner]
  /\ Goto(Owner, "write")
  /\ UNCHANGED <<head, bottom, seq, data, made, pos, item>>

\* Mutated form: a slot some thief still reads passes for a free one.
TrySlot_Claimed ==
  /\ pc[Owner] = "trySlot"
  /\ IF seq[Slot(pos[Owner])] = pos[Owner] \/ head > pos[Owner] - Capacity
       THEN Goto(Owner, "write") /\ UNCHANGED pos
       ELSE Return(Owner)
  /\ UNCHANGED <<head, bottom, seq, data, made, item>>

\* try_publish refuses the push when it is not.
TrySlot ==
  /\ pc[Owner] = "trySlot"
  /\ IF seq[Slot(pos[Owner])] = pos[Owner]
       THEN Goto(Owner, "write") /\ UNCHANGED pos
       ELSE Return(Owner)
  /\ UNCHANGED <<head, bottom, seq, data, made, item>>

\* Mutated form: `bottom` is advanced before the slot is published.
WriteBody_BottomFirst ==
  /\ pc[Owner] = "write"
  /\ data' = [data EXCEPT ![Slot(pos[Owner])] = made]
  /\ bottom' = pos[Owner] + 1
  /\ made' = made + 1
  /\ Goto(Owner, "publish")
  /\ UNCHANGED <<head, seq, pos, item>>

WriteBody ==
  /\ pc[Owner] = "write"
  /\ data' = [data EXCEPT ![Slot(pos[Owner])] = made]
  /\ made' = made + 1
  /\ Goto(Owner, "publish")
  /\ UNCHANGED <<head, bottom, seq, pos, item>>

Publish ==
  /\ pc[Owner] = "publish"
  /\ seq' = [seq EXCEPT ![Slot(pos[Owner])] = pos[Owner] + 1]
  /\ Goto(Owner, "advance")
  /\ UNCHANGED <<head, bottom, data, made, pos, item>>

Advance ==
  /\ pc[Owner] = "advance"
  /\ bottom' = pos[Owner] + 1
  /\ Return(Owner)
  /\ UNCHANGED <<head, seq, data, made, item>>

Push == BeginPush \/ WaitSlot \/ TrySlot \/ WriteBody \/ Publish \/ Advance

-----------------------------------------------------------------------------
(* pop_newest.                                                             *)

BeginPop ==
  /\ pc[Owner] = "idle"
  /\ head <= bottom - 1
  /\ Goto(Owner, "lower") /\ Work(Owner, bottom - 1)
  /\ UNCHANGED <<head, bottom, seq, data, made, item>>

Lower ==
  /\ pc[Owner] = "lower"
  /\ bottom' = pos[Owner]
  /\ Goto(Owner, "look")
  /\ UNCHANGED <<head, seq, data, made, pos, item>>

\* Mutated form: the last body is taken without a race.
Look_NoRace ==
  /\ pc[Owner] = "look"
  /\ Goto(Owner, IF head > pos[Owner] THEN "restore" ELSE "take")
  /\ UNCHANGED <<head, bottom, seq, data, made, pos, item>>

Look ==
  /\ pc[Owner] = "look"
  /\ Goto(Owner, IF head > pos[Owner] THEN "restore"
                 ELSE IF head = pos[Owner] THEN "race" ELSE "take")
  /\ UNCHANGED <<head, bottom, seq, data, made, pos, item>>

\* The last body is raced for on `head` as a thief would.
Race ==
  /\ pc[Owner] = "race"
  /\ IF head = pos[Owner] THEN head' = head + 1 /\ Goto(Owner, "won")
                          ELSE Goto(Owner, "restore") /\ UNCHANGED head
  /\ UNCHANGED <<bottom, seq, data, made, pos, item>>

\* bottom goes back up: the pop returns Empty, or Retry after a lost race.
Restore ==
  /\ pc[Owner] = "restore"
  /\ bottom' = pos[Owner] + 1
  /\ Return(Owner)
  /\ UNCHANGED <<head, seq, data, made, item>>

RestoreWon ==
  /\ pc[Owner] = "won"
  /\ bottom' = pos[Owner] + 1
  /\ Goto(Owner, "takeLast")
  /\ UNCHANGED <<head, seq, data, made, pos, item>>

\* A body taken without a race: its index is published again by the next push.
TakeNewest ==
  \/ ReadBody(Owner, "take", "unpublish")
  \/ LeaveSlot(Owner, "unpublish", pos[Owner])

TakeLast ==
  \/ ReadBody(Owner, "takeLast", "release")
  \/ LeaveSlot(Owner, "release", pos[Owner] + Capacity)

Pop == BeginPop \/ Lower \/ Look \/ Race \/ Restore \/ RestoreWon \/ TakeNewest \/ TakeLast

-----------------------------------------------------------------------------
(* KhlStealer::steal.                                                      *)

LoadHead(t) ==
  /\ pc[t] = "idle"
  /\ Goto(t, "bottom") /\ Work(t, head)
  /\ UNCHANGED <<head, bottom, seq, data, made, item>>

LoadBottom(t) ==
  /\ pc[t] = "bottom"
  /\ IF pos[t] >= bottom THEN Return(t) ELSE Goto(t, "claim") /\ UNCHANGED pos
  /\ UNCHANGED <<head, bottom, seq, data, made, item>>

\* The steal that loses the exchange returns Retry.
ClaimHead(t) ==
  /\ pc[t] = "claim"
  /\ IF head = pos[t] THEN head' = head + 1 /\ Goto(t, "wait") /\ UNCHANGED pos
                      ELSE Return(t) /\ UNCHANGED head
  /\ UNCHANGED <<bottom, seq, data, made, item>>

WaitBody(t) ==
  /\ pc[t] = "wait" /\ seq[Slot(pos[t])] = pos[t] + 1
  /\ Goto(t, "read")
  /\ UNCHANGED <<head, bottom, seq, data, made, pos, item>>

\* Mutated form: the slot is released for a round one too early.
TakeOldest_Short(t) ==
  \/ ReadBody(t, "read", "release")
  \/ LeaveSlot(t, "release", pos[t] + Capacity - 1)

TakeOldest(t) ==
  \/ ReadBody(t, "read", "release")
  \/ LeaveSlot(t, "release", pos[t] + Capacity)

Steal(t) == LoadHead(t) \/ LoadBottom(t) \/ ClaimHead(t) \/ WaitBody(t) \/ TakeOldest(t)

-----------------------------------------------------------------------------
Next == Push \/ Pop \/ \E t \in Thieves : Steal(t)

Spec == Init /\ [][Next]_vars

\* A call once begun goes on; whether to call is the thread's own choice.
Fairness ==
  /\ WF_vars(pc[Owner] # "idle" /\ (Push \/ Pop))
  /\ \A t \in Thieves : WF_vars(pc[t] # "idle" /\ Steal(t))

FairSpec == Spec /\ Fairness

-----------------------------------------------------------------------------
(* Properties.                                                             *)

InSlot(p) == pc[p] \in {"write", "publish", "read", "release", "take", "unpublish", "takeLast"}

\* Type invariant: a pop or steal has read a body, never an empty slot.
TypeOK ==
  /\ head \in Nat /\ bottom \in Int /\ made \in 0 .. MaxBodies
  /\ seq \in [Slots -> Nat]
  /\ data \in [Slots -> Bodies \cup {Uninit}]
  /\ pc \in [Threads -> {"idle", "waitSlot", "trySlot", "write", "publish", "advance",
                         "lower", "look", "race", "restore", "won", "take", "unpublish",
                         "takeLast", "release", "bottom", "claim", "wait", "read"}]
  /\ pos \in [Threads -> Int]
  /\ item \in [Threads -> Bodies \cup {None}]

\* One thread at a time has the use of a slot's body, through laps of pushes,
\* newest-first pops that give an index back, and late thieves.
SlotExclusive ==
  \A p, q \in Threads :
    InSlot(p) /\ InSlot(q) /\ Slot(pos[p]) = Slot(pos[q]) => p = q

\* A thief that has won `head` never waits for its body: an index a thief can
\* claim is published, also when the owner lowered `bottom` past the thief's
\* load, took the index back and published it again.
ClaimIsPublished ==
  \A t \in Thieves : pc[t] = "wait" => seq[Slot(pos[t])] = pos[t] + 1

\* A publish that waits for a slot whose last body has been claimed returns.
PublishReturns ==
  pc[Owner] = "waitSlot" /\ pos[Owner] < head + Capacity ~> pc[Owner] # "waitSlot"

\* The bodies in the deque: up to bottom, and the one a pop has lowered it
\* past without having taken it yet.
Top == IF pc[Owner] \in {"look", "race"} THEN bottom + 1 ELSE bottom

Holding(p) == pc[p] \in {"wait", "read", "take", "takeLast"} \/ (p = Owner /\ pc[p] = "won")

\* The deque is the abstract one: a push takes effect when it advances
\* `bottom`, an undisputed pop when it reads `head`, a steal and a disputed
\* pop at their exchange on `head`.
Abstract == INSTANCE WorkDeque WITH
  Item  <- Bodies,
  deque <- [i \in 1 .. Top - head |-> data[Slot(head + i - 1)]],
  taken <- [p \in Threads |-> IF Holding(p) THEN data[Slot(pos[p])] ELSE item[p]]
IsWorkDeque == Abstract!Spec
=============================================================================
