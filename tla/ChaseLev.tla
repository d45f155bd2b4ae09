------------------------------ MODULE ChaseLev ------------------------------
(***************************************************************************)
(* The Chase-Lev deque (sched/chase_lev_local.rs) under the fixed-batch    *)
(* worker and the dual deque: an owner that pushes and pops at `bottom`,   *)
(* thieves that claim at `top`.  A pop of the last item and every steal    *)
(* copy the item BEFORE the exchange that decides who has it, so a copy    *)
(* may be stale or half overwritten; whoever loses forgets its copy.       *)
(*                                                                         *)
(* Each action is one access to shared memory with the local code that     *)
(* follows it.  An item is two words, written and copied one at a time;    *)
(* the words of an item are the number of items pushed before it.          *)
(***************************************************************************)
EXTENDS Integers, Sequences

CONSTANTS Owner, Thieves,
          Capacity,  \* slots, after new_chase_lev has rounded up
          MaxItems   \* bound: items ever pushed

ASSUME ChaseLevAssumption ==
  /\ Owner \notin Thieves
  /\ Capacity \in Nat /\ Capacity >= 2
  /\ MaxItems \in Nat

Threads == Thieves \cup {Owner}
Slots   == 0 .. Capacity - 1
Words   == 0 .. MaxItems - 1
Uninit  == -1
Nothing == <<Uninit, Uninit>>

VARIABLES top, bottom, \* the two counters
          lo, hi,      \* the two words of each slot
          made,        \* items pushed so far
          pc, pos,     \* where each thread is, and the index it works on
          copy         \* the words each thread has copied
counts == <<top, bottom, made>>
slots  == <<lo, hi>>
vars   == <<counts, slots, pc, pos, copy>>

Slot(i) == i % Capacity

Init ==
  /\ top = 0 /\ bottom = 0 /\ made = 0
  /\ lo = [s \in Slots |-> Uninit] /\ hi = [s \in Slots |-> Uninit]
  /\ pc = [p \in Threads |-> "idle"]
  /\ pos = [p \in Threads |-> 0]
  /\ copy = [p \in Threads |-> Nothing]

Goto(p, l) == pc' = [pc EXCEPT ![p] = l]
Work(p, i) == pos' = [pos EXCEPT ![p] = i]
Leave(p)   == Goto(p, "idle") /\ Work(p, 0) /\ copy' = [copy EXCEPT ![p] = Nothing]

\* A bitwise copy out of the slot; the slot keeps its bytes.
CopyLo(p, from, to) ==
  /\ pc[p] = from /\ Goto(p, to)
  /\ copy' = [copy EXCEPT ![p] = <<lo[Slot(pos[p])], Uninit>>]
  /\ UNCHANGED <<counts, slots, pos>>

CopyHi(p, from, to) ==
  /\ pc[p] = from /\ Goto(p, to)
  /\ copy' = [copy EXCEPT ![p] = <<copy[p][1], hi[Slot(pos[p])]>>]
  /\ UNCHANGED <<counts, slots, pos>>

\* The exchange on `top`; the loser forgets its copy and goes to `lost`.
ClaimTop(p, from, won, lost) ==
  /\ pc[p] = from
  /\ IF top = pos[p]
       THEN top' = top + 1 /\ Goto(p, won) /\ UNCHANGED <<pos, copy>>
       ELSE /\ UNCHANGED top
            /\ IF lost = "idle" THEN Leave(p)
               ELSE Goto(p, lost) /\ copy' = [copy EXCEPT ![p] = Nothing] /\ UNCHANGED pos
  /\ UNCHANGED <<bottom, made, slots>>

\* The call returns the item it has.
ReturnItem(p) ==
  /\ pc[p] = "return"
  /\ Leave(p)
  /\ UNCHANGED <<counts, slots>>

-----------------------------------------------------------------------------
(* Worker::push: refused, with nothing changed, when the deque is full.    *)

BeginPush ==
  /\ pc[Owner] = "idle" /\ made < MaxItems
  /\ bottom - top < Capacity
  /\ Goto(Owner, "writeLo") /\ Work(Owner, bottom)
  /\ UNCHANGED <<counts, slots, copy>>

WriteLo ==
  /\ pc[Owner] = "writeLo"
  /\ lo' = [lo EXCEPT ![Slot(pos[Owner])] = made]
  /\ Goto(Owner, "writeHi")
  /\ UNCHANGED <<counts, hi, pos, copy>>

WriteHi ==
  /\ pc[Owner] = "writeHi"
  /\ hi' = [hi EXCEPT ![Slot(pos[Owner])] = made]
  /\ Goto(Owner, "advance")
  /\ UNCHANGED <<counts, lo, pos, copy>>

Advance ==
  /\ pc[Owner] = "advance"
  /\ bottom' = pos[Owner] + 1 /\ made' = made + 1
  /\ Leave(Owner)
  /\ UNCHANGED <<top, slots>>

Push == BeginPush \/ WriteLo \/ WriteHi \/ Advance

-----------------------------------------------------------------------------
(* Worker::pop: lowers `bottom` first, also on an empty deque.             *)

Lower ==
  /\ pc[Owner] = "idle"
  /\ bottom' = bottom - 1
  /\ Goto(Owner, "look") /\ Work(Owner, bottom - 1)
  /\ UNCHANGED <<top, made, slots, copy>>

\* Mutated form: the last item is taken without a race.
Look_NoRace ==
  /\ pc[Owner] = "look"
  /\ Goto(Owner, IF top > pos[Owner] THEN "restore" ELSE "ownLo")
  /\ UNCHANGED <<counts, slots, pos, copy>>

Look ==
  /\ pc[Owner] = "look"
  /\ Goto(Owner, IF top > pos[Owner] THEN "restore"
                 ELSE IF top = pos[Owner] THEN "lastLo" ELSE "ownLo")
  /\ UNCHANGED <<counts, slots, pos, copy>>

\* Empty, at once or after a lost race.
Restore ==
  /\ pc[Owner] = "restore"
  /\ bottom' = pos[Owner] + 1
  /\ Leave(Owner)
  /\ UNCHANGED <<top, made, slots>>

RestoreWon ==
  /\ pc[Owner] = "won"
  /\ bottom' = pos[Owner] + 1
  /\ Goto(Owner, "return")
  /\ UNCHANGED <<top, made, slots, pos, copy>>

Pop ==
  \/ Lower \/ Look \/ Restore
  \/ CopyLo(Owner, "ownLo", "ownHi") \/ CopyHi(Owner, "ownHi", "return")
  \/ CopyLo(Owner, "lastLo", "lastHi") \/ CopyHi(Owner, "lastHi", "race")
  \/ ClaimTop(Owner, "race", "won", "restore") \/ RestoreWon
  \/ ReturnItem(Owner)

-----------------------------------------------------------------------------
(* Stealer::steal.                                                         *)

LoadTop(t) ==
  /\ pc[t] = "idle"
  /\ Goto(t, "bottom") /\ Work(t, top)
  /\ UNCHANGED <<counts, slots, copy>>

LoadBottom(t) ==
  /\ pc[t] = "bottom"
  /\ IF pos[t] >= bottom THEN Leave(t) ELSE Goto(t, "copyLo") /\ UNCHANGED <<pos, copy>>
  /\ UNCHANGED <<counts, slots>>

\* Mutated form: the item is copied after the exchange that claims it.
Steal_ClaimFirst(t) ==
  \/ LoadTop(t) \/ LoadBottom(t)
  \/ ClaimTop(t, "copyLo", "copyHi", "idle")
  \/ CopyLo(t, "copyHi", "claim") \/ CopyHi(t, "claim", "return")
  \/ ReturnItem(t)

\* A lost exchange returns Retry.
Steal(t) ==
  \/ LoadTop(t) \/ LoadBottom(t)
  \/ CopyLo(t, "copyLo", "copyHi") \/ CopyHi(t, "copyHi", "claim")
  \/ ClaimTop(t, "claim", "return", "idle")
  \/ ReturnItem(t)

-----------------------------------------------------------------------------
Next == Push \/ Pop \/ \E t \in Thieves : Steal(t)

Spec == Init /\ [][Next]_vars

-----------------------------------------------------------------------------
(* Properties.                                                             *)

Whole == {<<w, w>> : w \in Words}

\* The thread's call has decided that it has the item it copied.
HasCopy(p) == pc[p] \in {"won", "return"}

\* Type invariant: the copy a pop or steal returns is an item that was
\* pushed, whole, though it was made before the exchange that decided whose
\* it is and the owner may have been overwriting the slot meanwhile.
TypeOK ==
  /\ top \in Nat /\ bottom \in Int /\ made \in 0 .. MaxItems
  /\ lo \in [Slots -> Words \cup {Uninit}] /\ hi \in [Slots -> Words \cup {Uninit}]
  /\ pc \in [Threads -> {"idle", "writeLo", "writeHi", "advance", "look", "restore",
                         "ownLo", "ownHi", "lastLo", "lastHi", "race", "won",
                         "bottom", "copyLo", "copyHi", "claim", "return"}]
  /\ pos \in [Threads -> Int]
  /\ copy \in [Threads -> (Words \cup {Uninit}) \X (Words \cup {Uninit})]
  /\ \A p \in Threads : HasCopy(p) => copy[p] \in Whole

ItemAt(i) == <<lo[Slot(i)], hi[Slot(i)]>>

\* The items in the deque: up to bottom, and the one a pop has lowered it
\* past without having won it yet.
Top == IF pc[Owner] \in {"look", "lastLo", "lastHi", "race"} THEN bottom + 1 ELSE bottom

\* The deque is the abstract one: a push takes effect when it advances
\* `bottom`, a pop of one item among several when it reads `top`, a pop of
\* the last item and a steal at their exchange.  What is still in the deque
\* is whole, which is also what its drop goes by.
Abstract == INSTANCE WorkDeque WITH
  Item  <- Whole,
  None  <- Nothing,
  deque <- [i \in 1 .. Top - top |-> ItemAt(top + i - 1)],
  taken <- [p \in Threads |-> IF pc[p] \in {"ownLo", "ownHi"} THEN ItemAt(pos[p])
                              ELSE IF HasCopy(p) THEN copy[p] ELSE Nothing]
IsWorkDeque == Abstract!Spec
=============================================================================
