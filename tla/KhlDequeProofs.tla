-------------------------- MODULE KhlDequeProofs --------------------------
(***************************************************************************)
(* The per-slot deque's safety for any number of thieves, slots and        *)
(* bodies, and its steps as steps of the abstract deque.                   *)
(*                                                                         *)
(* The invariant has six parts.  Typed: the types, and the labels that are *)
(* the owner's and a thief's.  Ends: where `head` and `bottom` stand at    *)
(* each of the owner's labels, and that a thief whose exchange can still   *)
(* succeed is at a body that is there.  Published: the number of the slot  *)
(* of each index in the deque, and of each index a thread is at work on.   *)
(* Claims: an index is claimed at `head` by one thread.  Full: those slots *)
(* hold a body.  Hands: a thread holds a body between its read and its     *)
(* return only.                                                            *)
(***************************************************************************)
EXTENDS KhlDeque, Laps, SequenceTheorems

At(p) == Slot(pos[p])
OwnerAt(L) == pc[Owner] \in L

PushPc    == {"waitSlot", "trySlot", "write", "publish", "advance"}
LoweredPc == {"look", "race", "restore", "won", "take", "unpublish"}
LastPc    == {"takeLast", "release"}

\* The thread has won index pos[p] at `head`.
Claimed(p) == \/ p \in Thieves /\ pc[p] \in {"wait", "read", "release"}
              \/ p = Owner /\ pc[p] \in {"won", "takeLast", "release"}

Ends ==
  /\ OwnerAt({"idle"} \cup PushPc \cup {"lower"}) => head <= bottom
  /\ OwnerAt(PushPc) => pos[Owner] = bottom
  /\ OwnerAt({"lower"}) => pos[Owner] = bottom - 1 /\ 0 < bottom
  /\ OwnerAt(LoweredPc) => pos[Owner] = bottom
  /\ OwnerAt({"look", "race"}) => head <= bottom + 1
  /\ OwnerAt({"race"}) => bottom <= head
  /\ OwnerAt({"restore", "won"}) => head = bottom + 1
  /\ OwnerAt({"take", "unpublish"}) => head <= bottom
  /\ OwnerAt(LastPc) => pos[Owner] = bottom - 1 /\ head = bottom
  /\ \A t \in Thieves :
       /\ pc[t] \in {"bottom", "claim"} => pos[t] <= head
       /\ pc[t] = "claim" /\ pos[t] = head => pos[t] < Top

Published ==
  /\ \A i \in Nat : head <= i /\ i < Top => seq[Slot(i)] = i + 1
  /\ \A p \in Threads : Claimed(p) => seq[At(p)] = pos[p] + 1
  /\ OwnerAt({"write", "publish"}) => seq[At(Owner)] = pos[Owner]
  /\ OwnerAt({"advance", "take", "unpublish"}) => seq[At(Owner)] = pos[Owner] + 1

Claims ==
  /\ \A p \in Threads : Claimed(p) => pos[p] < head
  /\ \A p, q \in Threads :
       Claimed(p) /\ Claimed(q) /\ pos[p] = pos[q] => p = q

HoldsBody(p) == pc[p] \in {"wait", "read"} \/
                (p = Owner /\ pc[p] \in {"publish", "advance", "take", "won", "takeLast"})
Full ==
  /\ \A i \in Nat : head <= i /\ i < Top => data[Slot(i)] \in Bodies
  /\ \A p \in Threads : HoldsBody(p) => data[At(p)] \in Bodies

Hands ==
  \A p \in Threads : IF pc[p] \in {"unpublish", "release"}
                       THEN item[p] \in Bodies ELSE item[p] = None

\* Owner and thieves have labels of their own, and work on true indices.
OwnerPc == {"idle", "lower"} \cup PushPc \cup LoweredPc \cup LastPc
ThiefPc == {"idle", "bottom", "claim", "wait", "read", "release"}
Typed ==
  /\ TypeOK
  /\ bottom \in Nat
  /\ pos \in [Threads -> Nat]
  /\ pc[Owner] \in OwnerPc
  /\ OwnerAt({"waitSlot", "trySlot", "write"}) => made < MaxBodies
  /\ \A t \in Thieves : pc[t] \in ThiefPc

IInv == Typed /\ Ends /\ Published /\ Claims /\ Full /\ Hands

-----------------------------------------------------------------------------
LEMMA SlotFacts ==
  /\ \A p \in Nat : Slot(p) \in Slots
  /\ \A p \in Nat : Slot(p + 1) # Slot(p)
  /\ \A p \in Nat : Slot(p + Capacity) = Slot(p)
<1> USE KhlAssumption DEF Slot, Slots
<1>a. Capacity \in Nat /\ Capacity > 0 /\ Capacity > 1
  OBVIOUS
<1>1. ASSUME NEW p \in Nat PROVE Slot(p) \in Slots
  BY Division
<1>2. ASSUME NEW p \in Nat PROVE Slot(p + 1) # Slot(p)
  BY <1>a, NextSlot, Zenon
<1>3. ASSUME NEW p \in Nat PROVE Slot(p + Capacity) = Slot(p)
  BY <1>a, NextLap, Zenon
<1>4. QED
  BY <1>1, <1>2, <1>3

LEMMA InitInv == Init => IInv
<1> SUFFICES ASSUME Init PROVE IInv
  OBVIOUS
<1> USE KhlAssumption DEF Init, Threads
<1>1. Typed
  BY DEF Typed, TypeOK, Slots, OwnerPc, ThiefPc, OwnerAt
<1>2. Ends /\ Claims
  BY DEF Ends, Claims, Claimed, OwnerAt, PushPc, LoweredPc, LastPc, Top
<1>3. Published /\ Full /\ Hands
  BY DEF Published, Full, Hands, Claimed, HoldsBody, OwnerAt, Top
<1>4. QED
  BY <1>1, <1>2, <1>3 DEF IInv

-----------------------------------------------------------------------------
(* The numbers of the slots keep the threads apart.                        *)

Works(p) == Claimed(p) \/ (p = Owner /\ OwnerAt({"write", "publish", "advance", "take", "unpublish"}))

LEMMA Exclusive ==
  ASSUME IInv, NEW p \in Threads, NEW q \in Threads, Works(p), Works(q), At(p) = At(q)
  PROVE  p = q
<1> USE DEF IInv, Typed, TypeOK
<1>0. /\ pos[p] \in Nat /\ pos[q] \in Nat /\ head \in Nat /\ bottom \in Nat
      /\ Slot(pos[p] + 1) # Slot(pos[p]) /\ Slot(pos[q] + 1) # Slot(pos[q])
  BY SlotFacts
<1>1. CASE Claimed(p) /\ Claimed(q)
  BY <1>0, <1>1 DEF Claims, Published
<1>2. ASSUME NEW r \in Threads, NEW s \in Threads, Claimed(r), Works(s), s = Owner,
             ~Claimed(s), At(r) = At(s)
      PROVE  FALSE
  <2>1. pos[r] < head /\ seq[At(r)] = pos[r] + 1 /\ pos[r] \in Nat /\ pos[s] \in Nat
    BY <1>2 DEF Claims, Published
  <2>2. CASE OwnerAt({"write", "publish"})
    BY <1>2, <2>1, <2>2, SlotFacts DEF Published, At
  <2>3. CASE OwnerAt({"advance", "take", "unpublish"})
    <3>1. pos[Owner] = bottom /\ head <= bottom
      BY <2>3 DEF Ends, OwnerAt, PushPc, LoweredPc
    <3>2. pos[r] = pos[s]
      BY <1>2, <2>1, <2>3 DEF Published
    <3>3. QED
      BY <1>0, <1>2, <2>1, <3>1, <3>2
  <2>4. QED
    BY <1>2, <2>2, <2>3 DEF Works, OwnerAt
<1>3. QED
  BY <1>1, <1>2 DEF Works

LEMMA Outside ==
  ASSUME IInv, NEW p \in Threads, Works(p), NEW i \in Nat, head <= i, i < Top
  PROVE  Slot(i) # At(p)
<1> SUFFICES ASSUME Slot(i) = At(p) PROVE FALSE
  OBVIOUS
<1> USE DEF IInv, Typed, TypeOK
<1>0. pos[p] \in Nat /\ head \in Nat /\ bottom \in Nat /\ seq[Slot(i)] = i + 1
      /\ Slot(i + 1) # Slot(i)
  BY SlotFacts DEF Published
<1>1. CASE Claimed(p)
  BY <1>0, <1>1 DEF Claims, Published
<1>2. CASE p = Owner /\ OwnerAt({"write", "publish"})
  BY <1>0, <1>2 DEF Published, At
<1>3. CASE p = Owner /\ OwnerAt({"advance", "take", "unpublish"})
  <2>1. pos[p] = bottom /\ Top = bottom
    BY <1>3 DEF Ends, OwnerAt, PushPc, LoweredPc, Top
  <2>2. i = pos[p]
    BY <1>0, <1>3 DEF Published
  <2>3. QED
    BY <1>0, <2>1, <2>2
<1>4. QED
  BY <1>1, <1>2, <1>3 DEF Works, OwnerAt

-----------------------------------------------------------------------------
(* Types: the owner's labels and a thief's, and what each step leaves.     *)

Held == UNCHANGED <<head, bottom, seq, data, made, item>>
Others(p) == \A q \in Threads : q # p => pc'[q] = pc[q] /\ pos'[q] = pos[q] /\ item'[q] = item[q]

LEMMA OwnerMoves ==
  ASSUME IInv, Push \/ Pop
  PROVE  Others(Owner) /\ Owner \in Threads /\ Typed'
<1> USE KhlAssumption DEF IInv, Typed, TypeOK, Others, Threads, Goto, Work, Return, OwnerAt
<1>0. /\ \A p \in Threads : Slot(pos[p]) \in Slots
      /\ pos[Owner] \in Nat
  BY SlotFacts
<1>1. Others(Owner) /\ Owner \in Threads
  BY DEF Push, Pop, BeginPush, WaitSlot, TrySlot, WriteBody, Publish, Advance, BeginPop,
         Lower, Look, Race, Restore, RestoreWon, TakeNewest, TakeLast, ReadBody, LeaveSlot
<1>2. \A t \in Thieves : pc'[t] = pc[t]
  BY <1>1
<1>3. CASE BeginPush \/ WaitSlot \/ TrySlot \/ Publish \/ Advance
  BY <1>0, <1>2, <1>3 DEF BeginPush, WaitSlot, TrySlot, Publish, Advance, OwnerPc, PushPc,
    LoweredPc, LastPc
<1>4. CASE WriteBody
  BY <1>0, <1>2, <1>4 DEF WriteBody, OwnerPc, PushPc, Bodies
<1>5. CASE BeginPop
  <2>1. bottom - 1 \in Nat
    BY <1>5 DEF BeginPop
  <2>2. QED
    BY <1>2, <1>5, <2>1 DEF BeginPop, OwnerPc
<1>6. CASE Lower \/ Look \/ Race \/ Restore \/ RestoreWon
  BY <1>0, <1>2, <1>6 DEF Lower, Look, Race, Restore, RestoreWon, OwnerPc, LoweredPc, LastPc
<1>7. CASE TakeNewest \/ TakeLast
  <2>1. CASE ReadBody(Owner, "take", "unpublish") \/ ReadBody(Owner, "takeLast", "release")
    <3>1. data[Slot(pos[Owner])] \in Bodies
      BY <2>1 DEF ReadBody, Full, HoldsBody, At
    <3>2. QED
      BY <1>0, <1>2, <2>1, <3>1 DEF ReadBody, OwnerPc, LoweredPc, LastPc
  <2>2. CASE LeaveSlot(Owner, "unpublish", pos[Owner]) \/ LeaveSlot(Owner, "release", pos[Owner] + Capacity)
    BY <1>0, <1>2, <2>2 DEF LeaveSlot, OwnerPc
  <2>3. QED
    BY <1>7, <2>1, <2>2 DEF TakeNewest, TakeLast
<1>8. QED
  BY <1>1, <1>3, <1>4, <1>5, <1>6, <1>7 DEF Push, Pop

LEMMA ThiefMoves ==
  ASSUME IInv, NEW t \in Thieves, Steal(t)
  PROVE  Others(t) /\ t \in Threads /\ t # Owner /\ Typed'
<1> USE KhlAssumption DEF IInv, Typed, TypeOK, Others, Threads, Goto, Work, Return, OwnerAt
<1>0. /\ \A p \in Threads : Slot(pos[p]) \in Slots
      /\ pos[t] \in Nat
  BY SlotFacts
<1>1. Others(t) /\ t \in Threads /\ t # Owner
  BY DEF Steal, LoadHead, LoadBottom, ClaimHead, WaitBody, TakeOldest, ReadBody, LeaveSlot
<1>2. pc'[Owner] = pc[Owner] /\ \A u \in Thieves : u # t => pc'[u] = pc[u]
  BY <1>1
<1>3. CASE LoadHead(t) \/ LoadBottom(t) \/ ClaimHead(t) \/ WaitBody(t)
  BY <1>0, <1>1, <1>2, <1>3 DEF LoadHead, LoadBottom, ClaimHead, WaitBody, ThiefPc
<1>4. CASE ReadBody(t, "read", "release")
  <2>1. data[Slot(pos[t])] \in Bodies
    BY <1>4 DEF ReadBody, Full, HoldsBody, At
  <2>2. QED
    BY <1>0, <1>1, <1>2, <1>4, <2>1 DEF ReadBody, ThiefPc
<1>5. CASE LeaveSlot(t, "release", pos[t] + Capacity)
  BY <1>0, <1>1, <1>2, <1>5 DEF LeaveSlot, ThiefPc
<1>6. QED
  BY <1>1, <1>3, <1>4, <1>5 DEF Steal, TakeOldest

-----------------------------------------------------------------------------
(* Each step keeps the invariant.                                          *)

(* The owner moves along a push or a pop, and `bottom` with it; the slots  *)
(* and `head` stay as they are.                                            *)
OwnerWalks == BeginPush \/ WaitSlot \/ TrySlot \/ Advance \/ BeginPop \/ Lower \/ Look
              \/ Restore \/ RestoreWon

Walk(l, m, i, b) == pc[Owner] = l /\ pc'[Owner] = m /\ pos'[Owner] = i /\ bottom' = b

LEMMA OwnerWalksAt ==
  ASSUME IInv, OwnerWalks
  PROVE  LET i == pos[Owner] IN
         \/ Walk("idle", "waitSlot", bottom, bottom) \/ Walk("idle", "trySlot", bottom, bottom)
         \/ Walk("waitSlot", "write", i, bottom) /\ seq[At(Owner)] = i
         \/ Walk("trySlot", "write", i, bottom) /\ seq[At(Owner)] = i
         \/ Walk("trySlot", "idle", 0, bottom)
         \/ Walk("advance", "idle", 0, i + 1)
         \/ Walk("idle", "lower", bottom - 1, bottom) /\ head <= bottom - 1
         \/ Walk("lower", "look", i, i)
         \/ Walk("look", "restore", i, bottom) /\ head > i
         \/ Walk("look", "race", i, bottom) /\ head = i
         \/ Walk("look", "take", i, bottom) /\ head < i
         \/ Walk("restore", "idle", 0, i + 1)
         \/ Walk("won", "takeLast", i, i + 1)
<1> USE KhlAssumption DEF IInv, Typed, TypeOK, Threads, Goto, Work, Return, Walk, At
<1>0. pos[Owner] \in Nat /\ head \in Nat
  OBVIOUS
<1>1. CASE BeginPush
  BY <1>1 DEF BeginPush
<1>2. CASE WaitSlot \/ TrySlot \/ Advance
  BY <1>2 DEF WaitSlot, TrySlot, Advance
<1>3. CASE BeginPop
  BY <1>3 DEF BeginPop
<1>4. CASE Lower \/ Restore \/ RestoreWon
  BY <1>4 DEF Lower, Restore, RestoreWon
<1>5. CASE Look
  BY <1>0, <1>5 DEF Look
<1>6. QED
  BY <1>1, <1>2, <1>3, <1>4, <1>5 DEF OwnerWalks

LEMMA TopIsNat == ASSUME bottom \in Nat, bottom' \in Nat PROVE Top \in Nat /\ Top' \in Nat
<1>1. \A n \in Nat : n + 1 \in Nat
  OBVIOUS
<1>2. Top \in Nat
  BY <1>1, Zenon DEF Top
<1>3. Top' = IF pc'[Owner] \in {"look", "race"} THEN bottom' + 1 ELSE bottom'
  BY DEF Top
<1>4. QED
  BY <1>1, <1>2, <1>3, Zenon

LEMMA OwnerWalksInv == ASSUME IInv, OwnerWalks PROVE IInv'
<1> USE DEF IInv
<1>0. /\ Typed' /\ Others(Owner) /\ Owner \in Threads
      /\ head \in Nat /\ bottom \in Nat /\ bottom' \in Nat
      /\ pos \in [Threads -> Nat] /\ pos' \in [Threads -> Nat]
      /\ UNCHANGED <<head, seq, data, made, item>>
      /\ \A t \in Thieves : t \in Threads /\ t # Owner
  <2>1. Push \/ Pop
    BY DEF OwnerWalks, Push, Pop
  <2>2. UNCHANGED <<head, seq, data, made, item>>
    BY DEF OwnerWalks, BeginPush, WaitSlot, TrySlot, Advance, BeginPop, Lower, Look, Restore, RestoreWon
  <2>3. Typed' /\ Others(Owner) /\ Owner \in Threads
    BY <2>1, OwnerMoves
  <2>5. \A t \in Thieves : t \in Threads /\ t # Owner
    BY KhlAssumption DEF Threads
  <2>6. QED
    BY <2>2, <2>3, <2>5 DEF Typed, TypeOK
<1>n. pos[Owner] \in Nat
  BY <1>0
<1> DEFINE i0 == pos[Owner]
<1>e. Ends
  OBVIOUS
<1>w. \/ Walk("idle", "waitSlot", bottom, bottom) \/ Walk("idle", "trySlot", bottom, bottom)
      \/ Walk("waitSlot", "write", i0, bottom) /\ seq[At(Owner)] = i0
      \/ Walk("trySlot", "write", i0, bottom) /\ seq[At(Owner)] = i0
      \/ Walk("trySlot", "idle", 0, bottom)
      \/ Walk("advance", "idle", 0, i0 + 1)
      \/ Walk("idle", "lower", bottom - 1, bottom) /\ head <= bottom - 1
      \/ Walk("lower", "look", i0, i0)
      \/ Walk("look", "restore", i0, bottom) /\ head > i0
      \/ Walk("look", "race", i0, bottom) /\ head = i0
      \/ Walk("look", "take", i0, bottom) /\ head < i0
      \/ Walk("restore", "idle", 0, i0 + 1)
      \/ Walk("won", "takeLast", i0, i0 + 1)
  BY OwnerWalksAt
<1>t. /\ Top = IF pc[Owner] \in {"look", "race"} THEN bottom + 1 ELSE bottom
      /\ Top' = IF pc'[Owner] \in {"look", "race"} THEN bottom' + 1 ELSE bottom'
  BY DEF Top
<1>2. \/ Top' = Top
      \/ pc[Owner] = "advance" /\ Top = pos[Owner] /\ Top' = pos[Owner] + 1
      \/ pc[Owner] = "look" /\ head # Top - 1 /\ Top' = Top - 1
      \/ pc[Owner] \in {"restore", "won"} /\ Top' = head
  BY <1>0, <1>n, <1>e, <1>w, <1>t DEF Walk, Ends, OwnerAt, PushPc, LoweredPc
<1>1. Ends'
  <2>1. \A t \in Thieves : pc'[t] = pc[t] /\ pos'[t] = pos[t]
    BY <1>0 DEF Others
  <2>2. ASSUME NEW t \in Thieves, pc[t] = "claim", pos[t] = head PROVE pos[t] < Top'
    <3>1. pos[t] < Top
      BY <2>2 DEF Ends
    <3>2. Top \in Nat /\ Top' \in Nat
      BY <1>0, TopIsNat
    <3>4. pc[Owner] \in {"restore", "won"} => Top = bottom /\ head = bottom + 1
      BY <1>t DEF Ends, OwnerAt
    <3>3. QED
      BY <1>0, <1>2, <3>1, <3>2, <3>4, <2>2
  <2>3. /\ OwnerAt({"idle"} \cup PushPc \cup {"lower"})' => head' <= bottom'
        /\ OwnerAt(PushPc)' => pos'[Owner] = bottom'
        /\ OwnerAt({"lower"})' => pos'[Owner] = bottom' - 1 /\ 0 < bottom'
    BY <1>0, <1>n, <1>e, <1>w DEF Walk, Ends, OwnerAt, PushPc, LoweredPc
  <2>4. /\ OwnerAt(LoweredPc)' => pos'[Owner] = bottom'
        /\ OwnerAt({"look", "race"})' => head' <= bottom' + 1
        /\ OwnerAt({"race"})' => bottom' <= head'
        /\ OwnerAt({"restore", "won"})' => head' = bottom' + 1
    <3>1. /\ pc[Owner] = "look" => pos[Owner] = bottom /\ head <= bottom + 1
          /\ pc[Owner] = "lower" => pos[Owner] = bottom - 1 /\ head <= bottom
      BY <1>e DEF Ends, OwnerAt, LoweredPc
    <3>2. CASE Walk("lower", "look", i0, i0)
      BY <1>0, <3>1, <3>2 DEF Walk, LoweredPc, OwnerAt
    <3>3. CASE Walk("look", "restore", i0, bottom) /\ head > i0
      <4>1. head = bottom + 1 /\ head' = head /\ bottom' = bottom
        BY <1>0, <3>1, <3>3 DEF Walk
      <4>2. QED
        BY <1>0, <3>1, <3>3, <4>1 DEF Walk, OwnerAt
    <3>6. CASE Walk("look", "race", i0, bottom) /\ head = i0
      <4>1. head = bottom /\ head' = head /\ bottom' = bottom
        BY <1>0, <3>1, <3>6 DEF Walk
      <4>2. QED
        BY <1>0, <3>1, <3>6, <4>1 DEF Walk, OwnerAt
    <3>7. CASE Walk("look", "take", i0, bottom) /\ head < i0
      BY <1>0, <3>1, <3>7 DEF Walk, OwnerAt
    <3>4. CASE pc'[Owner] \notin LoweredPc
      BY <3>4 DEF LoweredPc, OwnerAt
    <3>5. QED
      BY <1>w, <3>2, <3>3, <3>6, <3>7, <3>4 DEF Walk, LoweredPc
  <2>5. /\ OwnerAt({"take", "unpublish"})' => head' <= bottom'
        /\ OwnerAt(LastPc)' => pos'[Owner] = bottom' - 1 /\ head' = bottom'
    BY <1>0, <1>n, <1>e, <1>w DEF Walk, Ends, OwnerAt, PushPc, LoweredPc, LastPc
  <2>6. \A t \in Thieves :
       /\ pc'[t] \in {"bottom", "claim"} => pos'[t] <= head'
       /\ pc'[t] = "claim" /\ pos'[t] = head' => pos'[t] < Top'
    BY <1>0, <2>1, <2>2 DEF Ends
  <2>7. QED
    BY <2>3, <2>4, <2>5, <2>6 DEF Ends
<1>3. ASSUME NEW p \in Threads, Claimed(p)'
      PROVE  Claimed(p) /\ pos'[p] = pos[p]
  BY <1>0, <1>w, <1>3 DEF Walk, Claimed, Others
<1>4. pc'[Owner] = "take" =>
        pos'[Owner] = pos[Owner] /\ head <= pos[Owner] /\ pos[Owner] < Top
  BY <1>0, <1>n, <1>e, <1>w, <1>t DEF Walk, Ends, OwnerAt, LoweredPc
<1>5. ASSUME NEW i \in Nat, head <= i, i < Top'
      PROVE  i < Top \/ (pc[Owner] = "advance" /\ i = pos[Owner])
  <2>1. Top \in Nat
    BY <1>0, <1>t
  <2>2. QED
    BY <1>0, <1>n, <1>2, <1>5, <2>1
<1>6. Published'
  <2>1. ASSUME NEW i \in Nat, head <= i, i < Top' PROVE seq[Slot(i)] = i + 1
    BY <1>0, <1>5, <2>1 DEF Published, At, OwnerAt
  <2>2. ASSUME NEW p \in Threads, Claimed(p)' PROVE seq[Slot(pos'[p])] = pos'[p] + 1
    BY <1>3, <2>2 DEF Published, At
  <2>3. pc'[Owner] \in {"write", "publish"} => seq[Slot(pos'[Owner])] = pos'[Owner]
    BY <1>w DEF Walk, At
  <2>4. pc'[Owner] \in {"advance", "take", "unpublish"} => seq[Slot(pos'[Owner])] = pos'[Owner] + 1
    <3>1. pc'[Owner] = "take" => seq[Slot(pos'[Owner])] = pos'[Owner] + 1
      BY <1>0, <1>4 DEF Published, At
    <3>2. pc'[Owner] \notin {"advance", "unpublish"}
      BY <1>w DEF Walk
    <3>3. QED
      BY <3>1, <3>2
  <2>5. QED
    BY <1>0, <2>1, <2>2, <2>3, <2>4 DEF Published, At, OwnerAt, Slot
<1>7. Claims'
  BY <1>0, <1>3 DEF Claims
<1>8. Full'
  <2>1. ASSUME NEW i \in Nat, head <= i, i < Top' PROVE data[Slot(i)] \in Bodies
    BY <1>0, <1>5, <2>1 DEF Full, HoldsBody, At
  <2>2. ASSUME NEW p \in Threads, HoldsBody(p)' PROVE data[Slot(pos'[p])] \in Bodies
    <3>1. CASE p = Owner
      <4>1. pc'[Owner] = "take" \/ (pc'[Owner] = "takeLast" /\ pc[Owner] = "won" /\ pos'[Owner] = pos[Owner])
        BY <1>w, <2>2, <3>1 DEF Walk, HoldsBody
      <4>2. QED
        BY <1>0, <1>4, <3>1, <4>1 DEF Full, HoldsBody, At
    <3>2. CASE p # Owner
      BY <1>0, <2>2, <3>2 DEF Full, HoldsBody, At, Others
    <3>3. QED
      BY <3>1, <3>2
  <2>3. QED
    BY <1>0, <2>1, <2>2 DEF Full, At, Slot
<1>9. Hands'
  <2>1. pc[Owner] \notin {"unpublish", "release"} /\ pc'[Owner] \notin {"unpublish", "release"}
    BY <1>w DEF Walk
  <2>2. QED
    BY <1>0, <2>1 DEF Hands, Others
<1>10. QED
  BY <1>0, <1>1, <1>6, <1>7, <1>8, <1>9

(* A body is written or read, or a slot's number is set: every other index *)
(* in the deque, and every other thread, has a slot of its own.            *)
LEMMA Apart ==
  ASSUME IInv, NEW p \in Threads, Works(p)
  PROVE  /\ \A i \in Nat : head <= i /\ i < Top => Slot(i) # At(p) /\ Slot(i) \in Slots
         /\ \A q \in Threads : q # p /\ Works(q) => At(q) # At(p)
         /\ \A q \in Threads : HoldsBody(q) \/ Claimed(q) => Works(q)
         /\ At(p) \in Slots
<1>1. \A i \in Nat : head <= i /\ i < Top => Slot(i) # At(p) /\ Slot(i) \in Slots
  BY Outside, SlotFacts
<1>2. \A q \in Threads : q # p /\ Works(q) => At(q) # At(p)
  BY Exclusive
<1>3. \A q \in Threads : HoldsBody(q) \/ Claimed(q) => Works(q)
  BY KhlAssumption DEF IInv, Typed, HoldsBody, Works, Claimed, Threads, OwnerAt, OwnerPc, PushPc, LoweredPc, LastPc
<1>4. At(p) \in Slots
  BY SlotFacts DEF At, IInv, Typed
<1>5. QED
  BY <1>1, <1>2, <1>3, <1>4

LEMMA WriteBodyInv == ASSUME IInv, WriteBody PROVE IInv'
<1> USE DEF IInv
<1>0. /\ Typed' /\ Others(Owner) /\ Owner \in Threads
      /\ pc[Owner] = "write" /\ pc'[Owner] = "publish" /\ pos' = pos
      /\ UNCHANGED <<head, bottom, seq, item>>
      /\ data' = [data EXCEPT ![At(Owner)] = made] /\ made \in Bodies
      /\ \A t \in Thieves : t \in Threads /\ t # Owner
  <2>1. Push \/ Pop
    BY DEF Push
  <2>2. made \in Bodies
    BY KhlAssumption DEF WriteBody, Typed, TypeOK, OwnerAt, Bodies
  <2>3. pc \in [Threads -> OwnerPc \cup ThiefPc]
    BY DEF Typed, TypeOK, Threads
  <2>4. QED
    BY KhlAssumption, <2>1, <2>2, <2>3, OwnerMoves DEF WriteBody, Goto, At, Threads
<1>1. Top' = Top
  BY <1>0 DEF Top
<1>2. Works(Owner)
  BY <1>0 DEF Works, OwnerAt
<1>3. Ends'
  BY <1>0, <1>1 DEF Ends, OwnerAt, PushPc, LoweredPc, LastPc, Others
<1>4. \A p \in Threads : Claimed(p)' => Claimed(p)
  BY <1>0 DEF Claimed, Others
<1>5. Published'
  BY <1>0, <1>1, <1>4 DEF Published, OwnerAt, At, Slot
<1>6. Claims'
  BY <1>0, <1>4 DEF Claims
<1>7. Full'
  <2>0. data \in [Slots -> Bodies \cup {Uninit}]
    BY DEF Typed, TypeOK
  <2>1. ASSUME NEW i \in Nat, head <= i, i < Top PROVE data'[Slot(i)] \in Bodies
    <3>1. Slot(i) # At(Owner) /\ Slot(i) \in Slots /\ data[Slot(i)] \in Bodies
      BY <1>0, <1>2, <2>1, Apart DEF Full
    <3>2. QED
      BY <1>0, <2>0, <3>1
  <2>2. ASSUME NEW p \in Threads, HoldsBody(p)' PROVE data'[At(p)] \in Bodies
    <3>1. CASE p = Owner
      BY <1>0, <1>2, <2>0, <3>1, Apart
    <3>2. CASE p # Owner
      <4>1. HoldsBody(p)
        BY <1>0, <2>2, <3>2 DEF HoldsBody, Others
      <4>2. At(p) # At(Owner) /\ At(p) \in Slots /\ data[At(p)] \in Bodies
        BY <1>0, <1>2, <3>2, <4>1, Apart DEF Full
      <4>3. QED
        BY <1>0, <2>0, <4>2
    <3>3. QED
      BY <3>1, <3>2
  <2>3. QED
    BY <1>0, <1>1, <2>1, <2>2 DEF Full, At, Slot
<1>8. Hands'
  BY <1>0 DEF Hands, Others
<1>9. QED
  BY <1>0, <1>3, <1>5, <1>6, <1>7, <1>8

LEMMA PublishInv == ASSUME IInv, Publish PROVE IInv'
<1> USE DEF IInv
<1>0. /\ Typed' /\ Others(Owner) /\ Owner \in Threads
      /\ pc[Owner] = "publish" /\ pc'[Owner] = "advance" /\ pos' = pos
      /\ UNCHANGED <<head, bottom, data, item>>
      /\ seq' = [seq EXCEPT ![At(Owner)] = pos[Owner] + 1]
      /\ \A t \in Thieves : t \in Threads /\ t # Owner
  <2>1. Push \/ Pop
    BY DEF Push
  <2>3. pc \in [Threads -> OwnerPc \cup ThiefPc]
    BY DEF Typed, TypeOK, Threads
  <2>4. QED
    BY KhlAssumption, <2>1, <2>3, OwnerMoves DEF Publish, Goto, At, Threads
<1>1. Top' = Top
  BY <1>0 DEF Top
<1>2. Works(Owner)
  BY <1>0 DEF Works, OwnerAt
<1>3. Ends'
  BY <1>0, <1>1 DEF Ends, OwnerAt, PushPc, LoweredPc, LastPc, Others
<1>4. \A p \in Threads : Claimed(p)' => Claimed(p) /\ p # Owner
  BY <1>0 DEF Claimed, Others
<1>5. Published'
  <2>0. seq \in [Slots -> Nat]
    BY DEF Typed, TypeOK
  <2>1. ASSUME NEW i \in Nat, head <= i, i < Top PROVE seq'[Slot(i)] = i + 1
    <3>1. Slot(i) # At(Owner) /\ Slot(i) \in Slots /\ seq[Slot(i)] = i + 1
      BY <1>0, <1>2, <2>1, Apart DEF Published
    <3>2. QED
      BY <1>0, <2>0, <3>1
  <2>2. ASSUME NEW p \in Threads, Claimed(p)' PROVE seq'[At(p)] = pos[p] + 1
    <3>1. At(p) # At(Owner) /\ At(p) \in Slots /\ seq[At(p)] = pos[p] + 1
      BY <1>0, <1>2, <1>4, <2>2, Apart DEF Published
    <3>2. QED
      BY <1>0, <2>0, <3>1
  <2>3. seq'[At(Owner)] = pos[Owner] + 1
    BY <1>0, <1>2, <2>0, Apart
  <2>4. QED
    BY <1>0, <1>1, <2>1, <2>2, <2>3 DEF Published, OwnerAt, At, Slot
<1>6. Claims'
  BY <1>0, <1>4 DEF Claims
<1>7. Full'
  BY <1>0, <1>1 DEF Full, HoldsBody, Others, At, Slot
<1>8. Hands'
  BY <1>0 DEF Hands, Others
<1>9. QED
  BY <1>0, <1>3, <1>5, <1>6, <1>7, <1>8

\* p is about to read the body of its slot and go to label `to`.
Reads(p, from, to) ==
  \/ p = Owner /\ <<from, to>> \in {<<"take", "unpublish">>, <<"takeLast", "release">>}
  \/ p \in Thieves /\ from = "read" /\ to = "release"

LEMMA ReadBodyInv ==
  ASSUME IInv, NEW p \in Threads, NEW from, NEW to, Reads(p, from, to), ReadBody(p, from, to),
         Typed', Others(p)
  PROVE  IInv'
<1> USE DEF IInv
<1>0. /\ pc[p] = from /\ pc'[p] = to /\ pos' = pos
      /\ UNCHANGED <<head, bottom, seq>>
      /\ data' = [data EXCEPT ![At(p)] = Uninit]
      /\ item'[p] = data[At(p)]
      /\ \A t \in Thieves : t \in Threads /\ t # Owner
      /\ Owner \in Threads
  BY KhlAssumption DEF ReadBody, Goto, At, Typed, TypeOK, Threads
<1>1. Top' = Top
  BY <1>0 DEF Top, Reads, Others
<1>2. Works(p) /\ HoldsBody(p)
  BY <1>0 DEF Works, Claimed, HoldsBody, OwnerAt, Reads
<1>3. Ends'
  <2>1. CASE p = Owner
    <3>1. \A t \in Thieves : pc'[t] = pc[t]
      BY <1>0, <2>1 DEF Others
    <3>2. CASE from = "take" /\ to = "unpublish"
      BY <1>0, <1>1, <2>1, <3>1, <3>2 DEF Ends, OwnerAt, PushPc, LoweredPc, LastPc
    <3>3. CASE from = "takeLast" /\ to = "release"
      BY <1>0, <1>1, <2>1, <3>1, <3>3 DEF Ends, OwnerAt, PushPc, LoweredPc, LastPc
    <3>4. QED
      BY <1>0, <2>1, <3>2, <3>3 DEF Reads
  <2>2. CASE p \in Thieves
    <3>1. pc'[Owner] = pc[Owner]
      BY <1>0, <2>2 DEF Others
    <3>2. from = "read" /\ to = "release"
      BY <1>0, <2>2 DEF Reads
    <3>3. \A t \in Thieves : pc'[t] \in {"bottom", "claim"} => pc'[t] = pc[t]
      BY <1>0, <3>2 DEF Others
    <3>4. QED
      BY <1>0, <1>1, <3>1, <3>3 DEF Ends, OwnerAt
  <2>3. QED
    BY <2>1, <2>2 DEF Threads
<1>4. \A q \in Threads : Claimed(q)' => Claimed(q)
  BY <1>0 DEF Claimed, Others, Reads
<1>5. Published'
  <2>1. OwnerAt({"write", "publish"})' => OwnerAt({"write", "publish"})
    BY <1>0 DEF OwnerAt, Others, Reads
  <2>2. OwnerAt({"advance", "take", "unpublish"})' => OwnerAt({"advance", "take", "unpublish"})
    BY <1>0 DEF OwnerAt, Others, Reads
  <2>3. QED
    BY <1>0, <1>1, <1>4, <2>1, <2>2 DEF Published, At, Slot
<1>6. Claims'
  BY <1>0, <1>4 DEF Claims
<1>7. Full'
  <2>0. data \in [Slots -> Bodies \cup {Uninit}]
    BY DEF Typed, TypeOK
  <2>1. ASSUME NEW i \in Nat, head <= i, i < Top PROVE data'[Slot(i)] \in Bodies
    <3>1. Slot(i) # At(p) /\ Slot(i) \in Slots /\ data[Slot(i)] \in Bodies
      BY <1>0, <1>2, <2>1, Apart DEF Full
    <3>2. QED
      BY <1>0, <2>0, <3>1
  <2>2. ASSUME NEW q \in Threads, HoldsBody(q)' PROVE data'[At(q)] \in Bodies
    <3>1. q # p
      BY <1>0, <2>2 DEF HoldsBody, Reads
    <3>2. HoldsBody(q)
      BY <1>0, <2>2, <3>1 DEF HoldsBody, Others
    <3>3. At(q) # At(p) /\ At(q) \in Slots /\ data[At(q)] \in Bodies
      BY <1>0, <1>2, <3>1, <3>2, Apart DEF Full
    <3>4. QED
      BY <1>0, <2>0, <3>3
  <2>3. QED
    BY <1>0, <1>1, <2>1, <2>2 DEF Full, At, Slot
<1>8. Hands'
  <2>1. item'[p] \in Bodies
    BY <1>0, <1>2 DEF Full
  <2>2. QED
    BY <1>0, <2>1 DEF Hands, Others, Reads
<1>9. QED
  BY <1>3, <1>5, <1>6, <1>7, <1>8

\* p is about to give its slot up with the number n.
Leaves(p, from, n) ==
  \/ p = Owner /\ from = "unpublish" /\ n = pos[p]
  \/ from = "release" /\ n = pos[p] + Capacity

LEMMA LeaveSlotInv ==
  ASSUME IInv, NEW p \in Threads, NEW from, NEW n, Leaves(p, from, n), LeaveSlot(p, from, n),
         Typed', Others(p)
  PROVE  IInv'
<1> USE DEF IInv
<1>0. /\ pc[p] = from /\ pc'[p] = "idle" /\ pos'[p] = 0
      /\ UNCHANGED <<head, bottom, data>>
      /\ seq' = [seq EXCEPT ![At(p)] = n]
      /\ item'[p] = None
      /\ \A t \in Thieves : t \in Threads /\ t # Owner
      /\ Owner \in Threads
  BY KhlAssumption DEF LeaveSlot, Goto, Work, Return, At, Typed, TypeOK, Threads
<1>1. Top' = Top
  BY <1>0 DEF Top, Leaves, Others
<1>2. Works(p)
  BY <1>0 DEF Works, Claimed, OwnerAt, Leaves, Threads
<1>3. Ends'
  <2>1. CASE p = Owner
    <3>1. \A t \in Thieves : pc'[t] = pc[t] /\ pos'[t] = pos[t]
      BY <1>0, <2>1 DEF Others
    <3>2. head <= bottom
      BY <1>0, <2>1 DEF Ends, OwnerAt, LastPc, Typed, TypeOK, Leaves
    <3>4. QED
      BY <1>0, <1>1, <2>1, <3>1, <3>2 DEF Ends, OwnerAt, PushPc, LoweredPc, LastPc
  <2>2. CASE p \in Thieves
    <3>1. pc'[Owner] = pc[Owner] /\ pos'[Owner] = pos[Owner]
      BY <1>0, <2>2 DEF Others
    <3>3. \A t \in Thieves : pc'[t] \in {"bottom", "claim"} => pc'[t] = pc[t] /\ pos'[t] = pos[t]
      BY <1>0 DEF Others
    <3>4. QED
      BY <1>0, <1>1, <3>1, <3>3 DEF Ends, OwnerAt
  <2>3. QED
    BY <2>1, <2>2 DEF Threads
<1>4. \A q \in Threads : Claimed(q)' => Claimed(q) /\ q # p /\ pos'[q] = pos[q]
  BY <1>0 DEF Claimed, Others
<1>5. Published'
  <2>0. seq \in [Slots -> Nat]
    BY DEF Typed, TypeOK
  <2>1. ASSUME NEW i \in Nat, head <= i, i < Top PROVE seq'[Slot(i)] = i + 1
    <3>1. Slot(i) # At(p) /\ Slot(i) \in Slots /\ seq[Slot(i)] = i + 1
      BY <1>0, <1>2, <2>1, Apart DEF Published
    <3>2. QED
      BY <1>0, <2>0, <3>1
  <2>2. ASSUME NEW q \in Threads, Claimed(q)' PROVE seq'[Slot(pos'[q])] = pos'[q] + 1
    <3>1. At(q) # At(p) /\ At(q) \in Slots /\ seq[At(q)] = pos[q] + 1
      BY <1>0, <1>2, <1>4, <2>2, Apart DEF Published
    <3>2. QED
      BY <1>0, <1>4, <2>0, <2>2, <3>1 DEF At
  <2>3. ASSUME OwnerAt({"write", "publish", "advance", "take", "unpublish"})'
        PROVE  pc'[Owner] = pc[Owner] /\ pos'[Owner] = pos[Owner] /\ seq'[At(Owner)] = seq[At(Owner)]
    <3>1. p # Owner /\ pc'[Owner] = pc[Owner] /\ pos'[Owner] = pos[Owner]
      BY <1>0, <2>3 DEF OwnerAt, Others
    <3>2. Works(Owner)
      BY <2>3, <3>1 DEF Works, OwnerAt
    <3>3. At(Owner) # At(p) /\ At(Owner) \in Slots
      BY <1>0, <1>2, <3>1, <3>2, Apart
    <3>4. QED
      BY <1>0, <2>0, <3>1, <3>3
  <2>4. OwnerAt({"write", "publish"})' => seq'[Slot(pos'[Owner])] = pos'[Owner]
    BY <2>3 DEF OwnerAt, Published, At
  <2>5. OwnerAt({"advance", "take", "unpublish"})' => seq'[Slot(pos'[Owner])] = pos'[Owner] + 1
    BY <2>3 DEF OwnerAt, Published, At
  <2>6. QED
    BY <1>0, <1>1, <2>1, <2>2, <2>4, <2>5 DEF Published, At, Slot
<1>6. Claims'
  BY <1>0, <1>4 DEF Claims
<1>7. Full'
  <2>1. \A q \in Threads : HoldsBody(q)' => HoldsBody(q) /\ q # p /\ pos'[q] = pos[q]
    BY <1>0 DEF HoldsBody, Others
  <2>2. QED
    BY <1>0, <1>1, <2>1 DEF Full, At, Slot
<1>8. Hands'
  BY <1>0 DEF Hands, Others
<1>9. QED
  BY <1>3, <1>5, <1>6, <1>7, <1>8

(* An index is won at `head`: by the owner's race for the last body, or by *)
(* a thief.                                                                *)
Wins(p) ==
  /\ \/ p = Owner /\ pc[p] = "race" /\ pc'[p] = "won"
     \/ p \in Thieves /\ pc[p] = "claim" /\ pc'[p] = "wait"
  /\ pos[p] = head /\ head' = head + 1 /\ pos' = pos
  /\ UNCHANGED <<bottom, seq, data, made, item>>

LEMMA WinsInv ==
  ASSUME IInv, NEW p \in Threads, Wins(p), Typed', Others(p)
  PROVE  IInv'
<1> USE DEF IInv
<1>0. /\ pos[p] = head /\ head' = head + 1 /\ pos' = pos
      /\ UNCHANGED <<bottom, seq, data, made, item>>
      /\ \A t \in Thieves : t \in Threads /\ t # Owner
      /\ Owner \in Threads
      /\ head \in Nat /\ bottom \in Nat /\ pos \in [Threads -> Nat]
  BY KhlAssumption DEF Wins, Typed, TypeOK, Threads
<1>1. head < Top
  <2>1. CASE p = Owner
    BY <1>0, <2>1 DEF Wins, Ends, OwnerAt, LoweredPc, Top
  <2>2. CASE p # Owner
    BY <1>0, <2>2 DEF Wins, Ends
  <2>3. QED
    BY <2>1, <2>2
<1>2. Top' = (IF p = Owner THEN Top - 1 ELSE Top) /\ Top \in Nat
  BY <1>0 DEF Top, Others, Wins
<1>3. Ends'
  <2>1. \A t \in Thieves :
          /\ pc'[t] \in {"bottom", "claim"} => pos[t] <= head
          /\ ~(pc'[t] = "claim" /\ pos[t] = head + 1)
    <3>1. \A t \in Thieves : pc'[t] \in {"bottom", "claim"} => pc'[t] = pc[t]
      BY <1>0 DEF Others, Wins
    <3>2. \A t \in Thieves : pos[t] \in Nat
      BY <1>0
    <3>3. QED
      BY <1>0, <3>1, <3>2 DEF Ends
  <2>2. \A t \in Thieves : pos[t] \in Nat
    BY <1>0
  <2>3. CASE p = Owner
    <3>1. pc[Owner] = "race" /\ pc'[Owner] = "won" /\ head = bottom
      BY <1>0, <2>3 DEF Wins, Ends, OwnerAt, LoweredPc
    <3>2. QED
      BY <1>0, <2>1, <2>2, <2>3, <3>1 DEF Ends, OwnerAt, PushPc, LoweredPc, LastPc
  <2>4. CASE p # Owner
    <3>1. pc'[Owner] = pc[Owner] /\ pc[Owner] \in OwnerPc
      BY <1>0, <2>4 DEF Others, Typed
    <3>2. /\ OwnerAt({"idle"} \cup PushPc \cup {"lower"}) => head + 1 <= bottom
          /\ OwnerAt({"take", "unpublish"}) => head + 1 <= bottom
          /\ ~OwnerAt({"restore", "won"}) /\ ~OwnerAt(LastPc)
      BY <1>0, <1>1 DEF Top, Ends, OwnerAt, PushPc, LastPc
    <3>3. /\ OwnerAt({"look", "race"}) => head + 1 <= bottom + 1
          /\ OwnerAt({"race"}) => bottom <= head + 1
      BY <1>0, <1>1 DEF Top, Ends, OwnerAt
    <3>4. /\ OwnerAt(PushPc) => pos[Owner] = bottom
          /\ OwnerAt({"lower"}) => pos[Owner] = bottom - 1 /\ 0 < bottom
          /\ OwnerAt(LoweredPc) => pos[Owner] = bottom
      BY DEF Ends
    <3>5. QED
      BY <1>0, <2>1, <2>2, <3>1, <3>2, <3>3, <3>4 DEF Ends, OwnerAt
  <2>5. QED
    BY <2>3, <2>4
<1>4. \A q \in Threads : Claimed(q)' => Claimed(q) \/ q = p
  BY <1>0 DEF Claimed, Others, Wins
<1>5. ASSUME NEW i \in Nat, head' <= i, i < Top' PROVE head <= i /\ i < Top
  BY <1>0, <1>2, <1>5
<1>6. Published'
  <2>1. seq[At(p)] = pos[p] + 1
    BY <1>0, <1>1 DEF Published, At
  <2>2. ASSUME NEW q \in Threads, Claimed(q)' PROVE seq[At(q)] = pos[q] + 1
    BY <1>4, <2>1, <2>2 DEF Published
  <2>3. ASSUME NEW i \in Nat, head' <= i, i < Top' PROVE seq[Slot(i)] = i + 1
    BY <1>5, <2>3 DEF Published
  <2>4. OwnerAt({"write", "publish"})' => OwnerAt({"write", "publish"})
    BY <1>0 DEF OwnerAt, Others, Wins
  <2>5. OwnerAt({"advance", "take", "unpublish"})' => OwnerAt({"advance", "take", "unpublish"})
    BY <1>0 DEF OwnerAt, Others, Wins
  <2>6. QED
    BY <1>0, <2>2, <2>3, <2>4, <2>5 DEF Published, At, Slot
<1>7. Claims'
  <2>1. \A q \in Threads : pos[q] \in Nat
    BY <1>0
  <2>2. ~Claimed(p) /\ \A q \in Threads : Claimed(q) => pos[q] < head
    BY KhlAssumption DEF Claimed, Wins, Claims
  <2>3. QED
    BY <1>0, <1>4, <2>1, <2>2 DEF Claims
<1>8. Full'
  <2>1. data[At(p)] \in Bodies
    BY <1>0, <1>1 DEF Full, At
  <2>2. \A q \in Threads : HoldsBody(q)' => HoldsBody(q) \/ q = p
    BY <1>0 DEF HoldsBody, Others, Wins
  <2>3. QED
    BY <1>0, <1>5, <2>1, <2>2 DEF Full, At, Slot
<1>9. Hands'
  BY <1>0 DEF Hands, Others, Wins
<1>10. QED
  BY <1>3, <1>6, <1>7, <1>8, <1>9

LEMMA RaceInv == ASSUME IInv, Race PROVE IInv'
<1> USE DEF IInv
<1>0. Typed' /\ Others(Owner) /\ Owner \in Threads
  BY OwnerMoves DEF Pop
<1>1. CASE head = pos[Owner]
  <2>1. Wins(Owner)
    BY <1>0, <1>1 DEF Race, Wins, Goto, Typed, TypeOK
  <2>2. QED
    BY <1>0, <2>1, WinsInv
<1>2. CASE head # pos[Owner]
  <2>0. /\ pc[Owner] = "race" /\ pc'[Owner] = "restore"
        /\ UNCHANGED <<head, bottom, seq, data, made, pos, item>>
        /\ \A t \in Thieves : t \in Threads /\ t # Owner /\ pc'[t] = pc[t]
    BY KhlAssumption, <1>0, <1>2 DEF Race, Goto, Typed, TypeOK, Threads, Others
  <2>1. pos[Owner] = bottom /\ head = bottom + 1 /\ Top = bottom + 1 /\ Top' = bottom
    BY <1>2, <2>0 DEF Ends, OwnerAt, LoweredPc, Top, Typed, TypeOK
  <2>2. Ends'
    BY <1>0, <2>0, <2>1 DEF Ends, OwnerAt, PushPc, LoweredPc, LastPc, Typed, TypeOK
  <2>3. Published' /\ Claims' /\ Full' /\ Hands'
    <3>1. \A q \in Threads : Claimed(q)' => Claimed(q)
      BY <1>0, <2>0 DEF Claimed, Others
    <3>2. \A q \in Threads : HoldsBody(q)' => HoldsBody(q)
      BY <1>0, <2>0 DEF HoldsBody, Others
    <3>3. \A i \in Nat : ~(head' <= i /\ i < Top')
      BY <2>0, <2>1 DEF Typed, TypeOK
    <3>4. Published' /\ Full'
      BY <2>0, <3>1, <3>2, <3>3 DEF Published, Full, OwnerAt, At, Slot
    <3>5. QED
      BY <1>0, <2>0, <3>1, <3>4 DEF Claims, Hands, Others
  <2>4. QED
    BY <1>0, <2>2, <2>3
<1>3. QED
  BY <1>1, <1>2

(* A thief looks, and goes from its claim to its read.                     *)
LEMMA ThiefWalksInv ==
  ASSUME IInv, NEW t \in Thieves,
         LoadHead(t) \/ LoadBottom(t) \/ (ClaimHead(t) /\ head # pos[t]) \/ WaitBody(t)
  PROVE  IInv'
<1> USE DEF IInv
<1>0. Typed' /\ Others(t) /\ t \in Threads /\ t # Owner /\ Owner \in Threads
  BY ThiefMoves DEF Steal, Threads
<1>1. /\ UNCHANGED <<head, bottom, seq, data, made, item>>
      /\ pos \in [Threads -> Nat] /\ head \in Nat /\ bottom \in Nat
      /\ pc'[Owner] = pc[Owner] /\ pos'[Owner] = pos[Owner]
      /\ \A u \in Thieves : u # t => pc'[u] = pc[u] /\ pos'[u] = pos[u]
  BY <1>0 DEF LoadHead, LoadBottom, ClaimHead, WaitBody, Typed, TypeOK, Others, Threads
<1>2. \/ pc'[t] = "idle" /\ pc[t] \in {"bottom", "claim"}
      \/ pc'[t] = "bottom" /\ pos'[t] = head /\ pc[t] = "idle"
      \/ pc[t] = "bottom" /\ pc'[t] = "claim" /\ pos'[t] = pos[t] /\ pos[t] < bottom
      \/ pc[t] = "wait" /\ pc'[t] = "read" /\ pos'[t] = pos[t]
  BY <1>0 DEF LoadHead, LoadBottom, ClaimHead, WaitBody, Goto, Work, Return, Typed, TypeOK
<1>3. Top' = Top /\ bottom <= Top
  BY <1>1 DEF Top
<1>4. Ends'
  <2>1. /\ pc'[t] \in {"bottom", "claim"} => pos'[t] <= head
        /\ pc'[t] = "claim" /\ pos'[t] = head => pos'[t] < Top
    BY <1>0, <1>1, <1>2, <1>3 DEF Ends, Top
  <2>2. QED
    BY <1>1, <1>3, <2>1 DEF Ends, OwnerAt
<1>5. \A q \in Threads : Claimed(q)' => Claimed(q) /\ pos'[q] = pos[q]
  BY <1>0, <1>1, <1>2 DEF Claimed, Threads
<1>6. \A q \in Threads : HoldsBody(q)' => HoldsBody(q) /\ pos'[q] = pos[q]
  BY <1>0, <1>1, <1>2 DEF HoldsBody, Threads
<1>7. Published' /\ Full'
  BY <1>1, <1>3, <1>5, <1>6 DEF Published, Full, OwnerAt, At, Slot
<1>8. Claims'
  BY <1>1, <1>5 DEF Claims
<1>9. Hands'
  BY <1>0, <1>1, <1>2 DEF Hands, Others
<1>10. QED
  BY <1>0, <1>4, <1>7, <1>8, <1>9

-----------------------------------------------------------------------------
LEMMA StepInv == ASSUME IInv, [Next]_vars PROVE IInv'
<1>1. CASE Push \/ Pop
  <2>1. Typed' /\ Others(Owner) /\ Owner \in Threads
    BY <1>1, OwnerMoves
  <2>2. CASE OwnerWalks
    BY <2>2, OwnerWalksInv
  <2>3. CASE TakeNewest
    <3>1. CASE ReadBody(Owner, "take", "unpublish")
      BY <2>1, <3>1, ReadBodyInv DEF Reads
    <3>2. CASE LeaveSlot(Owner, "unpublish", pos[Owner])
      BY <2>1, <3>2, LeaveSlotInv DEF Leaves
    <3>3. QED
      BY <2>3, <3>1, <3>2 DEF TakeNewest
  <2>4. CASE TakeLast
    <3>1. CASE ReadBody(Owner, "takeLast", "release")
      BY <2>1, <3>1, ReadBodyInv DEF Reads
    <3>2. CASE LeaveSlot(Owner, "release", pos[Owner] + Capacity)
      BY <2>1, <3>2, LeaveSlotInv DEF Leaves
    <3>3. QED
      BY <2>4, <3>1, <3>2 DEF TakeLast
  <2>5. QED
    BY <1>1, <2>2, <2>3, <2>4, WriteBodyInv, PublishInv, RaceInv DEF Push, Pop, OwnerWalks
<1>2. ASSUME NEW t \in Thieves, Steal(t) PROVE IInv'
  <2>1. Typed' /\ Others(t) /\ t \in Threads
    BY <1>2, ThiefMoves
  <2>2. CASE ClaimHead(t) /\ head = pos[t]
    <3>1. Wins(t)
      BY <2>1, <2>2 DEF ClaimHead, Wins, Goto, IInv, Typed, TypeOK
    <3>2. QED
      BY <2>1, <3>1, WinsInv
  <2>3. CASE TakeOldest(t)
    <3>1. CASE ReadBody(t, "read", "release")
      BY <2>1, <3>1, ReadBodyInv DEF Reads
    <3>2. CASE LeaveSlot(t, "release", pos[t] + Capacity)
      BY <2>1, <3>2, LeaveSlotInv DEF Leaves
    <3>3. QED
      BY <2>3, <3>1, <3>2 DEF TakeOldest
  <2>4. QED
    BY <1>2, <2>2, <2>3, ThiefWalksInv DEF Steal
<1>3. CASE UNCHANGED vars
  BY <1>3 DEF IInv, Typed, TypeOK, Ends, Published, Claims, Full, Hands, Claimed, HoldsBody,
    OwnerAt, At, Top, Slot, vars
<1>4. QED
  BY <1>1, <1>2, <1>3 DEF Next

LEMMA Invariance == Spec => []IInv
<1>1. Init => IInv
  BY InitInv
<1>2. IInv /\ [Next]_vars => IInv'
  BY StepInv
<1>3. QED
  BY <1>1, <1>2, PTL DEF Spec

(* A body is read only where there is one, by the owner and every thief,   *)
(* whatever their number and the deque's size.                             *)
THEOREM TypeCorrect == Spec => []TypeOK
<1>1. IInv => TypeOK
  BY DEF IInv, Typed
<1>2. QED
  BY <1>1, Invariance, PTL

(* One thread at a time has the use of a slot, whatever the laps.          *)
THEOREM SlotsExclusive == Spec => []SlotExclusive
<1>1. IInv => SlotExclusive
  <2>1. ASSUME IInv, NEW p \in Threads, InSlot(p) PROVE Works(p)
    BY KhlAssumption, <2>1 DEF InSlot, Works, Claimed, OwnerAt, Threads, IInv, Typed,
      OwnerPc, PushPc, LoweredPc, LastPc, ThiefPc
  <2>2. QED
    BY <2>1, Exclusive DEF SlotExclusive, At
<1>2. QED
  BY <1>1, Invariance, PTL

(* The body of an index a thief can claim is published: a steal that wins  *)
(* `head` never waits for the owner.                                       *)
THEOREM ClaimsArePublished == Spec => []ClaimIsPublished
<1>1. IInv => ClaimIsPublished
  BY DEF IInv, Published, ClaimIsPublished, Claimed, At, Threads
<1>2. QED
  BY <1>1, Invariance, PTL

-----------------------------------------------------------------------------
(* The abstract deque.                                                     *)

Deque  == [i \in 1 .. Top - head |-> data[Slot(head + i - 1)]]
Has(p) == IF Holding(p) THEN data[Slot(pos[p])] ELSE item[p]
Taken  == [p \in Threads |-> Has(p)]

(* A run of a function's values as a sequence, put to and taken from.      *)
Run(f, n, h) == [i \in 1 .. n |-> f[h + i - 1]]

LEMMA RunLen ==
  ASSUME NEW f, NEW n \in Nat, NEW h
  PROVE  Len(Run(f, n, h)) = n
  BY DEF Run

LEMMA RunIndex == \A n, h \in Nat : \A i \in 1 .. n : h + i - 1 \in Nat
  OBVIOUS

LEMMA RunPut ==
  ASSUME NEW S, NEW f \in [Nat -> S], NEW n \in Nat, NEW h \in Nat
  PROVE  Run(f, n + 1, h) = Append(Run(f, n, h), f[h + n])
<1> DEFINE q == Run(f, n, h)
           r == Run(f, n + 1, h)
<1>1. q \in Seq(S) /\ Len(q) = n /\ \A i \in 1 .. n : q[i] = f[h + i - 1]
  BY DEF Run
<1>2. r \in Seq(S) /\ Len(r) = n + 1 /\ \A i \in 1 .. n + 1 : r[i] = f[h + i - 1]
  BY DEF Run
<1>3. f[h + n] \in S /\ h + (n + 1) - 1 = h + n
  OBVIOUS
<1> HIDE DEF q, r
<1>4. /\ Append(q, f[h + n]) \in Seq(S) /\ Len(Append(q, f[h + n])) = n + 1
      /\ \A i \in 1 .. n + 1 : Append(q, f[h + n])[i] = f[h + i - 1]
  BY <1>1, <1>3
<1>5. r = Append(q, f[h + n])
  BY <1>2, <1>4, SeqEqual
<1>6. QED
  BY <1>5 DEF q, r

LEMMA SeqEnds ==
  ASSUME NEW S, NEW n \in Nat, NEW q \in Seq(S), Len(q) = n + 1
  PROVE  /\ q # <<>> /\ Head(q) = q[1]
         /\ Tail(q) \in Seq(S) /\ Len(Tail(q)) = n /\ \A i \in 1 .. n : Tail(q)[i] = q[i + 1]
         /\ SubSeq(q, 1, n) \in Seq(S) /\ Len(SubSeq(q, 1, n)) = n
         /\ \A i \in 1 .. n : SubSeq(q, 1, n)[i] = q[i]
<1>1. Len(q) # 0
  OBVIOUS
<1>2. q # <<>>
  BY <1>1
<1>3. Head(q) = q[1] /\ Len(q) - 1 = n
  BY <1>2
<1>4. Tail(q) \in Seq(S) /\ Len(Tail(q)) = n /\ \A i \in 1 .. n : Tail(q)[i] = q[i + 1]
  BY <1>2
<1>5. SubSeq(q, 1, n) \in Seq(S) /\ Len(SubSeq(q, 1, n)) = n
        /\ \A i \in 1 .. n : SubSeq(q, 1, n)[i] = q[i]
  OBVIOUS
<1>6. QED
  BY <1>2, <1>3, <1>4, <1>5

LEMMA RunTake ==
  ASSUME NEW S, NEW f \in [Nat -> S], NEW n \in Nat, NEW h \in Nat
  PROVE  /\ Run(f, n + 1, h) # <<>>
         /\ Head(Run(f, n + 1, h)) = f[h]
         /\ Run(f, n + 1, h)[n + 1] = f[h + n]
         /\ Tail(Run(f, n + 1, h)) = Run(f, n, h + 1)
         /\ SubSeq(Run(f, n + 1, h), 1, n) = Run(f, n, h)
<1> DEFINE q == Run(f, n + 1, h)
           r == Run(f, n, h + 1)
           s == Run(f, n, h)
<1>1. q \in Seq(S) /\ Len(q) = n + 1 /\ \A i \in 1 .. n + 1 : q[i] = f[h + i - 1]
  BY DEF Run
<1>2. r \in Seq(S) /\ Len(r) = n /\ \A i \in 1 .. n : r[i] = f[h + 1 + i - 1]
  BY DEF Run
<1>3. s \in Seq(S) /\ Len(s) = n /\ \A i \in 1 .. n : s[i] = f[h + i - 1]
  BY DEF Run
<1> HIDE DEF q, r, s
<1>4. q # <<>> /\ Head(q) = f[h] /\ q[n + 1] = f[h + n]
  <2>1. q # <<>> /\ Head(q) = q[1]
    BY <1>1, SeqEnds
  <2>2. q[1] = f[h + 1 - 1] /\ q[n + 1] = f[h + (n + 1) - 1]
    BY <1>1
  <2>3. h + 1 - 1 = h /\ h + (n + 1) - 1 = h + n
    OBVIOUS
  <2>4. QED
    BY <2>1, <2>2, <2>3
<1>5. Tail(q) = r
  <2>1. Tail(q) \in Seq(S) /\ Len(Tail(q)) = n /\ \A i \in 1 .. n : Tail(q)[i] = q[i + 1]
    BY <1>1, SeqEnds
  <2>2. ASSUME NEW i \in 1 .. n PROVE q[i + 1] = r[i]
    <3>1. i + 1 \in 1 .. n + 1 /\ h + (i + 1) - 1 = h + 1 + i - 1
      OBVIOUS
    <3>2. QED
      BY <1>1, <1>2, <3>1
  <2>3. QED
    BY <1>2, <2>1, <2>2, SeqEqual
<1>6. SubSeq(q, 1, n) = s
  <2>1. SubSeq(q, 1, n) \in Seq(S) /\ Len(SubSeq(q, 1, n)) = n
        /\ \A i \in 1 .. n : SubSeq(q, 1, n)[i] = q[i]
    BY <1>1, SeqEnds
  <2>2. QED
    BY <1>1, <1>3, <2>1, SeqEqual
<1>7. QED
  BY <1>4, <1>5, <1>6 DEF q, r, s

Body == [i \in Nat |-> data[Slot(i)]]

LEMMA BodyFacts ==
  ASSUME IInv
  PROVE  /\ Body \in [Nat -> Bodies \cup {Uninit}]
         /\ \A i \in Nat : Body[i] = data[Slot(i)]
         /\ head \in Nat /\ Top \in Nat
<1>1. \A i \in Nat : data[Slot(i)] \in Bodies \cup {Uninit}
  BY SlotFacts DEF IInv, Typed, TypeOK
<1>2. QED
  BY <1>1 DEF Body, Top, IInv, Typed, TypeOK

(* How the sequence follows the two counters.                             *)
LEMMA DequeIs ==
  ASSUME IInv, NEW n \in Nat, n = Top - head
  PROVE  Deque = Run(Body, n, head)
<1>1. \A i \in 1 .. n : head + i - 1 \in Nat
  BY BodyFacts
<1>2. \A i \in 1 .. n : Body[head + i - 1] = data[Slot(head + i - 1)]
  BY <1>1, BodyFacts
<1>3. QED
  BY <1>2 DEF Deque, Run

LEMMA DequeNext ==
  ASSUME IInv, data' = data, NEW n \in Nat, n = Top' - head', NEW h \in Nat, h = head'
  PROVE  Deque' = Run(Body, n, h)
<1>1. Deque' = [i \in 1 .. n |-> data[Slot(h + i - 1)]]
  BY DEF Deque, Slot
<1>2. \A i \in 1 .. n : h + i - 1 \in Nat
  BY RunIndex
<1>3. \A i \in 1 .. n : Body[h + i - 1] = data[Slot(h + i - 1)]
  BY <1>2, BodyFacts
<1>4. QED
  BY <1>1, <1>3 DEF Run

LEMMA DequePut ==
  ASSUME IInv, head <= Top, head' = head, data' = data, Top' = Top + 1
  PROVE  Deque' = Append(Deque, data[Slot(Top)]) /\ Len(Deque) = Top - head
<1> DEFINE n == Top - head
<1>1. n \in Nat /\ head + n = Top /\ head \in Nat /\ Top \in Nat /\ n + 1 = Top' - head'
  BY BodyFacts
<1> HIDE DEF n
<1>2. Deque = Run(Body, n, head)
  BY <1>1, DequeIs DEF n
<1>3. Deque' = Run(Body, n + 1, head)
  BY <1>1, DequeNext
<1>4. Deque' = Append(Deque, Body[head + n])
  BY <1>1, <1>2, <1>3, RunPut, BodyFacts
<1>5. Len(Deque) = n
  BY <1>1, <1>2, RunLen
<1>6. QED
  BY <1>1, <1>4, <1>5, BodyFacts DEF n

LEMMA DequeTake ==
  ASSUME IInv, head < Top, data' = data
  PROVE  /\ Deque # <<>> /\ Head(Deque) = data[Slot(head)]
         /\ Deque[Len(Deque)] = data[Slot(Top - 1)]
         /\ head' = head + 1 /\ Top' = Top => Deque' = Tail(Deque)
         /\ head' = head /\ Top' = Top - 1 => Deque' = SubSeq(Deque, 1, Len(Deque) - 1)
         /\ head' = head + 1 /\ Top' = head /\ Top = head + 1 =>
              Deque' = SubSeq(Deque, 1, Len(Deque) - 1)
<1> DEFINE n == Top - 1 - head
<1>1. n \in Nat /\ head + n = Top - 1 /\ head \in Nat /\ Top \in Nat /\ n + 1 = Top - head
  BY BodyFacts
<1>0. n = Top - 1 - head
  OBVIOUS
<1> HIDE DEF n
<1>2. Deque = Run(Body, n + 1, head)
  BY <1>1, DequeIs
<1>3. head' = head + 1 /\ Top' = Top => Deque' = Run(Body, n, head + 1)
  BY <1>0, <1>1, DequeNext
<1>4. head' = head /\ Top' = Top - 1 => Deque' = Run(Body, n, head)
  BY <1>0, <1>1, DequeNext
<1>5. ASSUME head' = head + 1, Top' = head, Top = head + 1
      PROVE  Deque' = Run(Body, n, head)
  <2>1. 1 .. Top' - head' = {} /\ 1 .. n = {}
    BY <1>0, <1>1, <1>5
  <2>2. Deque' = [i \in {} |-> data[Slot(head + 1 + i - 1)]]
    BY <1>5, <2>1 DEF Deque
  <2>3. [i \in {} |-> data[Slot(head + 1 + i - 1)]] = [i \in {} |-> Body[head + i - 1]]
    OBVIOUS
  <2>4. QED
    BY <2>1, <2>2, <2>3 DEF Run
<1>6. Body \in [Nat -> Bodies \cup {Uninit}] /\ n \in Nat /\ head \in Nat
  BY <1>1, BodyFacts
<1>7. /\ Deque # <<>> /\ Head(Deque) = Body[head] /\ Deque[n + 1] = Body[head + n]
      /\ Tail(Deque) = Run(Body, n, head + 1) /\ SubSeq(Deque, 1, n) = Run(Body, n, head)
  BY <1>2, <1>6, RunTake, Zenon
<1>8. Len(Deque) = n + 1 /\ (n + 1) - 1 = n
  BY <1>1, <1>2, RunLen
<1>9. Body[head] = data[Slot(head)] /\ Body[head + n] = data[Slot(Top - 1)]
  BY <1>1, BodyFacts
<1>10. QED
  BY <1>3, <1>4, <1>5, <1>7, <1>8, <1>9

LEMMA DequeSame ==
  ASSUME IInv, head' = head, Top' = Top \/ (Top <= head /\ Top' <= head), Top' \in Nat,
         \A i \in Nat : head <= i /\ i < Top => data'[Slot(i)] = data[Slot(i)]
  PROVE  Deque' = Deque
<1>0. head \in Nat /\ Top \in Nat
  BY BodyFacts
<1>1. CASE Top' = Top
  <2>1. \A i \in 1 .. Top - head : head + i - 1 \in Nat /\ head <= head + i - 1 /\ head + i - 1 < Top
    BY <1>0
  <2>2. \A i \in 1 .. Top - head : data'[Slot(head + i - 1)] = data[Slot(head + i - 1)]
    BY <2>1
  <2>3. Deque' = [i \in 1 .. Top - head |-> data'[Slot(head + i - 1)]]
    BY <1>1 DEF Deque, Slot
  <2>4. QED
    BY <2>2, <2>3 DEF Deque
<1>2. CASE Top <= head /\ Top' <= head
  <2>1. 1 .. Top - head = {} /\ 1 .. Top' - head' = {}
    BY <1>0, <1>2
  <2>2. Deque' = [i \in {} |-> data'[Slot(head' + i - 1)]]
    BY <2>1 DEF Deque, Slot
  <2>3. Deque = [i \in {} |-> data[Slot(head + i - 1)]]
    BY <2>1 DEF Deque
  <2>4. QED
    BY <2>2, <2>3
<1>3. QED
  BY <1>1, <1>2

-----------------------------------------------------------------------------
(* Each step is a step of the abstract deque, or leaves it as it is.       *)

\* What the threads have taken, but for p's, stays with them.
LEMMA OthersHave ==
  ASSUME IInv, NEW p \in Threads, Others(p), NEW q \in Threads, q # p,
         Holding(q) => data'[At(q)] = data[At(q)]
  PROVE  Has(q)' = Has(q)
  BY DEF Has, Holding, Others, At, Slot

LEMMA HoldingWorks == ASSUME IInv, NEW q \in Threads, Holding(q) PROVE HoldsBody(q) /\ Works(q)
  BY KhlAssumption DEF Holding, HoldsBody, Works, Claimed, IInv, Typed, Threads, ThiefPc,
    OwnerAt, OwnerPc, PushPc, LoweredPc, LastPc

LEMMA OthersKeep ==
  ASSUME IInv, NEW p \in Threads, Others(p),
         data' = data \/ (Works(p) /\ \E x : data' = [data EXCEPT ![At(p)] = x])
  PROVE  /\ \A q \in Threads : q # p => Has(q)' = Has(q)
         /\ Has(p)' = Has(p) => Taken' = Taken
         /\ \A i \in Nat : head <= i /\ i < Top => data'[Slot(i)] = data[Slot(i)]
<1>1. ASSUME NEW q \in Threads, q # p, Holding(q) PROVE data'[At(q)] = data[At(q)]
  <2>1. CASE data' = data
    BY <2>1
  <2>2. CASE Works(p) /\ \E x : data' = [data EXCEPT ![At(p)] = x]
    <3>1. At(q) # At(p)
      BY <1>1, <2>2, HoldingWorks, Exclusive
    <3>2. At(q) \in Slots /\ data \in [Slots -> Bodies \cup {Uninit}]
      BY SlotFacts DEF At, IInv, Typed, TypeOK
    <3>3. QED
      BY <2>2, <3>1, <3>2
  <2>3. QED
    BY <2>1, <2>2
<1>2. \A q \in Threads : q # p => Has(q)' = Has(q)
  BY <1>1, OthersHave
<1>3. Has(p)' = Has(p) => Taken' = Taken
  BY <1>2 DEF Taken
<1>4. ASSUME NEW i \in Nat, head <= i, i < Top PROVE data'[Slot(i)] = data[Slot(i)]
  <2>1. CASE data' = data
    BY <2>1
  <2>2. CASE Works(p) /\ \E x : data' = [data EXCEPT ![At(p)] = x]
    <3>1. Slot(i) # At(p) /\ Slot(i) \in Slots /\ data \in [Slots -> Bodies \cup {Uninit}]
      BY <1>4, <2>2, Apart DEF IInv, Typed, TypeOK
    <3>2. QED
      BY <2>2, <3>1
  <2>3. QED
    BY <2>1, <2>2
<1>5. QED
  BY <1>2, <1>3, <1>4

AStep == [Abstract!Next]_<<Deque, Taken>>

(* The owner advances `bottom` past its body: a push.                      *)
LEMMA AdvancePuts == ASSUME IInv, IInv', Advance PROVE AStep
<1> USE DEF IInv
<1>0. /\ Others(Owner) /\ Owner \in Threads
      /\ pc[Owner] = "advance" /\ pc'[Owner] = "idle" /\ pos[Owner] = bottom
      /\ head' = head /\ data' = data /\ item' = item
      /\ head \in Nat /\ bottom \in Nat /\ head <= bottom
      /\ Top = bottom /\ Top' = bottom + 1
  <2>1. Others(Owner) /\ Owner \in Threads
    BY OwnerMoves DEF Push
  <2>2. pc[Owner] = "advance" /\ pc'[Owner] = "idle"
    BY DEF Advance, Return, Goto, Typed, TypeOK
  <2>3. pos[Owner] = bottom /\ head <= bottom
    BY <2>2 DEF Ends, OwnerAt, PushPc
  <2>4. QED
    BY <2>1, <2>2, <2>3 DEF Advance, Typed, TypeOK, Top
<1>1. bottom < head + Capacity
  <2>1. SUFFICES ASSUME head + Capacity <= bottom PROVE FALSE
    BY <1>0, KhlAssumption
  <2>2. Capacity \in Nat /\ Capacity >= 2
    BY KhlAssumption
  <2> DEFINE i == bottom - Capacity
  <2>3. i \in Nat /\ head <= i /\ i < Top /\ i + Capacity = bottom
    BY <1>0, <2>1, <2>2
  <2> HIDE DEF i
  <2>4. seq[Slot(i)] = i + 1
    BY <2>3 DEF Published
  <2>5. Slot(i) = Slot(bottom)
    BY <2>3, SlotFacts
  <2>6. seq[Slot(bottom)] = bottom + 1
    BY <1>0 DEF Published, OwnerAt, At
  <2>7. QED
    BY <1>0, <2>2, <2>3, <2>4, <2>5, <2>6
<1>2. Deque' = Append(Deque, data[Slot(bottom)]) /\ Len(Deque) < Capacity
  <2>1. Deque' = Append(Deque, data[Slot(Top)]) /\ Len(Deque) = Top - head
    BY <1>0, DequePut
  <2>2. QED
    BY <1>0, <1>1, <2>1, KhlAssumption
<1>3. Taken' = Taken
  <2>1. Has(Owner)' = Has(Owner)
    BY <1>0 DEF Has, Holding
  <2>2. QED
    BY <1>0, <2>1, OthersKeep
<1>4. PICK b \in Bodies : b = data[Slot(bottom)]
  BY <1>0 DEF Full, HoldsBody, At
<1>5. Abstract!Put(b)
  BY <1>2, <1>3, <1>4 DEF Abstract!Put, Deque, Taken, Has
<1>6. QED
  BY <1>4, <1>5 DEF AStep, Abstract!Next

(* An undisputed pop takes the newest when it reads `head`.                *)
LEMMA LookTakes == ASSUME IInv, IInv', Look, pc'[Owner] = "take" PROVE AStep
<1> USE DEF IInv
<1>0. /\ Others(Owner) /\ Owner \in Threads
      /\ pc[Owner] = "look" /\ pos' = pos /\ pos[Owner] = bottom
      /\ head' = head /\ data' = data /\ item' = item
      /\ head \in Nat /\ bottom \in Nat /\ head < Top
      /\ Top = bottom + 1 /\ Top' = bottom
  <2>1. Others(Owner) /\ Owner \in Threads
    BY OwnerMoves DEF Pop
  <2>2. pc[Owner] = "look"
    BY DEF Look
  <2>3. pos[Owner] = bottom
    BY <2>2 DEF Ends, OwnerAt, LoweredPc
  <2>4. head < bottom
    BY <2>2, <2>3 DEF Look, Goto, Typed, TypeOK
  <2>5. QED
    BY <2>1, <2>2, <2>3, <2>4 DEF Look, Typed, TypeOK, Top
<1>1. /\ Deque # <<>> /\ Deque[Len(Deque)] = data[Slot(bottom)]
      /\ Deque' = SubSeq(Deque, 1, Len(Deque) - 1)
  <2>1. Top - 1 = bottom /\ Top' = Top - 1
    BY <1>0
  <2>2. QED
    BY <1>0, <2>1, DequeTake
<1>2. Has(Owner) = None /\ Has(Owner)' = data[Slot(bottom)]
  BY <1>0 DEF Has, Holding, Hands, Slot
<1>3. Taken[Owner] = None /\ Taken' = [Taken EXCEPT ![Owner] = data[Slot(bottom)]]
  <2>1. \A q \in Threads : q # Owner => Has(q)' = Has(q)
    BY <1>0, OthersKeep
  <2>2. QED
    BY <1>0, <1>2, <2>1 DEF Taken
<1>4. Abstract!TakeNewest
  BY <1>1, <1>3 DEF Abstract!TakeNewest, Deque, Taken, Has
<1>5. QED
  BY <1>4 DEF AStep, Abstract!Next

(* An exchange on `head` takes: the owner's the last, a thief's the oldest.*)
LEMMA WinsTakes ==
  ASSUME IInv, IInv', NEW p \in Threads, Wins(p), Others(p)
  PROVE  AStep
<1> USE DEF IInv
<1>0. /\ pos[p] = head /\ head' = head + 1 /\ pos' = pos
      /\ UNCHANGED <<bottom, seq, data, made, item>>
      /\ head \in Nat /\ bottom \in Nat /\ Owner \in Threads
  BY DEF Wins, Typed, TypeOK, Threads
<1>1. head < Top
  <2>1. CASE p = Owner
    BY <1>0, <2>1 DEF Wins, Ends, OwnerAt, LoweredPc, Top
  <2>2. CASE p # Owner
    BY <1>0, <2>2 DEF Wins, Ends
  <2>3. QED
    BY <2>1, <2>2
<1>2. Has(p) = None /\ Has(p)' = data[Slot(head)]
  BY <1>0 DEF Has, Holding, Hands, Slot, Wins
<1>3. Taken[p] = None /\ Taken' = [Taken EXCEPT ![p] = data[Slot(head)]]
  <2>1. \A q \in Threads : q # p => Has(q)' = Has(q)
    BY <1>0, OthersKeep
  <2>2. QED
    BY <1>0, <1>2, <2>1 DEF Taken
<1>4. CASE p = Owner
  <2>0. pc[Owner] = "race" /\ pc'[Owner] = "won" /\ pos[Owner] = head
    BY <1>0, <1>4, KhlAssumption DEF Wins
  <2>1. head = bottom /\ Top = bottom + 1 /\ Top' = bottom
    BY <1>0, <2>0 DEF Ends, OwnerAt, LoweredPc, Top
  <2>2. Top' = head /\ Top = head + 1 /\ Top - 1 = head
    BY <1>0, <2>1
  <2>3. /\ Deque # <<>> /\ Deque[Len(Deque)] = data[Slot(head)]
        /\ Deque' = SubSeq(Deque, 1, Len(Deque) - 1)
    BY <1>0, <1>1, <2>2, DequeTake
  <2>4. Abstract!TakeNewest
    BY <1>3, <1>4, <2>3 DEF Abstract!TakeNewest, Deque, Taken, Has
  <2>5. QED
    BY <2>4 DEF AStep, Abstract!Next
<1>5. CASE p # Owner
  <2>1. p \in Thieves /\ Top' = Top
    BY <1>0, <1>5 DEF Threads, Top, Others
  <2>2. Deque # <<>> /\ Head(Deque) = data[Slot(head)] /\ Deque' = Tail(Deque)
    BY <1>0, <1>1, <2>1, DequeTake
  <2>3. Abstract!TakeOldest(p)
    BY <1>3, <2>2 DEF Abstract!TakeOldest, Deque, Taken, Has
  <2>4. QED
    BY <2>1, <2>3 DEF AStep, Abstract!Next
<1>6. QED
  BY <1>4, <1>5

(* A thread that leaves its slot returns with its body.                    *)
LEMMA LeaveReturns ==
  ASSUME IInv, IInv', NEW p \in Threads, NEW from, NEW n, Leaves(p, from, n),
         LeaveSlot(p, from, n), Others(p)
  PROVE  AStep
<1> USE DEF IInv
<1>0. /\ pc[p] = from /\ pc'[p] = "idle" /\ item'[p] = None
      /\ UNCHANGED <<head, bottom, data>>
  BY DEF LeaveSlot, Goto, Return, Typed, TypeOK
<1>1. Top' = Top /\ Top' \in Nat
  BY <1>0, BodyFacts DEF Top, Leaves, Others, Threads
<1>2. Deque' = Deque
  BY <1>0, <1>1, DequeSame
<1>3. Has(p) \in Bodies /\ Has(p)' = None
  BY <1>0 DEF Has, Holding, Hands, Leaves
<1>4. None \notin Bodies
  BY KhlAssumption DEF None, Bodies
<1>5. Taken[p] # None /\ Taken' = [Taken EXCEPT ![p] = None]
  <2>1. \A q \in Threads : q # p => Has(q)' = Has(q)
    BY <1>0, OthersKeep
  <2>2. QED
    BY <1>3, <1>4, <2>1 DEF Taken
<1>6. Abstract!Return(p)
  BY <1>2, <1>5 DEF Abstract!Return, Deque, Taken, Has
<1>7. QED
  BY <1>6 DEF AStep, Abstract!Next, Threads

(* Every other step leaves the abstract deque as it is.                    *)
LEMMA ReadStutters ==
  ASSUME IInv, IInv', NEW p \in Threads, NEW from, NEW to, Reads(p, from, to),
         ReadBody(p, from, to), Others(p)
  PROVE  AStep
<1> USE DEF IInv
<1>0. /\ pc[p] = from /\ pc'[p] = to /\ item'[p] = data[At(p)] /\ UNCHANGED <<head, bottom>>
      /\ data' = [data EXCEPT ![At(p)] = Uninit]
  BY DEF ReadBody, Goto, At, Typed, TypeOK
<1>1. Top' = Top /\ Top' \in Nat
  BY <1>0, BodyFacts DEF Top, Reads, Others, Threads
<1>2. Works(p)
  BY <1>0 DEF Works, Claimed, OwnerAt, Reads
<1>3. Has(p)' = Has(p)
  BY <1>0 DEF Has, Holding, Reads, At
<1>4. Taken' = Taken /\ Deque' = Deque
  <2>1. /\ Taken' = Taken
        /\ \A i \in Nat : head <= i /\ i < Top => data'[Slot(i)] = data[Slot(i)]
    BY <1>0, <1>2, <1>3, OthersKeep
  <2>2. QED
    BY <1>0, <1>1, <2>1, DequeSame
<1>5. QED
  BY <1>4 DEF AStep

LEMMA QuietStutters ==
  ASSUME IInv, IInv', NEW p \in Threads, Others(p),
         UNCHANGED <<head, data, item>>,
         Top' = Top \/ (Top <= head /\ Top' <= head),
         (~Holding(p) /\ ~Holding(p)') \/ (Holding(p) /\ Holding(p)' /\ pos'[p] = pos[p])
  PROVE  AStep
<1>1. Has(p)' = Has(p)
  BY DEF Has, Slot
<1>2. Top' \in Nat
  <2>1. bottom' \in Nat
    BY DEF IInv, Typed
  <2>2. QED
    BY <2>1, TopIsNat DEF IInv, Typed
<1>3. Taken' = Taken
  BY <1>1, OthersKeep
<1>4. Deque' = Deque
  BY <1>2, DequeSame
<1>5. QED
  BY <1>3, <1>4 DEF AStep

LEMMA OwnerImplements ==
  ASSUME IInv, IInv', Push \/ Pop
  PROVE  AStep
<1> USE DEF IInv
<1>0. /\ Others(Owner) /\ Owner \in Threads /\ head \in Nat /\ bottom \in Nat
      /\ pos[Owner] \in Nat
  BY OwnerMoves DEF Typed, TypeOK
<1>1. CASE OwnerWalks /\ ~Advance /\ pc'[Owner] # "take"
  <2>1. UNCHANGED <<head, data, item>>
    BY <1>1 DEF OwnerWalks, BeginPush, WaitSlot, TrySlot, Advance, BeginPop, Lower, Look,
      Restore, RestoreWon
  <2> DEFINE i0 == pos[Owner]
  <2>2. \/ Walk("idle", "waitSlot", bottom, bottom) \/ Walk("idle", "trySlot", bottom, bottom)
        \/ Walk("waitSlot", "write", i0, bottom)
        \/ Walk("trySlot", "write", i0, bottom)
        \/ Walk("trySlot", "idle", 0, bottom)
        \/ Walk("idle", "lower", bottom - 1, bottom)
        \/ Walk("lower", "look", i0, i0)
        \/ Walk("look", "restore", i0, bottom) /\ head > i0
        \/ Walk("look", "race", i0, bottom)
        \/ Walk("restore", "idle", 0, i0 + 1)
        \/ Walk("won", "takeLast", i0, i0 + 1)
    <3>1. pc[Owner] # "advance"
      BY <1>1 DEF OwnerWalks, BeginPush, WaitSlot, TrySlot, BeginPop, Lower, Look, Restore, RestoreWon
    <3>2. QED
      BY <1>1, <3>1, OwnerWalksAt DEF Walk
  <2>3. /\ pc[Owner] = "lower" => pos[Owner] = bottom - 1 /\ 0 < bottom
        /\ pc[Owner] = "look" => pos[Owner] = bottom /\ head <= bottom + 1
        /\ pc[Owner] \in {"restore", "won"} => pos[Owner] = bottom /\ head = bottom + 1
    BY DEF Ends, OwnerAt, LoweredPc
  <2>4. Top' = Top \/ (Top <= head /\ Top' <= head)
    BY <1>0, <2>1, <2>2, <2>3 DEF Walk, Top
  <2>5. \/ ~Holding(Owner) /\ ~Holding(Owner)'
        \/ Holding(Owner) /\ Holding(Owner)' /\ pos'[Owner] = pos[Owner]
    BY <2>2 DEF Walk, Holding
  <2>6. QED
    BY <1>0, <2>1, <2>4, <2>5, QuietStutters
<1>2. CASE Look /\ pc'[Owner] = "take"
  BY <1>2, LookTakes
<1>3. OwnerWalks /\ pc'[Owner] = "take" => Look
  BY <1>0 DEF OwnerWalks, BeginPush, WaitSlot, TrySlot, Advance, BeginPop, Lower, Look,
    Restore, RestoreWon, Goto, Return, Typed, TypeOK
<1>4. CASE WriteBody
  <2>1. /\ pc[Owner] = "write" /\ pc'[Owner] = "publish" /\ UNCHANGED <<head, bottom, item>>
        /\ data' = [data EXCEPT ![At(Owner)] = made]
    BY <1>0, <1>4 DEF WriteBody, Goto, At, Typed, TypeOK
  <2>2. Works(Owner) /\ Has(Owner)' = Has(Owner)
    BY <2>1 DEF Works, OwnerAt, Has, Holding
  <2>3. Top' = Top /\ Top' \in Nat
    BY <2>1, BodyFacts DEF Top
  <2>4. /\ Taken' = Taken
        /\ \A i \in Nat : head <= i /\ i < Top => data'[Slot(i)] = data[Slot(i)]
    BY <1>0, <2>1, <2>2, OthersKeep
  <2>5. Deque' = Deque
    BY <2>1, <2>3, <2>4, DequeSame
  <2>6. QED
    BY <2>4, <2>5 DEF AStep
<1>5. CASE Publish
  <2>1. /\ pc[Owner] = "publish" /\ pc'[Owner] = "advance" /\ UNCHANGED <<head, bottom, data, item>>
    BY <1>0, <1>5 DEF Publish, Goto, Typed, TypeOK
  <2>2. Top' = Top /\ ~Holding(Owner) /\ ~Holding(Owner)'
    BY <2>1 DEF Top, Holding
  <2>3. QED
    BY <1>0, <2>1, <2>2, QuietStutters
<1>6. CASE Race
  <2>1. CASE head = pos[Owner]
    <3>1. Wins(Owner)
      BY <1>0, <1>6, <2>1 DEF Race, Wins, Goto, Typed, TypeOK
    <3>2. QED
      BY <1>0, <3>1, WinsTakes
  <2>2. CASE head # pos[Owner]
    <3>1. pc[Owner] = "race" /\ pc'[Owner] = "restore" /\ UNCHANGED <<head, bottom, data, item>>
      BY <1>0, <1>6, <2>2 DEF Race, Goto, Typed, TypeOK
    <3>2. pos[Owner] = bottom /\ head = bottom + 1
      BY <1>0, <2>2, <3>1 DEF Ends, OwnerAt, LoweredPc
    <3>3. Top <= head /\ Top' <= head /\ ~Holding(Owner) /\ ~Holding(Owner)'
      BY <1>0, <3>1, <3>2 DEF Top, Holding
    <3>4. QED
      BY <1>0, <3>1, <3>3, QuietStutters
  <2>3. QED
    BY <2>1, <2>2
<1>7. CASE TakeNewest \/ TakeLast
  <2>1. CASE ReadBody(Owner, "take", "unpublish")
    BY <1>0, <2>1, ReadStutters DEF Reads
  <2>2. CASE ReadBody(Owner, "takeLast", "release")
    BY <1>0, <2>2, ReadStutters DEF Reads
  <2>3. CASE LeaveSlot(Owner, "unpublish", pos[Owner])
    BY <1>0, <2>3, LeaveReturns DEF Leaves
  <2>4. CASE LeaveSlot(Owner, "release", pos[Owner] + Capacity)
    BY <1>0, <2>4, LeaveReturns DEF Leaves
  <2>5. QED
    BY <1>7, <2>1, <2>2, <2>3, <2>4 DEF TakeNewest, TakeLast
<1>8. QED
  BY <1>1, <1>2, <1>3, <1>4, <1>5, <1>6, <1>7, AdvancePuts DEF Push, Pop, OwnerWalks

LEMMA ThiefImplements ==
  ASSUME IInv, IInv', NEW t \in Thieves, Steal(t)
  PROVE  AStep
<1> USE DEF IInv
<1>0. /\ Others(t) /\ t \in Threads /\ t # Owner /\ pc'[Owner] = pc[Owner]
      /\ pos[t] \in Nat
  <2>1. Others(t) /\ t \in Threads /\ t # Owner /\ Owner \in Threads
    BY ThiefMoves DEF Threads
  <2>2. QED
    BY <2>1 DEF Others, Typed
<1>1. CASE LoadHead(t) \/ LoadBottom(t) \/ (ClaimHead(t) /\ head # pos[t]) \/ WaitBody(t)
  <2>1. UNCHANGED <<head, bottom, data, item>>
    BY <1>1 DEF LoadHead, LoadBottom, ClaimHead, WaitBody
  <2>2. Top' = Top
    BY <1>0, <2>1 DEF Top
  <2>3. \/ pc[t] \in {"idle", "bottom", "claim"} /\ pc'[t] \in {"idle", "bottom", "claim"}
        \/ pc[t] = "wait" /\ pc'[t] = "read" /\ pos'[t] = pos[t]
    BY <1>0, <1>1 DEF LoadHead, LoadBottom, ClaimHead, WaitBody, Goto, Return, Typed, TypeOK
  <2>4. \/ ~Holding(t) /\ ~Holding(t)'
        \/ Holding(t) /\ Holding(t)' /\ pos'[t] = pos[t]
    BY <1>0, <2>3 DEF Holding
  <2>5. QED
    BY <1>0, <2>1, <2>2, <2>4, QuietStutters
<1>2. CASE ClaimHead(t) /\ head = pos[t]
  <2>1. Wins(t)
    BY <1>0, <1>2 DEF ClaimHead, Wins, Goto, Typed, TypeOK
  <2>2. QED
    BY <1>0, <2>1, WinsTakes
<1>3. CASE TakeOldest(t)
  <2>1. CASE ReadBody(t, "read", "release")
    BY <1>0, <2>1, ReadStutters DEF Reads
  <2>2. CASE LeaveSlot(t, "release", pos[t] + Capacity)
    BY <1>0, <2>2, LeaveReturns DEF Leaves
  <2>3. QED
    BY <1>3, <2>1, <2>2 DEF TakeOldest
<1>4. QED
  BY <1>1, <1>2, <1>3 DEF Steal

LEMMA InitImplements == Init => Abstract!Init
<1> SUFFICES ASSUME Init PROVE Deque = <<>> /\ Taken = [p \in Threads |-> None]
  BY DEF Abstract!Init, Deque, Taken, Has, Threads
<1>0. KhlAssumption /\ Owner \in Threads
  BY KhlAssumption DEF Threads
<1>1. Deque = <<>>
  <2>1. head = 0 /\ Top = 0
    BY <1>0 DEF Init, Top
  <2>2. Deque = [i \in 1 .. 0 |-> data[Slot(head + i - 1)]]
    BY <2>1 DEF Deque
  <2>3. QED
    BY <2>2
<1>2. Taken = [p \in Threads |-> None]
  BY <1>0 DEF Init, Taken, Has, Holding
<1>3. QED
  BY <1>1, <1>2

LEMMA NextImplements == IInv /\ IInv' /\ [Next]_vars => AStep
<1>1. ASSUME UNCHANGED vars PROVE AStep
  BY <1>1 DEF vars, AStep, Deque, Taken, Has, Holding, Top, Slot
<1>2. QED
  BY <1>1, OwnerImplements, ThiefImplements DEF Next

(* For any number of thieves, slots and bodies the per-slot deque is the   *)
(* abstract one: a push takes effect when it advances `bottom`, an         *)
(* undisputed pop when it reads `head`, a steal and a disputed pop at      *)
(* their exchange on `head`, and no body is taken twice or lost.           *)
THEOREM ImplementsWorkDeque == Spec => IsWorkDeque
<1>1. Init => Abstract!Init
  BY InitImplements
<1>2. IInv /\ IInv' /\ [Next]_vars => [Abstract!Next]_<<Deque, Taken>>
  BY NextImplements DEF AStep
<1>3. QED
  BY <1>1, <1>2, Invariance, PTL DEF Spec, IsWorkDeque, Abstract!Spec, Deque, Taken, Has
=============================================================================
