--------------------------- MODULE JecSleepTyping ---------------------------
(***************************************************************************)
(* Theorems about the sleep coordinator, for any number of workers,        *)
(* siblings, producers and jobs, any length of the JEC and any number of   *)
(* rounds.                                                                 *)
(***************************************************************************)
EXTENDS JecSleep, FiniteSetTheorems, TLAPS

WakingPc == {"mark", "target", "claim", "release", "awaken", "unpark"}

Label == WorkerPc \cup OtherPc
Walk == [at : Workers, last : Workers, num : Nat,
         then : {"idle", "run", "done", "join"}]

\* Where a thread goes after a walk, and where the dropper is.
Back(p) == IF p \in Workers THEN {"run", "done"}
           ELSE IF p = Dropper THEN {"join"} ELSE {"idle"}
DropperPc == {"idle", "flag", "claim", "release", "awaken", "unpark", "join", "done"}

\* TypeOK without the sign of the counter fields, which CountersExact gives,
\* and with the bounds of a wake walk.
Shared ==
  /\ counters \in [jec : 0 .. JecMod - 1, inactive : Int, sleeping : Int]
  /\ state \in [Workers -> {"awake", "sleeping", "waking"}]
  /\ permit \in [Workers -> BOOLEAN]
  /\ sleepShutdown \in BOOLEAN /\ arenaShutdown \in BOOLEAN /\ smt \in {0, 1}
Queues ==
  /\ injector \in Nat /\ mailbox \in [Workers -> Nat] /\ mailUsed \in BOOLEAN
  /\ deque \in [Workers \cup {Slot} -> Nat] 
  /\ posted \in [submit : Nat, slot : Nat, mail : Nat, push : Nat]
Locals ==
  /\ idle \in [Workers -> [looking : BOOLEAN, rounds : 0 .. RoundsUntilSleepy + 1,
                           jc : 0 .. Dummy]]
  /\ note \in [Procs -> [num : Nat, empty : BOOLEAN]]
  /\ tailSeen \in [Procs -> Nat]
Walks ==
  /\ wake \in [Procs -> Walk]
  /\ \A p \in Procs : pc[p] \in WakingPc =>
       wake[p].num > 0 /\ wake[p].at <= wake[p].last /\ wake[p].then \in Back(p)
  /\ pc[Dropper] \in DropperPc
Typed == Shared /\ Queues /\ Locals /\ pc \in [Procs -> Label] /\ Walks

CountersNat == counters.inactive \in Nat /\ counters.sleeping \in Nat

LEMMA NoWakeTyped == NoWake \in Walk
  BY PoolAssumption DEF NoWake, Walk, Workers

LEMMA InitTyped == ASSUME Init PROVE Typed
<1>1. Shared
  <2>1. counters \in [jec : 0 .. JecMod - 1, inactive : Int, sleeping : Int]
    BY BoundAssumption DEF Init
  <2>2. QED
    BY <2>1 DEF Init, Shared
<1>2. Queues
  BY DEF Init, Queues
<1>3. Locals
  BY BoundAssumption DEF Init, Locals, NotLooking, Dummy, NoNote
<1>4. pc \in [Procs -> Label]
  BY DEF Init, Label, WorkerPc, OtherPc, SearchPc
<1>5. Walks
  BY NoWakeTyped, PoolAssumption DEF Init, Walks, WakingPc, DropperPc, Procs
<1>6. QED
  BY <1>1, <1>2, <1>3, <1>4, <1>5 DEF Typed

(* Setting one thread's walk and label keeps the bounds of every walk.      *)
LEMMA SetWalk ==
  ASSUME Typed, NEW p \in Procs, NEW l, NEW v \in Walk,
         l \in WakingPc => v.num > 0 /\ v.at <= v.last /\ v.then \in Back(p),
         p = Dropper => l \in DropperPc,
         pc' = [pc EXCEPT ![p] = l], wake' = [wake EXCEPT ![p] = v]
  PROVE  Walks'
<1>1. pc \in [Procs -> Label] /\ wake \in [Procs -> Walk]
  BY DEF Typed, Walks
<1>2. wake' \in [Procs -> Walk]
  BY <1>1
<1>3. ASSUME NEW q \in Procs, pc'[q] \in WakingPc
      PROVE  wake'[q].num > 0 /\ wake'[q].at <= wake'[q].last /\ wake'[q].then \in Back(q)
  <2>1. CASE q = p
    BY <1>1, <1>3, <2>1
  <2>2. CASE q # p
    <3>1. pc'[q] = pc[q] /\ wake'[q] = wake[q]
      BY <1>1, <2>2
    <3>2. QED
      BY <1>3, <3>1 DEF Typed, Walks
  <2>3. QED
    BY <2>1, <2>2
<1>4. pc'[Dropper] \in DropperPc
  BY <1>1 DEF Typed, Walks, Procs
<1>5. QED
  BY <1>2, <1>3, <1>4 DEF Walks, Back

(* StartWake and WalkOn keep the walk inside the workers. *)
LEMMA StartWakeTyped ==
  ASSUME Typed, NEW p \in Procs, NEW n \in Nat, NEW then \in Back(p),
         StartWake(p, 0, NWorkers - 1, n, then)
  PROVE  /\ pc' = [pc EXCEPT ![p] = IF n = 0 THEN then ELSE "claim"]
         /\ Walks'
<1>0. /\ then \in {"idle", "run", "done", "join"}
      /\ p = Dropper => then \in DropperPc /\ "claim" \in DropperPc
  BY PoolAssumption DEF Back, DropperPc
<1>1. CASE n = 0
  <2>1. pc' = [pc EXCEPT ![p] = then] /\ wake' = [wake EXCEPT ![p] = NoWake]
    BY <1>1 DEF StartWake, Goto
  <2>2. then \notin WakingPc
    BY <1>0 DEF WakingPc
  <2>3. QED
    BY <1>0, <1>1, <2>1, <2>2, NoWakeTyped, SetWalk
<1>2. CASE n # 0
  <2> DEFINE v == [at |-> 0, last |-> NWorkers - 1, num |-> n, then |-> then]
  <2>1. pc' = [pc EXCEPT ![p] = "claim"] /\ wake' = [wake EXCEPT ![p] = v]
    BY <1>2 DEF StartWake, Goto
  <2>2. v \in Walk /\ v.num > 0 /\ v.at <= v.last /\ v.then \in Back(p)
    BY <1>0, <1>2, PoolAssumption DEF Workers, Walk
  <2>3. QED
    BY <1>0, <1>2, <2>1, <2>2, SetWalk
<1>3. QED
  BY <1>1, <1>2

LEMMA WalkOnTyped ==
  ASSUME Typed, NEW p \in Procs, NEW n \in {0, 1}, pc[p] \in WakingPc, WalkOn(p, n)
  PROVE  /\ \/ pc' = [pc EXCEPT ![p] = wake[p].then]
            \/ pc' = [pc EXCEPT ![p] = "claim"]
         /\ wake[p].then \in Back(p)
         /\ Walks'
<1> DEFINE w == wake[p]
<1>1. w \in Walk /\ w.num > 0 /\ w.at <= w.last /\ w.then \in Back(p)
  BY DEF Typed, Walks
<1>0. p = Dropper => w.then \in DropperPc /\ "claim" \in DropperPc
  BY <1>1, PoolAssumption DEF Back, DropperPc
<1>2. CASE w.at = w.last \/ w.num = n
  <2>1. pc' = [pc EXCEPT ![p] = w.then] /\ wake' = [wake EXCEPT ![p] = NoWake]
    BY <1>2 DEF WalkOn, Goto
  <2>2. w.then \notin WakingPc
    BY <1>1 DEF WakingPc, Walk
  <2>3. QED
    BY <1>0, <1>1, <2>1, <2>2, NoWakeTyped, SetWalk
<1>3. CASE ~(w.at = w.last \/ w.num = n)
  <2> DEFINE v == [w EXCEPT !.at = @ + 1, !.num = @ - n]
  <2>1. pc' = [pc EXCEPT ![p] = "claim"] /\ wake' = [wake EXCEPT ![p] = v]
    BY <1>3 DEF WalkOn, Goto
  <2>2. w.at + 1 \in Workers /\ w.at + 1 <= w.last /\ w.num - n \in Nat /\ w.num - n > 0
    BY <1>1, <1>3, PoolAssumption DEF Workers, Walk
  <2>3. v \in Walk /\ v.num > 0 /\ v.at <= v.last /\ v.then \in Back(p)
    BY <1>1, <2>2 DEF Walk
  <2>4. QED
    BY <1>0, <1>1, <2>1, <2>3, SetWalk
<1>4. QED
  BY <1>1, <1>2, <1>3

(* A step that moves one label, into no walk, keeps every walk.            *)
LEMMA SetLabel ==
  ASSUME Typed, NEW p \in Procs, NEW l \in Label,
         l \in WakingPc => pc[p] \in WakingPc, p = Dropper => l \in DropperPc,
         pc' = [pc EXCEPT ![p] = l], wake' = wake
  PROVE  pc' \in [Procs -> Label] /\ Walks'
<1>1. pc \in [Procs -> Label] /\ Walks
  BY DEF Typed
<1>2. \A q \in Procs : pc'[q] \in WakingPc => pc[q] \in WakingPc
  BY <1>1
<1>3. pc'[Dropper] \in DropperPc
  BY <1>1 DEF Walks, Procs
<1>4. QED
  BY <1>1, <1>2, <1>3 DEF Walks, Back

IdleRec == [looking : BOOLEAN, rounds : 0 .. RoundsUntilSleepy + 1, jc : 0 .. Dummy]

(* Setting one worker's idle state to a record of its type keeps Locals.   *)
LEMMA SetIdleTyped ==
  ASSUME Typed, NEW w \in Workers, NEW i \in IdleRec,
         idle' = [idle EXCEPT ![w] = i], note' = note, tailSeen' = tailSeen
  PROVE  Locals'
<1>1. idle' \in [Workers -> IdleRec]
  BY DEF Typed, Locals, IdleRec
<1>2. QED
  BY <1>1 DEF Typed, Locals, IdleRec

LEMMA IdleRecs ==
  ASSUME Typed, NEW w \in Workers
  PROVE  /\ NotLooking \in IdleRec
         /\ [looking |-> TRUE, rounds |-> 0, jc |-> Dummy] \in IdleRec
         /\ idle[w] \in IdleRec
         /\ counters.jec \in 0 .. Dummy
         /\ NextJec(counters.jec) \in 0 .. JecMod - 1
<1>1. NotLooking \in IdleRec /\ [looking |-> TRUE, rounds |-> 0, jc |-> Dummy] \in IdleRec
  BY BoundAssumption DEF IdleRec, NotLooking, Dummy
<1>2. idle[w] \in IdleRec
  BY DEF Typed, Locals, IdleRec
<1>3. counters.jec \in 0 .. JecMod - 1
  BY DEF Typed, Shared
<1>4. NextJec(counters.jec) \in 0 .. JecMod - 1
  BY <1>3, BoundAssumption DEF NextJec
<1>5. QED
  BY <1>1, <1>2, <1>3, <1>4, BoundAssumption DEF Dummy

LEMMA SetIdleFields ==
  ASSUME Typed, NEW w \in Workers, NEW r \in 0 .. RoundsUntilSleepy + 1, NEW j \in 0 .. Dummy,
         SetIdle(w, r, j), note' = note, tailSeen' = tailSeen
  PROVE  Locals'
<1> DEFINE i == [looking |-> idle[w].looking, rounds |-> r, jc |-> j]
<1>1. i \in IdleRec
  BY IdleRecs DEF IdleRec
<1>2. idle' = [idle EXCEPT ![w] = i]
  BY DEF SetIdle
<1>3. QED
  BY <1>1, <1>2, SetIdleTyped

(* The arguments of a notification are typed.                              *)
LEMMA SetNote ==
  ASSUME Typed, NEW p \in Procs, NEW n \in Nat, NEW e \in BOOLEAN,
         note' = [note EXCEPT ![p] = [num |-> n, empty |-> e]]
  PROVE  note' \in [Procs -> [num : Nat, empty : BOOLEAN]]
<1>1. [num |-> n, empty |-> e] \in [num : Nat, empty : BOOLEAN]
  OBVIOUS
<1>2. QED
  BY <1>1 DEF Typed, Locals

(* One thread's is_empty moves its label and its reading of the tail.      *)
LEMMA AskTyped ==
  ASSUME Typed, NEW p \in Procs, p # Dropper, NEW from, NEW head \in Label \ WakingPc,
         NEW yes \in Label \ WakingPc, NEW no \in Label \ WakingPc,
         ReadTail(p, from, head, no) \/ ReadHead(p, head, yes, no)
  PROVE  /\ pc' \in [Procs -> Label] /\ Walks'
         /\ tailSeen' \in [Procs -> Nat]
         /\ UNCHANGED <<counters, state, permit, flags, queues, idle, wake>>
<1>1. injector \in Nat /\ tailSeen \in [Procs -> Nat]
  BY DEF Typed, Queues, Locals
<1>2. CASE ReadTail(p, from, head, no)
  <2>1. pc' \in [Procs -> Label] /\ Walks'
    BY <1>2, SetLabel DEF ReadTail, Goto
  <2>2. QED
    BY <1>1, <1>2, <2>1 DEF ReadTail
<1>3. CASE ReadHead(p, head, yes, no)
  <2>1. pc' \in [Procs -> Label] /\ Walks'
    BY <1>3, SetLabel DEF ReadHead, Goto
  <2>2. QED
    BY <1>1, <1>3, <2>1 DEF ReadHead
<1>4. QED
  BY <1>2, <1>3

(* work_found ends an idle episode and may begin a walk.                   *)
LEMMA WorkFoundTyped ==
  ASSUME Typed, CountersNat, NEW w \in Workers, NEW then \in {"run", "done"},
         WorkFound(w, then), UNCHANGED <<state, permit, flags, queues, note, tailSeen>>
  PROVE  Typed'
<1>1. w \in Procs /\ w # Dropper /\ then \in Back(w) /\ then \in Label \ WakingPc
  BY PoolAssumption DEF Procs, Back, Label, WorkerPc, WakingPc, SearchPc
<1>2. CASE ~idle[w].looking
  BY <1>1, <1>2, SetLabel DEF WorkFound, Typed, Shared, Queues, Locals, flags, queues, Goto
<1>3. CASE idle[w].looking
  <2> DEFINE n == Least(counters.sleeping, 2)
  <2>1. /\ counters' = [counters EXCEPT !.inactive = @ - 1]
        /\ idle' = [idle EXCEPT ![w] = NotLooking]
        /\ StartWake(w, 0, NWorkers - 1, n, then)
    BY <1>3 DEF WorkFound, AddTo
  <2>2. n \in Nat
    BY DEF CountersNat, Least
  <2>3. /\ pc' = [pc EXCEPT ![w] = IF n = 0 THEN then ELSE "claim"]
        /\ Walks'
    BY <1>1, <2>1, <2>2, StartWakeTyped
  <2>4. pc' \in [Procs -> Label]
    BY <1>1, <2>3 DEF Typed, Label, OtherPc, CallPc
  <2>5. Shared' /\ Queues'
    BY <2>1 DEF Typed, Shared, Queues, flags, queues
  <2>6. Locals'
    BY <2>1, IdleRecs, SetIdleTyped
  <2>7. QED
    BY <2>3, <2>4, <2>5, <2>6 DEF Typed
<1>4. QED
  BY <1>2, <1>3

LEMMA SearchTyped ==
  ASSUME Typed, CountersNat, NEW w \in Workers, Search(w)
  PROVE  Typed'
<1> USE DEF flags, queues, Label, WorkerPc, SearchPc, RegisteredPc, PublishedPc,
            CallPc, OtherPc, WakingPc
<1>0. w \in Procs /\ w # Dropper /\ Back(w) = {"run", "done"}
  BY PoolAssumption DEF Procs, Back
<1>1. CASE LoopTop(w)
  BY <1>0, <1>1, SetLabel DEF Typed, Shared, Queues, Locals, Goto, locals, LoopTop
<1>2. CASE GateOpens(w)
  BY <1>0, <1>2, SetLabel DEF Typed, Shared, Queues, Locals, Goto, locals, GateOpens
<1>3. CASE GateShutdown(w)
  BY <1>0, <1>3, SetLabel DEF Typed, Shared, Queues, Locals, Goto, locals, GateShutdown
<1>4. CASE ProbeMailbox(w)
  <2>1. pc' \in [Procs -> Label] /\ Walks'
    BY <1>0, <1>4, SetLabel DEF Goto, locals, ProbeMailbox
  <2>2. Shared' /\ Queues'
    BY <1>0, <1>4 DEF Typed, Shared, Queues, locals, ProbeMailbox
  <2>3. Locals'
    BY <1>0, <1>4 DEF Typed, Locals, locals, ProbeMailbox
  <2>4. QED
    BY <2>1, <2>2, <2>3 DEF Typed
<1>5. CASE ProbeOwn(w)
  <2>1. pc' \in [Procs -> Label] /\ Walks'
    BY <1>0, <1>5, SetLabel DEF Goto, locals, ProbeOwn, ProbeDeque
  <2>2. Shared' /\ Queues'
    BY <1>0, <1>5 DEF Typed, Shared, Queues, locals, ProbeOwn, ProbeDeque
  <2>3. Locals'
    BY <1>0, <1>5 DEF Typed, Locals, locals, ProbeOwn, ProbeDeque
  <2>4. QED
    BY <2>1, <2>2, <2>3 DEF Typed
<1>6. CASE ProbeInjector(w)
  <2>1. pc' \in [Procs -> Label] /\ Walks'
    BY <1>0, <1>6, SetLabel DEF Goto, locals, ProbeInjector
  <2>2. Shared' /\ Queues'
    BY <1>0, <1>6 DEF Typed, Shared, Queues, locals, ProbeInjector
  <2>3. Locals'
    BY <1>0, <1>6 DEF Typed, Locals, locals, ProbeInjector
  <2>4. QED
    BY <2>1, <2>2, <2>3 DEF Typed
<1>7. CASE ProbeSlot(w)
  <2>1. pc' \in [Procs -> Label] /\ Walks'
    BY <1>0, <1>7, SetLabel DEF Goto, locals, ProbeSlot, ProbeDeque
  <2>2. Shared' /\ Queues'
    BY <1>0, <1>7 DEF Typed, Shared, Queues, locals, ProbeSlot, ProbeDeque
  <2>3. Locals'
    BY <1>0, <1>7 DEF Typed, Locals, locals, ProbeSlot, ProbeDeque
  <2>4. QED
    BY <2>1, <2>2, <2>3 DEF Typed
<1>8. CASE StealFromPeer(w)
  <2>1. pc' \in [Procs -> Label] /\ Walks'
    BY <1>0, <1>8, SetLabel DEF Goto, locals, StealFromPeer
  <2>2. Shared' /\ Queues'
    BY <1>0, <1>8 DEF Typed, Shared, Queues, locals, StealFromPeer
  <2>3. Locals'
    BY <1>0, <1>8 DEF Typed, Locals, locals, StealFromPeer
  <2>4. QED
    BY <2>1, <2>2, <2>3 DEF Typed
<1>9. CASE MissPeers(w)
  BY <1>0, <1>9, SetLabel DEF Typed, Shared, Queues, Locals, Goto, locals, MissPeers
<1>10. CASE Found(w)
  BY <1>10, WorkFoundTyped DEF Found
<1>11. CASE Leave(w)
  BY <1>11, WorkFoundTyped DEF Leave
<1>12. QED
  BY <1>1, <1>2, <1>3, <1>4, <1>5, <1>6, <1>7, <1>8, <1>9, <1>10, <1>11 DEF Search

LEMMA IdlePathTyped ==
  ASSUME Typed, NEW w \in Workers, IdlePath(w)
  PROVE  Typed'
<1> USE DEF flags, queues, Label, WorkerPc, SearchPc, RegisteredPc, PublishedPc,
            CallPc, OtherPc, WakingPc
<1>0. w \in Procs /\ w # Dropper /\ Back(w) = {"run", "done"}
  BY PoolAssumption DEF Procs, Back
<1>1. CASE StartLooking(w)
  <2>1. pc' \in [Procs -> Label] /\ Walks'
    BY <1>0, <1>1, SetLabel DEF Goto, StartLooking, AddTo
  <2>2. Shared' /\ Queues'
    BY <1>0, <1>1, IdleRecs DEF Typed, Shared, Queues, StartLooking, AddTo
  <2>3. Locals'
    BY <1>0, <1>1, IdleRecs, BoundAssumption, SetIdleTyped DEF Typed, Locals, Dummy, StartLooking, AddTo
  <2>4. QED
    BY <2>1, <2>2, <2>3 DEF Typed
<1>2. CASE IdleRound(w)
  <2>1. pc' \in [Procs -> Label] /\ Walks'
    BY <1>0, <1>2, SetLabel DEF Goto, IdleRound, Least
  <2>2. Shared' /\ Queues'
    BY <1>0, <1>2, IdleRecs DEF Typed, Shared, Queues, IdleRound, Least
  <2>3. Locals'
    BY <1>0, <1>2, IdleRecs, BoundAssumption, SetIdleFields DEF Typed, Locals, Dummy, IdleRound, Least
  <2>4. QED
    BY <2>1, <2>2, <2>3 DEF Typed
<1>3. CASE AnnounceSleepy(w)
  <2>1. pc' \in [Procs -> Label] /\ Walks'
    BY <1>0, <1>3, SetLabel DEF Goto, AnnounceSleepy
  <2>2. Shared' /\ Queues'
    BY <1>0, <1>3, IdleRecs DEF Typed, Shared, Queues, AnnounceSleepy
  <2>3. Locals'
    <3> DEFINE j == IF IsSleepy(counters.jec) THEN counters.jec ELSE NextJec(counters.jec)
    <3>1. SetIdle(w, RoundsUntilSleepy + 1, j) /\ j \in 0 .. Dummy
      BY <1>3, IdleRecs, BoundAssumption DEF AnnounceSleepy, Dummy
    <3>2. RoundsUntilSleepy + 1 \in 0 .. RoundsUntilSleepy + 1
      BY BoundAssumption
    <3>3. note' = note /\ tailSeen' = tailSeen
      BY <1>3 DEF AnnounceSleepy
    <3>4. QED
      BY <3>1, <3>2, <3>3, SetIdleFields
  <2>4. QED
    BY <2>1, <2>2, <2>3 DEF Typed
<1>4. CASE WindowOver(w)
  BY <1>0, <1>4, SetLabel DEF Typed, Shared, Queues, Locals, Goto, locals, WindowOver
<1>5. CASE CheckShutdown(w)
  <2>1. pc' \in [Procs -> Label] /\ Walks'
    BY <1>0, <1>5, SetLabel DEF Goto, CheckShutdown, WakePartly
  <2>2. Shared' /\ Queues'
    BY <1>0, <1>5, IdleRecs DEF Typed, Shared, Queues, CheckShutdown, WakePartly
  <2>3. Locals'
    BY <1>0, <1>5, IdleRecs, BoundAssumption, SetIdleFields DEF Typed, Locals, Dummy, CheckShutdown, WakePartly
  <2>4. QED
    BY <2>1, <2>2, <2>3 DEF Typed
<1>6. CASE Register(w)
  <2>1. pc' \in [Procs -> Label] /\ Walks'
    BY <1>0, <1>6, SetLabel DEF Goto, Register, AddTo, WakePartly
  <2>2. Shared' /\ Queues'
    BY <1>0, <1>6, IdleRecs DEF Typed, Shared, Queues, Register, AddTo, WakePartly
  <2>3. Locals'
    BY <1>0, <1>6, IdleRecs, BoundAssumption, SetIdleFields DEF Typed, Locals, Dummy, Register, AddTo, WakePartly
  <2>4. QED
    BY <2>1, <2>2, <2>3 DEF Typed
<1>7. CASE CheckInjector(w)
  <2>1. /\ note' = note
        /\ \/ ReadTail(w, "checkInjector", "checkHead", "checkMailbox")
           \/ ReadHead(w, "checkHead", "unregister", "checkMailbox")
    BY <1>7 DEF CheckInjector, AskInjector
  <2>2. {"checkHead", "unregister", "checkMailbox"} \subseteq Label \ WakingPc
    OBVIOUS
  <2>3. /\ pc' \in [Procs -> Label] /\ Walks'
        /\ tailSeen' \in [Procs -> Nat]
        /\ UNCHANGED <<counters, state, permit, flags, queues, idle, wake>>
    BY <1>0, <2>1, <2>2, AskTyped
  <2>4. QED
    BY <2>1, <2>3 DEF Typed, Shared, Queues, Locals
<1>8. CASE CheckMailbox(w)
  BY <1>0, <1>8, SetLabel DEF Typed, Shared, Queues, Locals, Goto, locals, CheckMailbox, AskMailbox
<1>9. CASE Publish(w)
  BY <1>0, <1>9, SetLabel DEF Typed, Shared, Queues, Locals, Goto, locals, Publish
<1>10. CASE RecheckShutdown(w)
  BY <1>0, <1>10, SetLabel DEF Typed, Shared, Queues, Locals, Goto, locals, RecheckShutdown
<1>11. CASE RecheckInjector(w)
  <2>1. /\ note' = note
        /\ \/ ReadTail(w, "recheckInjector", "recheckHead", "recheckMailbox")
           \/ ReadHead(w, "recheckHead", "rescue", "recheckMailbox")
    BY <1>11 DEF RecheckInjector, AskInjector
  <2>2. {"recheckHead", "rescue", "recheckMailbox"} \subseteq Label \ WakingPc
    OBVIOUS
  <2>3. /\ pc' \in [Procs -> Label] /\ Walks'
        /\ tailSeen' \in [Procs -> Nat]
        /\ UNCHANGED <<counters, state, permit, flags, queues, idle, wake>>
    BY <1>0, <2>1, <2>2, AskTyped
  <2>4. QED
    BY <2>1, <2>3 DEF Typed, Shared, Queues, Locals
<1>12. CASE RecheckMailbox(w)
  BY <1>0, <1>12, SetLabel DEF Typed, Shared, Queues, Locals, Goto, locals, RecheckMailbox, AskMailbox
<1>13. CASE Rescue(w)
  <2>1. pc' \in [Procs -> Label] /\ Walks'
    BY <1>0, <1>13, SetLabel DEF Rescue, Goto, locals
  <2>2. state' \in [Workers -> {"awake", "sleeping", "waking"}]
    BY <1>0, <1>13 DEF Typed, Shared, Rescue
  <2>3. QED
    BY <1>13, <2>1, <2>2 DEF Typed, Shared, Queues, Locals, locals, Rescue
<1>14. CASE Unregister(w)
  <2>1. pc' \in [Procs -> Label] /\ Walks'
    BY <1>0, <1>14, SetLabel DEF Goto, Unregister, AddTo, WakeFully
  <2>2. Shared' /\ Queues'
    BY <1>0, <1>14, IdleRecs DEF Typed, Shared, Queues, Unregister, AddTo, WakeFully
  <2>3. Locals'
    BY <1>0, <1>14, IdleRecs, BoundAssumption, SetIdleFields DEF Typed, Locals, Dummy, Unregister, AddTo, WakeFully
  <2>4. QED
    BY <2>1, <2>2, <2>3 DEF Typed
<1>15. CASE ParkLoop(w)
  <2>1. pc' \in [Procs -> Label] /\ Walks'
    BY <1>0, <1>15, SetLabel DEF Goto, ParkLoop, WakeFully
  <2>2. Shared' /\ Queues'
    BY <1>0, <1>15, IdleRecs DEF Typed, Shared, Queues, ParkLoop, WakeFully
  <2>3. Locals'
    BY <1>0, <1>15, IdleRecs, BoundAssumption, SetIdleFields DEF Typed, Locals, Dummy, ParkLoop, WakeFully
  <2>4. QED
    BY <2>1, <2>2, <2>3 DEF Typed
<1>16. CASE ParkReturns(w)
  BY <1>0, <1>16, SetLabel DEF Typed, Shared, Queues, Locals, Goto, locals, ParkReturns
<1>17. QED
  BY <1>1, <1>2, <1>3, <1>4, <1>5, <1>6, <1>7, <1>8, <1>9, <1>10, <1>11, <1>12, <1>13, <1>14, <1>15, <1>16 DEF IdlePath

(* A step of a wake, by any thread that makes calls.                       *)
LEMMA CallTyped ==
  ASSUME Typed, CountersNat, NEW p \in Procs, CallStep(p)
  PROVE  Typed'
<1> USE DEF flags, queues, Label, WorkerPc, SearchPc, CallPc, OtherPc, DropperPc
<1>1. CASE Claim(p)
  <2>1. Shared' /\ Queues' /\ Locals'
    BY <1>1 DEF Typed, Shared, Queues, Locals, Claim
  <2>2. CASE state[wake[p].at] = "sleeping"
    <3>1. pc' = [pc EXCEPT ![p] = "release"] /\ wake' = wake
      BY <1>1, <2>2 DEF Claim, Goto
    <3>2. pc' \in [Procs -> Label] /\ Walks'
      BY <1>1, <3>1, SetLabel DEF Claim, WakingPc
    <3>3. QED
      BY <2>1, <3>2 DEF Typed
  <2>3. CASE state[wake[p].at] # "sleeping"
    <3>1. WalkOn(p, 0) /\ pc[p] \in WakingPc
      BY <1>1, <2>3 DEF Claim, WakingPc
    <3>2. pc' \in [Procs -> Label] /\ Walks'
      BY <3>1, WalkOnTyped DEF Typed, Walks, Walk
    <3>3. QED
      BY <2>1, <3>2 DEF Typed
  <2>4. QED
    BY <2>2, <2>3
<1>2. CASE Release(p)
  <2>1. pc' \in [Procs -> Label] /\ Walks'
    BY <1>2, SetLabel DEF Goto, locals, WakingPc, Release
  <2>2. Shared' /\ Queues' /\ Locals'
    BY <1>2 DEF Typed, Shared, Queues, Locals, locals, Release, AddTo
  <2>3. QED
    BY <2>1, <2>2 DEF Typed
<1>3. CASE Awaken(p)
  BY <1>3, SetLabel DEF Typed, Shared, Queues, Locals, Goto, locals, WakingPc, Awaken
<1>4. CASE Unpark(p)
  <2>1. Shared' /\ Queues' /\ Locals'
    BY <1>4 DEF Typed, Shared, Queues, Locals, Unpark
  <2>2. WalkOn(p, 1) /\ pc[p] \in WakingPc
    BY <1>4 DEF Unpark, WakingPc
  <2>3. pc' \in [Procs -> Label] /\ Walks'
    BY <2>2, WalkOnTyped DEF Typed, Walks, Walk
  <2>4. QED
    BY <2>1, <2>3 DEF Typed
<1>5. CASE Notify(p)
  <2> DEFINE n == WakesFor(note[p].num, note[p].empty,
                           counters.inactive - counters.sleeping, counters.sleeping)
             then == IF p \in Workers THEN "run" ELSE "idle"
  <2>1. /\ StartWake(p, 0, NWorkers - 1, n, then)
        /\ note' = [note EXCEPT ![p] = NoNote]
        /\ UNCHANGED <<state, permit, flags, queues, idle, tailSeen>>
    BY <1>5 DEF Notify
  <2>2. n \in Nat /\ then \in Back(p) /\ then \in {"idle", "run"}
    BY <1>5 DEF Typed, Locals, CountersNat, WakesFor, Least, Walks, DropperPc, Back, Notify
  <2>3. pc' = [pc EXCEPT ![p] = IF n = 0 THEN then ELSE "claim"] /\ Walks'
    BY <2>1, <2>2, StartWakeTyped
  <2>4. pc' \in [Procs -> Label]
    BY <2>2, <2>3 DEF Typed
  <2>5. Queues' /\ Locals'
    BY <2>1 DEF Typed, Queues, Locals, NoNote
  <2>6. Shared'
    BY <1>5, BoundAssumption DEF Typed, Shared, Notify, NextJec
  <2>7. QED
    BY <2>3, <2>4, <2>5, <2>6 DEF Typed
<1>6. QED
  BY <1>1, <1>2, <1>3, <1>4, <1>5 DEF CallStep

LEMMA RunJobTyped ==
  ASSUME Typed, NEW w \in Workers, RunJob(w)
  PROVE  Typed'
<1> USE DEF flags, queues, Label, WorkerPc, SearchPc, RegisteredPc, PublishedPc,
            CallPc, OtherPc, WakingPc
<1>0. w \in Procs /\ w # Dropper /\ Back(w) = {"run", "done"}
  BY PoolAssumption DEF Procs, Back
<1>1. CASE FinishJob(w)
  BY <1>0, <1>1, SetLabel DEF Typed, Shared, Queues, Locals, Goto, locals, FinishJob
<1>2. CASE MarkUsed(w)
  BY <1>0, <1>2, SetLabel DEF Typed, Shared, Queues, Locals, Goto, locals, MarkUsed
<1>3. CASE WakeWorker(w)
  <2>1. Shared' /\ Queues' /\ Locals'
    BY <1>3 DEF Typed, Shared, Queues, Locals, WakeWorker
  <2>2. CASE state[wake[w].at] = "sleeping"
    BY <1>0, <1>3, <2>1, <2>2, SetLabel DEF Typed, WakeWorker, Goto
  <2>3. CASE state[wake[w].at] # "sleeping"
    <3>1. pc' = [pc EXCEPT ![w] = "run"] /\ wake' = [wake EXCEPT ![w] = NoWake]
      BY <1>3, <2>3 DEF WakeWorker, Goto
    <3>2. QED
      BY <1>0, <2>1, <3>1, NoWakeTyped, SetWalk DEF Typed
  <2>4. QED
    BY <2>2, <2>3
<1>4. CASE ReadOwnEmpty(w)
  <2>1. pc' \in [Procs -> Label] /\ Walks'
    BY <1>0, <1>4, SetLabel DEF Goto, locals, ReadOwnEmpty
  <2>2. Shared' /\ Queues'
    BY <1>0, <1>4 DEF Typed, Shared, Queues, locals, ReadOwnEmpty
  <2>3. Locals'
    BY <1>0, <1>4 DEF Typed, Locals, locals, ReadOwnEmpty
  <2>4. QED
    BY <2>1, <2>2, <2>3 DEF Typed
<1>5. CASE PushOwnDeque(w)
  <2>1. pc' \in [Procs -> Label] /\ Walks'
    BY <1>0, <1>5, SetLabel DEF Goto, locals, PushOwnDeque
  <2>2. note' \in [Procs -> [num : Nat, empty : BOOLEAN]]
    <3>1. note \in [Procs -> [num : Nat, empty : BOOLEAN]]
      BY DEF Typed, Locals
    <3>2. QED
      BY <1>0, <1>5, <3>1, SetNote DEF PushOwnDeque, NoNote
  <2>3. Shared' /\ Queues' /\ Locals'
    BY <1>5, <2>2 DEF Typed, Shared, Queues, Locals, locals, PushOwnDeque
  <2>4. QED
    BY <2>1, <2>3 DEF Typed
<1>6. CASE \E t \in Workers : PushMailbox(w, t)
  <2>1. PICK t \in Workers : PushMailbox(w, t)
    BY <1>6
  <2> DEFINE v == [at |-> t, last |-> t, num |-> 1, then |-> "run"]
  <2>2. pc' = [pc EXCEPT ![w] = "mark"] /\ wake' = [wake EXCEPT ![w] = v]
    BY <2>1 DEF PushMailbox, Goto
  <2>3. v \in Walk /\ v.num > 0 /\ v.at <= v.last
    BY DEF Walk, Workers
  <2>4. Walks'
    BY <1>0, <2>2, <2>3, SetWalk
  <2>5. pc' \in [Procs -> Label]
    BY <1>0, <2>2 DEF Typed
  <2>6. Shared' /\ Locals'
    BY <2>1 DEF Typed, Shared, Locals, PushMailbox
  <2>7. mailbox' \in [Workers -> Nat]
    BY <2>1 DEF Typed, Queues, PushMailbox
  <2>8. posted' \in [submit : Nat, slot : Nat, mail : Nat, push : Nat]
    BY <2>1 DEF Typed, Queues, PushMailbox
  <2>9. Queues'
    BY <2>1, <2>7, <2>8 DEF Typed, Queues, PushMailbox
  <2>10. QED
    BY <2>4, <2>5, <2>6, <2>9 DEF Typed
<1>7. QED
  BY <1>1, <1>2, <1>3, <1>4, <1>5, <1>6 DEF RunJob

LEMMA ProducerTyped ==
  ASSUME Typed, NEW p \in Producers,
         ReadEmpty(p) \/ PushInjector(p) \/ Submit(p) \/ PushSlot(p)
  PROVE  Typed'
<1> USE DEF flags, queues, Label, WorkerPc, SearchPc, RegisteredPc, PublishedPc,
            CallPc, OtherPc, WakingPc
<1>0. p \in Procs /\ p # Dropper
  BY PoolAssumption DEF Procs
<1>1. CASE ReadEmpty(p)
  <2>1. /\ pc' \in [Procs -> Label] /\ Walks'
        /\ tailSeen' \in [Procs -> Nat]
        /\ UNCHANGED <<counters, state, permit, flags, queues, idle, wake>>
    BY <1>0, <1>1, AskTyped DEF ReadEmpty
  <2>2. note' \in [Procs -> [num : Nat, empty : BOOLEAN]]
    <3>1. (injector = 0) \in BOOLEAN /\ (tailSeen[p] = 0) \in BOOLEAN
      OBVIOUS
    <3>2. QED
      BY <1>0, <1>1, <3>1, SetNote DEF ReadEmpty
  <2>3. QED
    BY <2>1, <2>2 DEF Typed, Shared, Queues, Locals
<1>2. CASE PushInjector(p)
  <2>1. pc' \in [Procs -> Label] /\ Walks'
    BY <1>0, <1>2, SetLabel DEF Goto, locals, PushInjector
  <2>2. Shared' /\ Queues'
    BY <1>0, <1>2 DEF Typed, Shared, Queues, locals, PushInjector
  <2>3. Locals'
    BY <1>0, <1>2 DEF Typed, Locals, locals, PushInjector
  <2>4. QED
    BY <2>1, <2>2, <2>3 DEF Typed
<1>3. CASE Submit(p)
  <2>1. pc' \in [Procs -> Label] /\ Walks'
    BY <1>0, <1>3, SetLabel DEF Goto, locals, Submit
  <2>2. Shared' /\ Queues'
    BY <1>0, <1>3 DEF Typed, Shared, Queues, locals, Submit
  <2>3. Locals'
    BY <1>0, <1>3 DEF Typed, Locals, locals, Submit
  <2>4. QED
    BY <2>1, <2>2, <2>3 DEF Typed
<1>4. CASE PushSlot(p)
  <2>1. pc' \in [Procs -> Label] /\ Walks'
    BY <1>0, <1>4, SetLabel DEF Goto, locals, PushSlot
  <2>2. note' \in [Procs -> [num : Nat, empty : BOOLEAN]]
    <3>1. NWorkers + 1 \in Nat /\ FALSE \in BOOLEAN
      BY PoolAssumption
    <3>2. QED
      BY <1>0, <1>4, <3>1, SetNote DEF PushSlot
  <2>3. Shared' /\ Queues' /\ Locals'
    BY <1>4, <2>2 DEF Typed, Shared, Queues, Locals, locals, PushSlot, Slot
  <2>4. QED
    BY <2>1, <2>3 DEF Typed
<1>5. QED
  BY <1>1, <1>2, <1>3, <1>4

LEMMA ArenaTyped ==
  ASSUME Typed, \/ AcquireSmt \/ ReleaseSmt \/ DropArena
                \/ WakeAllForShutdown \/ JoinWorkers
  PROVE  Typed'
<1> USE DEF flags, queues, Label, WorkerPc, SearchPc, RegisteredPc, PublishedPc,
            CallPc, OtherPc, WakingPc, DropperPc
<1>0. Dropper \in Procs /\ Back(Dropper) = {"join"}
  BY PoolAssumption DEF Procs, Back
<1>1. CASE AcquireSmt
  BY <1>1 DEF AcquireSmt, Typed, Shared, Queues, Locals, Walks, Back, locals
<1>2. CASE ReleaseSmt
  BY <1>2 DEF ReleaseSmt, Typed, Shared, Queues, Locals, Walks, Back, locals
<1>3. CASE DropArena
  BY <1>0, <1>3, SetLabel DEF Typed, Shared, Queues, Locals, Goto, locals, DropArena
<1>4. CASE WakeAllForShutdown
  <2>1. /\ pc' = [pc EXCEPT ![Dropper] = IF NWorkers = 0 THEN "join" ELSE "claim"]
        /\ Walks'
    BY <1>0, <1>4, PoolAssumption, StartWakeTyped DEF WakeAllForShutdown
  <2>2. pc' \in [Procs -> Label]
    BY <1>0, <2>1 DEF Typed
  <2>3. Shared' /\ Queues' /\ Locals'
    BY <1>4 DEF Typed, Shared, Queues, Locals, WakeAllForShutdown
  <2>4. QED
    BY <2>1, <2>2, <2>3 DEF Typed
<1>5. CASE JoinWorkers
  BY <1>0, <1>5, SetLabel DEF Typed, Shared, Queues, Locals, Goto, locals, JoinWorkers
<1>6. QED
  BY <1>1, <1>2, <1>3, <1>4, <1>5

LEMMA TypedStep == ASSUME Typed, CountersNat, [Next]_vars PROVE Typed'
<1>1. CASE \E w \in Workers : WorkerStep(w) \/ SpuriousReturn(w)
  <2>1. PICK w \in Workers : WorkerStep(w) \/ SpuriousReturn(w)
    BY <1>1
  <2>2. w \in Procs /\ w # Dropper
    BY PoolAssumption DEF Procs
  <2>3. CASE SpuriousReturn(w)
    BY <2>2, <2>3, SetLabel DEF SpuriousReturn, Goto, flags, queues, locals, Typed,
       Shared, Queues, Locals, Label, WorkerPc, PublishedPc, WakingPc
  <2>4. QED
    BY <2>1, <2>2, <2>3, CallTyped, SearchTyped, IdlePathTyped, RunJobTyped DEF WorkerStep
<1>2. CASE \E p \in Producers : ProducerCall(p) \/ Submit(p) \/ PushSlot(p)
  BY <1>2, CallTyped, ProducerTyped DEF ProducerCall, Procs
<1>3. CASE \/ AcquireSmt \/ ReleaseSmt \/ DropArena \/ DropStep
  BY <1>3, CallTyped, ArenaTyped DEF DropStep, Procs
<1>4. CASE UNCHANGED vars
  BY <1>4 DEF vars, flags, queues, locals, Typed, Shared, Queues, Locals, Walks, Back
<1>5. QED
  BY <1>1, <1>2, <1>3, <1>4 DEF Next, Terminated

=============================================================================
