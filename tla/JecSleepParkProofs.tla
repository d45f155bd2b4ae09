------------------------- MODULE JecSleepParkProofs -------------------------
(***************************************************************************)
(* Theorems about what may be missed while a worker goes to sleep: its     *)
(* mail, its unpark, and the shutdown of the arena.  They rest on the      *)
(* typing and on the claims proved in JecSleepProofs.                      *)
(***************************************************************************)
EXTENDS JecSleepProofs

\* The end of the spin window is reached only over a sleepy snapshot.
RoundsInv ==
  \A w \in Workers :
    /\ idle[w].rounds = RoundsUntilSleepy + 1 => idle[w].jc # Dummy /\ IsSleepy(idle[w].jc)
    /\ pc[w] \in {"sleep", "register"} => idle[w].rounds = RoundsUntilSleepy + 1

\* Mail is there before its flag: until the flag is set, a push is on its
\* way to set it and then to wake the worker.
MailMarked ==
  \A w \in Workers : mailbox[w] > 0 /\ ~mailUsed => Claimed(w, "mark")
MailInv == MailMarked /\ MailNotStranded

\* A worker past its recheck of the shutdown flag that nobody has claimed.
Deaf(w) == /\ state[w] = "sleeping"
           /\ pc[w] \in {"recheckInjector", "recheckHead", "recheckMailbox", "park", "parked"}

\* The sweep has passed worker w.
Swept(w) ==
  \/ pc[Dropper] \in {"join", "done"}
  \/ pc[Dropper] = "claim" /\ w < wake[Dropper].at
  \/ pc[Dropper] \in {"release", "awaken", "unpark"} /\ w <= wake[Dropper].at

\* The sweep goes over every worker, and leaves none of them deaf.
SweepInv ==
  /\ pc[Dropper] \notin {"idle", "flag"} => sleepShutdown
  /\ pc[Dropper] \in {"claim", "release", "awaken", "unpark"} =>
       /\ wake[Dropper].last = NWorkers - 1
       /\ wake[Dropper].at + wake[Dropper].num >= NWorkers
  /\ \A w \in Workers : Swept(w) => ~Deaf(w)

ParkInv == RoundsInv /\ ReleasedIsUnparked /\ MailInv /\ SweepInv

SleepPc == PublishedPc \cup {"sleep", "register"}
WalkPc  == {"mark", "target", "claim", "release", "awaken", "unpark"}

\* A step of a thread other than the dropper that is neither in `sleep` nor
\* waking, before or after it, and adds no mail.
Plain(p) ==
  /\ UNCHANGED <<state, permit, mailUsed, sleepShutdown, idle>>
  /\ \A w \in Workers : mailbox'[w] > 0 => mailbox[w] > 0
  /\ \A q \in Procs : q # p => pc'[q] = pc[q] /\ wake'[q] = wake[q]
  /\ p # Dropper /\ pc[p] \notin WalkPc /\ pc'[p] \notin WalkPc
  /\ p \in Workers => pc[p] \notin SleepPc /\ pc'[p] \notin SleepPc

LEMMA InitParkInv == ASSUME Init PROVE ParkInv
<1> USE PoolAssumption, BoundAssumption DEF Init, Procs
<1>1. RoundsInv
  BY DEF RoundsInv, NotLooking
<1>2. ReleasedIsUnparked
  BY DEF ReleasedIsUnparked
<1>3. MailInv
  BY DEF MailInv, MailMarked, MailNotStranded
<1>4. SweepInv
  BY DEF SweepInv, Swept
<1>5. QED
  BY <1>1, <1>2, <1>3, <1>4 DEF ParkInv

LEMMA PlainParkInv ==
  ASSUME Typed, ParkInv, NEW p \in Procs, Plain(p)
  PROVE  ParkInv'
<1> USE DEF ParkInv, PublishedPc, SleepPc, WalkPc
<1>1. \A l \in {"mark", "target", "claim", "unpark"}, w \in Workers :
        Claimed(w, l)' <=> Claimed(w, l)
  BY DEF Plain, Claimed
<1>2. RoundsInv'
  BY DEF Plain, RoundsInv, Procs
<1>3. ReleasedIsUnparked'
  BY <1>1 DEF Plain, ReleasedIsUnparked, Procs
<1>4. \A w \in Workers : /\ mailbox'[w] > 0 => mailbox[w] > 0
                         /\ Asleep(w)' <=> Asleep(w)
                         /\ Delivering(w) => Delivering(w)'
  BY DEF Plain, Asleep, Delivering, Procs, Typed, Queues
<1>5. MailInv'
  BY <1>1, <1>4 DEF Plain, MailInv, MailMarked, MailNotStranded
<1>6. SweepInv'
  BY DEF Plain, SweepInv, Swept, Deaf, Procs
<1>7. QED
  BY <1>2, <1>3, <1>5, <1>6

LEMMA SearchPlain ==
  ASSUME Typed, NEW w \in Workers, \/ LoopTop(w)
                 \/ GateOpens(w)
                 \/ GateShutdown(w)
                 \/ ProbeMailbox(w)
                 \/ ProbeOwn(w)
                 \/ ProbeInjector(w)
                 \/ ProbeSlot(w)
                 \/ StealFromPeer(w)
                 \/ MissPeers(w)
                 \/ CheckInjector(w)
                 \/ CheckMailbox(w)
                 \/ FinishJob(w)
                 \/ ReadOwnEmpty(w)
                 \/ PushOwnDeque(w)
  PROVE  Plain(w)
<1> USE DEF PublishedPc, SleepPc, WalkPc
<1>0. w \in Procs /\ w # Dropper
  BY PoolAssumption DEF Procs
<1>1. CASE LoopTop(w)
  BY <1>0, <1>1 DEF Typed, Queues, Plain, Goto, locals, flags, queues, LoopTop
<1>2. CASE GateOpens(w)
  BY <1>0, <1>2 DEF Typed, Queues, Plain, Goto, locals, flags, queues, GateOpens
<1>3. CASE GateShutdown(w)
  BY <1>0, <1>3 DEF Typed, Queues, Plain, Goto, locals, flags, queues, GateShutdown
<1>4. CASE ProbeMailbox(w)
  BY <1>0, <1>4 DEF Typed, Queues, Plain, Goto, locals, flags, queues, ProbeMailbox
<1>5. CASE ProbeOwn(w)
  BY <1>0, <1>5 DEF Typed, Queues, Plain, Goto, locals, flags, queues, ProbeOwn, ProbeDeque
<1>6. CASE ProbeInjector(w)
  BY <1>0, <1>6 DEF Typed, Queues, Plain, Goto, locals, flags, queues, ProbeInjector
<1>7. CASE ProbeSlot(w)
  BY <1>0, <1>7 DEF Typed, Queues, Plain, Goto, locals, flags, queues, ProbeSlot, ProbeDeque
<1>8. CASE StealFromPeer(w)
  BY <1>0, <1>8 DEF Typed, Queues, Plain, Goto, locals, flags, queues, StealFromPeer
<1>9. CASE MissPeers(w)
  BY <1>0, <1>9 DEF Typed, Queues, Plain, Goto, locals, flags, queues, MissPeers
<1>10. CASE CheckInjector(w)
  BY <1>0, <1>10 DEF Typed, Queues, Plain, Goto, locals, flags, queues, CheckInjector, AskInjector, ReadTail, ReadHead
<1>11. CASE CheckMailbox(w)
  BY <1>0, <1>11 DEF Typed, Queues, Plain, Goto, locals, flags, queues, CheckMailbox, AskMailbox
<1>12. CASE FinishJob(w)
  BY <1>0, <1>12 DEF Typed, Queues, Plain, Goto, locals, flags, queues, FinishJob
<1>13. CASE ReadOwnEmpty(w)
  BY <1>0, <1>13 DEF Typed, Queues, Plain, Goto, locals, flags, queues, ReadOwnEmpty
<1>14. CASE PushOwnDeque(w)
  BY <1>0, <1>14 DEF Typed, Queues, Plain, Goto, locals, flags, queues, PushOwnDeque
<1>15. QED
  BY <1>1, <1>2, <1>3, <1>4, <1>5, <1>6, <1>7, <1>8, <1>9, <1>10, <1>11, <1>12, <1>13, <1>14

LEMMA ProducerPlain ==
  ASSUME Typed, NEW p \in Producers,
         ReadEmpty(p) \/ PushInjector(p) \/ Submit(p) \/ PushSlot(p)
  PROVE  Plain(p)
<1> USE DEF PublishedPc, SleepPc, WalkPc
<1>0. p \in Procs /\ p # Dropper /\ p \notin Workers
  BY PoolAssumption DEF Procs
<1>1. CASE ReadEmpty(p)
  BY <1>0, <1>1 DEF Typed, Queues, Plain, Goto, flags, queues, ReadEmpty, ReadTail, ReadHead
<1>2. CASE PushInjector(p)
  BY <1>0, <1>2 DEF Typed, Queues, Plain, Goto, locals, flags, PushInjector
<1>3. CASE Submit(p) \/ PushSlot(p)
  BY <1>0, <1>3 DEF Typed, Queues, Plain, Goto, locals, flags, Submit, PushSlot
<1>4. QED
  BY <1>1, <1>2, <1>3

DeafPc == {"recheckInjector", "recheckHead", "recheckMailbox", "park", "parked"}

\* What a move of worker w to label l in `sleep` must respect.
MayMove(w, l) ==
  /\ pc[w] \notin WalkPc /\ l \notin WalkPc
  /\ l = "parked" /\ pc[w] # "parked" => state[w] # "awake"
  /\ l \in {"park", "parked"} /\ state[w] = "sleeping" =>
       pc[w] \in {"park", "parked"} \/ ~(mailUsed /\ mailbox[w] > 0)
  /\ l \in DeafPc /\ state[w] = "sleeping" => pc[w] \in DeafPc \/ ~sleepShutdown

(* A worker moves through `sleep` and its idle state changes with it.      *)
LEMMA MoveParkInv ==
  ASSUME Typed, WordInv, ParkInv, NEW w \in Workers, NEW l, NEW i \in IdleRec,
         pc' = [pc EXCEPT ![w] = l], idle' = [idle EXCEPT ![w] = i],
         UNCHANGED <<state, permit, mailbox, mailUsed, sleepShutdown, wake>>,
         MayMove(w, l),
         i.rounds = RoundsUntilSleepy + 1 => i.jc # Dummy /\ IsSleepy(i.jc),
         l \in {"sleep", "register"} => i.rounds = RoundsUntilSleepy + 1
  PROVE  ParkInv'
<1> USE DEF ParkInv, WalkPc, MayMove
<1>0. w \in Procs /\ w # Dropper
  BY PoolAssumption DEF Procs
<1>1. /\ pc \in [Procs -> Label] /\ idle \in [Workers -> IdleRec]
      /\ mailbox \in [Workers -> Nat]
  BY DEF Typed, Locals, IdleRec, Queues
<1>2. \A m \in WalkPc, v \in Workers : Claimed(v, m)' <=> Claimed(v, m)
  BY <1>0, <1>1 DEF Claimed
<1>3. RoundsInv'
  BY <1>0, <1>1 DEF RoundsInv
<1>4. ReleasedIsUnparked'
  BY <1>0, <1>1, <1>2 DEF ReleasedIsUnparked
<1>5. MailMarked'
  BY <1>2 DEF MailMarked, MailInv
<1>6. \A v \in Workers : Delivering(v)' <=> Delivering(v)
  BY <1>0, <1>1 DEF Delivering
<1>7. \A v \in Workers : Claimed(v, "mark") => Delivering(v)
  BY DEF Claimed, Delivering
<1>8. MailNotStranded'
  BY <1>0, <1>1, <1>6, <1>7 DEF MailInv, MailMarked, MailNotStranded, Asleep
<1>9. SweepInv'
  <2>1. pc'[Dropper] = pc[Dropper] /\ wake'[Dropper] = wake[Dropper]
    BY <1>0, <1>1
  <2>2. \A v \in Workers : Swept(v)' <=> Swept(v)
    BY <2>1 DEF Swept
  <2>3. \A v \in Workers : Swept(v) => sleepShutdown
    BY DEF Swept, SweepInv
  <2>4. \A v \in Workers : Swept(v) => ~Deaf(v)'
    BY <1>0, <1>1, <2>3 DEF Deaf, DeafPc, SweepInv
  <2>5. QED
    BY <2>1, <2>2, <2>4 DEF SweepInv
<1>10. QED
  BY <1>3, <1>4, <1>5, <1>8, <1>9 DEF MailInv

LEMMA MoveOnly ==
  ASSUME Typed, WordInv, ParkInv, NEW w \in Workers, NEW l,
         pc' = [pc EXCEPT ![w] = l], idle' = idle,
         UNCHANGED <<state, permit, mailbox, mailUsed, sleepShutdown, wake>>,
         MayMove(w, l),
         l \in {"sleep", "register"} => idle[w].rounds = RoundsUntilSleepy + 1
  PROVE  ParkInv'
<1>1. idle[w] \in IdleRec /\ idle' = [idle EXCEPT ![w] = idle[w]]
  BY DEF Typed, Locals, IdleRec
<1>2. QED
  BY <1>1, MoveParkInv DEF ParkInv, RoundsInv

LEMMA MoveIdle ==
  ASSUME Typed, WordInv, ParkInv, NEW w \in Workers, NEW l, l \notin {"sleep", "register"},
         NEW r \in 0 .. RoundsUntilSleepy + 1, NEW j \in 0 .. Dummy,
         pc' = [pc EXCEPT ![w] = l], SetIdle(w, r, j),
         UNCHANGED <<state, permit, mailbox, mailUsed, sleepShutdown, wake>>,
         MayMove(w, l), r = RoundsUntilSleepy + 1 => j # Dummy /\ IsSleepy(j)
  PROVE  ParkInv'
<1> DEFINE i == [looking |-> idle[w].looking, rounds |-> r, jc |-> j]
<1>1. i \in IdleRec /\ idle' = [idle EXCEPT ![w] = i]
  BY DEF Typed, Locals, IdleRec, SetIdle
<1>2. QED
  BY <1>1, MoveParkInv

LEMMA IdleParkInv ==
  ASSUME Typed, WordInv, ParkInv, NEW w \in Workers,
         \/ StartLooking(w) \/ IdleRound(w) \/ AnnounceSleepy(w) \/ WindowOver(w)
         \/ CheckShutdown(w) \/ Register(w) \/ Unregister(w)
  PROVE  ParkInv'
<1> USE DEF flags, queues, locals, WalkPc, DeafPc, MayMove
<1>1. /\ RoundsUntilSleepy \in 0 .. RoundsUntilSleepy + 1 /\ 0 \in 0 .. RoundsUntilSleepy + 1
      /\ RoundsUntilSleepy + 1 \in 0 .. RoundsUntilSleepy + 1
      /\ RoundsUntilSleepy # RoundsUntilSleepy + 1 /\ 0 # RoundsUntilSleepy + 1
      /\ Dummy \in 0 .. Dummy
  BY BoundAssumption DEF Dummy
<1>2. CASE StartLooking(w)
  <2> DEFINE i == [looking |-> TRUE, rounds |-> 0, jc |-> Dummy]
  <2>1. i \in IdleRec /\ i.rounds # RoundsUntilSleepy + 1
    BY IdleRecs, <1>1
  <2>2. QED
    BY <1>2, <2>1, MoveParkInv DEF StartLooking, Goto
<1>3. CASE IdleRound(w)
  <2> DEFINE r == Least(idle[w].rounds + 1, RoundsUntilSleepy + 1)
             j == idle[w].jc
  <2>1. /\ r \in 0 .. RoundsUntilSleepy + 1 /\ j \in 0 .. Dummy
        /\ r = RoundsUntilSleepy + 1 => idle[w].rounds = RoundsUntilSleepy + 1
    BY <1>3, BoundAssumption, IdleRecs DEF IdleRec, IdleRound, Least
  <2>2. r = RoundsUntilSleepy + 1 => j # Dummy /\ IsSleepy(j)
    BY <2>1 DEF ParkInv, RoundsInv
  <2>3. QED
    BY <1>3, <2>1, <2>2, MoveIdle DEF IdleRound, Goto
<1>4. CASE AnnounceSleepy(w)
  <2> DEFINE j == IF IsSleepy(counters.jec) THEN counters.jec ELSE NextJec(counters.jec)
  <2>1. j \in 0 .. Dummy /\ j # Dummy
    BY IdleRecs, BoundAssumption DEF Typed, Shared, Dummy
  <2>2. IsSleepy(j)
    BY BoundAssumption DEF Typed, Shared, NextJec, IsSleepy
  <2>3. SetIdle(w, RoundsUntilSleepy + 1, j)
    BY <1>4 DEF AnnounceSleepy
  <2>4. QED
    BY <1>1, <1>4, <2>1, <2>2, <2>3, MoveIdle DEF AnnounceSleepy, Goto
<1>5. CASE WindowOver(w)
  <2>1. idle[w].rounds = RoundsUntilSleepy + 1
    BY <1>5, BoundAssumption, IdleRecs DEF IdleRec, WindowOver
  <2>2. QED
    BY <1>5, <2>1, MoveOnly DEF WindowOver, Goto
<1>6. CASE CheckShutdown(w)
  <2>1. CASE sleepShutdown
    BY <1>1, <1>6, <2>1, MoveIdle DEF CheckShutdown, WakePartly, Goto
  <2>2. CASE ~sleepShutdown
    <3>1. idle[w].rounds = RoundsUntilSleepy + 1
      BY <1>6 DEF CheckShutdown, ParkInv, RoundsInv
    <3>2. QED
      BY <1>6, <2>2, <3>1, MoveOnly DEF CheckShutdown, Goto
  <2>3. QED
    BY <2>1, <2>2
<1>7. CASE Register(w)
  <2>1. CASE counters.jec # idle[w].jc
    BY <1>1, <1>7, <2>1, MoveIdle DEF Register, WakePartly, Goto
  <2>2. CASE counters.jec = idle[w].jc
    BY <1>7, <2>2, MoveOnly DEF Register, Goto
  <2>3. QED
    BY <2>1, <2>2
<1>8. CASE Unregister(w)
  BY <1>1, <1>8, MoveIdle DEF Unregister, WakeFully, Goto
<1>9. QED
  BY <1>2, <1>3, <1>4, <1>5, <1>6, <1>7, <1>8

LEMMA RecheckParkInv ==
  ASSUME Typed, WordInv, ParkInv, NEW w \in Workers,
         \/ RecheckShutdown(w) \/ RecheckInjector(w) \/ RecheckMailbox(w)
         \/ ParkLoop(w) \/ SpuriousReturn(w)
         \/ Rescue(w) /\ state[w] # "sleeping"
  PROVE  ParkInv'
<1> USE DEF flags, queues, locals, WalkPc, DeafPc, MayMove
<1>1. CASE RecheckShutdown(w)
  BY <1>1, MoveOnly DEF RecheckShutdown, Goto
<1>2. CASE RecheckInjector(w)
  <2>1. PICK l \in {"recheckHead", "recheckMailbox", "rescue"} : pc' = [pc EXCEPT ![w] = l]
    BY <1>2 DEF RecheckInjector, AskInjector, ReadTail, ReadHead, Goto
  <2>2. /\ pc[w] \in {"recheckInjector", "recheckHead"} /\ idle' = idle
        /\ UNCHANGED <<state, permit, mailbox, mailUsed, sleepShutdown, wake>>
    BY <1>2 DEF RecheckInjector, AskInjector, ReadTail, ReadHead
  <2>3. QED
    BY <2>1, <2>2, MoveOnly
<1>3. CASE RecheckMailbox(w)
  BY <1>3, MoveOnly DEF RecheckMailbox, AskMailbox, Goto
<1>4. CASE ParkLoop(w)
  <2>1. CASE state[w] = "awake"
    <3>1. 0 \in 0 .. RoundsUntilSleepy + 1 /\ 0 # RoundsUntilSleepy + 1 /\ Dummy \in 0 .. Dummy
      BY BoundAssumption DEF Dummy
    <3>2. QED
      BY <1>4, <2>1, <3>1, MoveIdle DEF ParkLoop, WakeFully, Goto
  <2>2. CASE state[w] # "awake"
    BY <1>4, <2>2, MoveOnly DEF ParkLoop, Goto
  <2>3. QED
    BY <2>1, <2>2
<1>5. CASE SpuriousReturn(w)
  BY <1>5, MoveOnly DEF SpuriousReturn, Goto
<1>6. CASE Rescue(w) /\ state[w] # "sleeping"
  BY <1>6, MoveOnly DEF Rescue, Goto
<1>7. QED
  BY <1>1, <1>2, <1>3, <1>4, <1>5, <1>6

LEMMA WordParkInv ==
  ASSUME Typed, WordInv, ParkInv, NEW w \in Workers,
         \/ Publish(w)
         \/ Rescue(w) /\ state[w] = "sleeping"
         \/ ParkReturns(w)
         \/ MarkUsed(w)
         \/ WakeWorker(w)
         \/ \E t \in Workers : PushMailbox(w, t)
  PROVE  ParkInv'
<1> USE DEF ParkInv, PublishedPc
<1>0. w \in Procs /\ w # Dropper
  BY PoolAssumption DEF Procs
<1>1. CASE Publish(w)
  <2>1. RoundsInv'
    BY <1>0, <1>1 DEF RoundsInv, Typed, Shared, Locals, Goto, locals, Publish
  <2>2. ReleasedIsUnparked'
    BY <1>0, <1>1 DEF ReleasedIsUnparked, Claimed, Typed, Shared, Walks, WordInv, Goto,
       locals, Publish
  <2>3. MailInv'
    BY <1>0, <1>1 DEF MailInv, MailMarked, MailNotStranded, Asleep, Delivering, Claimed,
       Typed, Shared, Queues, Walks, WordInv, Goto, locals, queues, Publish
  <2>4. SweepInv'
    BY <1>0, <1>1 DEF SweepInv, Swept, Deaf, Typed, Shared, Walks, WordInv, DropperPc, Goto,
       locals, flags, Publish
  <2>5. QED
    BY <2>1, <2>2, <2>3, <2>4
<1>2. CASE Rescue(w) /\ state[w] = "sleeping"
  <2>0. /\ pc[w] = "rescue" /\ pc' = [pc EXCEPT ![w] = "unregister"]
        /\ state' = [state EXCEPT ![w] = "awake"]
        /\ UNCHANGED <<permit, mailbox, mailUsed, sleepShutdown, wake, idle>>
    BY <1>2 DEF Goto, locals, flags, queues, Rescue
  <2>1. RoundsInv'
    BY <1>0, <2>0 DEF RoundsInv, Typed, Shared, Locals, Goto, locals, Rescue
  <2>2. ReleasedIsUnparked'
    BY <1>0, <2>0 DEF ReleasedIsUnparked, Claimed, Typed, Shared, Walks, WordInv, Goto,
       locals, Rescue
  <2>3. MailInv'
    BY <1>0, <2>0 DEF MailInv, MailMarked, MailNotStranded, Asleep, Delivering, Claimed,
       Typed, Shared, Queues, Walks, WordInv, Goto, locals, queues, Rescue
  <2>4. SweepInv'
    BY <1>0, <2>0 DEF SweepInv, Swept, Deaf, Typed, Shared, Walks, WordInv, DropperPc, Goto,
       locals, flags, Rescue
  <2>5. QED
    BY <2>1, <2>2, <2>3, <2>4
<1>3. CASE ParkReturns(w)
  <2>1. RoundsInv'
    BY <1>0, <1>3 DEF RoundsInv, Typed, Shared, Locals, Goto, locals, ParkReturns
  <2>2. ReleasedIsUnparked'
    BY <1>0, <1>3 DEF ReleasedIsUnparked, Claimed, Typed, Shared, Walks, WordInv, Goto,
       locals, ParkReturns
  <2>3. MailInv'
    BY <1>0, <1>3 DEF MailInv, MailMarked, MailNotStranded, Asleep, Delivering, Claimed,
       Typed, Shared, Queues, Walks, WordInv, Goto, locals, queues, ParkReturns
  <2>4. SweepInv'
    BY <1>0, <1>3 DEF SweepInv, Swept, Deaf, Typed, Shared, Walks, WordInv, DropperPc, Goto,
       locals, flags, ParkReturns
  <2>5. QED
    BY <2>1, <2>2, <2>3, <2>4
<1>4. CASE MarkUsed(w)
  <2>1. RoundsInv'
    BY <1>0, <1>4 DEF RoundsInv, Typed, Shared, Locals, Goto, locals, MarkUsed
  <2>2. ReleasedIsUnparked'
    BY <1>0, <1>4 DEF ReleasedIsUnparked, Claimed, Typed, Shared, Walks, WordInv, Goto,
       locals, MarkUsed
  <2>3. MailInv'
    BY <1>0, <1>4 DEF MailInv, MailMarked, MailNotStranded, Asleep, Delivering, Claimed,
       Typed, Shared, Queues, Walks, WordInv, Goto, locals, queues, MarkUsed
  <2>4. SweepInv'
    BY <1>0, <1>4 DEF SweepInv, Swept, Deaf, Typed, Shared, Walks, WordInv, DropperPc, Goto,
       locals, flags, MarkUsed
  <2>5. QED
    BY <2>1, <2>2, <2>3, <2>4
<1>5. CASE WakeWorker(w) /\ state[wake[w].at] = "sleeping"
  <2>0. /\ pc[w] = "target" /\ pc' = [pc EXCEPT ![w] = "claim"]
        /\ UNCHANGED <<state, permit, mailbox, mailUsed, sleepShutdown, wake, idle>>
    BY <1>5 DEF Goto, locals, flags, queues, WakeWorker
  <2>1. RoundsInv'
    BY <1>0, <2>0 DEF RoundsInv, Typed, Shared, Locals, Goto, locals, WakeWorker
  <2>2. ReleasedIsUnparked'
    BY <1>0, <2>0 DEF ReleasedIsUnparked, Claimed, Typed, Shared, Walks, WordInv, Goto,
       locals, WakeWorker
  <2>3. MailInv'
    BY <1>0, <2>0 DEF MailInv, MailMarked, MailNotStranded, Asleep, Delivering, Claimed,
       Typed, Shared, Queues, Walks, WordInv, Goto, locals, queues, WakeWorker
  <2>4. SweepInv'
    BY <1>0, <2>0 DEF SweepInv, Swept, Deaf, Typed, Shared, Walks, WordInv, DropperPc, Goto,
       locals, flags, WakeWorker
  <2>5. QED
    BY <2>1, <2>2, <2>3, <2>4
<1>6. CASE WakeWorker(w) /\ state[wake[w].at] # "sleeping"
  <2>0. /\ pc[w] = "target" /\ pc' = [pc EXCEPT ![w] = "run"]
        /\ wake' = [wake EXCEPT ![w] = NoWake] /\ state[wake[w].at] # "sleeping"
        /\ UNCHANGED <<state, permit, mailbox, mailUsed, sleepShutdown, idle>>
    BY <1>6 DEF Goto, locals, flags, queues, WakeWorker
  <2>1. RoundsInv'
    BY <1>0, <2>0 DEF RoundsInv, Typed, Shared, Locals, Goto, locals, WakeWorker
  <2>2. ReleasedIsUnparked'
    BY <1>0, <2>0 DEF ReleasedIsUnparked, Claimed, Typed, Shared, Walks, WordInv, Goto,
       locals, WakeWorker
  <2>3. MailInv'
    BY <1>0, <2>0 DEF MailInv, MailMarked, MailNotStranded, Asleep, Delivering, Claimed,
       Typed, Shared, Queues, Walks, WordInv, Goto, locals, queues, WakeWorker
  <2>4. SweepInv'
    BY <1>0, <2>0 DEF SweepInv, Swept, Deaf, Typed, Shared, Walks, WordInv, DropperPc, Goto,
       locals, flags, WakeWorker
  <2>5. QED
    BY <2>1, <2>2, <2>3, <2>4
<1>7. CASE \E t \in Workers : PushMailbox(w, t)
  <2>1. RoundsInv'
    BY <1>0, <1>7 DEF RoundsInv, Typed, Shared, Locals, Goto, locals, PushMailbox
  <2>2. ReleasedIsUnparked'
    BY <1>0, <1>7 DEF ReleasedIsUnparked, Claimed, Typed, Shared, Walks, WordInv, Goto,
       locals, PushMailbox
  <2>3. MailInv'
    BY <1>0, <1>7 DEF MailInv, MailMarked, MailNotStranded, Asleep, Delivering, Claimed,
       Typed, Shared, Queues, Walks, WordInv, Goto, locals, queues, PushMailbox
  <2>4. SweepInv'
    BY <1>0, <1>7 DEF SweepInv, Swept, Deaf, Typed, Shared, Walks, WordInv, DropperPc, Goto,
       locals, flags, PushMailbox
  <2>5. QED
    BY <2>1, <2>2, <2>3, <2>4
<1>8. QED
  BY <1>1, <1>2, <1>3, <1>4, <1>5, <1>6, <1>7

(* A walk that begins does not touch what the worker may miss.             *)
LEMMA WalkBegins ==
  ASSUME Typed, WordInv, ParkInv, NEW p \in Procs, p # Dropper,
         pc[p] \notin WalkPc, p \in Workers => pc[p] \notin SleepPc,
         pc'[p] \notin {"sleep", "register"} \cup PublishedPc \cup {"mark"},
         pc'[p] \notin {"release", "awaken", "unpark"},
         \A q \in Procs : q # p => pc'[q] = pc[q] /\ wake'[q] = wake[q],
         UNCHANGED <<state, permit, mailbox, mailUsed, sleepShutdown>>,
         \A w \in Workers : idle'[w] = idle[w] \/ (idle'[w].rounds # RoundsUntilSleepy + 1 /\ w = p)
  PROVE  ParkInv'
<1> USE DEF ParkInv, WalkPc, SleepPc, PublishedPc
<1>1. \A m \in {"mark", "unpark"}, v \in Workers : Claimed(v, m)' <=> Claimed(v, m)
  BY DEF Claimed
<1>2. \A v \in Workers : Delivering(v) => Delivering(v)'
  BY DEF Delivering
<1>3. \A v \in Workers : (pc'[v] \in SleepPc \/ pc[v] \in SleepPc) => v # p /\ pc'[v] = pc[v]
  BY DEF Procs
<1>4. RoundsInv'
  BY <1>3 DEF RoundsInv
<1>5. ReleasedIsUnparked'
  BY <1>1, <1>3 DEF ReleasedIsUnparked
<1>6. MailInv'
  BY <1>1, <1>2, <1>3 DEF MailInv, MailMarked, MailNotStranded, Asleep
<1>7. SweepInv'
  BY <1>3 DEF SweepInv, Swept, Deaf, Procs
<1>8. QED
  BY <1>4, <1>5, <1>6, <1>7

LEMMA FoundParkInv ==
  ASSUME Typed, WordInv, ParkInv, NEW w \in Workers, Found(w) \/ Leave(w)
  PROVE  ParkInv'
<1>0. w \in Procs /\ w # Dropper
  BY PoolAssumption DEF Procs
<1>1. PICK then \in {"run", "done"} : WorkFound(w, then)
  BY DEF Found, Leave
<1>2. /\ pc[w] \in {"found", "leave"}
      /\ UNCHANGED <<state, permit, mailbox, mailUsed, sleepShutdown>>
  BY DEF Found, Leave, flags, queues
<1>3. CASE idle[w].looking
  <2>1. /\ idle' = [idle EXCEPT ![w] = NotLooking]
        /\ StartWake(w, 0, NWorkers - 1, Least(counters.sleeping, 2), then)
    BY <1>1, <1>3 DEF WorkFound
  <2>2. /\ \A q \in Procs : q # w => pc'[q] = pc[q] /\ wake'[q] = wake[q]
        /\ pc'[w] \in {"claim", then}
    BY <1>0, <2>1, StartWakeEffect
  <2>3. \A v \in Workers : idle'[v] = idle[v] \/ (idle'[v].rounds # RoundsUntilSleepy + 1 /\ v = w)
    <3>1. idle \in [Workers -> IdleRec]
      BY DEF Typed, Locals, IdleRec
    <3>2. NotLooking.rounds # RoundsUntilSleepy + 1
      BY BoundAssumption DEF NotLooking
    <3>3. idle'[w] = NotLooking /\ \A v \in Workers : v # w => idle'[v] = idle[v]
      BY <2>1, <3>1
    <3>4. QED
      BY <3>2, <3>3
  <2>4. QED
    BY <1>0, <1>2, <2>2, <2>3, WalkBegins DEF WalkPc, SleepPc, PublishedPc
<1>4. CASE ~idle[w].looking
  BY <1>1, <1>2, <1>4, MoveOnly DEF WorkFound, Goto, MayMove, WalkPc, DeafPc
<1>5. QED
  BY <1>3, <1>4

LEMMA NotifyParkInv ==
  ASSUME Typed, WordInv, ParkInv, NEW p \in Procs, Notify(p)
  PROVE  ParkInv'
<1>1. pc[p] = "notify" /\ p # Dropper
  BY DEF Notify, Typed, Walks, DropperPc
<1>2. /\ \A q \in Procs : q # p => pc'[q] = pc[q] /\ wake'[q] = wake[q]
      /\ pc'[p] \in {"claim", "run", "idle"}
  BY StartWakeEffect DEF Notify
<1>3. /\ UNCHANGED <<state, permit, mailbox, mailUsed, sleepShutdown>>
      /\ \A w \in Workers : idle'[w] = idle[w] \/ (idle'[w].rounds # RoundsUntilSleepy + 1 /\ w = p)
  BY DEF Notify, flags, queues
<1>4. /\ pc[p] \notin WalkPc /\ pc[p] \notin SleepPc
      /\ pc'[p] \notin {"sleep", "register"} \cup PublishedPc \cup {"mark"}
      /\ pc'[p] \notin {"release", "awaken", "unpark"}
  BY <1>1, <1>2 DEF WalkPc, SleepPc, PublishedPc
<1>5. QED
  BY <1>1, <1>2, <1>3, <1>4, WalkBegins

(* Where a walk goes after a worker.                                       *)
LEMMA WalkOnCases ==
  ASSUME Typed, NEW p \in Procs, NEW n \in {0, 1}, pc[p] \in WakingPc, WalkOn(p, n)
  PROVE  /\ \A q \in Procs : q # p => pc'[q] = pc[q] /\ wake'[q] = wake[q]
         /\ \/ /\ wake[p].at = wake[p].last \/ wake[p].num = n
               /\ pc'[p] \in Back(p)
            \/ /\ wake[p].at < wake[p].last /\ pc'[p] = "claim"
               /\ wake'[p].at = wake[p].at + 1 /\ wake'[p].last = wake[p].last
               /\ wake'[p].num = wake[p].num - n
<1> DEFINE w == wake[p]
           v == [w EXCEPT !.at = @ + 1, !.num = @ - n]
<1>1. /\ w \in Walk /\ w.at <= w.last /\ w.then \in Back(p)
      /\ pc \in [Procs -> Label] /\ wake \in [Procs -> Walk]
  BY DEF Typed, Walks
<1>2. CASE w.at = w.last \/ w.num = n
  BY <1>1, <1>2 DEF WalkOn, Goto
<1>3. CASE ~(w.at = w.last \/ w.num = n)
  <2>1. pc' = [pc EXCEPT ![p] = "claim"] /\ wake' = [wake EXCEPT ![p] = v]
    BY <1>3 DEF WalkOn, Goto
  <2>2. v.at = w.at + 1 /\ v.last = w.last /\ v.num = w.num - n
    BY <1>1 DEF Walk
  <2>3. w.at < w.last
    BY <1>1, <1>3 DEF Walk, Workers
  <2>4. wake'[p] = v
    BY <1>1, <2>1
  <2>5. /\ wake'[p].at = wake[p].at + 1 /\ wake'[p].last = wake[p].last
        /\ wake'[p].num = wake[p].num - n
    BY <2>2, <2>4
  <2>6. pc'[p] = "claim" /\ \A q \in Procs : q # p => pc'[q] = pc[q] /\ wake'[q] = wake[q]
    BY <1>1, <2>1
  <2>7. QED
    BY <2>3, <2>5, <2>6
<1>4. QED
  BY <1>2, <1>3

(* The sweep goes on, or ends having passed everyone.                      *)
LEMMA SweepGoesOn ==
  ASSUME Typed, SweepInv, NEW n \in {0, 1}, pc[Dropper] \in {"claim", "unpark"},
         WalkOn(Dropper, n), sleepShutdown' = sleepShutdown,
         \A w \in Workers : Deaf(w)' => Deaf(w),
         ~Deaf(wake[Dropper].at)
  PROVE  SweepInv'
<1> DEFINE at == wake[Dropper].at
<1>1. Dropper \in Procs /\ Back(Dropper) = {"join"}
  BY PoolAssumption DEF Procs, Back
<1>2. /\ wake[Dropper] \in Walk /\ wake[Dropper].num > 0
      /\ wake[Dropper].last = NWorkers - 1 /\ at + wake[Dropper].num >= NWorkers
      /\ sleepShutdown
  BY <1>1 DEF Typed, Walks, WakingPc, SweepInv
<1>3. \A w \in Workers : w <= at => ~Deaf(w)'
  BY <1>2 DEF SweepInv, Swept, Workers, Walk
<1>4. CASE pc'[Dropper] = "join"
  <2>1. at = NWorkers - 1
    BY <1>1, <1>2, <1>4, PoolAssumption, WalkOnCases DEF Walk, Workers, WakingPc
  <2>2. \A w \in Workers : ~Deaf(w)'
    BY <1>3, <2>1, PoolAssumption DEF Workers
  <2>3. QED
    BY <1>2, <1>4, <2>2 DEF SweepInv, Swept
<1>5. CASE pc'[Dropper] = "claim"
  <2>1. /\ wake'[Dropper].at = at + 1 /\ wake'[Dropper].last = NWorkers - 1
        /\ wake'[Dropper].num = wake[Dropper].num - n
    BY <1>1, <1>2, <1>5, WalkOnCases DEF WakingPc
  <2>2. at + 1 + (wake[Dropper].num - n) >= NWorkers
    BY <1>2, PoolAssumption DEF Walk, Workers
  <2>3. \A w \in Workers : w < at + 1 => ~Deaf(w)'
    BY <1>2, <1>3 DEF Workers, Walk
  <2>4. QED
    BY <1>2, <1>5, <2>1, <2>2, <2>3 DEF SweepInv, Swept
<1>6. QED
  BY <1>1, <1>4, <1>5, WalkOnCases DEF WakingPc

(* A thread other than the dropper does not move the sweep.                *)
LEMMA SweepStays ==
  ASSUME SweepInv, sleepShutdown' = sleepShutdown,
         pc'[Dropper] = pc[Dropper], wake'[Dropper] = wake[Dropper],
         \A w \in Workers : Deaf(w)' => Deaf(w)
  PROVE  SweepInv'
  BY DEF SweepInv, Swept

(* The steps of a wake.                                                    *)
LEMMA WakeParkInv ==
  ASSUME Typed, WordInv, ParkInv, NEW p \in Procs,
         Claim(p) \/ Release(p) \/ Awaken(p) \/ Unpark(p)
  PROVE  ParkInv'
<1> DEFINE w == wake[p].at
<1> USE DEF ParkInv
<1>1. /\ w \in Workers /\ pc \in [Procs -> Label] /\ Dropper \in Procs
      /\ state \in [Workers -> {"awake", "sleeping", "waking"}]
      /\ permit \in [Workers -> BOOLEAN]
  BY DEF Typed, Walks, Walk, Shared, Procs
<1>2. CASE Claim(p) /\ state[w] = "sleeping"
  <2>1. /\ pc[p] = "claim" /\ pc' = [pc EXCEPT ![p] = "release"]
        /\ state' = [state EXCEPT ![w] = "waking"]
        /\ UNCHANGED <<permit, mailbox, mailUsed, sleepShutdown, idle, wake>>
    BY <1>2 DEF Claim, Goto, flags, queues
  <2>2. RoundsInv'
    BY <1>1, <2>1 DEF RoundsInv
  <2>3. ReleasedIsUnparked'
    BY <1>1, <2>1 DEF ReleasedIsUnparked, Claimed
  <2>4. MailInv'
    BY <1>1, <2>1 DEF MailInv, MailMarked, MailNotStranded, Asleep, Delivering, Claimed
  <2>5. \A v \in Workers : Deaf(v)' => Deaf(v) /\ v # w
    BY <1>1, <2>1 DEF Deaf
  <2>6. SweepInv'
    <3>1. CASE p = Dropper
      BY <1>1, <2>1, <2>5, <3>1 DEF SweepInv, Swept, Workers
    <3>2. CASE p # Dropper
      BY <1>1, <2>1, <2>5, <3>2, SweepStays
    <3>3. QED
      BY <3>1, <3>2
  <2>7. QED
    BY <2>2, <2>3, <2>4, <2>6
<1>3. CASE Claim(p) /\ state[w] # "sleeping"
  <2>1. /\ pc[p] = "claim" /\ WalkOn(p, 0)
        /\ UNCHANGED <<state, permit, mailbox, mailUsed, sleepShutdown, idle>>
    BY <1>3 DEF Claim, flags, queues
  <2>2. /\ \A q \in Procs : q # p => pc'[q] = pc[q] /\ wake'[q] = wake[q]
        /\ pc'[p] \in {"claim"} \cup Back(p)
    BY <2>1, WalkOnEffect DEF WakingPc
  <2>3. p \in Workers => Back(p) = {"run", "done"}
    BY DEF Back
  <2>4. pc'[p] \notin {"mark", "unpark", "parked", "park"}
    BY <2>2 DEF Back
  <2>5. RoundsInv'
    BY <2>1, <2>2, <2>3 DEF RoundsInv, Procs
  <2>6. ReleasedIsUnparked'
    BY <2>1, <2>2, <2>4 DEF ReleasedIsUnparked, Claimed, Procs
  <2>7. MailInv'
    BY <1>3, <2>1, <2>2, <2>4 DEF MailInv, MailMarked, MailNotStranded, Asleep, Delivering,
       Claimed, Procs
  <2>8. \A v \in Workers : Deaf(v)' => Deaf(v)
    BY <2>1, <2>2, <2>3 DEF Deaf, Procs
  <2>9. SweepInv'
    <3>1. CASE p = Dropper
      BY <1>3, <2>1, <2>8, <3>1, SweepGoesOn DEF Deaf
    <3>2. CASE p # Dropper
      BY <1>1, <2>1, <2>2, <2>8, <3>2, SweepStays
    <3>3. QED
      BY <3>1, <3>2
  <2>10. QED
    BY <2>5, <2>6, <2>7, <2>9
<1>4. CASE Release(p)
  <2>1. /\ pc[p] = "release" /\ pc' = [pc EXCEPT ![p] = "awaken"]
        /\ UNCHANGED <<state, permit, mailbox, mailUsed, sleepShutdown, idle, wake>>
    BY <1>4 DEF Release, Goto, flags, queues, locals
  <2>2. RoundsInv'
    BY <1>1, <2>1 DEF RoundsInv
  <2>3. ReleasedIsUnparked'
    BY <1>1, <2>1 DEF ReleasedIsUnparked, Claimed
  <2>4. MailInv'
    BY <1>1, <2>1 DEF MailInv, MailMarked, MailNotStranded, Asleep, Delivering, Claimed
  <2>5. \A v \in Workers : Deaf(v)' => Deaf(v)
    BY <1>1, <2>1 DEF Deaf
  <2>6. SweepInv'
    BY <1>1, <2>1, <2>5 DEF SweepInv, Swept
  <2>7. QED
    BY <2>2, <2>3, <2>4, <2>6
<1>5. CASE Awaken(p)
  <2>1. /\ pc[p] = "awaken" /\ pc' = [pc EXCEPT ![p] = "unpark"]
        /\ state' = [state EXCEPT ![w] = "awake"]
        /\ UNCHANGED <<permit, mailbox, mailUsed, sleepShutdown, idle, wake>>
    BY <1>5 DEF Awaken, Goto, flags, queues, locals
  <2>2. RoundsInv'
    BY <1>1, <2>1 DEF RoundsInv
  <2>3. ReleasedIsUnparked'
    BY <1>1, <2>1 DEF ReleasedIsUnparked, Claimed
  <2>4. MailInv'
    BY <1>1, <2>1 DEF MailInv, MailMarked, MailNotStranded, Asleep, Delivering, Claimed
  <2>5. \A v \in Workers : Deaf(v)' => Deaf(v)
    BY <1>1, <2>1 DEF Deaf
  <2>6. SweepInv'
    BY <1>1, <2>1, <2>5 DEF SweepInv, Swept
  <2>7. QED
    BY <2>2, <2>3, <2>4, <2>6
<1>6. CASE Unpark(p)
  <2>1. /\ pc[p] = "unpark" /\ WalkOn(p, 1) /\ permit' = [permit EXCEPT ![w] = TRUE]
        /\ UNCHANGED <<state, mailbox, mailUsed, sleepShutdown, idle>>
    BY <1>6 DEF Unpark, flags, queues
  <2>2. /\ \A q \in Procs : q # p => pc'[q] = pc[q] /\ wake'[q] = wake[q]
        /\ pc'[p] \in {"claim"} \cup Back(p)
    BY <2>1, WalkOnEffect DEF WakingPc
  <2>3. p \in Workers => Back(p) = {"run", "done"}
    BY DEF Back
  <2>4. pc'[p] \notin {"mark", "unpark", "parked", "park"}
    BY <2>2 DEF Back
  <2>5. RoundsInv'
    BY <2>1, <2>2, <2>3 DEF RoundsInv, Procs
  <2>6. ReleasedIsUnparked'
    BY <1>1, <2>1, <2>2, <2>4 DEF ReleasedIsUnparked, Claimed, Procs
  <2>7. MailInv'
    BY <2>1, <2>2, <2>4 DEF MailInv, MailMarked, MailNotStranded, Asleep, Delivering,
       Claimed, Procs
  <2>8. \A v \in Workers : Deaf(v)' => Deaf(v)
    BY <2>1, <2>2, <2>3 DEF Deaf, Procs
  <2>9. SweepInv'
    <3>1. CASE p = Dropper
      <4>1. ~Deaf(w)
        BY <1>1, <2>1, <3>1 DEF SweepInv, Swept, Workers
      <4>2. QED
        BY <2>1, <2>8, <3>1, <4>1, SweepGoesOn
    <3>2. CASE p # Dropper
      BY <1>1, <2>1, <2>2, <2>8, <3>2, SweepStays
    <3>3. QED
      BY <3>1, <3>2
  <2>10. QED
    BY <2>5, <2>6, <2>7, <2>9
<1>7. QED
  BY <1>2, <1>3, <1>4, <1>5, <1>6

(* The drop of the arena.                                                  *)
LEMMA DropParkInv ==
  ASSUME Typed, WordInv, ParkInv, DropArena \/ WakeAllForShutdown \/ JoinWorkers
  PROVE  ParkInv'
<1> USE DEF ParkInv
<1>1. /\ Dropper \in Procs /\ Dropper \notin Workers /\ Workers \subseteq Procs
      /\ pc \in [Procs -> Label] /\ wake \in [Procs -> Walk]
  BY PoolAssumption DEF Procs, Typed, Walks
<1>2. /\ UNCHANGED <<state, permit, mailbox, mailUsed, idle>>
      /\ \A q \in Procs : q # Dropper => pc'[q] = pc[q] /\ wake'[q] = wake[q]
      /\ pc[Dropper] \in {"idle", "flag", "join"}
      /\ pc'[Dropper] \in {"flag", "claim", "join", "done"}
  <2>1. CASE DropArena \/ JoinWorkers
    BY <1>1, <2>1 DEF DropArena, JoinWorkers, Goto, locals, flags, queues
  <2>2. CASE WakeAllForShutdown
    BY <1>1, <2>2, StartWakeEffect DEF WakeAllForShutdown, queues
  <2>3. QED
    BY <2>1, <2>2
<1>3. RoundsInv'
  BY <1>1, <1>2 DEF RoundsInv
<1>4. ReleasedIsUnparked'
  BY <1>1, <1>2 DEF ReleasedIsUnparked, Claimed
<1>5. MailInv'
  BY <1>1, <1>2 DEF MailInv, MailMarked, MailNotStranded, Asleep, Delivering, Claimed
<1>6. \A v \in Workers : Deaf(v)' => Deaf(v)
  BY <1>1, <1>2 DEF Deaf
<1>7. SweepInv'
  <2>1. CASE DropArena
    BY <1>1, <2>1 DEF DropArena, Goto, SweepInv, Swept
  <2>2. CASE JoinWorkers
    BY <1>1, <1>6, <2>2 DEF JoinWorkers, Goto, SweepInv, Swept, flags
  <2>3. CASE WakeAllForShutdown
    <3>1. /\ pc' = [pc EXCEPT ![Dropper] = "claim"] /\ sleepShutdown'
          /\ wake' = [wake EXCEPT ![Dropper] =
               [at |-> 0, last |-> NWorkers - 1, num |-> NWorkers, then |-> "join"]]
      BY <2>3, PoolAssumption DEF WakeAllForShutdown, StartWake, Goto
    <3>2. /\ pc'[Dropper] = "claim" /\ wake'[Dropper].at = 0
          /\ wake'[Dropper].last = NWorkers - 1 /\ wake'[Dropper].num = NWorkers
      BY <1>1, <3>1
    <3>3. QED
      BY <3>1, <3>2, PoolAssumption DEF SweepInv, Swept, Workers
  <2>4. QED
    BY <2>1, <2>2, <2>3
<1>8. QED
  BY <1>3, <1>4, <1>5, <1>7

LEMMA ParkInvStep ==
  ASSUME Typed, WordInv, ParkInv, [Next]_vars
  PROVE  ParkInv'
<1>1. ASSUME NEW w \in Workers, WorkerStep(w) \/ SpuriousReturn(w)
      PROVE  ParkInv'
  <2>0. w \in Procs
    BY DEF Procs
  <2>1. CASE CallStep(w)
    BY <2>0, <2>1, WakeParkInv, NotifyParkInv DEF CallStep
  <2>2. CASE Search(w)
    BY <2>0, <2>2, SearchPlain, PlainParkInv, FoundParkInv DEF Search
  <2>3. CASE IdlePath(w) \/ SpuriousReturn(w)
    <3>1. CASE CheckInjector(w) \/ CheckMailbox(w)
      BY <2>0, <3>1, SearchPlain, PlainParkInv
    <3>2. CASE \/ StartLooking(w) \/ IdleRound(w) \/ AnnounceSleepy(w) \/ WindowOver(w)
               \/ CheckShutdown(w) \/ Register(w) \/ Unregister(w)
      BY <3>2, IdleParkInv
    <3>3. CASE \/ RecheckShutdown(w) \/ RecheckInjector(w) \/ RecheckMailbox(w)
               \/ ParkLoop(w) \/ SpuriousReturn(w)
               \/ Rescue(w) /\ state[w] # "sleeping"
      BY <3>3, RecheckParkInv
    <3>4. CASE \/ Publish(w) \/ ParkReturns(w)
               \/ Rescue(w) /\ state[w] = "sleeping"
      BY <3>4, WordParkInv
    <3>5. QED
      BY <2>3, <3>1, <3>2, <3>3, <3>4 DEF IdlePath
  <2>4. CASE RunJob(w)
    BY <2>0, <2>4, SearchPlain, PlainParkInv, WordParkInv DEF RunJob
  <2>5. QED
    BY <1>1, <2>1, <2>2, <2>3, <2>4 DEF WorkerStep
<1>2. ASSUME NEW p \in Producers, ProducerCall(p) \/ Submit(p) \/ PushSlot(p)
      PROVE  ParkInv'
  <2>0. p \in Procs
    BY DEF Procs
  <2>1. QED
    BY <1>2, <2>0, WakeParkInv, NotifyParkInv, ProducerPlain, PlainParkInv
       DEF ProducerCall, CallStep
<1>3. CASE DropArena \/ DropStep
  <2>0. Dropper \in Procs
    BY DEF Procs
  <2>1. QED
    BY <1>3, <2>0, WakeParkInv, NotifyParkInv, DropParkInv DEF DropStep, CallStep
<1>4. CASE AcquireSmt \/ ReleaseSmt \/ UNCHANGED vars
  <2>1. UNCHANGED <<state, permit, mailbox, mailUsed, sleepShutdown, idle, pc, wake>>
    BY <1>4 DEF AcquireSmt, ReleaseSmt, vars, locals, flags, queues
  <2>2. QED
    BY <2>1 DEF ParkInv, RoundsInv, ReleasedIsUnparked, MailInv, MailMarked, MailNotStranded,
       Asleep, Delivering, Claimed, SweepInv, Swept, Deaf
<1>5. QED
  BY <1>1, <1>2, <1>3, <1>4 DEF Next, Terminated

LEMMA ParkInvHolds == Spec => [](IndInv /\ ParkInv)
<1>1. Init => ParkInv
  BY InitParkInv
<1>2. IndInv /\ ParkInv /\ [Next]_vars => ParkInv'
  BY ParkInvStep DEF IndInv
<1>3. QED
  BY <1>1, <1>2, IndInvHolds, PTL DEF Spec

\* The debug assertions at the head of `sleep` hold: the caller is AWAKE and
\* its snapshot of the JEC is a sleepy one.
THEOREM SleepEntered == Spec => []SleepEntry
<1>1. IndInv /\ ParkInv => SleepEntry
  BY DEF IndInv, ParkInv, RoundsInv, WordInv, SleepEntry, PublishedPc
<1>2. QED
  BY <1>1, ParkInvHolds, PTL

\* A parked worker that has been released has its permit, or a waker about
\* to hand it over.
THEOREM ReleasedUnparked == Spec => []ReleasedIsUnparked
<1>1. ParkInv => ReleasedIsUnparked
  BY DEF ParkInv
<1>2. QED
  BY <1>1, ParkInvHolds, PTL

\* No worker is asleep over its mail without a waker on the way to it.
THEOREM MailDelivered == Spec => []MailNotStranded
<1>1. ParkInv => MailNotStranded
  BY DEF ParkInv, MailInv
<1>2. QED
  BY <1>1, ParkInvHolds, PTL

\* Once the shutdown sweep is over, no worker is asleep.
THEOREM SweepComplete == Spec => []ShutdownLeavesNoSleeper
<1>1. ParkInv => ShutdownLeavesNoSleeper
  BY DEF ParkInv, SweepInv, Swept, Deaf, Asleep, ShutdownLeavesNoSleeper
<1>2. QED
  BY <1>1, ParkInvHolds, PTL
=============================================================================
