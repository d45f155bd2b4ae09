--------------------------- MODULE JecSleepProofs ---------------------------
(***************************************************************************)
(* Theorems about the sleep coordinator, for any number of workers,        *)
(* siblings, producers and jobs, any length of the JEC and any number of   *)
(* rounds.  The typing lemmas are in JecSleepTyping.                       *)
(***************************************************************************)
EXTENDS JecSleepTyping

Holder == {"release", "awaken"}
LookingPc == RegisteredPc \cup PublishedPc \cup {"idle", "sleep", "register"}

\* What ties a worker's state word to its wakers and to its own place.
WordInv ==
  /\ ClaimExclusive
  /\ \A w \in Workers : state[w] # "awake" => pc[w] \in PublishedPc
  /\ \A w \in Workers : pc[w] \in LookingPc => idle[w].looking
  /\ \A w \in Workers : pc[w] = "start" => ~idle[w].looking

\* A step of thread p that touches no state word, no count and no claim, and
\* moves p between no two of the groups of labels WordInv speaks of.
Quiet(p) ==
  /\ state' = state
  /\ counters'.sleeping = counters.sleeping
  /\ counters'.inactive = counters.inactive
  /\ \A w \in Workers : idle'[w].looking = idle[w].looking
  /\ \A q \in Procs : q # p => pc'[q] = pc[q] /\ wake'[q] = wake[q]
  /\ pc[p] \notin Holder /\ pc'[p] \notin Holder
  /\ p \in Workers =>
       /\ pc'[p] \in RegisteredPc <=> pc[p] \in RegisteredPc
       /\ state[p] # "awake" /\ pc[p] \in PublishedPc => pc'[p] \in PublishedPc
       /\ pc'[p] \in LookingPc => pc[p] \in LookingPc \/ idle[p].looking
       /\ pc'[p] = "start" => ~idle[p].looking

\* The steps that are not quiet.
WordStep(p) ==
  \/ Claim(p) /\ state[wake[p].at] = "sleeping"
  \/ Release(p) \/ Awaken(p)
WorkerWordStep(w) ==
  \/ (Found(w) \/ Leave(w)) /\ idle[w].looking
  \/ StartLooking(w)
  \/ Register(w) /\ counters.jec = idle[w].jc
  \/ Publish(w)
  \/ Rescue(w) /\ state[w] = "sleeping"
  \/ Unregister(w)

(* A quiet step that moves only p's label, from one label to another.      *)
LEMMA QuietLabel ==
  ASSUME Typed, NEW p \in Procs, NEW l, pc' = [pc EXCEPT ![p] = l],
         UNCHANGED <<counters, state, idle, wake>>,
         pc[p] \notin Holder, l \notin Holder,
         p \in Workers =>
           /\ l \in RegisteredPc <=> pc[p] \in RegisteredPc
           /\ state[p] # "awake" /\ pc[p] \in PublishedPc => l \in PublishedPc
           /\ l \in LookingPc => pc[p] \in LookingPc \/ idle[p].looking
           /\ l = "start" => ~idle[p].looking
  PROVE  Quiet(p)
  BY DEF Typed, Quiet

(* A walk, begun or gone on with, moves only p, to "claim" or back.        *)
LEMMA StartWakeEffect ==
  ASSUME Typed, NEW p \in Procs, NEW n, NEW then, NEW from, NEW to, StartWake(p, from, to, n, then)
  PROVE  /\ \A q \in Procs : q # p => pc'[q] = pc[q] /\ wake'[q] = wake[q]
         /\ pc'[p] \in {"claim", then}
  BY DEF Typed, Walks, StartWake, Goto

LEMMA WalkOnEffect ==
  ASSUME Typed, NEW p \in Procs, NEW n \in {0, 1}, pc[p] \in WakingPc, WalkOn(p, n)
  PROVE  /\ \A q \in Procs : q # p => pc'[q] = pc[q] /\ wake'[q] = wake[q]
         /\ pc'[p] \in {"claim"} \cup Back(p)
<1>1. wake[p].then \in Back(p)
  BY DEF Typed, Walks
<1>2. pc \in [Procs -> Label] /\ wake \in [Procs -> Walk]
  BY DEF Typed, Walks
<1>3. QED
  BY <1>1, <1>2 DEF WalkOn, Goto

LEMMA SearchQuiet ==
  ASSUME Typed, NEW w \in Workers, Search(w)
  PROVE  Quiet(w) \/ WorkerWordStep(w)
<1> USE DEF Label, WorkerPc, SearchPc, RegisteredPc, PublishedPc, CallPc, OtherPc,
            LookingPc, Holder
<1>0. w \in Procs /\ w \in Workers
  BY DEF Procs
<1>1. CASE LoopTop(w)
  BY <1>0, <1>1 DEF Typed, Quiet, Goto, locals, LoopTop
<1>2. CASE GateOpens(w)
  BY <1>0, <1>2 DEF Typed, Quiet, Goto, locals, GateOpens
<1>3. CASE GateShutdown(w)
  BY <1>0, <1>3 DEF Typed, Quiet, Goto, locals, GateShutdown
<1>4. CASE ProbeMailbox(w)
  BY <1>0, <1>4 DEF Typed, Quiet, Goto, locals, ProbeMailbox
<1>5. CASE ProbeOwn(w)
  BY <1>0, <1>5 DEF Typed, Quiet, Goto, locals, ProbeOwn, ProbeDeque
<1>6. CASE ProbeInjector(w)
  BY <1>0, <1>6 DEF Typed, Quiet, Goto, locals, ProbeInjector
<1>7. CASE ProbeSlot(w)
  BY <1>0, <1>7 DEF Typed, Quiet, Goto, locals, ProbeSlot, ProbeDeque
<1>8. CASE StealFromPeer(w)
  BY <1>0, <1>8 DEF Typed, Quiet, Goto, locals, StealFromPeer
<1>9. CASE MissPeers(w)
  BY <1>0, <1>9 DEF Typed, Quiet, Goto, locals, MissPeers
<1>10. CASE Found(w)
  BY <1>0, <1>10 DEF Typed, Quiet, Goto, locals, Found, WorkFound, WorkerWordStep
<1>11. CASE Leave(w)
  BY <1>0, <1>11 DEF Typed, Quiet, Goto, locals, Leave, WorkFound, WorkerWordStep
<1>12. QED
  BY <1>1, <1>2, <1>3, <1>4, <1>5, <1>6, <1>7, <1>8, <1>9, <1>10, <1>11 DEF Search

LEMMA IdlePathQuiet ==
  ASSUME Typed, NEW w \in Workers, IdlePath(w)
  PROVE  Quiet(w) \/ WorkerWordStep(w)
<1> USE DEF Label, WorkerPc, SearchPc, RegisteredPc, PublishedPc, CallPc, OtherPc,
            LookingPc, Holder
<1>0. w \in Procs /\ w \in Workers
  BY DEF Procs
<1>1. CASE StartLooking(w)
  BY <1>1 DEF WorkerWordStep
<1>2. CASE IdleRound(w)
  BY <1>0, <1>2 DEF Typed, Locals, Quiet, Goto, IdleRound, SetIdle
<1>3. CASE AnnounceSleepy(w)
  BY <1>0, <1>3 DEF Typed, Locals, Quiet, Goto, AnnounceSleepy, SetIdle
<1>4. CASE WindowOver(w)
  BY <1>0, <1>4 DEF Typed, Quiet, Goto, locals, WindowOver
<1>5. CASE CheckShutdown(w)
  BY <1>0, <1>5 DEF Typed, Locals, Quiet, Goto, CheckShutdown, WakePartly, SetIdle
<1>6. CASE Register(w)
  BY <1>0, <1>6 DEF WorkerWordStep, Typed, Locals, Quiet, Goto, Register, WakePartly, SetIdle
<1>7. CASE CheckInjector(w)
  BY <1>0, <1>7 DEF Typed, Quiet, Goto, locals, CheckInjector, AskInjector, ReadTail, ReadHead
<1>8. CASE CheckMailbox(w)
  BY <1>0, <1>8 DEF Typed, Quiet, Goto, locals, CheckMailbox, AskMailbox
<1>9. CASE Publish(w)
  BY <1>9 DEF WorkerWordStep
<1>10. CASE RecheckShutdown(w)
  BY <1>0, <1>10 DEF Typed, Quiet, Goto, locals, RecheckShutdown
<1>11. CASE RecheckInjector(w)
  BY <1>0, <1>11 DEF Typed, Quiet, Goto, locals, RecheckInjector, AskInjector, ReadTail, ReadHead
<1>12. CASE RecheckMailbox(w)
  BY <1>0, <1>12 DEF Typed, Quiet, Goto, locals, RecheckMailbox, AskMailbox
<1>13. CASE Rescue(w)
  BY <1>0, <1>13 DEF Typed, Quiet, Goto, locals, Rescue, WorkerWordStep
<1>14. CASE Unregister(w)
  BY <1>14 DEF WorkerWordStep
<1>15. CASE ParkLoop(w)
  BY <1>0, <1>15 DEF Typed, Locals, Quiet, Goto, ParkLoop, WakeFully, SetIdle
<1>16. CASE ParkReturns(w)
  BY <1>0, <1>16 DEF Typed, Quiet, Goto, locals, ParkReturns
<1>17. QED
  BY <1>1, <1>2, <1>3, <1>4, <1>5, <1>6, <1>7, <1>8, <1>9, <1>10, <1>11, <1>12, <1>13, <1>14, <1>15, <1>16 DEF IdlePath

LEMMA RunJobQuiet ==
  ASSUME Typed, NEW w \in Workers, RunJob(w)
  PROVE  Quiet(w)
<1> USE DEF Label, WorkerPc, SearchPc, RegisteredPc, PublishedPc, CallPc, OtherPc,
            LookingPc, Holder
<1>0. w \in Procs /\ w \in Workers
  BY DEF Procs
<1>1. CASE FinishJob(w)
  BY <1>0, <1>1 DEF Typed, Quiet, Goto, locals, FinishJob
<1>2. CASE MarkUsed(w)
  BY <1>0, <1>2 DEF Typed, Quiet, Goto, locals, MarkUsed
<1>3. CASE WakeWorker(w)
  BY <1>0, <1>3 DEF Typed, Walks, Quiet, Goto, WakeWorker
<1>4. CASE ReadOwnEmpty(w)
  BY <1>0, <1>4 DEF Typed, Quiet, Goto, locals, ReadOwnEmpty
<1>5. CASE PushOwnDeque(w)
  BY <1>0, <1>5 DEF Typed, Quiet, Goto, locals, PushOwnDeque
<1>6. CASE \E t \in Workers : PushMailbox(w, t)
  BY <1>0, <1>6 DEF Typed, Walks, Quiet, Goto, PushMailbox
<1>7. QED
  BY <1>1, <1>2, <1>3, <1>4, <1>5, <1>6 DEF RunJob

LEMMA CallQuiet ==
  ASSUME Typed, NEW p \in Procs, CallStep(p)
  PROVE  Quiet(p) \/ WordStep(p)
<1> USE DEF Label, WorkerPc, SearchPc, RegisteredPc, PublishedPc, CallPc, OtherPc,
            LookingPc, Holder
<1>0. p \in Workers => Back(p) = {"run", "done"}
  BY DEF Back
<1>1. CASE Claim(p)
  <2>1. CASE state[wake[p].at] = "sleeping"
    BY <1>1, <2>1 DEF WordStep
  <2>2. CASE state[wake[p].at] # "sleeping"
    <3>1. WalkOn(p, 0) /\ pc[p] = "claim" /\ UNCHANGED <<counters, state, idle>>
      BY <1>1, <2>2 DEF Claim
    <3>2. /\ \A q \in Procs : q # p => pc'[q] = pc[q] /\ wake'[q] = wake[q]
          /\ pc'[p] \in {"claim"} \cup Back(p)
      BY <3>1, WalkOnEffect DEF WakingPc
    <3>3. QED
      BY <1>0, <3>1, <3>2 DEF Quiet, Back
  <2>3. QED
    BY <2>1, <2>2
<1>2. CASE Release(p) \/ Awaken(p)
  BY <1>2 DEF WordStep
<1>3. CASE Unpark(p)
  <2>1. WalkOn(p, 1) /\ pc[p] = "unpark" /\ UNCHANGED <<counters, state, idle>>
    BY <1>3 DEF Unpark
  <2>2. /\ \A q \in Procs : q # p => pc'[q] = pc[q] /\ wake'[q] = wake[q]
        /\ pc'[p] \in {"claim"} \cup Back(p)
    BY <2>1, WalkOnEffect DEF WakingPc
  <2>3. QED
    BY <1>0, <2>1, <2>2 DEF Quiet, Back
<1>4. CASE Notify(p)
  <2>1. /\ \A q \in Procs : q # p => pc'[q] = pc[q] /\ wake'[q] = wake[q]
        /\ pc'[p] \in {"claim", IF p \in Workers THEN "run" ELSE "idle"}
    BY <1>4, StartWakeEffect DEF Notify
  <2>2. /\ counters'.sleeping = counters.sleeping
        /\ counters'.inactive = counters.inactive
    BY <1>4 DEF Notify, Typed, Shared
  <2>3. QED
    BY <1>4, <2>1, <2>2 DEF Quiet, Notify
<1>5. QED
  BY <1>1, <1>2, <1>3, <1>4 DEF CallStep

(* Every step is quiet, is one of the steps above, or moves no thread.     *)
LEMMA Kinds ==
  ASSUME Typed, [Next]_vars
  PROVE  \/ \E p \in Procs : Quiet(p) \/ WordStep(p)
         \/ \E w \in Workers : WorkerWordStep(w)
         \/ UNCHANGED <<counters, state, pc, idle, wake>>
<1> USE DEF Label, WorkerPc, SearchPc, RegisteredPc, PublishedPc, CallPc, OtherPc,
            LookingPc, Holder
<1>1. ASSUME NEW w \in Workers, WorkerStep(w) \/ SpuriousReturn(w)
      PROVE  \/ \E p \in Procs : Quiet(p) \/ WordStep(p)
             \/ WorkerWordStep(w)
  <2>0. w \in Procs
    BY DEF Procs
  <2>1. CASE SpuriousReturn(w)
    <3>1. /\ pc[w] = "parked" /\ pc' = [pc EXCEPT ![w] = "park"]
          /\ UNCHANGED <<counters, state, idle, wake>>
      BY <2>1 DEF SpuriousReturn, Goto, locals
    <3>2. /\ pc[w] \notin Holder /\ "park" \notin Holder
          /\ "park" \notin RegisteredPc /\ pc[w] \notin RegisteredPc
          /\ "park" \in PublishedPc /\ pc[w] \in LookingPc
      BY <3>1
    <3> HIDE DEF Holder, RegisteredPc, PublishedPc, LookingPc
    <3>3. Quiet(w)
      BY <2>0, <3>1, <3>2, QuietLabel
    <3>4. QED
      BY <2>0, <3>3
  <2>2. CASE CallStep(w)
    BY <2>0, <2>2, CallQuiet
  <2>3. CASE Search(w)
    BY <2>0, <2>3, SearchQuiet
  <2>4. CASE IdlePath(w)
    BY <2>0, <2>4, IdlePathQuiet
  <2>5. CASE RunJob(w)
    BY <2>0, <2>5, RunJobQuiet
  <2>6. QED
    BY <1>1, <2>1, <2>2, <2>3, <2>4, <2>5 DEF WorkerStep
<1>2. ASSUME NEW p \in Producers, ProducerCall(p) \/ Submit(p) \/ PushSlot(p)
      PROVE  Quiet(p) \/ WordStep(p)
  <2>0. p \in Procs /\ p \notin Workers
    BY PoolAssumption DEF Procs
  <2>1. CASE CallStep(p)
    BY <2>0, <2>1, CallQuiet
  <2>2. CASE ReadEmpty(p) \/ PushInjector(p)
    BY <2>0, <2>2, QuietLabel DEF ReadEmpty, ReadTail, ReadHead, PushInjector, Goto, locals
  <2>3. CASE Submit(p) \/ PushSlot(p)
    BY <2>0, <2>3, QuietLabel DEF Submit, PushSlot, Goto, locals
  <2>4. QED
    BY <1>2, <2>1, <2>2, <2>3 DEF ProducerCall
<1>3. CASE AcquireSmt \/ ReleaseSmt \/ UNCHANGED vars
  BY <1>3 DEF AcquireSmt, ReleaseSmt, vars, locals
<1>4. CASE DropArena \/ DropStep
  <2>0. Dropper \in Procs /\ Dropper \notin Workers
    BY PoolAssumption DEF Procs
  <2>1. CASE CallStep(Dropper)
    BY <2>0, <2>1, CallQuiet
  <2>2. CASE DropArena \/ JoinWorkers
    BY <2>0, <2>2, QuietLabel DEF DropArena, JoinWorkers, Goto, locals
  <2>3. CASE WakeAllForShutdown
    <3>1. /\ \A q \in Procs : q # Dropper => pc'[q] = pc[q] /\ wake'[q] = wake[q]
          /\ pc'[Dropper] \in {"claim", "join"}
      BY <2>0, <2>3, StartWakeEffect DEF WakeAllForShutdown
    <3>2. Quiet(Dropper)
      BY <2>0, <2>3, <3>1 DEF WakeAllForShutdown, Quiet
    <3>3. QED
      BY <2>0, <3>2
  <2>4. QED
    BY <1>4, <2>0, <2>1, <2>2, <2>3 DEF DropStep
<1>5. QED
  BY <1>1, <1>2, <1>3, <1>4 DEF Next, Terminated, Procs

-----------------------------------------------------------------------------
(* WordInv is kept by every step.                                          *)

LEMMA InitWordInv == ASSUME Init PROVE WordInv
  BY PoolAssumption DEF Init, WordInv, ClaimExclusive, Claimed, LookingPc, RegisteredPc,
     PublishedPc, Procs

LEMMA QuietWordInv ==
  ASSUME Typed, WordInv, NEW p \in Procs, Quiet(p)
  PROVE  /\ WordInv'
         /\ \A w \in Workers : Counted(w)' <=> Counted(w)
<1> USE DEF Holder
<1>1. \A l \in Holder, w \in Workers : Claimed(w, l)' <=> Claimed(w, l)
  BY DEF Quiet, Claimed
<1>2. ClaimExclusive'
  BY <1>1 DEF ClaimExclusive, Quiet, WordInv
<1>3. \A w \in Workers : state'[w] # "awake" => pc'[w] \in PublishedPc
  BY DEF Quiet, WordInv, Procs
<1>4. \A w \in Workers : pc'[w] \in LookingPc => idle'[w].looking
  BY DEF Quiet, WordInv, Procs
<1>5. \A w \in Workers : pc'[w] = "start" => ~idle'[w].looking
  BY DEF Quiet, WordInv, Procs
<1>6. WordInv'
  BY <1>2, <1>3, <1>4, <1>5 DEF WordInv
<1>7. \A w \in Workers : Counted(w)' <=> Counted(w)
  BY <1>1 DEF Counted, Quiet, Procs
<1>8. QED
  BY <1>6, <1>7

(* The three steps of a wake that touch a state word or a count.           *)
LEMMA WakeWordInv ==
  ASSUME Typed, WordInv, NEW p \in Procs, WordStep(p)
  PROVE  WordInv'
<1> DEFINE w == wake[p].at
<1> USE DEF LookingPc, RegisteredPc, PublishedPc
<1>1. w \in Workers /\ pc \in [Procs -> Label] /\ state \in [Workers -> {"awake", "sleeping", "waking"}]
  BY DEF Typed, Walks, Walk, Shared
<1>2. CASE Claim(p) /\ state[w] = "sleeping"
  <2>1. /\ pc[p] = "claim" /\ pc' = [pc EXCEPT ![p] = "release"]
        /\ state' = [state EXCEPT ![w] = "waking"] /\ idle' = idle /\ wake' = wake
    BY <1>2 DEF Claim, Goto
  <2>2. \A v \in Workers : state'[v] = "waking" <=> Claimed(v, "release")' \/ Claimed(v, "awaken")'
    BY <1>1, <1>2, <2>1 DEF WordInv, ClaimExclusive, Claimed
  <2>3. \A q \in Procs : pc[q] \in {"release", "awaken"} => wake[q].at # w
    BY <1>1, <1>2 DEF WordInv, ClaimExclusive, Claimed
  <2>4. ClaimExclusive'
    BY <1>1, <2>1, <2>2, <2>3 DEF WordInv, ClaimExclusive
  <2>5. QED
    BY <1>1, <1>2, <2>1, <2>4 DEF WordInv, Procs
<1>3. CASE Release(p)
  <2>1. /\ pc[p] = "release" /\ pc' = [pc EXCEPT ![p] = "awaken"]
        /\ UNCHANGED <<state, idle, wake>>
    BY <1>3 DEF Release, Goto, locals
  <2>2. \A v \in Workers : state'[v] = "waking" <=> Claimed(v, "release")' \/ Claimed(v, "awaken")'
    BY <1>1, <2>1 DEF WordInv, ClaimExclusive, Claimed
  <2>3. ClaimExclusive'
    BY <1>1, <2>1, <2>2 DEF WordInv, ClaimExclusive
  <2>4. QED
    BY <1>1, <2>1, <2>3 DEF WordInv, Procs
<1>4. CASE Awaken(p)
  <2>1. /\ pc[p] = "awaken" /\ pc' = [pc EXCEPT ![p] = "unpark"]
        /\ state' = [state EXCEPT ![w] = "awake"] /\ idle' = idle /\ wake' = wake
    BY <1>4 DEF Awaken, Goto, locals
  <2>2. \A q \in Procs : q # p /\ pc[q] \in {"release", "awaken"} => wake[q].at # w
    BY <2>1 DEF WordInv, ClaimExclusive
  <2>3. \A v \in Workers : state'[v] = "waking" <=> Claimed(v, "release")' \/ Claimed(v, "awaken")'
    BY <1>1, <2>1, <2>2 DEF WordInv, ClaimExclusive, Claimed
  <2>4. ClaimExclusive'
    BY <1>1, <2>1, <2>3 DEF WordInv, ClaimExclusive
  <2>5. QED
    BY <1>1, <2>1, <2>4 DEF WordInv, Procs
<1>5. QED
  BY <1>2, <1>3, <1>4 DEF WordStep

(* The worker's own steps that touch its state word or a count.            *)
LEMMA WorkerWordInv ==
  ASSUME Typed, WordInv, NEW w \in Workers, WorkerWordStep(w)
  PROVE  WordInv'
<1> USE DEF LookingPc, RegisteredPc, PublishedPc
<1>1. /\ w \in Procs /\ pc \in [Procs -> Label] /\ wake \in [Procs -> Walk]
      /\ state \in [Workers -> {"awake", "sleeping", "waking"}]
  BY DEF Typed, Walks, Shared, Procs
<1>2. idle \in [Workers -> IdleRec]
  BY DEF Typed, Locals, IdleRec
<1>3. ASSUME /\ state' = state
             /\ \A q \in Procs : q # w => pc'[q] = pc[q] /\ wake'[q] = wake[q]
             /\ pc[w] \notin Holder /\ pc'[w] \notin Holder
      PROVE  ClaimExclusive'
  <2>1. \A l \in Holder, v \in Workers : Claimed(v, l)' <=> Claimed(v, l)
    BY <1>3 DEF Claimed, Holder
  <2>2. QED
    BY <1>3, <2>1 DEF ClaimExclusive, WordInv, Holder
<1>4. CASE (Found(w) \/ Leave(w)) /\ idle[w].looking
  <2>1. PICK then \in {"run", "done"} :
          /\ pc[w] \in {"found", "leave"} /\ state' = state
          /\ StartWake(w, 0, NWorkers - 1, Least(counters.sleeping, 2), then)
          /\ idle' = [idle EXCEPT ![w] = NotLooking]
    BY <1>4 DEF Found, Leave, WorkFound
  <2>2. /\ \A q \in Procs : q # w => pc'[q] = pc[q] /\ wake'[q] = wake[q]
        /\ pc'[w] \in {"claim", "run", "done"}
    BY <1>1, <2>1, StartWakeEffect
  <2>3. ClaimExclusive'
    BY <1>3, <2>1, <2>2 DEF Holder
  <2>4. state[w] = "awake"
    BY <2>1 DEF WordInv
  <2>5. QED
    BY <1>1, <1>2, <2>1, <2>2, <2>3, <2>4 DEF WordInv, Procs
<1>5. CASE StartLooking(w)
  <2>1. /\ pc[w] = "start" /\ pc' = [pc EXCEPT ![w] = "idle"] /\ wake' = wake /\ state' = state
        /\ idle' = [idle EXCEPT ![w] = [looking |-> TRUE, rounds |-> 0, jc |-> Dummy]]
    BY <1>5 DEF StartLooking, Goto
  <2>2. ClaimExclusive'
    BY <1>1, <1>3, <2>1 DEF Holder
  <2>3. state[w] = "awake"
    BY <2>1 DEF WordInv
  <2>4. QED
    BY <1>1, <1>2, <2>1, <2>2, <2>3 DEF WordInv, Procs
<1>6. CASE Register(w) /\ counters.jec = idle[w].jc
  <2>1. /\ pc[w] = "register" /\ pc' = [pc EXCEPT ![w] = "checkInjector"]
        /\ UNCHANGED <<wake, state, idle>>
    BY <1>6 DEF Register, Goto
  <2>2. ClaimExclusive'
    BY <1>1, <1>3, <2>1 DEF Holder
  <2>3. QED
    BY <1>1, <2>1, <2>2 DEF WordInv, Procs
<1>7. CASE Publish(w)
  <2>1. /\ pc[w] = "publish" /\ pc' = [pc EXCEPT ![w] = "recheckShutdown"]
        /\ state' = [state EXCEPT ![w] = "sleeping"] /\ idle' = idle /\ wake' = wake
    BY <1>7 DEF Publish, Goto, locals
  <2>2. state[w] = "awake"
    BY <2>1 DEF WordInv
  <2>3. \A v \in Workers, l \in Holder : Claimed(v, l)' <=> Claimed(v, l)
    BY <1>1, <2>1 DEF Claimed, Holder
  <2>4. ClaimExclusive'
    BY <1>1, <2>1, <2>2, <2>3 DEF ClaimExclusive, WordInv, Holder
  <2>5. QED
    BY <1>1, <2>1, <2>4 DEF WordInv, Procs
<1>8. CASE Rescue(w) /\ state[w] = "sleeping"
  <2>1. /\ pc[w] = "rescue" /\ pc' = [pc EXCEPT ![w] = "unregister"]
        /\ state' = [state EXCEPT ![w] = "awake"] /\ idle' = idle /\ wake' = wake
    BY <1>8 DEF Rescue, Goto, locals
  <2>2. \A v \in Workers, l \in Holder : Claimed(v, l)' <=> Claimed(v, l)
    BY <1>1, <2>1 DEF Claimed, Holder
  <2>3. ClaimExclusive'
    BY <1>1, <1>8, <2>1, <2>2 DEF ClaimExclusive, WordInv, Holder
  <2>4. QED
    BY <1>1, <2>1, <2>3 DEF WordInv, Procs
<1>9. CASE Unregister(w)
  <2>1. /\ pc[w] = "unregister" /\ pc' = [pc EXCEPT ![w] = "loop"]
        /\ UNCHANGED <<wake, state>>
        /\ \A v \in Workers : idle'[v].looking = idle[v].looking
    BY <1>2, <1>9 DEF Unregister, Goto, WakeFully, SetIdle
  <2>2. ClaimExclusive'
    BY <1>1, <1>3, <2>1 DEF Holder
  <2>3. QED
    BY <1>1, <2>1, <2>2 DEF WordInv, Procs
<1>10. QED
  BY <1>4, <1>5, <1>6, <1>7, <1>8, <1>9 DEF WorkerWordStep

LEMMA WordInvStep == ASSUME Typed, WordInv, [Next]_vars PROVE WordInv'
<1>1. CASE UNCHANGED <<counters, state, pc, idle, wake>>
  BY <1>1 DEF WordInv, ClaimExclusive, Claimed
<1>2. QED
  BY <1>1, Kinds, QuietWordInv, WakeWordInv, WorkerWordInv

-----------------------------------------------------------------------------
(* The counts.                                                             *)

Sleepers == {w \in Workers : Counted(w)}
Lookers  == {w \in Workers : idle[w].looking}

LEMMA FiniteWorkers ==
  /\ IsFiniteSet(Workers)
  /\ IsFiniteSet(Sleepers) /\ Cardinality(Sleepers) \in Nat
  /\ IsFiniteSet(Lookers) /\ Cardinality(Lookers) \in Nat
<1>1. IsFiniteSet(Workers)
  BY PoolAssumption, FS_Interval DEF Workers
<1>2. IsFiniteSet(Sleepers) /\ IsFiniteSet(Lookers)
  BY <1>1, FS_Subset DEF Sleepers, Lookers
<1>3. QED
  BY <1>1, <1>2, FS_CardinalityType

LEMMA ExactNat == ASSUME CountersExact PROVE CountersNat
  BY FiniteWorkers DEF CountersExact, CountersNat, Sleepers, Lookers

LEMMA InitExact == ASSUME Init PROVE CountersExact
<1>1. Sleepers = {} /\ Lookers = {}
  BY DEF Init, Sleepers, Lookers, Counted, Claimed, RegisteredPc, NotLooking, Procs
<1>2. QED
  BY <1>1, FS_EmptySet DEF Init, CountersExact, Sleepers, Lookers

(* The worker's own steps: a count moves with its set.                     *)
LEMMA WorkerExact ==
  ASSUME Typed, WordInv, CountersExact, NEW w \in Workers, WorkerWordStep(w)
  PROVE  CountersExact'
<1> USE DEF RegisteredPc, PublishedPc, LookingPc
<1>1. /\ w \in Procs /\ pc \in [Procs -> Label] /\ wake \in [Procs -> Walk]
      /\ state \in [Workers -> {"awake", "sleeping", "waking"}]
      /\ idle \in [Workers -> IdleRec]
      /\ counters \in [jec : 0 .. JecMod - 1, inactive : Int, sleeping : Int]
  BY DEF Typed, Walks, Shared, Locals, IdleRec, Procs
<1>2. /\ counters.sleeping = Cardinality(Sleepers) /\ counters.inactive = Cardinality(Lookers)
      /\ CountersExact' <=> /\ counters'.sleeping = Cardinality(Sleepers')
                            /\ counters'.inactive = Cardinality(Lookers')
  BY DEF CountersExact, Sleepers, Lookers
<1>3. \A q \in Procs : (\A v \in Procs : v # w => pc'[v] = pc[v] /\ wake'[v] = wake[v])
        /\ pc[w] \notin Holder /\ pc'[w] \notin Holder
        => \A v \in Workers : Claimed(v, "release")' <=> Claimed(v, "release")
  BY DEF Claimed, Holder
<1>4. CASE (Found(w) \/ Leave(w)) /\ idle[w].looking
  <2>1. PICK then \in {"run", "done"} :
          /\ pc[w] \in {"found", "leave"} /\ state' = state
          /\ StartWake(w, 0, NWorkers - 1, Least(counters.sleeping, 2), then)
          /\ idle' = [idle EXCEPT ![w] = NotLooking]
          /\ counters' = [counters EXCEPT !.inactive = @ - 1]
    BY <1>4 DEF Found, Leave, WorkFound, AddTo
  <2>2. /\ \A q \in Procs : q # w => pc'[q] = pc[q] /\ wake'[q] = wake[q]
        /\ pc'[w] \in {"claim", "run", "done"}
    BY <1>1, <2>1, StartWakeEffect
  <2>3. \A v \in Workers : Claimed(v, "release")' <=> Claimed(v, "release")
    BY <1>1, <1>3, <2>1, <2>2 DEF Holder
  <2>4. Sleepers' = Sleepers
    BY <1>1, <2>1, <2>2, <2>3 DEF Sleepers, Counted, Procs
  <2>5. Lookers' = Lookers \ {w} /\ w \in Lookers
    BY <1>1, <1>4, <2>1 DEF Lookers, NotLooking
  <2>6. Cardinality(Lookers') = Cardinality(Lookers) - 1
    BY <2>5, FiniteWorkers, FS_RemoveElement
  <2>7. QED
    BY <1>1, <1>2, <2>1, <2>4, <2>6
<1>5. CASE StartLooking(w)
  <2>1. /\ pc[w] = "start" /\ pc' = [pc EXCEPT ![w] = "idle"] /\ wake' = wake /\ state' = state
        /\ idle' = [idle EXCEPT ![w] = [looking |-> TRUE, rounds |-> 0, jc |-> Dummy]]
        /\ counters' = [counters EXCEPT !.inactive = @ + 1]
    BY <1>5 DEF StartLooking, Goto, AddTo
  <2>2. \A v \in Workers : Claimed(v, "release")' <=> Claimed(v, "release")
    BY <1>1, <1>3, <2>1 DEF Holder
  <2>3. Sleepers' = Sleepers
    BY <1>1, <2>1, <2>2 DEF Sleepers, Counted, Procs
  <2>4. Lookers' = Lookers \cup {w} /\ w \notin Lookers
    BY <1>1, <2>1 DEF Lookers, WordInv
  <2>5. Cardinality(Lookers') = Cardinality(Lookers) + 1
    BY <2>4, FiniteWorkers, FS_AddElement
  <2>6. QED
    BY <1>1, <1>2, <2>1, <2>3, <2>5
<1>6. CASE Register(w) /\ counters.jec = idle[w].jc
  <2>1. /\ pc[w] = "register" /\ pc' = [pc EXCEPT ![w] = "checkInjector"]
        /\ UNCHANGED <<wake, state, idle>>
        /\ counters' = [counters EXCEPT !.sleeping = @ + 1]
    BY <1>6 DEF Register, Goto, AddTo
  <2>2. \A v \in Workers : Claimed(v, "release")' <=> Claimed(v, "release")
    BY <1>1, <1>3, <2>1 DEF Holder
  <2>3. state[w] = "awake" /\ ~Claimed(w, "release")
    BY <2>1 DEF WordInv, ClaimExclusive
  <2>4. Sleepers' = Sleepers \cup {w} /\ w \notin Sleepers
    BY <1>1, <2>1, <2>2, <2>3 DEF Sleepers, Counted, Procs
  <2>5. Cardinality(Sleepers') = Cardinality(Sleepers) + 1
    BY <2>4, FiniteWorkers, FS_AddElement
  <2>6. Lookers' = Lookers
    BY <2>1 DEF Lookers
  <2>7. QED
    BY <1>1, <1>2, <2>1, <2>5, <2>6
<1>7. CASE Publish(w)
  <2>1. /\ pc[w] = "publish" /\ pc' = [pc EXCEPT ![w] = "recheckShutdown"]
        /\ state' = [state EXCEPT ![w] = "sleeping"]
        /\ UNCHANGED <<idle, wake, counters>>
    BY <1>7 DEF Publish, Goto, locals
  <2>2. \A v \in Workers : Claimed(v, "release")' <=> Claimed(v, "release")
    BY <1>1, <1>3, <2>1 DEF Holder
  <2>3. Sleepers' = Sleepers /\ Lookers' = Lookers
    BY <1>1, <2>1, <2>2 DEF Sleepers, Lookers, Counted, Procs
  <2>4. QED
    BY <1>2, <2>1, <2>3
<1>8. CASE Rescue(w) /\ state[w] = "sleeping"
  <2>1. /\ pc[w] = "rescue" /\ pc' = [pc EXCEPT ![w] = "unregister"]
        /\ state' = [state EXCEPT ![w] = "awake"]
        /\ UNCHANGED <<idle, wake, counters>>
    BY <1>8 DEF Rescue, Goto, locals
  <2>2. \A v \in Workers : Claimed(v, "release")' <=> Claimed(v, "release")
    BY <1>1, <1>3, <2>1 DEF Holder
  <2>3. Sleepers' = Sleepers /\ Lookers' = Lookers
    BY <1>1, <1>8, <2>1, <2>2 DEF Sleepers, Lookers, Counted, Procs
  <2>4. QED
    BY <1>2, <2>1, <2>3
<1>9. CASE Unregister(w)
  <2>1. /\ pc[w] = "unregister" /\ pc' = [pc EXCEPT ![w] = "loop"]
        /\ UNCHANGED <<wake, state>>
        /\ \A v \in Workers : idle'[v].looking = idle[v].looking
        /\ counters' = [counters EXCEPT !.sleeping = @ - 1]
    BY <1>1, <1>9 DEF Unregister, Goto, WakeFully, SetIdle, AddTo
  <2>2. \A v \in Workers : Claimed(v, "release")' <=> Claimed(v, "release")
    BY <1>1, <1>3, <2>1 DEF Holder
  <2>3. state[w] = "awake" /\ ~Claimed(w, "release")
    BY <2>1 DEF WordInv, ClaimExclusive
  <2>4. Sleepers' = Sleepers \ {w} /\ w \in Sleepers
    BY <1>1, <2>1, <2>2, <2>3 DEF Sleepers, Counted, Procs
  <2>5. Cardinality(Sleepers') = Cardinality(Sleepers) - 1
    BY <2>4, FiniteWorkers, FS_RemoveElement
  <2>6. Lookers' = Lookers
    BY <2>1 DEF Lookers
  <2>7. QED
    BY <1>1, <1>2, <2>1, <2>5, <2>6
<1>10. QED
  BY <1>4, <1>5, <1>6, <1>7, <1>8, <1>9 DEF WorkerWordStep

(* A waker hands the count from the state word to its claim, then gives it *)
(* back.                                                                   *)
LEMMA WakeExact ==
  ASSUME Typed, WordInv, CountersExact, NEW p \in Procs, WordStep(p)
  PROVE  CountersExact'
<1> DEFINE w == wake[p].at
<1> USE DEF RegisteredPc, PublishedPc
<1>1. /\ w \in Workers /\ pc \in [Procs -> Label]
      /\ state \in [Workers -> {"awake", "sleeping", "waking"}]
      /\ counters \in [jec : 0 .. JecMod - 1, inactive : Int, sleeping : Int]
  BY DEF Typed, Walks, Walk, Shared
<1>2. /\ counters.sleeping = Cardinality(Sleepers) /\ counters.inactive = Cardinality(Lookers)
      /\ CountersExact' <=> /\ counters'.sleeping = Cardinality(Sleepers')
                            /\ counters'.inactive = Cardinality(Lookers')
  BY DEF CountersExact, Sleepers, Lookers
<1>3. CASE Claim(p) /\ state[w] = "sleeping"
  <2>1. /\ pc[p] = "claim" /\ pc' = [pc EXCEPT ![p] = "release"]
        /\ state' = [state EXCEPT ![w] = "waking"]
        /\ UNCHANGED <<idle, wake, counters>>
    BY <1>3 DEF Claim, Goto
  <2>2. \A v \in Workers : Claimed(v, "release")' <=> v = w \/ Claimed(v, "release")
    BY <1>1, <2>1 DEF Claimed
  <2>3. Sleepers' = Sleepers /\ Lookers' = Lookers
    BY <1>1, <1>3, <2>1, <2>2 DEF Sleepers, Lookers, Counted, Procs
  <2>4. QED
    BY <1>2, <2>1, <2>3
<1>4. CASE Release(p)
  <2>1. /\ pc[p] = "release" /\ pc' = [pc EXCEPT ![p] = "awaken"]
        /\ counters' = [counters EXCEPT !.sleeping = @ - 1]
        /\ UNCHANGED <<state, idle, wake>>
    BY <1>4 DEF Release, Goto, AddTo, locals
  <2>2. Claimed(w, "release") /\ state[w] = "waking" /\ pc[w] \in PublishedPc
    BY <1>1, <2>1 DEF Claimed, WordInv, ClaimExclusive
  <2>3. ~Claimed(w, "release")'
    BY <1>1, <2>1 DEF Claimed, WordInv, ClaimExclusive
  <2>4. \A v \in Workers : v # w => (Claimed(v, "release")' <=> Claimed(v, "release"))
    BY <1>1, <2>1 DEF Claimed
  <2>5. Sleepers' = Sleepers \ {w} /\ w \in Sleepers
    BY <1>1, <2>1, <2>2, <2>3, <2>4 DEF Sleepers, Counted, Procs
  <2>6. Cardinality(Sleepers') = Cardinality(Sleepers) - 1
    BY <2>5, FiniteWorkers, FS_RemoveElement
  <2>7. Lookers' = Lookers
    BY <2>1 DEF Lookers
  <2>8. QED
    BY <1>1, <1>2, <2>1, <2>6, <2>7
<1>5. CASE Awaken(p)
  <2>1. /\ pc[p] = "awaken" /\ pc' = [pc EXCEPT ![p] = "unpark"]
        /\ state' = [state EXCEPT ![w] = "awake"]
        /\ UNCHANGED <<idle, wake, counters>>
    BY <1>5 DEF Awaken, Goto, locals
  <2>2. state[w] = "waking"
    BY <1>1, <2>1 DEF Claimed, WordInv, ClaimExclusive
  <2>3. \A v \in Workers : Claimed(v, "release")' <=> Claimed(v, "release")
    BY <1>1, <2>1 DEF Claimed
  <2>4. Sleepers' = Sleepers /\ Lookers' = Lookers
    BY <1>1, <2>1, <2>2, <2>3 DEF Sleepers, Lookers, Counted, Procs
  <2>5. QED
    BY <1>2, <2>1, <2>4
<1>6. QED
  BY <1>3, <1>4, <1>5 DEF WordStep

LEMMA ExactStep ==
  ASSUME Typed, WordInv, CountersExact, [Next]_vars
  PROVE  CountersExact'
<1>1. ASSUME NEW p \in Procs, Quiet(p) PROVE CountersExact'
  <2>1. Sleepers' = Sleepers /\ Lookers' = Lookers
    BY <1>1, QuietWordInv DEF Quiet, Sleepers, Lookers
  <2>2. QED
    BY <1>1, <2>1 DEF CountersExact, Quiet, Sleepers, Lookers
<1>2. CASE UNCHANGED <<counters, state, pc, idle, wake>>
  <2>1. Sleepers' = Sleepers /\ Lookers' = Lookers
    BY <1>2 DEF Sleepers, Lookers, Counted, Claimed
  <2>2. QED
    BY <1>2, <2>1 DEF CountersExact, Sleepers, Lookers
<1>3. QED
  BY <1>1, <1>2, Kinds, WakeExact, WorkerExact

-----------------------------------------------------------------------------
(* The theorems.                                                           *)

IndInv == Typed /\ WordInv /\ CountersExact

LEMMA IndInvHolds == Spec => []IndInv
<1>1. Init => IndInv
  BY InitTyped, InitWordInv, InitExact DEF IndInv
<1>2. IndInv /\ [Next]_vars => IndInv'
  BY TypedStep, WordInvStep, ExactStep, ExactNat DEF IndInv
<1>3. QED
  BY <1>1, <1>2, PTL DEF Spec

\* Every variable stays in its range; in particular no decrement of the
\* packed word borrows from the neighbouring field.
THEOREM TypeCorrect == Spec => []TypeOK
<1>1. IndInv => TypeOK
  BY ExactNat DEF IndInv, Typed, Shared, Queues, Locals, Walks, Walk, Label, CountersNat, TypeOK
<1>2. QED
  BY <1>1, IndInvHolds, PTL

\* The packed counts are the sizes of the sets they stand for, and each
\* count is given back once, whoever wins a claim.
THEOREM CountsCorrect == Spec => []CountersExact
<1>1. IndInv => CountersExact
  BY DEF IndInv
<1>2. QED
  BY <1>1, IndInvHolds, PTL

\* A worker in WAKING has exactly one waker.
THEOREM ClaimsExclusive == Spec => []ClaimExclusive
<1>1. IndInv => ClaimExclusive
  BY DEF IndInv, WordInv
<1>2. QED
  BY <1>1, IndInvHolds, PTL

\* A counted sleeper is inside `sleep` and still looking, so the debug
\* assertion sleeping <= inactive of the counter word holds.
THEOREM CountsBack == Spec => []CountBackBeforeWork
<1>1. ASSUME IndInv PROVE CountBackBeforeWork
  <2>1. \A w \in Workers : Counted(w) => idle[w].looking /\ pc[w] \in RegisteredPc \cup PublishedPc
    BY <1>1 DEF IndInv, WordInv, ClaimExclusive, Counted, LookingPc
  <2>2. Sleepers \subseteq Lookers
    BY <2>1 DEF Sleepers, Lookers
  <2>3. Cardinality(Sleepers) <= Cardinality(Lookers)
    BY <2>2, FiniteWorkers, FS_Subset
  <2>4. QED
    BY <1>1, <2>1, <2>3 DEF IndInv, CountersExact, CountBackBeforeWork, Sleepers, Lookers
<1>2. QED
  BY <1>1, IndInvHolds, PTL
=============================================================================
