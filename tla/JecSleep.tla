------------------------------ MODULE JecSleep ------------------------------
(***************************************************************************)
(* The sleep coordinator of one arena (sched/jec_sleep.rs) together with   *)
(* the loops that drive it: the worker loop, `submit`, the mailbox and     *)
(* deque pushes, the push on an external slot, and the arena's drop        *)
(* (sched/arena_local.rs, sched/arena.rs).                                 *)
(*                                                                         *)
(* Each action is one atomic access to shared memory with the local code   *)
(* that follows it, so every interleaving of the accesses is a behaviour.  *)
(* A load followed by a compare-exchange of the same word in a retry loop  *)
(* is one action: the exchange succeeds only on the word that was loaded.  *)
(* The injector's is_empty is two loads, the ring's tail and then its head, *)
(* and reads the jobs that were there at the first and are left at the     *)
(* second.                                                                 *)
(***************************************************************************)
EXTENDS Integers, FiniteSets

CONSTANTS NWorkers,          \* worker threads of the arena, SMT siblings included
          Extensions,        \* the workers behind the SMT gate
          Producers,         \* threads outside the pool
          Dropper,           \* the thread that drops the arena
          JecMod,            \* 2^32 on a 64-bit host: the JEC wraps
          RoundsUntilSleepy, \* ROUNDS_UNTIL_SLEEPY
          MailCap,           \* MAILBOX_CAPACITY
          MaxJobs,           \* bounds: jobs ever posted in all,
          MaxSubmit,         \*   to the injector,
          MaxSlot,           \*   to the external slot,
          MaxMail,           \*   to mailboxes,
          MaxPush            \*   to the workers' own deques

Workers == 0 .. NWorkers - 1
Slot    == NWorkers          \* the external slot's row in the stealer table
Dummy   == JecMod            \* JobsEventCounter::DUMMY equals no counter value
Procs   == Workers \cup Producers \cup {Dropper}

ASSUME PoolAssumption ==
  /\ NWorkers \in Nat \ {0}
  /\ Extensions \subseteq Workers
  /\ Producers \cap Workers = {}
  /\ Dropper \notin Workers \cup Producers

ASSUME BoundAssumption ==
  /\ JecMod \in Nat /\ JecMod > 0 /\ JecMod % 2 = 0
  /\ RoundsUntilSleepy \in Nat
  /\ MailCap \in Nat /\ MaxJobs \in Nat
  /\ MaxSubmit \in Nat /\ MaxSlot \in Nat /\ MaxMail \in Nat /\ MaxPush \in Nat

VARIABLES
  counters,       \* the packed word: [jec, inactive, sleeping]
  state,          \* WorkerSleepState::state of each worker
  permit,         \* the thread::park token of each worker
  sleepShutdown,  \* Sleep::shutdown
  arenaShutdown,  \* LocalArena::shutdown_flag
  smt,            \* LocalArena::smt_requests
  injector,       \* jobs in the global injector
  mailbox,        \* jobs in each worker's mailbox
  mailUsed,       \* MAILBOX_EVER_USED
  deque,          \* jobs in each worker's deques and in the slot's deque
  posted,         \* jobs posted so far, by kind (bounded by Max...)
  pc,             \* where each thread is
  idle,           \* each worker's jec_idle: [looking, rounds, jc]
  wake,           \* each thread's wake walk: [at, last, num, then]
  note,           \* each thread's arguments to new_internal_jobs
  tailSeen        \* jobs ahead of the injector tail a thread's is_empty read

queues == <<injector, mailbox, mailUsed, deque, posted>>
flags  == <<sleepShutdown, arenaShutdown, smt>>
locals == <<idle, wake, note, tailSeen>>
vars   == <<counters, state, permit, flags, queues, pc, locals>>

NotLooking == [looking |-> FALSE, rounds |-> 0, jc |-> Dummy]
NoWake     == [at |-> 0, last |-> 0, num |-> 0, then |-> "idle"]
NoNote     == [num |-> 0, empty |-> FALSE]

Least(a, b) == IF a < b THEN a ELSE b

JobsPosted == posted.submit + posted.slot + posted.mail + posted.push

Init ==
  /\ counters = [jec |-> 0, inactive |-> 0, sleeping |-> 0]
  /\ state = [w \in Workers |-> "awake"]
  /\ permit = [w \in Workers |-> FALSE]
  /\ sleepShutdown = FALSE /\ arenaShutdown = FALSE /\ smt = 0
  /\ injector = 0 /\ mailUsed = FALSE
  /\ posted = [submit |-> 0, slot |-> 0, mail |-> 0, push |-> 0]
  /\ mailbox = [w \in Workers |-> 0]
  /\ deque = [d \in Workers \cup {Slot} |-> 0]
  /\ pc = [p \in Procs |-> IF p \in Workers THEN "loop" ELSE "idle"]
  /\ idle = [w \in Workers |-> NotLooking]
  /\ wake = [p \in Procs |-> NoWake]
  /\ note = [p \in Procs |-> NoNote]
  /\ tailSeen = [p \in Procs |-> 0]

-----------------------------------------------------------------------------
(* The counter word (AtomicCounters).                                      *)

IsSleepy(jec) == jec % 2 = 0

\* Mutated form: the JEC grows past its field.
NextJec_NoWrap(jec) == jec + 1

NextJec(jec) == IF jec + 1 = JecMod THEN 0 ELSE jec + 1

Goto(p, l) == pc' = [pc EXCEPT ![p] = l]

\* fetch_add and fetch_sub on one field of the word
AddTo(field, n) == counters' = [counters EXCEPT ![field] = @ + n]

\* The walk of wake_any_threads over the workers in index order; `then` is
\* where the thread continues.  num = 0 returns at once.
StartWake(p, from, to, n, then) ==
  IF n = 0
    THEN Goto(p, then) /\ wake' = [wake EXCEPT ![p] = NoWake]
    ELSE /\ Goto(p, "claim")
         /\ wake' = [wake EXCEPT ![p] =
                       [at |-> from, last |-> to, num |-> n, then |-> then]]

\* The step of that walk after a worker that was not woken (n = 0) or was.
WalkOn(p, n) ==
  LET w == wake[p] IN
  IF w.at = w.last \/ w.num = n
    THEN Goto(p, w.then) /\ wake' = [wake EXCEPT ![p] = NoWake]
    ELSE /\ Goto(p, "claim")
         /\ wake' = [wake EXCEPT ![p] = [w EXCEPT !.at = @ + 1, !.num = @ - n]]

-----------------------------------------------------------------------------
(* Waking (wake_specific_thread, one action per atomic access).            *)

Claim(p) ==
  /\ pc[p] = "claim"
  /\ LET w == wake[p].at IN
     IF state[w] = "sleeping"
       THEN /\ state' = [state EXCEPT ![w] = "waking"]
            /\ Goto(p, "release") /\ UNCHANGED wake
       ELSE WalkOn(p, 0) /\ UNCHANGED state
  /\ UNCHANGED <<counters, permit, flags, queues, idle, note, tailSeen>>

Release(p) ==
  /\ pc[p] = "release"
  /\ AddTo("sleeping", -1)
  /\ Goto(p, "awaken")
  /\ UNCHANGED <<state, permit, flags, queues, locals>>

Awaken(p) ==
  /\ pc[p] = "awaken"
  /\ state' = [state EXCEPT ![wake[p].at] = "awake"]
  /\ Goto(p, "unpark")
  /\ UNCHANGED <<counters, permit, flags, queues, locals>>

\* Mutated form: the state is stored and the thread never unparked.
Unpark_Missing(p) ==
  /\ pc[p] = "unpark"
  /\ WalkOn(p, 1)
  /\ UNCHANGED <<counters, state, permit, flags, queues, idle, note, tailSeen>>

Unpark(p) ==
  /\ pc[p] = "unpark"
  /\ permit' = [permit EXCEPT ![wake[p].at] = TRUE]
  /\ WalkOn(p, 1)
  /\ UNCHANGED <<counters, state, flags, queues, idle, note, tailSeen>>

\* Mutated form: the sleepers are counted among the idle workers.
WakesFor_Inactive(num, empty, awakeButIdle, sleepers) ==
  IF ~empty THEN Least(num, sleepers)
  ELSE IF awakeButIdle + sleepers < num THEN Least(num - awakeButIdle, sleepers)
  ELSE 0

\* new_internal_jobs: bump the JEC if it is sleepy, then decide from the
\* same snapshot of the word how many sleepers to wake.
WakesFor(num, empty, awakeButIdle, sleepers) ==
  IF ~empty THEN Least(num, sleepers)
  ELSE IF awakeButIdle < num THEN Least(num - awakeButIdle, sleepers)
  ELSE 0

Notify(p) ==
  /\ pc[p] = "notify"
  /\ counters' = IF IsSleepy(counters.jec)
                   THEN [counters EXCEPT !.jec = NextJec(@)] ELSE counters
  /\ LET n == WakesFor(note[p].num, note[p].empty,
                       counters.inactive - counters.sleeping, counters.sleeping)
     IN  StartWake(p, 0, NWorkers - 1, n, IF p \in Workers THEN "run" ELSE "idle")
  /\ note' = [note EXCEPT ![p] = NoNote]
  /\ UNCHANGED <<state, permit, flags, queues, idle, tailSeen>>

CallStep(p) == Claim(p) \/ Release(p) \/ Awaken(p) \/ Unpark(p) \/ Notify(p)

-----------------------------------------------------------------------------
(* The worker loop: one search, probe by probe.                            *)

\* The loop condition, then the gate of an SMT sibling.
LoopTop(w) ==
  /\ pc[w] = "loop"
  /\ Goto(w, IF arenaShutdown THEN "leave"
             ELSE IF w \in Extensions /\ smt = 0 THEN "gate" ELSE "mail")
  /\ UNCHANGED <<counters, state, permit, flags, queues, locals>>

\* The gate's spin, sleep and park stages all wait for a request or for
\* shutdown.  The first two return from the loop's function on shutdown, the
\* third goes round the loop; none of them touches jec_idle.
GateOpens(w) ==
  /\ pc[w] = "gate" /\ smt > 0
  /\ Goto(w, "loop")
  /\ UNCHANGED <<counters, state, permit, flags, queues, locals>>

GateShutdown(w) ==
  /\ pc[w] = "gate" /\ arenaShutdown
  /\ \E l \in {"loop", "done"} : Goto(w, l)
  /\ UNCHANGED <<counters, state, permit, flags, queues, locals>>

ProbeMailbox(w) ==
  /\ pc[w] = "mail"
  /\ IF mailbox[w] > 0
       THEN mailbox' = [mailbox EXCEPT ![w] = @ - 1] /\ Goto(w, "found")
       ELSE Goto(w, "own") /\ UNCHANGED mailbox
  /\ UNCHANGED <<counters, state, permit, flags, injector, mailUsed, deque,
                 posted, locals>>

\* The worker's own deques, and later the claimed slots' deques.
ProbeDeque(w, from, d, next) ==
  /\ pc[w] = from
  /\ IF deque[d] > 0
       THEN deque' = [deque EXCEPT ![d] = @ - 1] /\ Goto(w, "found")
       ELSE Goto(w, next) /\ UNCHANGED deque
  /\ UNCHANGED <<counters, state, permit, flags, injector, mailbox, mailUsed,
                 posted, locals>>

ProbeOwn(w)  == ProbeDeque(w, "own", w, "inject")
ProbeSlot(w) == ProbeDeque(w, "slot", Slot, "peer")

ProbeInjector(w) ==
  /\ pc[w] = "inject"
  /\ IF injector > 0
       THEN /\ injector' = injector - 1 /\ Goto(w, "found")
            /\ tailSeen' = [p \in Procs |-> IF tailSeen[p] = 0 THEN 0 ELSE tailSeen[p] - 1]
       ELSE Goto(w, "slot") /\ UNCHANGED <<injector, tailSeen>>
  /\ UNCHANGED <<counters, state, permit, flags, mailbox, mailUsed, deque,
                 posted, idle, wake, note>>

\* A bounded random walk over the peers: it may miss a job that is there.
StealFromPeer(w) ==
  /\ pc[w] = "peer"
  /\ \E v \in Workers \ {w} :
       /\ deque[v] > 0
       /\ deque' = [deque EXCEPT ![v] = @ - 1]
  /\ Goto(w, "found")
  /\ UNCHANGED <<counters, state, permit, flags, injector, mailbox, mailUsed,
                 posted, locals>>

MissPeers(w) ==
  /\ pc[w] = "peer"
  /\ Goto(w, IF idle[w].looking THEN "idle" ELSE "start")
  /\ UNCHANGED <<counters, state, permit, flags, queues, locals>>

\* work_found, when the find ends an idle episode.
WorkFound(w, then) ==
  IF idle[w].looking
    THEN /\ AddTo("inactive", -1)
         /\ idle' = [idle EXCEPT ![w] = NotLooking]
         /\ StartWake(w, 0, NWorkers - 1, Least(counters.sleeping, 2), then)
    ELSE Goto(w, then) /\ UNCHANGED <<counters, idle, wake>>

Found(w) ==
  /\ pc[w] = "found"
  /\ WorkFound(w, "run")
  /\ UNCHANGED <<state, permit, flags, queues, note, tailSeen>>

Leave(w) ==
  /\ pc[w] = "leave"
  /\ WorkFound(w, "done")
  /\ UNCHANGED <<state, permit, flags, queues, note, tailSeen>>

Search(w) ==
  \/ LoopTop(w) \/ GateOpens(w) \/ GateShutdown(w)
  \/ ProbeMailbox(w) \/ ProbeOwn(w) \/ ProbeInjector(w) \/ ProbeSlot(w)
  \/ StealFromPeer(w) \/ MissPeers(w) \/ Found(w) \/ Leave(w)

-----------------------------------------------------------------------------
(* The idle path: start_looking, no_work_found, sleep.                     *)

\* The worker's idle episode goes on with this round count and JEC snapshot.
SetIdle(w, rounds, jc) ==
  idle' = [idle EXCEPT ![w] = [looking |-> idle[w].looking, rounds |-> rounds, jc |-> jc]]

WakePartly(w) == SetIdle(w, RoundsUntilSleepy, Dummy)
WakeFully(w)  == SetIdle(w, 0, Dummy)

StartLooking(w) ==
  /\ pc[w] = "start"
  /\ AddTo("inactive", 1)
  /\ idle' = [idle EXCEPT ![w] = [looking |-> TRUE, rounds |-> 0, jc |-> Dummy]]
  /\ Goto(w, "idle")
  /\ UNCHANGED <<state, permit, flags, queues, wake, note, tailSeen>>

\* A yield before the worker is sleepy, and any round of the spin window,
\* whose length the controller may change at any time.
IdleRound(w) ==
  /\ pc[w] = "idle" /\ idle[w].rounds # RoundsUntilSleepy
  /\ SetIdle(w, Least(idle[w].rounds + 1, RoundsUntilSleepy + 1), idle[w].jc)
  /\ Goto(w, "loop")
  /\ UNCHANGED <<counters, state, permit, flags, queues, wake, note, tailSeen>>

AnnounceSleepy(w) ==
  /\ pc[w] = "idle" /\ idle[w].rounds = RoundsUntilSleepy
  /\ LET jec == IF IsSleepy(counters.jec) THEN counters.jec
                ELSE NextJec(counters.jec) IN
     /\ counters' = [counters EXCEPT !.jec = jec]
     /\ SetIdle(w, RoundsUntilSleepy + 1, jec)
  /\ Goto(w, "loop")
  /\ UNCHANGED <<state, permit, flags, queues, wake, note, tailSeen>>

WindowOver(w) ==
  /\ pc[w] = "idle" /\ idle[w].rounds > RoundsUntilSleepy
  /\ Goto(w, "sleep")
  /\ UNCHANGED <<counters, state, permit, flags, queues, locals>>

CheckShutdown(w) ==
  /\ pc[w] = "sleep"
  /\ IF sleepShutdown THEN Goto(w, "loop") /\ WakePartly(w)
                      ELSE Goto(w, "register") /\ UNCHANGED idle
  /\ UNCHANGED <<counters, state, permit, flags, queues, wake, note, tailSeen>>

\* try_add_sleeping_thread, unless the JEC moved since the announcement.
Register(w) ==
  /\ pc[w] = "register"
  /\ IF counters.jec # idle[w].jc
       THEN Goto(w, "loop") /\ WakePartly(w) /\ UNCHANGED counters
       ELSE AddTo("sleeping", 1) /\ Goto(w, "checkInjector") /\ UNCHANGED idle
  /\ UNCHANGED <<state, permit, flags, queues, wake, note, tailSeen>>

\* has_reachable_work, asked before publishing and again after: the
\* injector, then the worker's own mailbox.  Nobody else empties that
\* mailbox, so its flag and its length read as one.
ReadTail(p, from, head, no) ==
  /\ pc[p] = from
  /\ Goto(p, IF injector > 0 THEN head ELSE no)
  /\ tailSeen' = [tailSeen EXCEPT ![p] = injector]
  /\ UNCHANGED <<counters, state, permit, flags, queues, idle, wake>>

ReadHead(p, head, yes, no) ==
  /\ pc[p] = head
  /\ Goto(p, IF tailSeen[p] > 0 THEN yes ELSE no)
  /\ tailSeen' = [tailSeen EXCEPT ![p] = 0]
  /\ UNCHANGED <<counters, state, permit, flags, queues, idle, wake>>

AskInjector(w, from, head, yes, no) ==
  /\ ReadTail(w, from, head, no) \/ ReadHead(w, head, yes, no)
  /\ UNCHANGED note

AskMailbox(w, from, yes, no) ==
  /\ pc[w] = from
  /\ Goto(w, IF mailUsed /\ mailbox[w] > 0 THEN yes ELSE no)
  /\ UNCHANGED <<counters, state, permit, flags, queues, locals>>

\* Mutated forms: the second question is not asked.
RecheckInjector_Skipped(w) ==
  AskInjector(w, "recheckInjector", "recheckHead", "recheckMailbox", "recheckMailbox")
RecheckMailbox_Skipped(w) == AskMailbox(w, "recheckMailbox", "park", "park")

CheckInjector(w) ==
  AskInjector(w, "checkInjector", "checkHead", "unregister", "checkMailbox")
CheckMailbox(w) == AskMailbox(w, "checkMailbox", "unregister", "publish")
RecheckInjector(w) ==
  AskInjector(w, "recheckInjector", "recheckHead", "rescue", "recheckMailbox")
RecheckMailbox(w) == AskMailbox(w, "recheckMailbox", "rescue", "park")

Publish(w) ==
  /\ pc[w] = "publish"
  /\ state' = [state EXCEPT ![w] = "sleeping"]
  /\ Goto(w, "recheckShutdown")
  /\ UNCHANGED <<counters, permit, flags, queues, locals>>

\* Mutated form: shutdown is read before publishing only.
RecheckShutdown_Skipped(w) ==
  /\ pc[w] = "recheckShutdown"
  /\ Goto(w, "recheckInjector")
  /\ UNCHANGED <<counters, state, permit, flags, queues, locals>>

RecheckShutdown(w) ==
  /\ pc[w] = "recheckShutdown"
  /\ Goto(w, IF sleepShutdown THEN "rescue" ELSE "recheckInjector")
  /\ UNCHANGED <<counters, state, permit, flags, queues, locals>>

\* Mutated form: a store where the compare-exchange is.
Rescue_Store(w) ==
  /\ pc[w] = "rescue"
  /\ state' = [state EXCEPT ![w] = "awake"] /\ Goto(w, "unregister")
  /\ UNCHANGED <<counters, permit, flags, queues, locals>>

\* The compare-exchange by which a worker claims itself.
Rescue(w) ==
  /\ pc[w] = "rescue"
  /\ IF state[w] = "sleeping"
       THEN state' = [state EXCEPT ![w] = "awake"] /\ Goto(w, "unregister")
       ELSE Goto(w, "park") /\ UNCHANGED state
  /\ UNCHANGED <<counters, permit, flags, queues, locals>>

Unregister(w) ==
  /\ pc[w] = "unregister"
  /\ AddTo("sleeping", -1)
  /\ WakeFully(w)
  /\ Goto(w, "loop")
  /\ UNCHANGED <<state, permit, flags, queues, wake, note, tailSeen>>

\* Mutated form: the claim alone releases the worker.
ParkLoop_OnClaim(w) ==
  /\ pc[w] = "park"
  /\ IF state[w] # "sleeping" THEN Goto(w, "loop") /\ WakeFully(w)
                              ELSE Goto(w, "parked") /\ UNCHANGED idle
  /\ UNCHANGED <<counters, state, permit, flags, queues, wake, note, tailSeen>>

\* The park loop: leave it on AWAKE only.
ParkLoop(w) ==
  /\ pc[w] = "park"
  /\ IF state[w] = "awake" THEN Goto(w, "loop") /\ WakeFully(w)
                           ELSE Goto(w, "parked") /\ UNCHANGED idle
  /\ UNCHANGED <<counters, state, permit, flags, queues, wake, note, tailSeen>>

ParkReturns(w) ==
  /\ pc[w] = "parked" /\ permit[w]
  /\ permit' = [permit EXCEPT ![w] = FALSE]
  /\ Goto(w, "park")
  /\ UNCHANGED <<counters, state, flags, queues, locals>>

SpuriousReturn(w) ==
  /\ pc[w] = "parked"
  /\ Goto(w, "park")
  /\ UNCHANGED <<counters, state, permit, flags, queues, locals>>

IdlePath(w) ==
  \/ StartLooking(w) \/ IdleRound(w) \/ AnnounceSleepy(w) \/ WindowOver(w)
  \/ CheckShutdown(w) \/ Register(w) \/ CheckInjector(w) \/ CheckMailbox(w)
  \/ Publish(w) \/ RecheckShutdown(w) \/ RecheckInjector(w)
  \/ RecheckMailbox(w) \/ Rescue(w) \/ Unregister(w) \/ ParkLoop(w)
  \/ ParkReturns(w)

-----------------------------------------------------------------------------
(* Posting work.                                                           *)

\* A job ends, or hands work on first: to a peer's mailbox, or to the
\* worker's own deque (also when the mailbox is full).
FinishJob(w) ==
  /\ pc[w] = "run"
  /\ Goto(w, "loop")
  /\ UNCHANGED <<counters, state, permit, flags, queues, locals>>

PushMailbox(w, t) ==
  /\ pc[w] = "run" /\ posted.mail < MaxMail /\ JobsPosted < MaxJobs
  /\ t # w /\ mailbox[t] < MailCap
  /\ mailbox' = [mailbox EXCEPT ![t] = @ + 1]
  /\ posted' = [posted EXCEPT !.mail = @ + 1]
  /\ wake' = [wake EXCEPT ![w] = [at |-> t, last |-> t, num |-> 1, then |-> "run"]]
  /\ Goto(w, "mark")
  /\ UNCHANGED <<counters, state, permit, flags, injector, mailUsed, deque,
                 idle, note, tailSeen>>

MarkUsed(w) ==
  /\ pc[w] = "mark"
  /\ mailUsed' = TRUE
  /\ Goto(w, "target")
  /\ UNCHANGED <<counters, state, permit, flags, injector, mailbox, deque,
                 posted, locals>>

\* Mutated form: mail wakes nobody and waits for the next broadcast.
WakeWorker_Silent(w) ==
  /\ pc[w] = "target"
  /\ Goto(w, "run") /\ wake' = [wake EXCEPT ![w] = NoWake]
  /\ UNCHANGED <<counters, state, permit, flags, queues, idle, note, tailSeen>>

\* wake_worker reads the target's state before it tries to claim it.
WakeWorker(w) ==
  /\ pc[w] = "target"
  /\ IF state[wake[w].at] = "sleeping"
       THEN Goto(w, "claim") /\ UNCHANGED wake
       ELSE Goto(w, "run") /\ wake' = [wake EXCEPT ![w] = NoWake]
  /\ UNCHANGED <<counters, state, permit, flags, queues, idle, note, tailSeen>>

ReadOwnEmpty(w) ==
  /\ pc[w] = "run" /\ posted.push < MaxPush /\ JobsPosted < MaxJobs
  /\ note' = [note EXCEPT ![w] = [num |-> 1, empty |-> deque[w] = 0]]
  /\ posted' = [posted EXCEPT !.push = @ + 1]
  /\ Goto(w, "push")
  /\ UNCHANGED <<counters, state, permit, flags, injector, mailbox, mailUsed,
                 deque, idle, wake, tailSeen>>

\* try_push_tier; a small dispatch clears DISPATCH_USE_JEC_WAKE and sends
\* no notification.
PushOwnDeque(w) ==
  /\ pc[w] = "push"
  /\ deque' = [deque EXCEPT ![w] = @ + 1]
  /\ \/ Goto(w, "notify") /\ UNCHANGED note
     \/ Goto(w, "run") /\ note' = [note EXCEPT ![w] = NoNote]
  /\ UNCHANGED <<counters, state, permit, flags, injector, mailbox, mailUsed,
                 posted, idle, wake, tailSeen>>

RunJob(w) ==
  \/ FinishJob(w) \/ MarkUsed(w) \/ WakeWorker(w) \/ ReadOwnEmpty(w)
  \/ PushOwnDeque(w) \/ \E t \in Workers : PushMailbox(w, t)

\* submit reads the injector's emptiness, pushes, then notifies.
Submit(p) ==
  /\ pc[p] = "idle" /\ posted.submit < MaxSubmit /\ JobsPosted < MaxJobs /\ ~arenaShutdown
  /\ posted' = [posted EXCEPT !.submit = @ + 1]
  /\ Goto(p, "empty")
  /\ UNCHANGED <<counters, state, permit, flags, injector, mailbox, mailUsed,
                 deque, locals>>

ReadEmpty(p) ==
  /\ \/ /\ ReadTail(p, "empty", "emptyHead", "inject")
        /\ note' = [note EXCEPT ![p] = [num |-> 1, empty |-> injector = 0]]
     \/ /\ ReadHead(p, "emptyHead", "inject", "inject")
        /\ note' = [note EXCEPT ![p] = [num |-> 1, empty |-> tailSeen[p] = 0]]

PushInjector(p) ==
  /\ pc[p] = "inject"
  /\ injector' = injector + 1
  /\ Goto(p, "notify")
  /\ UNCHANGED <<counters, state, permit, flags, mailbox, mailUsed, deque,
                 posted, locals>>

\* external_dispatch on a claimed slot: the wrapped join goes on the slot's
\* deque and every sleeper is to be woken.  The claim is exclusive, so the
\* slot holds one job at a time.
PushSlot(p) ==
  /\ pc[p] = "idle" /\ posted.slot < MaxSlot /\ JobsPosted < MaxJobs /\ ~arenaShutdown
  /\ deque[Slot] = 0
  /\ deque' = [deque EXCEPT ![Slot] = 1]
  /\ posted' = [posted EXCEPT !.slot = @ + 1]
  /\ note' = [note EXCEPT ![p] = [num |-> NWorkers + 1, empty |-> FALSE]]
  /\ Goto(p, "notify")
  /\ UNCHANGED <<counters, state, permit, flags, injector, mailbox, mailUsed,
                 idle, wake, tailSeen>>

\* acquire_smt and the guard's drop; one request at a time.
AcquireSmt ==
  /\ Extensions # {} /\ smt = 0 /\ ~arenaShutdown
  /\ smt' = 1
  /\ UNCHANGED <<counters, state, permit, sleepShutdown, arenaShutdown, queues,
                 pc, locals>>

ReleaseSmt ==
  /\ smt = 1
  /\ smt' = 0
  /\ UNCHANGED <<counters, state, permit, sleepShutdown, arenaShutdown, queues,
                 pc, locals>>

-----------------------------------------------------------------------------
(* LocalArena::drop: every caller of the arena holds a reference to it, so *)
(* the drop starts only after their calls have returned.                   *)

DropArena ==
  /\ pc[Dropper] = "idle"
  /\ \A p \in Producers : pc[p] = "idle"
  /\ smt = 0
  /\ arenaShutdown' = TRUE
  /\ Goto(Dropper, "flag")
  /\ UNCHANGED <<counters, state, permit, sleepShutdown, smt, queues, locals>>

\* Mutated form: the sweep leaves no flag behind.
WakeAllForShutdown_NoFlag ==
  /\ pc[Dropper] = "flag"
  /\ StartWake(Dropper, 0, NWorkers - 1, NWorkers, "join")
  /\ UNCHANGED <<counters, state, permit, flags, queues, idle, note, tailSeen>>

WakeAllForShutdown ==
  /\ pc[Dropper] = "flag"
  /\ sleepShutdown' = TRUE
  /\ StartWake(Dropper, 0, NWorkers - 1, NWorkers, "join")
  /\ UNCHANGED <<counters, state, permit, arenaShutdown, smt, queues, idle, note, tailSeen>>

JoinWorkers ==
  /\ pc[Dropper] = "join"
  /\ \A w \in Workers : pc[w] = "done"
  /\ Goto(Dropper, "done")
  /\ UNCHANGED <<counters, state, permit, flags, queues, locals>>

-----------------------------------------------------------------------------
WorkerStep(w) == CallStep(w) \/ Search(w) \/ IdlePath(w) \/ RunJob(w)
ProducerCall(p) == CallStep(p) \/ ReadEmpty(p) \/ PushInjector(p)
DropStep == CallStep(Dropper) \/ WakeAllForShutdown \/ JoinWorkers

Terminated == pc[Dropper] = "done" /\ UNCHANGED vars

Next ==
  \/ \E w \in Workers : WorkerStep(w) \/ SpuriousReturn(w)
  \/ \E p \in Producers : ProducerCall(p) \/ Submit(p) \/ PushSlot(p)
  \/ AcquireSmt \/ ReleaseSmt \/ DropArena \/ DropStep \/ Terminated

Spec == Init /\ [][Next]_vars

\* Every thread keeps running (the OS scheduler) and every job ends; calls
\* are made, requests held and arenas dropped at will.
Fairness ==
  /\ \A w \in Workers : WF_vars(WorkerStep(w))
  /\ \A p \in Producers : WF_vars(ProducerCall(p))
  /\ WF_vars(DropStep)

FairSpec == Spec /\ Fairness

-----------------------------------------------------------------------------
(* Properties.                                                             *)

SearchPc == {"loop", "gate", "mail", "own", "inject", "slot", "peer"}
RegisteredPc == {"checkInjector", "checkHead", "checkMailbox", "publish", "unregister"}
PublishedPc == {"recheckShutdown", "recheckInjector", "recheckHead",
                "recheckMailbox", "rescue", "park", "parked"}
CallPc == {"notify", "claim", "release", "awaken", "unpark"}
WorkerPc == SearchPc \cup RegisteredPc \cup PublishedPc \cup CallPc \cup
            {"found", "leave", "done", "start", "idle", "sleep", "register",
             "run", "mark", "target", "push"}
OtherPc == CallPc \cup {"idle", "empty", "emptyHead", "inject", "flag", "join", "done"}

\* Type invariant: every variable is in its range; in particular the packed
\* fields never go negative, which in the code would borrow from the
\* neighbouring field of the word.
TypeOK ==
  /\ counters \in [jec : 0 .. JecMod - 1, inactive : Nat, sleeping : Nat]
  /\ state \in [Workers -> {"awake", "sleeping", "waking"}]
  /\ permit \in [Workers -> BOOLEAN]
  /\ sleepShutdown \in BOOLEAN /\ arenaShutdown \in BOOLEAN /\ smt \in {0, 1}
  /\ injector \in Nat /\ mailbox \in [Workers -> Nat] /\ mailUsed \in BOOLEAN
  /\ deque \in [Workers \cup {Slot} -> Nat] 
  /\ posted \in [submit : Nat, slot : Nat, mail : Nat, push : Nat]
  /\ pc \in [Procs -> WorkerPc \cup OtherPc]
  /\ idle \in [Workers -> [looking : BOOLEAN, rounds : 0 .. RoundsUntilSleepy + 1,
                           jc : 0 .. Dummy]]
  /\ wake \in [Procs -> [at : Workers, last : Workers, num : Nat,
                         then : {"idle", "run", "done", "join"}]]
  /\ note \in [Procs -> [num : Nat, empty : BOOLEAN]]
  /\ tailSeen \in [Procs -> Nat]

\* The worker is counted in the word's sleeping field: it has registered,
\* and neither it nor a waker that claimed it has given the count back.
Claimed(w, l) == \E p \in Procs : pc[p] = l /\ wake[p].at = w
Counted(w) == \/ pc[w] \in RegisteredPc
              \/ state[w] = "sleeping"
              \/ Claimed(w, "release")

\* The sleeping field is exactly the registered workers and the inactive
\* field exactly the workers in an idle episode: whichever of the worker,
\* its wakers and the shutdown sweep wins the claim, the count is given back
\* once.
CountersExact ==
  /\ counters.sleeping = Cardinality({w \in Workers : Counted(w)})
  /\ counters.inactive = Cardinality({w \in Workers : idle[w].looking})

\* A claim is exclusive: a worker in WAKING is held by exactly one waker,
\* which has not yet released it, and no waker holds any other worker.
ClaimExclusive ==
  /\ \A w \in Workers :
       state[w] = "waking" <=> Claimed(w, "release") \/ Claimed(w, "awaken")
  /\ \A p, q \in Procs :
       /\ pc[p] \in {"release", "awaken"} /\ pc[q] \in {"release", "awaken"}
       /\ wake[p].at = wake[q].at
       => p = q

\* The count is back before the worker can take work: a worker that is
\* counted as sleeping is inside `sleep`, is still looking, and so sleeping
\* never exceeds inactive (the debug assertions of the counter word).
CountBackBeforeWork ==
  /\ \A w \in Workers : Counted(w) =>
       idle[w].looking /\ pc[w] \in RegisteredPc \cup PublishedPc
  /\ counters.sleeping <= counters.inactive

\* The debug assertions at the head of `sleep`: the caller's state is AWAKE
\* and its snapshot of the JEC is a sleepy one.
SleepEntry ==
  \A w \in Workers : pc[w] \in {"sleep", "register"} =>
    state[w] = "awake" /\ idle[w].jc # Dummy /\ IsSleepy(idle[w].jc)

\* A worker committed to its park that nobody has claimed.
Asleep(w) == state[w] = "sleeping" /\ pc[w] \in {"park", "parked"}

\* Mail has one consumer, so its wake may not be lost: a worker asleep over
\* a non-empty mailbox has a waker on the way to it, whatever the order of
\* the push, the used flag, the state word and the worker's two rechecks.
Delivering(w) == \E p \in Procs : pc[p] \in {"mark", "target", "claim"} /\ wake[p].at = w
MailNotStranded ==
  \A w \in Workers : mailbox[w] > 0 /\ Asleep(w) => Delivering(w)

\* A parked worker that has been released holds, or is about to be handed,
\* the permit that ends its park.
ReleasedIsUnparked ==
  \A w \in Workers : pc[w] = "parked" /\ state[w] = "awake" =>
    permit[w] \/ Claimed(w, "unpark")

\* No thread is between a push and the end of its notification, or waking.
NoCallInFlight ==
  \A p \in Procs : pc[p] \notin CallPc \cup {"mark", "target", "found"}

\* The worker waits at the SMT gate with no request to open it.
AtClosedGate(w) == pc[w] = "gate" /\ smt = 0

\* A job in the injector is not left to busy workers while others sleep:
\* once every notification has ended, some worker is awake and on its way
\* through a search, however the pushes, the idle counts they read, the
\* registrations and the work_found cascade interleaved.
InjectedHasSearcher ==
  /\ injector > 0 /\ NoCallInFlight /\ ~arenaShutdown
  /\ ~\E w \in Workers : AtClosedGate(w)
  /\ \E w \in Workers : Asleep(w)
  => \E w \in Workers : ~Asleep(w) /\ pc[w] \notin {"run", "push"}

\* Shutdown leaves nobody parked: once the sweep is over, no worker is
\* asleep, so the joins of the drop cannot wait on one.
ShutdownLeavesNoSleeper ==
  pc[Dropper] \in {"join", "done"} => \A w \in Workers : ~Asleep(w)

\* A slot's job is taken within a round because the push wakes everyone
\* (arena.rs: "Broadcast-wake all primaries so they wake and scan at once").
SlotNotStranded ==
  deque[Slot] > 0 /\ NoCallInFlight /\ ~arenaShutdown =>
    \E w \in Workers : ~Asleep(w)

\* Every submitted job is taken, and every piece of mail, unless the arena
\* is dropped first.
InjectedTaken == injector > 0 ~> (injector = 0 \/ arenaShutdown)
MailTaken == \A w \in Workers : mailbox[w] > 0 ~> (mailbox[w] = 0 \/ arenaShutdown)

\* The drop ends: every worker returns and is joined.
DropEnds == arenaShutdown ~> pc[Dropper] = "done"
=============================================================================
