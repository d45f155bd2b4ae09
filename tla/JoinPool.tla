------------------------------ MODULE JoinPool ------------------------------
(***************************************************************************)
(* Fork and join inside the pool: join_in_worker and park_for_half         *)
(* (sched/arena.rs), the JoinLatch (sched/latch.rs), StackJob              *)
(* (sched/job.rs), and the search and exit of the worker that runs the     *)
(* jobs (sched/arena_local.rs).                                            *)
(*                                                                         *)
(* A worker is a stack of frames.  A job frame runs a job somebody posted  *)
(* and then publishes it; a join frame belongs to one call of              *)
(* join_in_worker and is named by its right half.  A closure's body may    *)
(* fork, return or panic.  Only join waits park here: the idle sleep of a  *)
(* worker is JecSleep's.                                                   *)
(***************************************************************************)
EXTENDS Integers, Sequences, FiniteSets

CONSTANTS NWorkers,      \* worker threads of the arena
          Roots,         \* jobs handed in from outside the pool
          MaxForks,      \* bound: joins ever entered
          DequeCap,      \* slots of a deque, 256 in the code
          Levers         \* the settings a pool may be started with

Workers == 0 .. NWorkers - 1
Halves  == 1 .. MaxForks

\* The mailboxes a join can reach.  Every worker has one and so has every
\* external slot; the slots' indices follow the workers', and a worker's
\* sibling is at most the first of them.
Boxes == 0 .. NWorkers
Jobs    == Roots \cup Halves

\* The state bits of a latch, and the value for one whose frame is gone.
UNSET == 0
SLEEPY == 1
SLEEPING == 2
SET == 3
Gone == 4

\* What the constants may be (Joins assumes it).
JoinAssumption ==
  /\ NWorkers \in Nat \ {0} /\ MaxForks \in Nat /\ DequeCap \in Nat
  /\ Roots \cap Halves = {}
  /\ Levers \subseteq {"spin", "park", "mail", "mailpark"}

VARIABLES
  stack,     \* each worker's frames, the running one last
  deque,     \* the jobs on each worker's deques
  mailbox,   \* the jobs in each worker's mailbox, and in the first slot's
  injector,  \* the roots no worker has taken yet
  latch,     \* the state bits of each half's JoinLatch; Gone with its frame
  result,    \* each job's result slot
  owner,     \* the worker whose join parker the latch names
  permit,    \* each worker's thread::park token
  forks,     \* joins entered so far (bounded by MaxForks)
  shutdown,  \* LocalArena::shutdown_flag
  exited,    \* the workers whose loop has returned, and freed its context
  panicked,  \* some closure has panicked
  lever      \* the setting of this pool

queues == <<deque, mailbox, injector>>
vars   == <<stack, queues, latch, result, owner, permit, forks, shutdown,
            exited, panicked, lever>>

Init ==
  /\ stack = [w \in Workers |-> <<>>]
  /\ deque = [w \in Workers |-> {}] /\ mailbox = [b \in Boxes |-> {}]
  /\ injector = Roots
  /\ latch = [h \in Halves |-> Gone]
  /\ result = [j \in Jobs |-> "none"]
  /\ owner = [h \in Halves |-> 0]
  /\ permit \in [Workers -> BOOLEAN]     \* left over from an idle sleep
  /\ forks = 0
  /\ shutdown = FALSE /\ exited = {} /\ panicked = FALSE
  /\ lever \in Levers

\* One of the join_park levers is on; some plans ask for use_mailbox_routing.
Parks       == lever \in {"park", "mailpark"}
MailRouting == lever \in {"mail", "mailpark"}

-----------------------------------------------------------------------------
(* Frames.                                                                 *)

\* err: the left half, or the job, ended in a panic; unwinding: a panic that
\* came out of a nested join is passing through this frame's body.
Frame(j, at) == [job |-> j, at |-> at, err |-> FALSE, unwinding |-> FALSE]

\* In a job frame "run" is the job's body; in a join frame "left" is the left
\* half's, "refused" the left half's after a refused push, and "right" the
\* right half's, run inline.
BodyPc == {"run", "left", "refused", "right"}
JobPc  == {"run", "result", "address", "swap", "unpark"}
WaitPc == {"poll", "own", "mail", "other", "idle", "sleepy", "fall", "ready",
           "parked", "wake", "revert", "take"}

Busy(w) == stack[w] # <<>>
Top(w)  == stack[w][Len(stack[w])]
At(w, l) == Busy(w) /\ Top(w).at = l

WithTop(w, f) == stack' = [stack EXCEPT ![w][Len(stack[w])] = f]
Goto(w, l)    == WithTop(w, [Top(w) EXCEPT !.at = l])
Push(w, f)    == stack' = [stack EXCEPT ![w] = Append(@, f)]
Return(w)     == SubSeq(stack[w], 1, Len(stack[w]) - 1)

\* The join returns to the body that called it, or its panic starts to
\* unwind that body.
Finish(w, err) ==
  LET rest == Return(w) n == Len(rest) IN
  stack' = [stack EXCEPT ![w] =
              [rest EXCEPT ![n].unwinding = err]]

-----------------------------------------------------------------------------
(* join_in_worker: fork, left half, and what follows the left half.        *)

\* index ^ 1.  The last worker of an odd pool has no sibling: for it this is
\* the index of the first external slot.
Sibling(w) == IF w % 2 = 0 THEN w + 1 ELSE w - 1

InBody(w) == Busy(w) /\ Top(w).at \in BodyPc

CanFork(w) == InBody(w) /\ ~Top(w).unwinding /\ forks < MaxForks

NewHalf(w, at) ==
  LET h == forks + 1 IN
  /\ forks' = h
  /\ latch' = [latch EXCEPT ![h] = UNSET]
  /\ owner' = [owner EXCEPT ![h] = w]
  /\ Push(w, Frame(h, at))
  /\ UNCHANGED <<injector, result, permit, shutdown, exited, panicked, lever>>

\* The right half goes to the SMT sibling when the plan asks for it and that
\* sibling has nothing queued.  The index is tested against the tables of
\* mailboxes and stealers, which hold the external slots too, so it is always
\* in range.  Waking is wake_worker's business, which leaves alone a worker
\* that is not in the idle sleep, and a slot.
ForkToSibling(w) ==
  /\ MailRouting /\ CanFork(w)
  /\ mailbox[Sibling(w)] = {}
  /\ mailbox' = [mailbox EXCEPT ![Sibling(w)] = @ \cup {forks + 1}]
  /\ NewHalf(w, "left")
  /\ UNCHANGED deque

ForkToDeque(w) ==
  /\ CanFork(w) /\ Cardinality(deque[w]) < DequeCap
  /\ deque' = [deque EXCEPT ![w] = @ \cup {forks + 1}]
  /\ NewHalf(w, "left")
  /\ UNCHANGED mailbox

\* Mutated form: a refused half is waited for like a published one.
ForkRefused_Waits(w) ==
  /\ CanFork(w) /\ Cardinality(deque[w]) >= DequeCap
  /\ NewHalf(w, "left")
  /\ UNCHANGED <<deque, mailbox>>

\* A full deque refuses the push, and both halves run here.
ForkRefused(w) ==
  /\ CanFork(w) /\ Cardinality(deque[w]) >= DequeCap
  /\ NewHalf(w, "refused")
  /\ UNCHANGED <<deque, mailbox>>

\* A body ends, in a panic if one is unwinding it.
Ending(w, panic) ==
  /\ InBody(w) /\ (Top(w).unwinding => panic)
  /\ panicked' = (panicked \/ panic)
  /\ UNCHANGED <<queues, result, owner, permit, forks, shutdown, exited, lever>>

\* Mutated form: a panic of the left half unwinds the join at once.
EndLeft_Unwinds(w) == \E panic \in BOOLEAN :
  /\ Top(w).at \in {"left", "refused", "run"}
  /\ Ending(w, panic)
  /\ IF panic /\ Top(w).at # "run"
       THEN Finish(w, TRUE) /\ latch' = [latch EXCEPT ![Top(w).job] = Gone]
       ELSE /\ WithTop(w, [Top(w) EXCEPT !.err = panic, !.unwinding = FALSE,
                               !.at = CASE @ = "left" -> "poll"
                                        [] @ = "refused" -> "right"
                                        [] @ = "run" -> "result"])
            /\ UNCHANGED latch

EndLeft(w) == \E panic \in BOOLEAN :
  /\ Top(w).at \in {"left", "refused", "run"}
  /\ Ending(w, panic)
  /\ WithTop(w, [Top(w) EXCEPT !.err = panic, !.unwinding = FALSE,
                               !.at = CASE @ = "left" -> "poll"
                                        [] @ = "refused" -> "right"
                                        [] @ = "run" -> "result"])
  /\ UNCHANGED latch

\* Mutated form: the left half's panic is dropped when the right half ran
\* inline.
EndRight_DropsLeft(w) == \E panic \in BOOLEAN :
  /\ Top(w).at = "right" /\ Ending(w, panic)
  /\ Finish(w, panic)
  /\ latch' = [latch EXCEPT ![Top(w).job] = Gone]

\* The right half was run inline: its frame, and the latch in it, go.
EndRight(w) == \E panic \in BOOLEAN :
  /\ Top(w).at = "right" /\ Ending(w, panic)
  /\ Finish(w, panic \/ Top(w).err)
  /\ latch' = [latch EXCEPT ![Top(w).job] = Gone]

Body(w) == \/ ForkToSibling(w) \/ ForkToDeque(w) \/ ForkRefused(w)
           \/ InBody(w) /\ (EndLeft(w) \/ EndRight(w))

-----------------------------------------------------------------------------
(* StackJob::execute after the body: the result, then Latch::set.          *)

\* Mutated form: the latch is set before the result slot is written.
WriteResult_Late(w) ==
  /\ At(w, "result") /\ Top(w).job \in Halves
  /\ Goto(w, "address")
  /\ UNCHANGED <<queues, latch, result, owner, permit, forks, shutdown, exited,
                 panicked, lever>>

\* A root's latch, and the caller behind it, are WakeLatch's.
WriteResult(w) ==
  /\ At(w, "result")
  /\ result' = [result EXCEPT ![Top(w).job] = IF Top(w).err THEN "panic" ELSE "ok"]
  /\ IF Top(w).job \in Halves THEN Goto(w, "address")
                              ELSE stack' = [stack EXCEPT ![w] = Return(w)]
  /\ UNCHANGED <<queues, latch, owner, permit, forks, shutdown, exited, panicked, lever>>

ReadAddress(w) ==
  /\ At(w, "address") /\ Goto(w, "swap")
  /\ UNCHANGED <<queues, latch, result, owner, permit, forks, shutdown, exited,
                 panicked, lever>>

\* Mutated form: only a sleepy owner is unparked.
SwapSet_SleepyOnly(w) ==
  /\ At(w, "swap")
  /\ latch' = [latch EXCEPT ![Top(w).job] = SET]
  /\ IF latch[Top(w).job] = SLEEPY THEN Goto(w, "unpark")
                                     ELSE stack' = [stack EXCEPT ![w] = Return(w)]
  /\ UNCHANGED <<queues, result, owner, permit, forks, shutdown, exited, panicked, lever>>

\* Mutated form: an addition where the swap is carries out of the state bits.
SwapSet_Add(w) ==
  /\ At(w, "swap")
  /\ latch' = [latch EXCEPT ![Top(w).job] = @ + SET]
  /\ IF latch[Top(w).job] = SLEEPING THEN Goto(w, "unpark")
                                     ELSE stack' = [stack EXCEPT ![w] = Return(w)]
  /\ UNCHANGED <<queues, result, owner, permit, forks, shutdown, exited, panicked, lever>>

SwapSet(w) ==
  /\ At(w, "swap")
  /\ latch' = [latch EXCEPT ![Top(w).job] = SET]
  /\ IF latch[Top(w).job] = SLEEPING THEN Goto(w, "unpark")
                                       ELSE stack' = [stack EXCEPT ![w] = Return(w)]
  /\ UNCHANGED <<queues, result, owner, permit, forks, shutdown, exited, panicked, lever>>

UnparkOwner(w) ==
  /\ At(w, "unpark")
  /\ permit' = [permit EXCEPT ![owner[Top(w).job]] = TRUE]
  /\ stack' = [stack EXCEPT ![w] = Return(w)]
  /\ UNCHANGED <<queues, latch, result, owner, forks, shutdown, exited, panicked, lever>>

Execute(w) == WriteResult(w) \/ ReadAddress(w) \/ SwapSet(w) \/ UnparkOwner(w)

-----------------------------------------------------------------------------
(* The wait loop of join_in_worker, with find_work.                        *)

Wait(w, from, to) ==
  /\ At(w, from) /\ Goto(w, to)
  /\ UNCHANGED <<queues, latch, result, owner, permit, forks, shutdown, exited,
                 panicked, lever>>

IsSet(w) == latch[Top(w).job] = SET

Poll(w) == At(w, "poll") /\ Wait(w, "poll", IF IsSet(w) THEN "take" ELSE "own")

\* The job found is the half itself, which runs inline, or another to run.
RunFound(w, j) ==
  IF Busy(w) /\ j = Top(w).job THEN Goto(w, "right") ELSE
  IF Busy(w) THEN stack' = [stack EXCEPT ![w] =
                     Append([@ EXCEPT ![Len(@)].at = "poll"], Frame(j, "run"))]
             ELSE Push(w, Frame(j, "run"))

\* A search by the worker loop is one step: a miss changes nothing.
Searching(w, l) == IF Busy(w) THEN Top(w).at = l ELSE w \notin exited

\* Mutated form: a job stays on the deque it is taken from.
TakeFromDeque_Leaves(w, v) == \E j \in deque[v] :
  /\ Searching(w, IF w = v THEN "own" ELSE "other")
  /\ RunFound(w, j)
  /\ UNCHANGED <<queues, latch, result, owner, permit, forks, shutdown, exited,
                 panicked, lever>>

TakeFromDeque(w, v) == \E j \in deque[v] :
  /\ Searching(w, IF w = v THEN "own" ELSE "other")
  /\ deque' = [deque EXCEPT ![v] = @ \ {j}]
  /\ RunFound(w, j)
  /\ UNCHANGED <<mailbox, injector, latch, result, owner, permit, forks,
                 shutdown, exited, panicked, lever>>

\* Mutated form: only the worker loop reads the mailbox.
TakeMail_LoopOnly(w) == \E j \in mailbox[w] :
  /\ Searching(w, "mail") /\ ~Busy(w)
  /\ mailbox' = [mailbox EXCEPT ![w] = @ \ {j}]
  /\ RunFound(w, j)
  /\ UNCHANGED <<deque, injector, latch, result, owner, permit, forks,
                 shutdown, exited, panicked, lever>>

TakeMail(w) == \E j \in mailbox[w] :
  /\ Searching(w, "mail")
  /\ mailbox' = [mailbox EXCEPT ![w] = @ \ {j}]
  /\ RunFound(w, j)
  /\ UNCHANGED <<deque, injector, latch, result, owner, permit, forks,
                 shutdown, exited, panicked, lever>>

TakeRoot(w) == \E j \in injector :
  /\ Searching(w, "other")
  /\ injector' = injector \ {j}
  /\ RunFound(w, j)
  /\ UNCHANGED <<deque, mailbox, latch, result, owner, permit, forks,
                 shutdown, exited, panicked, lever>>

NoOwn(w)  == deque[w] = {} /\ Wait(w, "own", "mail")
NoMail(w) == mailbox[w] = {} /\ Wait(w, "mail", "other")

\* One random victim is tried: a job on another deque may be missed.
NoOther(w) == injector = {} /\ Wait(w, "other", "idle")

\* Inside the spin budget, or with the levers off, the round is a yield.
Spin(w)      == Wait(w, "idle", "poll")
StartPark(w) == Parks /\ Wait(w, "idle", "sleepy")

\* The handshake's compare-exchanges.
Transition(w, at, from, to, yes) ==
  /\ At(w, at)
  /\ IF latch[Top(w).job] = from
       THEN latch' = [latch EXCEPT ![Top(w).job] = to] /\ Goto(w, yes)
       ELSE Goto(w, "poll") /\ UNCHANGED latch
  /\ UNCHANGED <<queues, result, owner, permit, forks, shutdown, exited, panicked, lever>>

GetSleepy(w)  == Transition(w, "sleepy", UNSET, SLEEPY, "fall")
FallAsleep(w) == Transition(w, "fall", SLEEPY, SLEEPING, "ready")
Revert(w)     == Transition(w, "revert", SLEEPING, UNSET, "poll")

\* park_until with no spin rounds: one poll of the latch, one park.
AskReady(w) == At(w, "ready") /\ Wait(w, "ready", IF IsSet(w) THEN "wake" ELSE "parked")

ParkReturns(w) ==
  /\ At(w, "parked") /\ permit[w]
  /\ permit' = [permit EXCEPT ![w] = FALSE]
  /\ Goto(w, "wake")
  /\ UNCHANGED <<queues, latch, result, owner, forks, shutdown, exited, panicked, lever>>

\* A park may return by itself.
SpuriousReturn(w) == Wait(w, "parked", "wake")

WakeUp(w) == At(w, "wake") /\ Wait(w, "wake", IF IsSet(w) THEN "poll" ELSE "revert")

\* into_result: a panic of either half goes on to the caller of the join.
TakeResult(w) ==
  /\ At(w, "take")
  /\ Finish(w, Top(w).err \/ result[Top(w).job] = "panic")
  /\ latch' = [latch EXCEPT ![Top(w).job] = Gone]
  /\ UNCHANGED <<queues, result, owner, permit, forks, shutdown, exited, panicked, lever>>

JoinWait(w) ==
  \/ Poll(w) \/ NoOwn(w) \/ NoMail(w) \/ NoOther(w) \/ Spin(w) \/ StartPark(w)
  \/ GetSleepy(w) \/ FallAsleep(w) \/ AskReady(w) \/ ParkReturns(w) \/ WakeUp(w)
  \/ Revert(w) \/ TakeResult(w)

Find(w) == \/ TakeMail(w) \/ TakeRoot(w) \/ \E v \in Workers : TakeFromDeque(w, v)

-----------------------------------------------------------------------------
(* The arena is dropped once its callers have returned.                    *)

Drop ==
  /\ ~shutdown /\ \A r \in Roots : result[r] # "none"
  /\ shutdown' = TRUE
  /\ UNCHANGED <<stack, queues, latch, result, owner, permit, forks, exited, panicked, lever>>

\* The worker loop returns, and with it the context that holds the parker.
Exit(w) ==
  /\ shutdown /\ ~Busy(w) /\ w \notin exited
  /\ exited' = exited \cup {w}
  /\ UNCHANGED <<stack, queues, latch, result, owner, permit, forks, shutdown, panicked, lever>>

Terminated == exited = Workers /\ UNCHANGED vars

WorkerStep(w) == Body(w) \/ Execute(w) \/ JoinWait(w) \/ Find(w) \/ Exit(w)

Next == \/ \E w \in Workers : WorkerStep(w) \/ SpuriousReturn(w)
        \/ Drop \/ Terminated

Spec == Init /\ [][Next]_vars

\* The OS schedules every worker, and bodies end.
FairSpec == Spec /\ (\A w \in Workers : WF_vars(WorkerStep(w))) /\ WF_vars(Drop)

-----------------------------------------------------------------------------
(* Properties.                                                             *)

FrameType == [job : Jobs, at : JobPc \cup BodyPc \cup WaitPc,
              err : BOOLEAN, unwinding : BOOLEAN]

\* Type invariant.
TypeOK ==
  /\ stack \in [Workers -> Seq(FrameType)]
  /\ deque \in [Workers -> SUBSET Halves] /\ mailbox \in [Boxes -> SUBSET Halves]
  /\ injector \subseteq Roots
  /\ latch \in [Halves -> {UNSET, SLEEPY, SLEEPING, SET, Gone}]
  /\ result \in [Jobs -> {"none", "ok", "panic"}]
  /\ owner \in [Halves -> Workers]
  /\ permit \in [Workers -> BOOLEAN]
  /\ forks \in 0 .. MaxForks
  /\ shutdown \in BOOLEAN /\ exited \subseteq Workers /\ panicked \in BOOLEAN
  /\ lever \in Levers

Frames == {<<w, i>> \in Workers \X (1 .. 2 * MaxForks + 2) : i <= Len(stack[w])}
FrameAt(p) == stack[p[1]][p[2]]

\* The copies of a job that could still run it.
Holders(j) ==
  {<<"deque", w>> : w \in {v \in Workers : j \in deque[v]}} \cup
  {<<"mail", b>> : b \in {c \in Boxes : j \in mailbox[c]}} \cup
  {<<"frame", p>> : p \in {q \in Frames :
      FrameAt(q).job = j /\ FrameAt(q).at \in JobPc \cup {"refused", "right"}}}

\* Every published half runs once, wherever it ends up: one deque, one
\* mailbox or one frame holds it until its latch is set, and none after.
RunsOnce ==
  \A h \in Halves :
    /\ latch[h] \in {UNSET, SLEEPY, SLEEPING} => Cardinality(Holders(h)) = 1
    /\ latch[h] \in {Gone, SET} =>
         \A x \in Holders(h) : x[1] = "frame" /\ FrameAt(x[2]).at = "unpark"

\* The half lives in the frame of the join that forked it: whoever runs it
\* finds that frame until its swap, also when the left half panicked.
NoTouchAfterFree ==
  \A p \in Frames : FrameAt(p).job \in Halves /\ FrameAt(p).at \in JobPc \ {"unpark"} =>
    latch[FrameAt(p).job] # Gone

\* A join that returns has both results: the slot it reads has been written.
ResultBeforeTake ==
  \A p \in Frames : FrameAt(p).at = "take" => result[FrameAt(p).job] # "none"

\* A panic anywhere in the tree of forks comes out of the root it belongs
\* to: no path through the wait loop, the refused push or the inline right
\* half swallows it.
PanicReachesRoot ==
  (\A r \in Roots : result[r] # "none") => (panicked <=> \E r \in Roots : result[r] = "panic")

\* A worker parked over a set latch is about to be unparked.
ParkedIsUnparked ==
  \A w \in Workers : At(w, "parked") /\ IsSet(w) =>
    permit[w] \/ \E v \in Workers : At(v, "unpark") /\ Top(v).job = Top(w).job

\* Not blocked in a park, and still in its loop.
Awake(w) == w \notin exited /\ (At(w, "parked") => permit[w])

\* The worker runs a job, or has the answer it waits for, or there is a job
\* its search can reach: its own mail, a root, a half on any deque.
CanGoOn(w) ==
  \/ Busy(w) /\ (Top(w).at \notin WaitPc \/ IsSet(w))
  \/ mailbox[w] \cup injector \cup UNION {deque[v] : v \in Workers} # {}

\* Workers waiting for one another's jobs never all wait, whether they park in
\* their joins or spin: while a job is unfinished, some worker that is awake
\* runs, has its answer, or can reach a job to run.
SomebodyRuns ==
  (\E w \in Workers : Busy(w)) => \E w \in Workers : Awake(w) /\ CanGoOn(w)

\* The parker a set unparks is alive (latch.rs, JoinLatch): its worker has
\* not left the loop whose context holds it.
ParkerAlive ==
  \A w \in Workers : At(w, "unpark") => owner[Top(w).job] \notin exited

\* A wake_worker call that returns false leaves the job to something else
\* that will find it (jec_sleep.rs, wake_worker): while a half sits in a
\* mailbox, some worker is not parked in a join.
MailHasFinder ==
  (\E b \in Boxes : mailbox[b] # {}) =>
    \E w \in Workers : ~At(w, "parked") \/ permit[w]

\* The same sentence as a promise of the whole pool, wherever the half was
\* sent: a half in a mailbox is found in the end.
MailFound == \A b \in Boxes : mailbox[b] # {} ~> mailbox[b] = {}

\* Every job handed in is finished.  With mailbox routing this is so only in a
\* pool of an even number of workers (see ForkToSibling).
RootsFinish == \A r \in Roots : <>(result[r] # "none")
=============================================================================
