# Flynnel in TLA+

Flynnel (`src/`) is a Rust work-stealing scheduler: a pool of pinned workers
that run fork-join jobs, with an idle protocol ported from rayon, several kinds
of deques and rings, and backends for devices and for other processes. This
directory models the parts in which threads meet, checks them with TLC on small
instances and proves with TLAPS, for any size, the safety of the sleep protocol, the latches,
the ring and the per-slot deque.

Paths below are relative to `src/src/`.

## 1. The system

| component | state | operations | hard because | correct when |
|---|---|---|---|---|
| sleep coordinator, `sched/jec_sleep.rs` | one packed word (event counter, inactive, sleeping), a state word per worker, a shutdown flag, the park tokens | `start_looking`, `no_work_found`, `announce_sleepy`, `sleep`, `work_found`, `new_jobs`, `wake_worker`, `wake_all_for_shutdown` | sleepers, producers, finders and the drop race without a lock; the event counter wraps | no wake is lost, every count is given back once, shutdown leaves nobody parked |
| worker loop, `sched/arena_local.rs` | deques by tier, a mailbox per worker, the injector, external slots, the SMT request count | `worker_loop`, `find_work`, `submit`, `push_to_mailbox`, `try_push_tier`, `acquire_smt`, `drop` | a search is many reads at different moments, and sleeping depends on it | submitted jobs and mail are taken, the drop ends |
| joins, `sched/arena.rs` | the frame of each join: right half, latch, result slot | `join_in_worker`, `park_for_half`, `external_dispatch` | the half lives in a frame other threads point into; waiting workers run other work; closures panic | a half runs once, its frame outlives its runner, results come before the return, panics come out, no circular wait |
| latches, `sched/latch.rs` | a state word or flag, a count, a waiter's handle | `set`, `wait`, `get_sleepy`, `fall_asleep` | the waiter frees the latch as soon as it sees it set | nobody parks over a set latch, nobody touches a freed one |
| stack jobs, `sched/job.rs` | closure, result slot, latch | `execute`, `into_result` | result before latch, panic captured | a taken result has been written |
| parker, `sched/sleep.rs` | `thread::park` token, wake counter, learned strategy | `park_until`, `unpark` | tokens outlive the wait they were meant for | no unpark is lost |
| ring and injector, `sched/flynnel_ring.rs`, `injector.rs` | head, tail, a sequence number and an item per slot | `push`, `pop`, `push_blocking`, `pop_blocking`, drop | producers and consumers a lap apart share a slot | a bounded FIFO queue |
| deques, `sched/khl_local.rs`, `chase_lev_local.rs`, `fcl_local.rs`, `adaptive_worker.rs` | head, bottom, slot numbers; two backings behind a tag | owner's push and pop, thief's steal, migration | owner and thieves meet on the last item | each job is taken once and none is left where nobody looks |
| external slots, `sched/arena_local.rs` | a claim flag and a bitmap bit per slot | claim, release, dispatch | two words kept in step by several callers | a slot has one holder, a held slot is probed |
| notify channel, `sched/notify_ring.rs` | idle flag per receiver, idle count, shutdown | `send`, `recv`, `shutdown` | announce-then-check against push-then-scan | no item stays with every receiver parked |
| pipeline, I/O pool, `sched/pipeline.rs`, `io_pool.rs` | stages on notify channels | `run`, `submit` | a stage that panics between two others | everybody returns |
| races, `sched/race.rs` | cancel token, best answer, deadline | `race_*` | answers against deadline and cancel | one winner, and it was submitted in time |
| hazard pointers, `sched/hazard.rs` | published slots, retire slots | `protect`, `retire`, `sweep` | publish-then-reread against scan-then-free | nothing published is freed |
| calibration store, `sched/calibration_store.rs` | a mapped table, a writer lease | acquire, publish, read | the lease holder may die | one writer, no torn table |
| cross-process structures, `backend/shared_mem/` | deques and latches in a mapped file | as above | a peer may die between two steps | as above |
| GPU peer, `gpu_peer/` | lanes, submission rings, launches | submit, poll, relaunch | an exit racing a submit | every op completes |
| dispatch policy, kernels, tracing | measurements, tuning | choose a path | none: they choose among the above | - |

How they interact: an outside thread hands a job to the pool through the
injector or an external slot and waits on a latch in its own frame. A worker
looks in its mailbox, its deque, the injector, held slots and its peers' deques,
runs what it finds, and otherwise goes through the sleep coordinator. A running
job forks: the right half goes to the worker's deque (or a sibling's mailbox),
the left half runs inline, and the worker waits on the half's latch while
running other work. Every push is followed by a notification to the
coordinator. `PROJECT.json` lists every component with its status, and every
hazard at its line with the properties that would catch it.

## 2. Modules

    JecSleep ------- JecSleepTyping -- JecSleepProofs -- JecSleepParkProofs
    WakeLatch -----> Completion   (implements)   WakeLatch ---- WakeLatchProofs
    LockLatch                                    LockLatch ---- LockLatchProofs
    Joins ---------- WakeLatch, JoinPool  (side by side, for one run)
    FlynnelRing ---> FifoQueue    (implements)   FlynnelRing -- FlynnelRingProofs
    KhlDeque ------> WorkDeque    (implements)   KhlDeque ----- KhlDequeProofs
    ChaseLev ------> WorkDeque    (implements)   Laps (facts on i % C for both)

Everywhere an action is one atomic access to shared memory together with the
local code up to the next access, so every interleaving of the accesses is a
behaviour. Memory is sequentially consistent; where the code uses weaker
accesses the text below says what that leaves out.

**JecSleep** models the coordinator and everything that drives it. `counters` is
the packed word as a record, `state` the AWAKE / SLEEPING / WAKING words,
`permit` the park tokens, `idle` each worker's `IdleState`. `pc` says where a
thread is; the labels follow the code: `loop`, `gate`, `mail`, `own`, `inject`,
`slot`, `peer` are the search of `worker_loop` in its order, `start`, `idle`,
`sleep`, `register`, ... `park`, `parked` the way into `Sleep::sleep`, and
`claim`, `release`, `awaken`, `unpark` the four accesses of
`wake_specific_thread`, run by whichever thread is waking (its walk over the
workers is in `wake`). The injector, mailboxes and deques are counts of jobs:
the container modules say what the containers do. The injector's `is_empty` is
two loads and is modelled as two steps, because both a park and a skipped wake
rest on it. Producers submit, push to the external slot, take and return the SMT
request; running jobs push to their own deque or to a peer's mailbox; the drop
raises both flags, sweeps and joins. `WindowOver` lets the idle window end at any
round after RoundsUntilSleepy, which stands for the learned spin window whatever
it has learned. `posted` counts the jobs by kind; `MaxJobs` bounds them together
and `MaxSubmit`, `MaxSlot`, `MaxMail`, `MaxPush` each kind.

`submit`'s doc (`sched/arena_local.rs` 1832-1837) speaks of a broadcast when the
injector was empty; the code wakes at most one worker through
`new_internal_jobs(1, ..)`, and the model does what the code does.

**WakeLatch** is `CoreLatch` under `CountLatch` / `SpinLatch` with the outside
caller's parker: publishers write results, count down, swap, unpark; the caller
goes through unset, sleepy, sleeping, parks through `park_until` (a predicate, a
token, spurious returns) and frees its frame. **Completion** is what it promises.
**LockLatch** is the latch of a caller that parks directly, over several calls of
one thread, each with a latch of its own and all with one park token.

**JoinPool** is fork and join inside the pool. A worker is a stack of frames: a
job frame runs a posted job and publishes it, a join frame is a call of
`join_in_worker`, named by its right half. Bodies fork, return or panic freely.
The waiting worker polls the latch, pops its own deque, mail, the injector and
peers, and then spins or parks on the JoinLatch. The two environment settings
that change the protocol are the variable `lever`, chosen at the start among
`Levers`: a pool that spins in its waits, parks in them, routes halves to
siblings' mailboxes, or does both. `Drop` ends the pool and with it each worker's
parker. The deques are sets; a take is one step.

A worker's sibling is `index ^ 1`, and the code tests that index against the
tables of mailboxes and stealers (`sched/arena.rs` 485-498), which hold an entry
for every external slot behind the workers' (`sched/arena_local.rs` 1174-1241).
So the index is always in range, and in a pool of an odd number of workers the
last worker's half goes to the mailbox of the first slot. `mailbox` therefore has
one box more than there are workers (`Boxes`), `ForkToSibling` asks only that the
box is empty, and no action takes from the slot's box, as `find_work` and
`worker_loop` pop their own mailbox alone.

**Joins** is the root of one run: the counted latch and the pool, one of the two
per behaviour (`kind`). They share no state; each is checked under the fairness
it states for itself, and the resting one stays in an initial state.

**FlynnelRing** is the ring with all four calls. An item is named by the ticket
its push claimed. Reading or writing the item is a step of its own, so that two
threads in one slot would be seen. The relaxed loads of `head` and `tail` can
return old values; a thread that is delayed between its load and its next access
holds exactly such an old value, and a failed exchange reloads. `callers`, chosen
at the start among `Callers`, says whether blocking calls are among those made:
without them the ring implements **FifoQueue**, the bounded queue, and with them
a blocked consumer holds a ticket ahead of its item, which no queue describes.

**KhlDeque** is the per-slot deque, the default backing: `head`, `bottom` and a
sequence number per slot; the owner publishes a body by writing it and then its
slot's number, pops the newest by lowering `bottom` and contending for the last
one, and thieves exchange `head`. **ChaseLev** is the classic deque with an item
of two words, each copied by a step of its own *before* the exchange that decides
who has it, so torn and stale copies do occur in the model and the check is that
no call returns one. Both implement **WorkDeque**: owner at the new end, thieves
at the old end, every item taken once. The mappings put an item in the abstract
deque when `bottom` is raised over it and take it out when `head` (`top`) passes
it or when the owner's lowered `bottom` makes it the owner's. Sequential
consistency is an assumption here, not a consequence: ChaseLev's fences give it
for the two words that matter; KhlDeque's steal has no such fence between its
loads, and what a weaker machine may do there is outside the model. The owner's
accumulator and stashes, which only the owner touches, are left out.

## 3. Runs

| run | instance | distinct states | shows |
|---|---|---|---|
| `jec_safety` | 2 workers, one behind the SMT gate, 1 producer, any 2 jobs of the four kinds, counter period 4 | 5,085,404 | counts exact and given back before work, mail and injected work not lost, released workers unparked, shutdown complete |
| `jec_live` | 2 workers, one submit and one mail | 447,818 | a submitted job is taken, mail is popped, the drop ends |
| `lock_reuse` | 3 calls of one thread | 1,514 | a token or a setter left over from one call harms no later call |
| `joins_four` | a latch with 3 publishers; or 4 workers in two sibling pairs, 2 forks, deque of 1, parking waits or mailbox routing | 309,641 | latch: result before return, no touch after free, no lost unpark, implements `Completion` with its liveness. Pool: a half runs once, frames outlive runners, panics come out, no lost unpark, some worker can always go on, the root finishes |
| `ring_mix` | 3 threads, 2 slots, 5 tickets, with and without blocking calls | 317,281 | slots exclusive, items in place, Full and Empty honest, the drop drains all, blocked calls return, implements `FifoQueue` |
| `khl_steal` | owner, 2 thieves, 2 slots, 5 bodies | 33,798 | slots exclusive, claims published, publish returns, implements `WorkDeque` |
| `chaselev_steal` | owner, 2 thieves, 2 slots, 5 items of two words | 227,018 | implements `WorkDeque` with unbroken items |

Five more runs end in a counterexample that the project keeps; each contradicts a
comment of the code, quoted under `findings` in `PROJECT.json`:

* `jec_slot`: a job on an external slot, pushed while every worker is between its
  registration and its SLEEPING store, is no part of `has_reachable_work` and
  wakes nobody; all workers park over it.
* `lock_lostwake`: `LockLatch::set` reads the waiter's handle before it stores the
  flag; both sides can miss.
* `join_mailpark`: with mailbox routing and parking joins, a half in the mailbox
  of a worker parked in its own join has no one to run it.
* `join_odd`: in a pool of three with mailbox routing, the last worker's half goes
  to the mailbox of an external slot, as told above. `wake_worker` finds no worker
  of that index and nobody reads the box, so the join polls, searches and yields
  for ever with every worker scheduled. `cooperative.rs` knows the trap and
  takes the worker count (387-395, 498-507); `arena.rs` does not. The spinning is a cycle
  of real steps under `FairSpec`, no missing fairness.
* `join_parker`: `JoinLatch::set` unparks through the owner's parker after its
  swap; the owner may have left its loop by then.

With mailbox routing `RootsFinish` and `SomebodyRuns` hold of pools whose workers
come in pairs, and `joins_four` checks them there; in the pool of `join_odd` both
fail. `SomebodyRuns` is about a state, not a course of events: while a job is unfinished, some worker that
is not blocked in a park runs a body, has its latch set, or has a job its search
can reach (its own mail, a root, a half on any deque). In the parking pool it rules
out that all are parked on one another, in the routing pool, where nobody parks,
that all spin over halves none of them can find.

`InjectedHasSearcher` and `jec_live` speak of pools in which no worker waits at a
closed SMT gate. A sibling behind the gate still counts as idle and its mail and
its share of a wake wait for the next request; that is the gate's purpose as far
as its code says, and the properties say where they stop. What such a sibling
owes is in no property: the counts are exact with it, as the code counts it
(`PROJECT.json` lists both hazards of the gate without a property).

### Bounds

`JecMod` stands for 2^32: 2 or 4 makes the counter wrap within a run, so a
snapshot that compares equal after a full period is among the states checked.
`jec_slot` uses 8, so it is no effect of the wrap. `RoundsUntilSleepy` is 0, so
the yields before a worker is sleepy, which touch nothing shared, are cut short;
the rounds after it are there. Two workers are the least for which a finder, a
sleeper and a waker differ; a third party is always there as producer or dropper.
Two jobs let a wake decided for one meet the other, of its own kind's or another's
container. Three threads on two slots over five tickets put calls two laps apart;
two forks on four workers give two sibling pairs, so that a stolen half can route a
half of its own within the thief's pair, and leave a bystander; a deque of
one refuses the nested push. `joins_four` starts its pools without leftover park
tokens: a token ends one park early, which a spurious return does at every park
(`join_mailpark` and `join_parker` start with any). Five bodies on two slots let a thief sleep through
two laps of the deque. The `Max...` constants bound the behaviours and nothing
else. The runs of the ring and of KhlDeque turn the deadlock check off: a
blocking call may wait for a partner that never comes, and tickets run out.

### Fairness

Each worker, and each thread inside a call, keeps taking steps when it can: weak
fairness of its whole next-step relation, as an OS scheduler gives. Bodies of
jobs end. Nobody is obliged to submit, to hold or return an SMT request or to
drop the arena (JoinPool's `Drop` is fair so that its pool ends). A park may
return spuriously but is never assumed to.

## 4. Proofs

`JecSleepTyping`, `JecSleepProofs` and `JecSleepParkProofs` prove, for any number
of workers, siblings, producers and jobs and any even counter period, from the
two assumptions of JecSleep alone:

| theorem | property |
|---|---|
| `TypeCorrect` | `TypeOK`: no field of the packed word goes negative (it would borrow from its neighbour) |
| `CountsCorrect` | `CountersExact` |
| `ClaimsExclusive` | `ClaimExclusive` |
| `CountsBack` | `CountBackBeforeWork` |
| `SleepEntered` | `SleepEntry` |
| `ReleasedUnparked` | `ReleasedIsUnparked` |
| `MailDelivered` | `MailNotStranded` |
| `SweepComplete` | `ShutdownLeavesNoSleeper` |

The argument is in layers. *Typed* strengthens the types: which thread may be at
which label, that a walk stays within the workers, and where it returns. The
*word invariant* relates a worker's state word to its label and to its wakers:
AWAKE outside the published part of `sleep`, WAKING exactly while one thread is
between its claim and its store. It is inductive only together with the
exclusiveness of the claim. From it each step changes the set of counted workers
by at most one worker, and the lemmas `Kinds` pair that with the step's
arithmetic on the word; `CountersExact` is then an induction on cardinalities,
and the counts cannot go negative because the worker that is given back is in the
set. `IndInv` is these three. The park proofs add, each inductive over `IndInv`:
the idle rounds (`RoundsInv`, for `SleepEntry`), the mail (`MailInv`: mail whose
used flag is not yet set has a push on its way to set it, and no asleep worker
has mail without a deliverer), the sweep (`SweepInv`: a worker the sweep has
passed either was released or will see the flag at its recheck) and the permit
(`ParkInv`).

`WakeLatchProofs` proves, for any finite set of publishers, `NeverTouchedAfterFree`
(`NoTouchAfterFree`), `ResultsFirst` (`ResultsBeforeReturn`), `NoLostWake`
(`ParkedIsUnparked`), `TypeCorrect`, and `StepsImplementCompletion`: the initial
state maps to Completion's and every step to one of its steps or to none. Its
invariant: the count is the number of publishers that have yet to decrement it;
at most one publisher is past the last decrement and nobody before it once the
core is set; the caller is at its result only over a set core, and parks only
over a core that the swap will find sleeping or has set.

`LockLatchProofs` proves, for any number of calls, `NeverTouchedAfterFree`
(`NoTouchAfterFree`), `ResultWritten` (`ResultBeforeTake`) and `TypeCorrect`. Its
invariant: the one live frame is the call's the caller is in (`Frames`), a
setter's label tells whether its result is written and its flag set (`Setters`),
and every call the caller has left or is taking the result of has its flag set
(`Returned`), whatever token woke it.

`FlynnelRingProofs` and `KhlDequeProofs` need one fact on division that the
provers do not know for a variable divisor: two indices in one slot are equal or
at least a lap apart. `Laps` proves it and its corollaries once.

| theorem of `FlynnelRingProofs` | property |
|---|---|
| `TypeCorrect` | `TypeOK` |
| `SlotsExclusive` | `SlotExclusive` |
| `ItemsStayInPlace` | `ItemsInPlace` |
| `DropFindsAll` | `DropDrainsAll` |
| `FullIsHonest`, `EmptyIsHonest` | `FullHonest`, `EmptyHonest` |
| `IsBoundedQueue` | `IsFifo` |

The ring's invariant says whose turn each slot is. A ticket is claimed by at most
one push and one pop (`Claims`); who works in a slot finds there the number it
claimed by, and an exchange that can still succeed finds it as it was read
(`Turns`); the number tells what the slot holds (`Contents`) and where an item is
(`Placed`); a slot whose number lags behind `tail` or `head` has a push or pop at
work, and none is more than a lap ahead (`Lag`). Without
blocking calls `head` never passes `tail` (`Plain`), and with `Lag` the two stay
within a lap, which is what the queue's bound needs. The refinement then has one step
for each side: a push is put at its exchange on `tail`, a pop takes at its
exchange on `head`, and the theorem is the whole of `Spec => IsFifo`.

| theorem of `KhlDequeProofs` | property |
|---|---|
| `TypeCorrect` | `TypeOK` |
| `SlotsExclusive` | `SlotExclusive` |
| `ClaimsArePublished` | `ClaimIsPublished` |
| `ImplementsWorkDeque` | `IsWorkDeque` |

The deque's difficulty is that its owner lowers `bottom` over an index a thief
may be about to claim. `Ends` says how far apart the two ends can then be, label
by label of the owner, and that a thief whose exchange can still succeed is at an
index below the top, where the top counts the body the owner is deciding on.
`Published` gives the slot numbers of the deque's indices and of the indices
somebody works on; two of those in one slot would need two numbers, so the
threads are apart (`Exclusive`), and a read or a release disturbs nobody
(`Apart`). That the deque never holds more than its capacity, which the abstract
push asks, is the same argument: an index a lap below `bottom` would be in the
slot the owner has just published. Both theorems of implementation hold for
every number of threads, slots and items and rest on the modules' own
assumptions on their constants only.

Only model-checked: `InjectedHasSearcher`, whose argument needs the history of the
event counter; every liveness property, Completion's included; JoinPool and
ChaseLev, whose invariants are next to be proved.

## 5. Not modelled, and the plan

Left out of the modelled components: statistics and tracing; the learned
controllers (spin window, park strategy, push tier), which choose between paths
that are all in the models; construction and pinning; the monitor-wait arms of
the waits, which poll the same flags. In JecSleep and JoinPool a deque is the
count or the set of its jobs, which is what WorkDeque makes of KhlDeque and
ChaseLev.

Next, in this order:

1. **AdaptiveDeque**: the two deques behind the migration tag (`adaptive_worker.rs`):
   `migrate_to`, the batch at `arena_local.rs` 1525, which stores tags where its
   doc (1515-1518) speaks of more, and `inactive_dirty`, cleared at
   `adaptive_worker.rs` 403 and 421 by a thread whose look at the inactive backing
   may be old. Property: no job is left in a backing nobody probes.
2. **SlotClaims**: claim, bitmap and release of external slots; the exhausted
   fallback.
3. **NotifyHub** over FifoQueue: idle flags, the wake scan, shutdown; then the
   pipeline on it.
4. **Parker**'s wake counter; **HazardPointers**; the SPSC, MPSC and composed
   rings against FifoQueue.
5. **Races**, **CalibrationStore**, the mapped-file deques with a peer that dies,
   and the GPU peer's lanes.

Theorems to come: `RunsOnce` of JoinPool, along the sets of posted, taken and
finished halves; ChaseLev's refinement, whose invariant is KhlDeque's `Ends` with
"the copy a thief holds is the item, or its exchange will fail" in place of the
slot numbers. A new run takes the place of one whose properties are proved
for every instance by then.

Out of the prover's reach, and left to TLC: liveness under fairness, ENABLED, and
what recursive definitions compute for every input.
