-------------------------------- MODULE Joins --------------------------------
(***************************************************************************)
(* The two ways a thread waits for work it handed to the pool, one per     *)
(* behaviour: a caller outside the pool on a counted latch (WakeLatch,     *)
(* whose state is this module's own), and the workers in the joins of the  *)
(* jobs they run (JoinPool).                                               *)
(*                                                                         *)
(* The two share no state, so checking them side by side is checking each. *)
(* `kind` picks one at the start and stays; the other rests in an initial  *)
(* state of its own, and only the chosen one's fairness is assumed.        *)
(***************************************************************************)
EXTENDS WakeLatch

CONSTANTS NWorkers, Roots, MaxForks, DequeCap, Levers    \* JoinPool's

VARIABLES kind, j_stack, j_deque, j_mailbox, j_injector, j_latch, j_result,
          j_owner, j_permit, j_forks, j_shutdown, j_exited, j_panicked, j_lever

joins == <<j_stack, j_deque, j_mailbox, j_injector, j_latch, j_result, j_owner,
           j_permit, j_forks, j_shutdown, j_exited, j_panicked, j_lever>>
allVars == <<kind, vars, joins>>

J == INSTANCE JoinPool WITH
  stack <- j_stack, deque <- j_deque, mailbox <- j_mailbox,
  injector <- j_injector, latch <- j_latch, result <- j_result,
  owner <- j_owner, permit <- j_permit, forks <- j_forks,
  shutdown <- j_shutdown, exited <- j_exited, panicked <- j_panicked,
  lever <- j_lever

ASSUME JoinsAssumption == J!JoinAssumption

-----------------------------------------------------------------------------
AllInit ==
  /\ kind \in {"latch", "join"}
  /\ Init /\ J!Init
  \* A join never sees more of a leftover token than of a spurious return,
  \* which JoinPool has at every park.
  /\ \A w \in J!Workers : ~j_permit[w]
  \* One initial state will do for the one that rests.
  /\ kind = "join" => ~permit
  /\ kind = "latch" => j_lever = CHOOSE l \in Levers : TRUE

OnlyLatch == kind = "latch" /\ UNCHANGED <<kind, joins>>
OnlyJoin  == kind = "join" /\ UNCHANGED <<kind, vars>>

AllNext == (OnlyLatch /\ Next) \/ (OnlyJoin /\ J!Next)

AllSpec == AllInit /\ [][AllNext]_allVars

\* What each states for itself: threads are scheduled, bodies end, and a pool
\* whose callers have returned is dropped.
FairAllSpec ==
  /\ AllSpec
  /\ WF_allVars(OnlyLatch /\ Wait)
  /\ \A s \in Setters : WF_allVars(OnlyLatch /\ Publish(s))
  /\ \A w \in J!Workers : WF_allVars(OnlyJoin /\ J!WorkerStep(w))
  /\ WF_allVars(OnlyJoin /\ J!Drop)

-----------------------------------------------------------------------------
(* Properties of the joins; those of the latch come with WakeLatch.        *)

\* Type invariant of JoinPool: the bits of a JoinLatch stay among its states.
JoinsTyped == J!TypeOK

\* Every published half runs once, whether its owner pops it, a thief steals
\* it, it is mailed, or it is run inline.
RunsOnce == J!RunsOnce

\* Whoever runs a half finds the frame with its latch until its swap, also
\* when the left half of the join panicked.
FramesOutliveRunners == J!NoTouchAfterFree

\* A join reads its half's result only after it was written.
ResultBeforeTake == J!ResultBeforeTake

\* A panic anywhere in the tree of forks comes out of the root it belongs to.
PanicReachesRoot == J!PanicReachesRoot

\* A worker parked in a join over a set latch is about to be unparked.
OwnerIsUnparked == J!ParkedIsUnparked

\* Workers waiting for one another's jobs never all wait, parked or spinning:
\* some worker that is awake runs, has its answer, or can reach a job.
SomebodyRuns == J!SomebodyRuns

\* Every job handed in is finished, in a pool whose workers come in pairs.
RootsFinish == \A r \in Roots : <>(kind = "join" => j_result[r] # "none")
=============================================================================
