------------------------------ MODULE WakeLatch ------------------------------
(***************************************************************************)
(* A CoreLatch with a parker behind it (sched/latch.rs): the CountLatch of *)
(* a set of publishers, and with one publisher the SpinLatch.  The waiter  *)
(* is the outside caller of external_dispatch (sched/arena.rs), parking    *)
(* through Parker::park_until (sched/sleep.rs); the publishers are the     *)
(* workers that ran its jobs (sched/job.rs).                               *)
(*                                                                         *)
(* The latch lives in the caller's frame, which is gone once it returns;   *)
(* the parker is reference counted and outlives it.                        *)
(***************************************************************************)
EXTENDS Integers, FiniteSets

CONSTANT Setters                    \* the publishers the latch counts

ASSUME SettersAssumption == IsFiniteSet(Setters) /\ Setters # {}

VARIABLES
  core,     \* CoreLatch::state
  count,    \* CountLatch::count
  permit,   \* the caller's thread::park token
  framed,   \* the caller's frame, with the latch in it, still exists
  results,  \* the publishers whose job has written its result
  spc,      \* where each publisher is
  wpc       \* where the caller is

vars == <<core, count, permit, framed, results, spc, wpc>>

\* The token may be left over from an earlier wait of the same thread.
Init ==
  /\ core = "unset"
  /\ count = Cardinality(Setters)
  /\ permit \in BOOLEAN
  /\ framed = TRUE
  /\ results = {}
  /\ spc = [s \in Setters |-> "run"]
  /\ wpc = "poll"

-----------------------------------------------------------------------------
(* A publisher: StackJob::execute, then Latch::set.                        *)

SetterGoes(s, l) == spc' = [spc EXCEPT ![s] = l]

\* Mutated form: the latch is set before the result slot is written.
WriteResult_Late(s) ==
  /\ spc[s] = "run"
  /\ SetterGoes(s, "count")
  /\ UNCHANGED <<core, count, permit, framed, results, wpc>>

WriteResult(s) ==
  /\ spc[s] = "run"
  /\ results' = results \cup {s}
  /\ SetterGoes(s, "count")
  /\ UNCHANGED <<core, count, permit, framed, wpc>>

\* Mutated form: the last but one decrement publishes too.
CountDown_OffByOne(s) ==
  /\ spc[s] = "count"
  /\ count' = count - 1
  /\ SetterGoes(s, IF count > 2 THEN "done" ELSE "clone")
  /\ UNCHANGED <<core, permit, framed, results, wpc>>

CountDown(s) ==
  /\ spc[s] = "count"
  /\ count' = count - 1
  /\ SetterGoes(s, IF count > 1 THEN "done" ELSE "clone")
  /\ UNCHANGED <<core, permit, framed, results, wpc>>

CloneParker(s) ==
  /\ spc[s] = "clone"
  /\ SetterGoes(s, "swap")
  /\ UNCHANGED <<core, count, permit, framed, results, wpc>>

\* Mutated form: only a caller that got as far as sleepy is ever unparked.
SwapSet_SleepyOnly(s) ==
  /\ spc[s] = "swap"
  /\ core' = "set"
  /\ SetterGoes(s, IF core = "sleepy" THEN "unpark" ELSE "done")
  /\ UNCHANGED <<count, permit, framed, results, wpc>>

SwapSet(s) ==
  /\ spc[s] = "swap"
  /\ core' = "set"
  /\ SetterGoes(s, IF core = "sleeping" THEN "unpark" ELSE "done")
  /\ UNCHANGED <<count, permit, framed, results, wpc>>

UnparkCaller(s) ==
  /\ spc[s] = "unpark"
  /\ permit' = TRUE
  /\ SetterGoes(s, "done")
  /\ UNCHANGED <<core, count, framed, results, wpc>>

Publish(s) == \/ WriteResult(s) \/ CountDown(s) \/ CloneParker(s)
              \/ SwapSet(s) \/ UnparkCaller(s)

-----------------------------------------------------------------------------
(* The caller's wait loop.                                                 *)

Go(from, to) == wpc = from /\ wpc' = to

\* Spinning is a step that changes nothing; the budget ends at any poll.
Poll ==
  /\ \/ core = "set" /\ Go("poll", "take")
     \/ core # "set" /\ Go("poll", "sleepy")
  /\ UNCHANGED <<core, count, permit, framed, results, spc>>

GetSleepy ==
  /\ IF core = "unset" THEN Go("sleepy", "recheck") /\ core' = "sleepy"
                       ELSE Go("sleepy", "poll") /\ UNCHANGED core
  /\ UNCHANGED <<count, permit, framed, results, spc>>

Recheck ==
  /\ Go("recheck", IF core = "set" THEN "take" ELSE "fall")
  /\ UNCHANGED <<core, count, permit, framed, results, spc>>

\* Mutated form: a store where the compare-exchange is.
FallAsleep_Store ==
  /\ Go("fall", "ready") /\ core' = "sleeping"
  /\ UNCHANGED <<count, permit, framed, results, spc>>

FallAsleep ==
  /\ IF core = "sleepy" THEN Go("fall", "ready") /\ core' = "sleeping"
                        ELSE Go("fall", "poll") /\ UNCHANGED core
  /\ UNCHANGED <<count, permit, framed, results, spc>>

\* park_until polls its predicate, then parks once.
AskReady ==
  /\ Go("ready", IF core = "set" THEN "wake" ELSE "parked")
  /\ UNCHANGED <<core, count, permit, framed, results, spc>>

ParkReturns ==
  /\ permit /\ Go("parked", "wake")
  /\ permit' = FALSE
  /\ UNCHANGED <<core, count, framed, results, spc>>

\* A park may return without an unpark, and a monitor wait returns on the
\* wake counter and leaves the token.
SpuriousReturn ==
  /\ Go("parked", "wake")
  /\ UNCHANGED <<core, count, permit, framed, results, spc>>

WakeUp ==
  /\ Go("wake", IF core = "set" THEN "poll" ELSE "revert")
  /\ UNCHANGED <<core, count, permit, framed, results, spc>>

Revert ==
  /\ Go("revert", "poll")
  /\ core' = IF core = "sleeping" THEN "unset" ELSE core
  /\ UNCHANGED <<count, permit, framed, results, spc>>

\* into_result, and the end of the frame.
TakeResult ==
  /\ Go("take", "returned")
  /\ framed' = FALSE
  /\ UNCHANGED <<core, count, permit, results, spc>>

Wait == \/ Poll \/ GetSleepy \/ Recheck \/ FallAsleep \/ AskReady
        \/ ParkReturns \/ WakeUp \/ Revert \/ TakeResult

Terminated == wpc = "returned" /\ (\A s \in Setters : spc[s] = "done") /\ UNCHANGED vars

Next == Wait \/ SpuriousReturn \/ (\E s \in Setters : Publish(s)) \/ Terminated

Spec == Init /\ [][Next]_vars

\* Threads are scheduled and the jobs end.
FairSpec == Spec /\ WF_vars(Wait) /\ \A s \in Setters : WF_vars(Publish(s))

-----------------------------------------------------------------------------
(* Properties.                                                             *)

SetterPc == {"run", "count", "clone", "swap", "unpark", "done"}
WaiterPc == {"poll", "sleepy", "recheck", "fall", "ready", "parked", "wake",
             "revert", "take", "returned"}

\* Type invariant: in particular the count never wraps below zero (the
\* debug assertion of CountLatch::set).
TypeOK ==
  /\ core \in {"unset", "sleepy", "sleeping", "set"}
  /\ count \in 0 .. Cardinality(Setters)
  /\ permit \in BOOLEAN /\ framed \in BOOLEAN
  /\ results \subseteq Setters
  /\ spc \in [Setters -> SetterPc]
  /\ wpc \in WaiterPc

\* The self-invalidation contract of Latch::set: a publisher that still has
\* to touch the latch finds it in a live frame, although the waiter may be
\* gone the moment the swap is visible.
NoTouchAfterFree ==
  \A s \in Setters : spc[s] \in {"run", "count", "clone", "swap"} => framed

\* The waiter reads the results only when every publisher has written one.
ResultsBeforeReturn == wpc \in {"take", "returned"} => results = Setters

\* No lost wake: a caller parked over a set latch has its token, or the
\* publisher whose swap found it sleeping is about to hand it over.
ParkedIsUnparked ==
  wpc = "parked" /\ core = "set" => permit \/ \E s \in Setters : spc[s] = "unpark"

\* The latch implements the abstract completion: the caller returns after
\* the last result and, with every thread scheduled, does return.
Promise == INSTANCE Completion WITH Participants <- Setters,
                                    finished <- results,
                                    returned <- (wpc = "returned")
ImplementsCompletion == Promise!Spec
=============================================================================
