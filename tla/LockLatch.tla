------------------------------ MODULE LockLatch ------------------------------
(***************************************************************************)
(* The latch of a thread outside the pool that waits by thread::park       *)
(* (LockLatch in sched/latch.rs): the caller of fan_out_external           *)
(* (sched/cooperative.rs), and of external_dispatch when no external slot  *)
(* is free (sched/arena.rs).                                               *)
(*                                                                         *)
(* One thread makes calls one after the other, each with a latch of its    *)
(* own in the frame of the call; the park token is the thread's.           *)
(***************************************************************************)
EXTENDS Integers

CONSTANT MaxCalls                   \* bound: calls the thread makes

ASSUME CallsAssumption == MaxCalls \in Nat

Calls == 1 .. MaxCalls

VARIABLES
  call,     \* the call the thread is in; MaxCalls + 1 after the last
  wpc,      \* where it is in that call
  permit,   \* the thread's park token
  flag,     \* LockLatch::flag of each call's latch
  waiter,   \* LockLatch::waiter has been published
  live,     \* the frame of the call exists
  result,   \* the job of the call has written its result
  seen,     \* the handle the setter read before its store
  spc       \* where the worker is that runs the call's job

latches == <<flag, waiter, live, result>>
vars == <<call, wpc, permit, latches, seen, spc>>

Init ==
  /\ call = 0 /\ wpc = "idle" /\ permit \in BOOLEAN
  /\ flag = [c \in Calls |-> FALSE] /\ waiter = [c \in Calls |-> FALSE]
  /\ live = [c \in Calls |-> FALSE] /\ result = [c \in Calls |-> FALSE]
  /\ seen = [c \in Calls |-> FALSE]
  /\ spc = [c \in Calls |-> "none"]

-----------------------------------------------------------------------------
(* The caller: submit the wrapper job, wait_spin_then_monitor, into_result. *)

Go(from, to) == wpc = from /\ wpc' = to

Dispatch ==
  /\ call < MaxCalls /\ Go("idle", "spin")
  /\ call' = call + 1
  /\ live' = [live EXCEPT ![call + 1] = TRUE]
  /\ spc' = [spc EXCEPT ![call + 1] = "run"]
  /\ UNCHANGED <<permit, flag, waiter, result, seen>>

\* The spin, the monitor rung and the fast path of wait: each returns on the
\* flag, and each ends without it.
Spin ==
  /\ Go("spin", IF flag[call] THEN "take" ELSE "publish")
  /\ UNCHANGED <<call, permit, latches, seen, spc>>

PublishHandle ==
  /\ Go("publish", "recheck")
  /\ waiter' = [waiter EXCEPT ![call] = TRUE]
  /\ UNCHANGED <<call, permit, flag, live, result, seen, spc>>

\* The re-check, and the condition of the park loop.
AskFlag(from) ==
  /\ Go(from, IF flag[call] THEN "take" ELSE IF from = "recheck" THEN "loop" ELSE "parked")
  /\ UNCHANGED <<call, permit, latches, seen, spc>>

\* Mutated form: one park, taken for the set.
ParkReturns_Once ==
  /\ permit /\ Go("parked", "take")
  /\ permit' = FALSE
  /\ UNCHANGED <<call, latches, seen, spc>>

\* The token may be an older call's.
ParkReturns ==
  /\ permit /\ Go("parked", "loop")
  /\ permit' = FALSE
  /\ UNCHANGED <<call, latches, seen, spc>>

SpuriousReturn ==
  /\ Go("parked", "loop")
  /\ UNCHANGED <<call, permit, latches, seen, spc>>

TakeResult ==
  /\ Go("take", "idle")
  /\ live' = [live EXCEPT ![call] = FALSE]
  /\ UNCHANGED <<call, permit, flag, waiter, result, seen, spc>>

Caller == \/ Dispatch \/ Spin \/ PublishHandle \/ AskFlag("recheck")
          \/ AskFlag("loop") \/ ParkReturns \/ TakeResult

-----------------------------------------------------------------------------
(* The worker that ran the job: StackJob::execute, then Latch::set.        *)

SetterGoes(c, from, to) == spc[c] = from /\ spc' = [spc EXCEPT ![c] = to]

WriteResult(c) ==
  /\ SetterGoes(c, "run", "read")
  /\ result' = [result EXCEPT ![c] = TRUE]
  /\ UNCHANGED <<call, wpc, permit, flag, waiter, live, seen>>

ReadHandle(c) ==
  /\ SetterGoes(c, "read", "store")
  /\ seen' = [seen EXCEPT ![c] = waiter[c]]
  /\ UNCHANGED <<call, wpc, permit, latches>>

StoreFlag(c) ==
  /\ SetterGoes(c, "store", IF seen[c] THEN "unpark" ELSE "done")
  /\ flag' = [flag EXCEPT ![c] = TRUE]
  /\ UNCHANGED <<call, wpc, permit, waiter, live, result, seen>>

UnparkCaller(c) ==
  /\ SetterGoes(c, "unpark", "done")
  /\ permit' = TRUE
  /\ UNCHANGED <<call, wpc, latches, seen>>

\* Mutated form: the handle is read after the store, so that a handle
\* published in between is not missed.
ReadHandle_Late(c) ==
  /\ SetterGoes(c, "store", IF waiter[c] THEN "unpark" ELSE "done")
  /\ UNCHANGED <<call, wpc, permit, latches, seen>>
StoreFlag_First(c) ==
  /\ SetterGoes(c, "read", "store")
  /\ flag' = [flag EXCEPT ![c] = TRUE]
  /\ UNCHANGED <<call, wpc, permit, waiter, live, result, seen>>
Setter_StoreFirst(c) ==
  WriteResult(c) \/ StoreFlag_First(c) \/ ReadHandle_Late(c) \/ UnparkCaller(c)

Setter(c) == WriteResult(c) \/ ReadHandle(c) \/ StoreFlag(c) \/ UnparkCaller(c)

Terminated ==
  /\ call = MaxCalls /\ wpc = "idle" /\ \A c \in Calls : spc[c] = "done"
  /\ UNCHANGED vars

Next == Caller \/ SpuriousReturn \/ (\E c \in Calls : Setter(c)) \/ Terminated

Spec == Init /\ [][Next]_vars

-----------------------------------------------------------------------------
(* Properties.                                                             *)

SetterPc == {"none", "run", "read", "store", "unpark", "done"}

\* Type invariant: a thread that is in no call has no call's latch to ask.
TypeOK ==
  /\ call \in 0 .. MaxCalls
  /\ wpc \in {"idle", "spin", "publish", "recheck", "loop", "parked", "take"}
  /\ wpc # "idle" => call \in Calls
  /\ permit \in BOOLEAN
  /\ flag \in [Calls -> BOOLEAN] /\ waiter \in [Calls -> BOOLEAN]
  /\ live \in [Calls -> BOOLEAN] /\ result \in [Calls -> BOOLEAN]
  /\ seen \in [Calls -> BOOLEAN] /\ spc \in [Calls -> SetterPc]

\* The latch is in the caller's frame: no setter touches it in a frame that
\* is gone, however late the setter of an older call runs.
NoTouchAfterFree == \A c \in Calls : spc[c] \in {"run", "read", "store"} => live[c]

\* The result slot is read only after it was written: a token left by an
\* older call, or a spurious return, does not end a wait.
ResultBeforeTake == wpc = "take" => result[call]

\* A caller that has not published its handle yet finds the flag set by its
\* own re-check and does not park (latch.rs, end of LockLatch::set).
ParkedIsUnparked ==
  wpc = "parked" /\ flag[call] => permit \/ spc[call] = "unpark"
=============================================================================
