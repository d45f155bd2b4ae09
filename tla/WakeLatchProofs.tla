-------------------------- MODULE WakeLatchProofs --------------------------
(***************************************************************************)
(* The latch's safety for every finite set of publishers, and that each of *)
(* its steps is a step of the abstract completion or none.                 *)
(*                                                                         *)
(* The invariant has three parts.  Counted: the count is the number of     *)
(* publishers that have yet to decrement it.  Single: one publisher at     *)
(* most is past the last decrement, and none before it once the core is    *)
(* set.  Waiting: the caller is at or past its result only over a set      *)
(* core, and parks only over a core a swap will find sleeping.             *)
(***************************************************************************)
EXTENDS WakeLatch, FiniteSetTheorems, TLAPS

Pending == {s \in Setters : spc[s] \in {"run", "count"}}

Typed ==
  /\ core \in {"unset", "sleepy", "sleeping", "set"}
  /\ count \in Nat
  /\ permit \in BOOLEAN /\ framed \in BOOLEAN
  /\ results \subseteq Setters
  /\ spc \in [Setters -> SetterPc]
  /\ wpc \in WaiterPc

Counted ==
  /\ count = Cardinality(Pending)
  /\ \A s \in Setters : s \in results <=> spc[s] # "run"

Single ==
  /\ count > 0 => \A s \in Setters : spc[s] \in {"run", "count", "done"}
  /\ \A s, t \in Setters :
       /\ spc[s] \in {"clone", "swap", "unpark"}
       /\ spc[t] \in {"clone", "swap", "unpark"}
       => s = t
  /\ core = "set" => \A s \in Setters : spc[s] \in {"unpark", "done"}

Waiting ==
  /\ wpc \in {"take", "returned"} => core = "set"
  /\ framed = (wpc # "returned")
  /\ wpc \in {"ready", "parked"} => core \in {"sleeping", "set"}
  /\ ParkedIsUnparked

IInv == Typed /\ Counted /\ Single /\ Waiting

-----------------------------------------------------------------------------
LEMMA PendingFinite == IsFiniteSet(Pending) /\ Cardinality(Pending) \in 0 .. Cardinality(Setters)
<1>1. Pending \subseteq Setters
  BY DEF Pending
<1>2. QED
  BY <1>1, SettersAssumption, FS_Subset, FS_CardinalityType

(* Nobody is left to decrement a count of zero.                            *)
LEMMA NonePending ==
  ASSUME Counted, count = 0
  PROVE  \A s \in Setters : spc[s] \notin {"run", "count"}
<1>1. Pending = {}
  BY PendingFinite, FS_EmptySet DEF Counted
<1>2. QED
  BY <1>1 DEF Pending

LEMMA InitInv == Init => IInv
<1> SUFFICES ASSUME Init PROVE IInv
  OBVIOUS
<1>1. Pending = Setters
  BY DEF Init, Pending
<1>2. Typed
  BY SettersAssumption, FS_CardinalityType DEF Init, Typed, SetterPc, WaiterPc
<1>3. Counted
  BY <1>1 DEF Init, Counted
<1>4. Single /\ Waiting
  BY DEF Init, Single, Waiting, ParkedIsUnparked
<1>5. QED
  BY <1>2, <1>3, <1>4 DEF IInv

-----------------------------------------------------------------------------
(* Every step keeps the types, the count aside.                            *)
LEMMA TypedStep ==
  ASSUME Typed, [Next]_vars, count' \in Nat
  PROVE  Typed'
<1>1. ASSUME NEW s \in Setters, Publish(s)
      PROVE  Typed'
  <2>1. spc' \in [Setters -> SetterPc]
    BY <1>1 DEF Typed, SetterPc, Publish, WriteResult, CountDown, CloneParker, SwapSet,
                UnparkCaller, SetterGoes
  <2>2. core' \in {"unset", "sleepy", "sleeping", "set"} /\ permit' \in BOOLEAN
        /\ results' \subseteq Setters /\ UNCHANGED <<framed, wpc>>
    BY <1>1 DEF Typed, Publish, WriteResult, CountDown, CloneParker, SwapSet, UnparkCaller
  <2>3. QED
    BY <2>1, <2>2 DEF Typed
<1>2. CASE Wait \/ SpuriousReturn
  BY <1>2 DEF Typed, WaiterPc, Wait, SpuriousReturn, Poll, GetSleepy, Recheck, FallAsleep,
              AskReady, ParkReturns, WakeUp, Revert, TakeResult, Go
<1>3. CASE UNCHANGED vars
  BY <1>3 DEF Typed, vars
<1>4. QED
  BY <1>1, <1>2, <1>3 DEF Next, Terminated

(* The count follows the publishers that have yet to decrement it.         *)
LEMMA CountedStep ==
  ASSUME Typed, Counted, [Next]_vars
  PROVE  Counted' /\ count' \in Nat
<1>1. ASSUME NEW s \in Setters, CountDown(s)
      PROVE  Counted' /\ count' \in Nat
  <2>1. s \in Pending /\ Pending' = Pending \ {s}
    BY <1>1 DEF Typed, Pending, CountDown, SetterGoes
  <2>2. Cardinality(Pending') = Cardinality(Pending) - 1
    BY <2>1, PendingFinite, FS_RemoveElement
  <2>3. count' = count - 1 /\ results' = results
    BY <1>1 DEF CountDown
  <2>4. count > 0
    <3>1. Cardinality(Pending) # 0
      BY <2>1, PendingFinite, FS_EmptySet
    <3>2. QED
      BY <3>1, PendingFinite DEF Counted, Typed
  <2>5. \A t \in Setters : spc'[t] = "run" <=> spc[t] = "run"
    BY <1>1 DEF Typed, CountDown, SetterGoes
  <2>6. QED
    BY <2>2, <2>3, <2>4, <2>5 DEF Counted, Typed
<1>2. ASSUME NEW s \in Setters,
             WriteResult(s) \/ CloneParker(s) \/ SwapSet(s) \/ UnparkCaller(s)
      PROVE  Counted' /\ count' \in Nat
  <2>1. Pending' = Pending
    BY <1>2 DEF Typed, Pending, WriteResult, CloneParker, SwapSet, UnparkCaller, SetterGoes
  <2>2. count' = count
    BY <1>2 DEF WriteResult, CloneParker, SwapSet, UnparkCaller
  <2>3. \A t \in Setters : t \in results' <=> spc'[t] # "run"
    BY <1>2 DEF Typed, Counted, WriteResult, CloneParker, SwapSet, UnparkCaller, SetterGoes
  <2>4. QED
    BY <2>1, <2>2, <2>3 DEF Counted, Typed
<1>3. CASE Wait \/ SpuriousReturn \/ UNCHANGED vars
  <2>1. UNCHANGED <<count, results, spc>>
    BY <1>3 DEF Wait, SpuriousReturn, vars, Poll, GetSleepy, Recheck, FallAsleep,
                AskReady, ParkReturns, WakeUp, Revert, TakeResult
  <2>2. QED
    BY <2>1 DEF Counted, Typed, Pending
<1>4. QED
  BY <1>1, <1>2, <1>3 DEF Next, Publish, Terminated

(* One publisher at most gets past the last decrement.                     *)
LEMMA SingleStep ==
  ASSUME IInv, [Next]_vars
  PROVE  Single'
<1>0. Typed /\ Counted /\ Single
  BY DEF IInv
<1>1. ASSUME NEW s \in Setters, WriteResult(s)
      PROVE  Single'
  BY <1>0, <1>1 DEF Typed, Single, WriteResult, SetterGoes
<1>2. ASSUME NEW s \in Setters, CountDown(s)
      PROVE  Single'
  <2>1. count > 0 /\ core # "set"
    <3>1. s \in Pending
      BY <1>2 DEF Pending, CountDown
    <3>2. count # 0
      BY <1>0, <3>1, NonePending DEF Pending
    <3>3. QED
      BY <1>0, <1>2, <3>2 DEF Typed, Single, CountDown
  <2>2. \A t \in Setters : spc[t] \in {"run", "count", "done"}
    BY <1>0, <2>1 DEF Single
  <2>3. count' = count - 1 /\ core' = core
        /\ spc' = [spc EXCEPT ![s] = IF count > 1 THEN "done" ELSE "clone"]
    BY <1>2 DEF CountDown, SetterGoes
  <2>4. QED
    BY <1>0, <2>1, <2>2, <2>3 DEF Typed, Single
<1>3. ASSUME NEW s \in Setters, CloneParker(s)
      PROVE  Single'
  BY <1>0, <1>3 DEF Typed, Single, CloneParker, SetterGoes
<1>4. ASSUME NEW s \in Setters, SwapSet(s)
      PROVE  Single'
  <2>1. count = 0 /\ spc[s] = "swap"
    BY <1>0, <1>4 DEF Typed, Single, SwapSet
  <2>2. \A t \in Setters : t # s => spc[t] = "done"
    BY <1>0, <2>1, NonePending DEF Typed, Single, SetterPc
  <2>3. count' = count /\ spc' = [spc EXCEPT ![s] = IF core = "sleeping" THEN "unpark" ELSE "done"]
    BY <1>4 DEF SwapSet, SetterGoes
  <2>4. QED
    BY <1>0, <2>1, <2>2, <2>3 DEF Typed, Single
<1>5. ASSUME NEW s \in Setters, UnparkCaller(s)
      PROVE  Single'
  BY <1>0, <1>5 DEF Typed, Single, UnparkCaller, SetterGoes
<1>6. CASE Wait \/ SpuriousReturn \/ UNCHANGED vars
  <2>1. UNCHANGED <<count, spc>> /\ (core' = "set" => core = "set")
    BY <1>6 DEF Wait, SpuriousReturn, vars, Poll, GetSleepy, Recheck, FallAsleep,
                AskReady, ParkReturns, WakeUp, Revert, TakeResult
  <2>2. QED
    BY <1>0, <2>1 DEF Single
<1>7. QED
  BY <1>1, <1>2, <1>3, <1>4, <1>5, <1>6 DEF Next, Publish, Terminated

(* The caller against the swap.                                            *)
LEMMA WaitingStep ==
  ASSUME IInv, [Next]_vars
  PROVE  Waiting'
<1>0. Typed /\ Single /\ Waiting
  BY DEF IInv
<1>1. ASSUME NEW s \in Setters, WriteResult(s) \/ CountDown(s) \/ CloneParker(s)
      PROVE  Waiting'
  <2>1. UNCHANGED <<core, permit, framed, wpc>>
    BY <1>1 DEF WriteResult, CountDown, CloneParker
  <2>2. \A t \in Setters : spc[t] = "unpark" => spc'[t] = "unpark"
    BY <1>0, <1>1 DEF Typed, WriteResult, CountDown, CloneParker, SetterGoes
  <2>3. QED
    BY <1>0, <2>1, <2>2 DEF Waiting, ParkedIsUnparked
<1>2. ASSUME NEW s \in Setters, SwapSet(s)
      PROVE  Waiting'
  <2>1. UNCHANGED <<permit, framed, wpc>> /\ core # "set" /\ core' = "set"
    BY <1>0, <1>2 DEF Single, SwapSet
  <2>2. core = "sleeping" => spc'[s] = "unpark"
    BY <1>0, <1>2 DEF Typed, SwapSet, SetterGoes
  <2>3. QED
    BY <1>0, <2>1, <2>2 DEF Waiting, ParkedIsUnparked
<1>3. ASSUME NEW s \in Setters, UnparkCaller(s)
      PROVE  Waiting'
  BY <1>0, <1>3 DEF Waiting, ParkedIsUnparked, UnparkCaller
<1>4. CASE ParkReturns
  BY <1>0, <1>4 DEF Waiting, ParkedIsUnparked, ParkReturns, Go
<1>5. CASE Poll \/ GetSleepy \/ Recheck \/ FallAsleep
  BY <1>0, <1>5 DEF Typed, Waiting, ParkedIsUnparked, Poll, GetSleepy, Recheck, FallAsleep, Go
<1>6. CASE AskReady \/ WakeUp \/ Revert \/ TakeResult \/ SpuriousReturn
  BY <1>0, <1>6 DEF Typed, Waiting, ParkedIsUnparked, AskReady, WakeUp, Revert, TakeResult,
                    SpuriousReturn, Go
<1>7. CASE UNCHANGED vars
  BY <1>0, <1>7 DEF Waiting, ParkedIsUnparked, vars
<1>8. QED
  BY <1>1, <1>2, <1>3, <1>4, <1>5, <1>6, <1>7 DEF Next, Wait, Publish, Terminated

LEMMA Inductive == Spec => []IInv
<1>1. IInv /\ [Next]_vars => IInv'
  BY CountedStep, TypedStep, SingleStep, WaitingStep DEF IInv
<1>2. QED
  BY InitInv, <1>1, PTL DEF Spec

-----------------------------------------------------------------------------
(* For any set of publishers every variable keeps its type: the count does *)
(* not wrap below zero (the debug assertion of CountLatch::set).           *)
THEOREM TypeCorrect == Spec => []TypeOK
<1>1. IInv => TypeOK
  BY PendingFinite DEF IInv, Typed, Counted, TypeOK
<1>2. QED
  BY <1>1, Inductive, PTL

(* No publisher touches the latch in a frame that is gone: the caller      *)
(* returns over a set core, and whoever sees the core set has only its     *)
(* unpark left, which goes through its own reference to the parker.        *)
THEOREM NeverTouchedAfterFree == Spec => []NoTouchAfterFree
<1>1. IInv => NoTouchAfterFree
  BY DEF IInv, Typed, Single, Waiting, NoTouchAfterFree
<1>2. QED
  BY <1>1, Inductive, PTL

(* The caller takes its results when all are written.                      *)
THEOREM ResultsFirst == Spec => []ResultsBeforeReturn
<1>1. IInv => ResultsBeforeReturn
  BY DEF IInv, Typed, Counted, Single, Waiting, ResultsBeforeReturn
<1>2. QED
  BY <1>1, Inductive, PTL

(* No wake is lost: a caller parked over a set latch is being unparked.    *)
THEOREM NoLostWake == Spec => []ParkedIsUnparked
<1>1. IInv => ParkedIsUnparked
  BY DEF IInv, Waiting
<1>2. QED
  BY <1>1, Inductive, PTL

(* The latch implements the safety of the abstract completion: each step   *)
(* finishes one participant, returns after the last of them, or neither.   *)
THEOREM StepsImplementCompletion ==
  Spec => Promise!Init /\ [][Promise!Next]_<<results, (wpc = "returned")>>
<1>1. Init => Promise!Init
  BY DEF Init, Promise!Init
<1>2. IInv /\ [Next]_vars => [Promise!Next]_<<results, (wpc = "returned")>>
  <2> SUFFICES ASSUME IInv, [Next]_vars
               PROVE  [Promise!Next]_<<results, (wpc = "returned")>>
    OBVIOUS
  <2>1. ASSUME NEW s \in Setters, WriteResult(s)
        PROVE  Promise!Finish(s)
    BY <2>1 DEF IInv, Counted, WriteResult, Promise!Finish
  <2>2. CASE TakeResult
    <3>1. results = Setters
      BY <2>2 DEF IInv, Typed, Counted, Single, Waiting, TakeResult, Go
    <3>2. Promise!Return
      BY <2>2, <3>1 DEF TakeResult, Go, Promise!Return
    <3>3. QED
      BY <3>2 DEF Promise!Next
  <2>3. ASSUME NEW s \in Setters, CountDown(s) \/ CloneParker(s) \/ SwapSet(s) \/ UnparkCaller(s)
        PROVE  UNCHANGED <<results, wpc>>
    BY <2>3 DEF CountDown, CloneParker, SwapSet, UnparkCaller
  <2>4. CASE \/ Poll \/ GetSleepy \/ Recheck \/ FallAsleep \/ AskReady \/ ParkReturns
             \/ WakeUp \/ Revert \/ SpuriousReturn \/ UNCHANGED vars
    BY <2>4 DEF Poll, GetSleepy, Recheck, FallAsleep, AskReady, ParkReturns, WakeUp, Revert,
                SpuriousReturn, vars, Go
  <2>5. QED
    BY <2>1, <2>2, <2>3, <2>4 DEF Next, Wait, Publish, Terminated, Promise!Next
<1>3. QED
  BY <1>1, <1>2, Inductive, PTL DEF Spec
=============================================================================
