-------------------------- MODULE LockLatchProofs --------------------------
(***************************************************************************)
(* The safety of the parking caller's latch for any number of calls: no    *)
(* setter of an older call, however late, touches a frame that is gone,    *)
(* and no token an older call left behind ends a wait.                     *)
(*                                                                         *)
(* The invariant ties the frames to the caller and the caller to the       *)
(* setters.  Frames: the only frame is that of the call the thread is in.  *)
(* Setters: a setter exists from its call's dispatch on, its result is     *)
(* written when it has left "run" and its flag set from the store on.      *)
(* Returned: a call that is over, or about to be, has its flag set.        *)
(***************************************************************************)
EXTENDS LockLatch, TLAPS

Frames == \A c \in Calls : live[c] <=> (c = call /\ wpc # "idle")

Setters ==
  \A c \in Calls :
    /\ spc[c] = "none" <=> c > call
    /\ result[c] <=> spc[c] \notin {"none", "run"}
    /\ flag[c] <=> spc[c] \in {"unpark", "done"}

Returned ==
  \A c \in Calls :
    c < call \/ (c = call /\ wpc \in {"idle", "take"}) => flag[c]

IInv == TypeOK /\ Frames /\ Setters /\ Returned

-----------------------------------------------------------------------------
LEMMA InitInv == Init => IInv
  BY CallsAssumption
  DEF Init, IInv, TypeOK, Frames, Setters, Returned, Calls, SetterPc

(* The dispatch opens the next call's frame over the last one, whose flag  *)
(* is set.                                                                 *)
LEMMA DispatchInv == ASSUME IInv, Dispatch PROVE IInv'
<1> USE CallsAssumption DEF IInv, Dispatch, Go
<1>1. call + 1 \in Calls
  BY DEF TypeOK, Calls
<1>2. TypeOK'
  BY <1>1 DEF TypeOK, SetterPc, Calls
<1>3. Frames'
  BY <1>1 DEF TypeOK, Frames, Calls
<1>4. Setters'
  <2> SUFFICES ASSUME NEW c \in Calls
               PROVE  /\ spc'[c] = "none" <=> c > call'
                      /\ result'[c] <=> spc'[c] \notin {"none", "run"}
                      /\ flag'[c] <=> spc'[c] \in {"unpark", "done"}
    BY DEF Setters
  <2>1. CASE c = call + 1
    BY <2>1 DEF TypeOK, Setters, Calls
  <2>2. CASE c # call + 1
    BY <2>2 DEF TypeOK, Setters, Calls
  <2>3. QED
    BY <2>1, <2>2
<1>5. Returned'
  BY <1>1 DEF TypeOK, Returned, Calls
<1>6. QED
  BY <1>2, <1>3, <1>4, <1>5

(* A step of the waiting caller leaves the setters alone, and reaches the  *)
(* result only over a set flag.                                            *)
LEMMA WaitInv ==
  ASSUME IInv, Spin \/ PublishHandle \/ AskFlag("recheck") \/ AskFlag("loop")
                 \/ ParkReturns \/ SpuriousReturn
  PROVE  IInv'
<1> USE CallsAssumption DEF IInv
<1>1. /\ UNCHANGED <<call, flag, live, result, seen, spc>>
      /\ wpc \in {"spin", "publish", "recheck", "loop", "parked"}
      /\ wpc' \in {"publish", "recheck", "loop", "parked", "take"}
      /\ wpc' = "take" => flag[call]
      /\ permit' \in BOOLEAN /\ waiter' \in [Calls -> BOOLEAN]
  BY DEF Spin, PublishHandle, AskFlag, ParkReturns, SpuriousReturn, Go, latches, TypeOK
<1>2. TypeOK'
  BY <1>1 DEF TypeOK
<1>3. Frames' /\ Setters'
  BY <1>1 DEF Frames, Setters
<1>4. Returned'
  BY <1>1 DEF Returned
<1>5. QED
  BY <1>2, <1>3, <1>4

LEMMA TakeInv == ASSUME IInv, TakeResult PROVE IInv'
<1> USE CallsAssumption DEF IInv, TakeResult, Go
<1>1. TypeOK'
  BY DEF TypeOK
<1>2. Frames'
  BY DEF TypeOK, Frames
<1>3. Setters' /\ Returned'
  BY DEF TypeOK, Setters, Returned
<1>4. QED
  BY <1>1, <1>2, <1>3

(* A setter's step touches its own call's words and the token only.        *)
LEMMA SetterInv == ASSUME IInv, NEW c \in Calls, Setter(c) PROVE IInv'
<1> USE CallsAssumption DEF IInv
<1>1. /\ UNCHANGED <<call, wpc, waiter, live>>
      /\ \A d \in Calls : d # c => /\ spc'[d] = spc[d]
                                   /\ flag'[d] = flag[d] /\ result'[d] = result[d]
      /\ spc[c] # "none" /\ spc'[c] # "none"
      /\ result'[c] <=> spc'[c] \notin {"none", "run"}
      /\ flag'[c] <=> spc'[c] \in {"unpark", "done"}
      /\ flag[c] => flag'[c]
  <2>1. CASE WriteResult(c)
    BY <2>1 DEF WriteResult, SetterGoes, Setters, TypeOK
  <2>2. CASE ReadHandle(c)
    BY <2>2 DEF ReadHandle, SetterGoes, Setters, TypeOK, latches
  <2>3. CASE StoreFlag(c)
    BY <2>3 DEF StoreFlag, SetterGoes, Setters, TypeOK
  <2>4. CASE UnparkCaller(c)
    BY <2>4 DEF UnparkCaller, SetterGoes, Setters, TypeOK, latches
  <2>5. QED
    BY <2>1, <2>2, <2>3, <2>4 DEF Setter
<1>2. TypeOK'
  BY DEF Setter, WriteResult, ReadHandle, StoreFlag, UnparkCaller, SetterGoes,
         latches, TypeOK, SetterPc
<1>3. Frames'
  BY <1>1 DEF Frames
<1>4. Setters'
  BY <1>1 DEF Setters
<1>5. Returned'
  BY <1>1 DEF Returned
<1>6. QED
  BY <1>2, <1>3, <1>4, <1>5

LEMMA StepInv == IInv /\ [Next]_vars => IInv'
<1> SUFFICES ASSUME IInv, [Next]_vars PROVE IInv'
  OBVIOUS
<1>1. CASE Caller
  BY <1>1, DispatchInv, WaitInv, TakeInv DEF Caller
<1>2. CASE SpuriousReturn
  BY <1>2, WaitInv
<1>3. CASE \E c \in Calls : Setter(c)
  BY <1>3, SetterInv
<1>4. CASE UNCHANGED vars
  BY <1>4 DEF vars, latches, IInv, TypeOK, Frames, Setters, Returned
<1>5. QED
  BY <1>1, <1>2, <1>3, <1>4 DEF Next, Terminated

LEMMA Inductive == Spec => []IInv
  BY InitInv, StepInv, PTL DEF Spec

-----------------------------------------------------------------------------
(* A thread in no call has no latch, whatever the number of calls.         *)
THEOREM TypeCorrect == Spec => []TypeOK
<1>1. IInv => TypeOK
  BY DEF IInv
<1>2. QED
  BY <1>1, Inductive, PTL

(* No setter of any call touches its latch once the call's frame is gone.  *)
THEOREM NeverTouchedAfterFree == Spec => []NoTouchAfterFree
<1>1. IInv => NoTouchAfterFree
  <2> SUFFICES ASSUME IInv, NEW c \in Calls, spc[c] \in {"run", "read", "store"}
               PROVE  live[c]
    BY DEF NoTouchAfterFree
  <2>1. ~(c > call) /\ ~flag[c]
    BY DEF IInv, Setters
  <2>2. c = call /\ wpc # "idle"
    BY <2>1, CallsAssumption DEF IInv, Returned, TypeOK, Calls
  <2>3. QED
    BY <2>2 DEF IInv, Frames
<1>2. QED
  BY <1>1, Inductive, PTL

(* A caller takes a result that has been written, whatever woke it.        *)
THEOREM ResultWritten == Spec => []ResultBeforeTake
<1>1. IInv => ResultBeforeTake
  BY DEF IInv, TypeOK, Setters, Returned, ResultBeforeTake
<1>2. QED
  BY <1>1, Inductive, PTL
=============================================================================
