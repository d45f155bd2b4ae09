-------------------------------- MODULE Laps --------------------------------
(***************************************************************************)
(* Facts about an index that goes round an array of C slots, for the rings *)
(* and deques that keep ticket p in slot p % C.  The provers know division *)
(* with a constant divisor only; these lemmas are all that is needed of a  *)
(* variable one.                                                           *)
(***************************************************************************)
EXTENDS Integers, TLAPS

(* A multiple of C that lies strictly between -C and C is zero.            *)
LEMMA Multiple ==
  ASSUME NEW C \in Nat, C > 0, NEW k \in Int, C * k < C, -C < C * k
  PROVE  k = 0
<1>1. k >= 1 => C * k >= C
  OBVIOUS
<1>2. k <= -1 => C * k <= -C
  OBVIOUS
<1>3. C * k \in Int
  OBVIOUS
<1>4. ~(k >= 1) /\ ~(k <= -1)
  BY <1>1, <1>2, <1>3
<1>5. QED
  BY <1>4

LEMMA Division ==
  ASSUME NEW C \in Nat, C > 0, NEW p \in Nat
  PROVE  /\ p \div C \in Nat /\ p % C \in 0 .. C - 1
         /\ p = C * (p \div C) + (p % C)
  OBVIOUS

(* Two tickets in one slot are at least a lap apart.                       *)
LEMMA SameSlot ==
  ASSUME NEW C \in Nat, C > 0, NEW p \in Nat, NEW q \in Nat,
         p % C = q % C, p < q + C, q < p + C
  PROVE  p = q
<1> DEFINE k == (p \div C) - (q \div C)
<1>1. k \in Int /\ p - q = C * k
  <2>1. /\ p \div C \in Int /\ q \div C \in Int /\ p % C \in Int
        /\ p = C * (p \div C) + (p % C) /\ q = C * (q \div C) + (q % C)
    BY Division
  <2>2. \A a, b \in Int : C * (a - b) = C * a - C * b
    OBVIOUS
  <2>3. QED
    BY <2>1, <2>2
<1> HIDE DEF k
<1>2. C * k < C /\ -C < C * k
  BY <1>1
<1>3. k = 0
  BY <1>1, <1>2, Multiple
<1>4. QED
  BY <1>1, <1>3

(* A lap further on is the same slot.                                      *)
LEMMA NextLap ==
  ASSUME NEW C \in Nat, C > 0, NEW p \in Nat
  PROVE  (p + C) % C = p % C
<1> DEFINE r == p % C
           s == (p + C) % C
           k == ((p + C) \div C) - (p \div C) - 1
<1>1. r \in 0 .. C - 1 /\ s \in 0 .. C - 1
  BY Division
<1>2. k \in Int /\ r - s = C * k
  <2>1. /\ p \div C \in Int /\ (p + C) \div C \in Int
        /\ p = C * (p \div C) + r /\ p + C = C * ((p + C) \div C) + s
    BY Division
  <2>2. \A a, b \in Int : C * (a - b - 1) = C * a - C * b - C
    OBVIOUS
  <2> HIDE DEF r, s
  <2>3. QED
    BY <2>1, <2>2, <1>1
<1> HIDE DEF r, s, k
<1>3. C * k < C /\ -C < C * k
  BY <1>1, <1>2
<1>4. k = 0
  BY <1>2, <1>3, Multiple
<1>5. r = s
  BY <1>1, <1>2, <1>4
<1>6. QED
  BY <1>5 DEF r, s

(* Of two slots or more, the next ticket is in another one.                *)
LEMMA NextSlot ==
  ASSUME NEW C \in Nat, C > 1, NEW p \in Nat
  PROVE  (p + 1) % C # p % C
<1> SUFFICES ASSUME (p + 1) % C = p % C PROVE FALSE
  OBVIOUS
<1>1. p + 1 \in Nat /\ p + 1 < p + C /\ p < p + 1 + C /\ C > 0
  OBVIOUS
<1>2. p + 1 = p
  BY <1>1, SameSlot
<1>3. QED
  BY <1>2

(* The first lap's tickets are the slots.                                  *)
LEMMA FirstLap ==
  ASSUME NEW C \in Nat, NEW p \in 0 .. C - 1
  PROVE  p % C = p
  OBVIOUS
==============================================================================
