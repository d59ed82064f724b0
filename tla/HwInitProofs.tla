---------------------------- MODULE HwInitProofs ----------------------------
(***************************************************************************)
(* Proofs about HwInit: tbt_hw_init() reports a timeout whatever the       *)
(* firmware does, for registers of any width from two digits and any       *)
(* number of polls.                                                        *)
(*                                                                         *)
(* The number strtoul() makes of the digits is a recursive function, and   *)
(* so is BIT(n); both are compared digit by digit.                         *)
(***************************************************************************)
EXTENDS HwInit, InductionLemmas, FiniteSets, FiniteSetTheorems, TLAPS

-----------------------------------------------------------------------------
(* BIT(n) *)

\* BIT(n) is the shifted one.
LEMMA BitDef ==
  /\ BIT \in [0 .. 4 * Digits - 1 -> Nat]
  /\ BIT[0] = 1
  /\ \A n \in 1 .. 4 * Digits - 1 : BIT[n] = 2 * BIT[n - 1]
<1> DEFINE N == 4 * Digits - 1
           Def(f) == f = [n \in 0 .. N |-> IF n = 0 THEN 1 ELSE 2 * f[n - 1]]
<1>1. N \in Nat
  BY DigitsAssumption
<1>2. PICK f : Recurs(f, N, Nat, 1, [n \in 1 .. N |-> [v \in Nat |-> 2 * v]])
  <2>1. [n \in 1 .. N |-> [v \in Nat |-> 2 * v]] \in [1 .. N -> [Nat -> Nat]]
    OBVIOUS
  <2> HIDE DEF N
  <2> QED
    BY <1>1, <2>1, Recursion
<1>3. Def(f)
  <2>1. f = [n \in 0 .. N |-> f[n]]
    BY <1>2 DEF Recurs
  <2>2. ASSUME NEW n \in 0 .. N PROVE f[n] = IF n = 0 THEN 1 ELSE 2 * f[n - 1]
    <3>1. CASE n = 0
      BY <1>2, <3>1 DEF Recurs
    <3>2. CASE n # 0
      <4>1. n \in 1 .. N /\ n - 1 \in 0 .. N
        BY <1>1, <3>2
      <4>2. f[n - 1] \in Nat /\ f[n] = [k \in 1 .. N |-> [v \in Nat |-> 2 * v]][n][f[n - 1]]
        BY <1>2, <4>1 DEF Recurs
      <4> QED
        BY <3>2, <4>1, <4>2
    <3> QED
      BY <3>1, <3>2
  <2> QED
    BY <2>1, <2>2, Zenon
<1>4. Def(BIT)
  BY <1>3, Zenon DEF BIT
<1>5. \A n \in 0 .. N : BIT[n] = IF n = 0 THEN 1 ELSE 2 * BIT[n - 1]
  BY <1>4, Zenon
<1> DEFINE A == {m \in 0 .. N : BIT[m] \in Nat}
<1>6. 0 .. N \subseteq A
  <2>1. 0 \in A
    BY <1>1, <1>5
  <2>2. \A m \in 0 .. N - 1 : m \in A => m + 1 \in A
    BY <1>1, <1>5
  <2> HIDE DEF A, N
  <2> QED
    BY <1>1, <2>1, <2>2, Induction
<1>7. BIT = [n \in 0 .. N |-> BIT[n]]
  BY <1>4, Zenon
<1>8. BIT \in [0 .. N -> Nat]
  BY <1>6, <1>7
<1>9. BIT[0] = 1 /\ \A n \in 1 .. N : BIT[n] = 2 * BIT[n - 1]
  BY <1>1, <1>5
<1> QED
  BY <1>8, <1>9, Zenon

\* A register has BIT(3), 8, and four bits further on there is one for the next
\* digit.
LEMMA BitOfDigit ==
  /\ BIT[3] = 8
  /\ \A m \in 1 .. Digits - 1 : BIT[4 * (m + 1) - 1] = 16 * BIT[4 * m - 1]
  /\ \A m \in 1 .. Digits : BIT[4 * m - 1] \in Nat
<1>1. BIT[1] = 2 /\ BIT[2] = 4 /\ BIT[3] = 8
  <2>1. 1 \in 1 .. 4 * Digits - 1 /\ 2 \in 1 .. 4 * Digits - 1 /\ 3 \in 1 .. 4 * Digits - 1
    BY DigitsAssumption
  <2>2. BIT[1] = 2 * BIT[1 - 1] /\ BIT[2] = 2 * BIT[2 - 1] /\ BIT[3] = 2 * BIT[3 - 1]
    BY BitDef, <2>1, Zenon
  <2>3. BIT[0] = 1
    BY BitDef
  <2> QED
    BY <2>2, <2>3
<1>2. ASSUME NEW m \in 1 .. Digits - 1
      PROVE  BIT[4 * (m + 1) - 1] = 16 * BIT[4 * m - 1]
  <2>1. PICK n \in Nat : n = 4 * m - 1
    BY <1>2, DigitsAssumption
  <2>2. n \in 0 .. 4 * Digits - 1 /\ n + 1 \in 1 .. 4 * Digits - 1
        /\ n + 2 \in 1 .. 4 * Digits - 1 /\ n + 3 \in 1 .. 4 * Digits - 1
        /\ n + 4 \in 1 .. 4 * Digits - 1
    BY <2>1, DigitsAssumption
  <2>3. BIT[n] \in Nat /\ BIT[n + 1] = 2 * BIT[n] /\ BIT[n + 2] = 2 * BIT[n + 1]
        /\ BIT[n + 3] = 2 * BIT[n + 2] /\ BIT[n + 4] = 2 * BIT[n + 3]
    <3>1. /\ BIT[n] \in Nat
          /\ BIT[n + 1] = 2 * BIT[(n + 1) - 1]
          /\ BIT[n + 2] = 2 * BIT[(n + 2) - 1]
          /\ BIT[n + 3] = 2 * BIT[(n + 3) - 1]
          /\ BIT[n + 4] = 2 * BIT[(n + 4) - 1]
      BY <2>2, BitDef, Zenon
    <3>2. (n + 1) - 1 = n /\ (n + 2) - 1 = n + 1 /\ (n + 3) - 1 = n + 2 /\ (n + 4) - 1 = n + 3
      OBVIOUS
    <3> QED
      BY <3>1, <3>2, Zenon
  <2>4. BIT[n + 4] = 16 * BIT[n]
    BY <2>3
  <2>5. 4 * (m + 1) - 1 = n + 4
    BY <2>1
  <2> QED
    BY <2>1, <2>4, <2>5
<1>3. \A m \in 1 .. Digits : BIT[4 * m - 1] \in Nat
  <2>1. \A m \in 1 .. Digits : 4 * m - 1 \in 0 .. 4 * Digits - 1
    BY DigitsAssumption
  <2> QED
    BY <2>1, BitDef
<1> QED
  BY <1>1, <1>2, <1>3

-----------------------------------------------------------------------------
(* strtoul() *)

\* What strtoul() has read after each digit.
LEMMA StrtouDef ==
  ASSUME NEW w \in [1 .. Digits -> 0 .. 15], NEW base \in Nat
  PROVE  \E f \in [0 .. Digits -> Nat] :
           /\ strtou(w, base) = f[Digits]
           /\ f[0] = 0
           /\ \A m \in 1 .. Digits :
                f[m] = IF m \in Accepted(w, base) THEN base * f[m - 1] + w[m] ELSE f[m - 1]
<1> DEFINE Step(m, v) == IF m \in Accepted(w, base) THEN base * v + w[m] ELSE v
           Def(f) == f = [i \in 0 .. Digits |-> IF i = 0 THEN 0
                             ELSE IF i \in Accepted(w, base) THEN base * f[i - 1] + w[i]
                             ELSE f[i - 1]]
           acc == CHOOSE f : Def(f)
<1>1. Digits \in Nat
  BY DigitsAssumption
<1>2. \A m \in 1 .. Digits, v \in Nat : Step(m, v) \in Nat
  OBVIOUS
<1>3. PICK f : Recurs(f, Digits, Nat, 0, [m \in 1 .. Digits |-> [v \in Nat |-> Step(m, v)]])
  <2> HIDE DEF Step
  <2>1. [m \in 1 .. Digits |-> [v \in Nat |-> Step(m, v)]] \in [1 .. Digits -> [Nat -> Nat]]
    BY <1>2
  <2> QED
    BY <1>1, <2>1, Recursion
<1>4. Def(f)
  <2>1. f = [m \in 0 .. Digits |-> f[m]]
    BY <1>3 DEF Recurs
  <2>2. ASSUME NEW m \in 0 .. Digits PROVE f[m] = IF m = 0 THEN 0 ELSE Step(m, f[m - 1])
    <3> HIDE DEF Step
    <3>1. CASE m = 0
      BY <1>3, <3>1 DEF Recurs
    <3>2. CASE m # 0
      <4>1. m \in 1 .. Digits /\ m - 1 \in 0 .. Digits
        BY <1>1, <3>2
      <4>2. f[m - 1] \in Nat
            /\ f[m] = [k \in 1 .. Digits |-> [v \in Nat |-> Step(k, v)]][m][f[m - 1]]
        BY <1>3, <4>1 DEF Recurs
      <4> QED
        BY <3>2, <4>1, <4>2
    <3> QED
      BY <3>1, <3>2
  <2> QED
    BY <2>1, <2>2, Zenon
<1>5. Def(acc)
  BY <1>4, Zenon
<1>6. strtou(w, base) = acc[Digits]
  BY Zenon DEF strtou
<1> HIDE DEF acc
<1>7. \A m \in 0 .. Digits : acc[m] = IF m = 0 THEN 0 ELSE Step(m, acc[m - 1])
  BY <1>5, Zenon
<1> DEFINE A == {m \in 0 .. Digits : acc[m] \in Nat}
<1>8. 0 .. Digits \subseteq A
  <2>1. 0 \in A
    BY <1>1, <1>7
  <2>2. ASSUME NEW m \in 0 .. Digits - 1, m \in A PROVE m + 1 \in A
    <3>1. m + 1 \in 1 .. Digits /\ m + 1 \in 0 .. Digits /\ m + 1 # 0 /\ (m + 1) - 1 = m
      BY <1>1
    <3>2. acc[m + 1] = Step(m + 1, acc[m])
      BY <1>7, <3>1
    <3> HIDE DEF Step
    <3> QED
      BY <1>2, <2>2, <3>1, <3>2
  <2> HIDE DEF A
  <2> QED
    BY <1>1, <2>1, <2>2, Induction
<1>9. acc = [m \in 0 .. Digits |-> acc[m]]
  BY <1>5, Zenon
<1>10. acc \in [0 .. Digits -> Nat]
  BY <1>8, <1>9
<1> QED
  BY <1>1, <1>6, <1>7, <1>10

\* One more decimal digit.
LEMMA DecimalDigit ==
  \A x \in Nat, d \in 0 .. 9 : 10 * x + d <= 10 * x + 9
  OBVIOUS

\* What is below a bit stays below the bit four places on when a decimal digit
\* is added.
LEMMA DigitBelowBit ==
  \A x, y, b \in Nat : x < b /\ y <= 10 * x + 9 => y < 16 * b
  OBVIOUS

\* As many decimal digits as the register has hexadecimal ones do not reach the
\* value of its top bit.
LEMMA BelowTopBit ==
  ASSUME NEW w \in [1 .. Digits -> 0 .. 15]
  PROVE  strtoud(w) \in Nat /\ strtoud(w) < VS_FW_RDY
<1>1. PICK f \in [0 .. Digits -> Nat] :
           /\ strtou(w, 10) = f[Digits]
           /\ f[0] = 0
           /\ \A m \in 1 .. Digits :
                f[m] = IF m \in Accepted(w, 10) THEN 10 * f[m - 1] + w[m] ELSE f[m - 1]
  BY StrtouDef
<1>2. \A m \in Accepted(w, 10) : w[m] \in 0 .. 9
  <2> SUFFICES ASSUME NEW m \in 1 .. Digits, \A j \in 1 .. m : w[j] < 10
               PROVE  w[m] \in 0 .. 9
    BY DEF Accepted
  <2>1. m \in 1 .. m /\ w[m] \in 0 .. 15
    BY DigitsAssumption
  <2> QED
    BY <2>1
<1>3. ASSUME NEW m \in 1 .. Digits
      PROVE  f[m] \in Nat /\ f[m - 1] \in Nat /\ f[m] <= 10 * f[m - 1] + 9
  <2>1. m \in 0 .. Digits /\ m - 1 \in 0 .. Digits
    BY DigitsAssumption
  <2>2. f[m] \in Nat /\ f[m - 1] \in Nat
    BY <2>1
  <2>3. CASE m \in Accepted(w, 10)
    <3>1. f[m] = 10 * f[m - 1] + w[m]
      BY <1>1, <2>3, Zenon
    <3>2. w[m] \in 0 .. 9
      BY <1>2, <2>3, Zenon
    <3> QED
      BY <2>2, <3>1, <3>2, DecimalDigit, Zenon
  <2>4. CASE m \notin Accepted(w, 10)
    BY <1>1, <2>2, <2>4
  <2> QED
    BY <2>2, <2>3, <2>4
<1> DEFINE A == {k \in Nat : k + 2 <= Digits => f[k + 2] < BIT[4 * (k + 2) - 1]}
<1>4. 0 \in A
  <2>1. f[1] <= 9 /\ f[2] <= 99
    <3>1. 1 \in 1 .. Digits /\ 2 \in 1 .. Digits
      BY DigitsAssumption
    <3>2. f[1] \in Nat /\ f[1] <= 10 * f[1 - 1] + 9 /\ f[2] <= 10 * f[2 - 1] + 9 /\ f[2] \in Nat
      BY <1>3, <3>1
    <3> QED
      BY <1>1, <3>2
  <2>2. BIT[7] = 128
    <3>1. 1 \in 1 .. Digits - 1
      BY DigitsAssumption
    <3>2. BIT[4 * (1 + 1) - 1] = 16 * BIT[4 * 1 - 1] /\ BIT[3] = 8
      BY <3>1, BitOfDigit, Zenon
    <3> QED
      BY <3>2
  <2> QED
    BY <1>1, <2>1, <2>2, DigitsAssumption
<1>5. ASSUME NEW k \in 0 .. Digits - 1, k \in A PROVE k + 1 \in A
  <2>1. SUFFICES ASSUME k + 3 <= Digits PROVE f[k + 3] < BIT[4 * (k + 3) - 1]
    BY DigitsAssumption
  <2>2. PICK b \in Nat : b = BIT[4 * (k + 2) - 1]
    <3>1. k + 2 \in 1 .. Digits
      BY <2>1, DigitsAssumption
    <3> QED
      BY <3>1, BitOfDigit
  <2>3. BIT[4 * (k + 3) - 1] = 16 * b
    <3>1. k + 2 \in 1 .. Digits - 1 /\ (k + 2) + 1 = k + 3
      BY <2>1, DigitsAssumption
    <3>2. BIT[4 * ((k + 2) + 1) - 1] = 16 * BIT[4 * (k + 2) - 1]
      BY <3>1, BitOfDigit, Zenon
    <3> QED
      BY <2>2, <3>1, <3>2
  <2>4. f[k + 2] < b
    <3>1. k + 2 <= Digits
      BY <2>1, DigitsAssumption
    <3> QED
      BY <1>5, <2>2, <3>1
  <2>5. f[k + 2] \in Nat /\ f[k + 3] \in Nat /\ f[k + 3] <= 10 * f[k + 2] + 9
    <3>1. k + 3 \in 1 .. Digits /\ (k + 3) - 1 = k + 2
      BY <2>1, DigitsAssumption
    <3>2. f[k + 3] \in Nat /\ f[(k + 3) - 1] \in Nat /\ f[k + 3] <= 10 * f[(k + 3) - 1] + 9
      BY <1>3, <3>1, Zenon
    <3> QED
      BY <3>1, <3>2, Zenon
  <2> QED
    BY <2>2, <2>3, <2>4, <2>5, DigitBelowBit, Zenon
<1>6. 0 .. Digits \subseteq A
  <2> HIDE DEF A
  <2> QED
    BY <1>4, <1>5, DigitsAssumption, Induction
<1>7. f[Digits] < BIT[4 * Digits - 1]
  <2>1. Digits - 2 \in 0 .. Digits /\ (Digits - 2) + 2 = Digits
    BY DigitsAssumption
  <2>2. Digits - 2 \in A
    BY <1>6, <2>1, Zenon
  <2> QED
    BY <2>1, <2>2
<1>8. f[Digits] \in Nat
  BY DigitsAssumption
<1> QED
  BY <1>1, <1>7, <1>8, Zenon DEF strtoud, VS_FW_RDY

\* The ready bit is never seen.
LEMMA NeverReady ==
  ASSUME NEW w \in Word
  PROVE  ~TopBit(strtoud(w))
<1>1. w \in [1 .. Digits -> 0 .. 15]
  BY WordAssumption
<1>2. PICK v \in Nat, b \in Nat : v = strtoud(w) /\ b = VS_FW_RDY /\ v < b
  <2>1. 4 * Digits - 1 \in 0 .. 4 * Digits - 1
    BY DigitsAssumption
  <2>2. VS_FW_RDY \in Nat
    BY <2>1, BitDef DEF VS_FW_RDY
  <2> QED
    BY <1>1, <2>2, BelowTopBit, Zenon
<1>3. v \div b = 0
  BY <1>2
<1> QED
  BY <1>2, <1>3 DEF TopBit

-----------------------------------------------------------------------------
(* The invariants *)

\* Types are correct in every reachable state of tbt_hw_init().
THEOREM TypeCorrect == Spec => []TypeOK
<1>1. Init => TypeOK
  <2> SUFFICES ASSUME Init PROVE TypeOK
    OBVIOUS
  <2>1. cap22 \in [force : BOOLEAN, delay : {0, DmaDelay}]
    BY DEF Init
  <2>2. status \in Word /\ retries \in 0 .. Retries
    BY RetriesAssumption DEF Init
  <2> QED
    BY <2>1, <2>2 DEF Init, TypeOK
<1>2. ASSUME TypeOK, [Next]_vars PROVE TypeOK'
  <2>1. CASE ForcePower
    <3>1. [cap22 EXCEPT !.force = TRUE, !.delay = Delay(@)]
            \in [force : BOOLEAN, delay : {0, DmaDelay}]
      BY <1>2 DEF TypeOK, Delay
    <3> QED
      BY <1>2, <2>1, <3>1 DEF TypeOK, ForcePower
  <2>2. CASE Poll
    BY <1>2, <2>2, RetriesAssumption DEF TypeOK, Poll, RetriesLeft
  <2>3. CASE GiveUp
    BY <1>2, <2>3 DEF TypeOK, GiveUp
  <2>4. CASE Firmware
    BY <1>2, <2>4 DEF TypeOK, Firmware
  <2>5. CASE NoAnswer
    BY <1>2, <2>5 DEF TypeOK, NoAnswer
  <2>6. CASE UNCHANGED vars
    BY <1>2, <2>6 DEF TypeOK, vars
  <2> QED
    BY <1>2, <2>1, <2>2, <2>3, <2>4, <2>5, <2>6 DEF Next, Library, Done
<1> QED
  BY <1>1, <1>2, PTL DEF Spec

\* No poll has seen the bit, so only giving up ends the polling.
IInv ==
  /\ ~ltr
  /\ pc = "done" => ret = ETIMEDOUT

\* When tbt_hw_init() returns it reports a timeout and has left the latency
\* tolerance alone, whatever the firmware does, however wide the register and
\* however many the polls.
THEOREM TimesOut == Spec => []AlwaysTimesOut
<1>1. Init => IInv
  BY DEF Init, IInv
<1>2. ASSUME TypeOK, IInv, [Next]_vars PROVE IInv'
  <2>1. CASE ForcePower
    BY <1>2, <2>1 DEF IInv, ForcePower
  <2>2. CASE Poll
    <3>1. ~TopBit(strtoud(status))
      BY <1>2, NeverReady DEF TypeOK
    <3> QED
      BY <1>2, <2>2, <3>1 DEF IInv, Poll
  <2>3. CASE GiveUp
    BY <1>2, <2>3 DEF IInv, GiveUp
  <2>4. CASE Firmware
    BY <1>2, <2>4 DEF IInv, Firmware
  <2>5. CASE NoAnswer
    BY <1>2, <2>5 DEF IInv, NoAnswer
  <2>6. CASE UNCHANGED vars
    BY <1>2, <2>6 DEF IInv, vars
  <2> QED
    BY <1>2, <2>1, <2>2, <2>3, <2>4, <2>5, <2>6 DEF Next, Library, Done
<1>3. IInv => AlwaysTimesOut
  BY DEF IInv, AlwaysTimesOut
<1> QED
  BY <1>1, <1>2, <1>3, TypeCorrect, PTL DEF Spec
=============================================================================
