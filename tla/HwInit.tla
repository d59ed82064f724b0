------------------------------- MODULE HwInit -------------------------------
(***************************************************************************)
(* tbt_hw_init() of tbtutils.c: force the power of the Thunderbolt         *)
(* hardware on, poll until the firmware says it is ready, then copy the    *)
(* largest latency tolerance.  All registers are read by running setpci    *)
(* and parsing what it prints; the firmware runs at its own pace.          *)
(*                                                                         *)
(* A register is the sequence of its hexadecimal digits, most significant  *)
(* first, because the conversion from these digits to a number is part of  *)
(* what is modelled.                                                       *)
(***************************************************************************)
EXTENDS Integers, Sequences

CONSTANTS
  Digits,    \* hexadecimal digits of a register (8)
  Retries,   \* polls of tbt_wait_for_pwr() (350)
  Word       \* register contents the firmware chooses from

ASSUME DigitsAssumption == Digits \in Nat \ {0, 1}
ASSUME RetriesAssumption == Retries \in Nat
ASSUME WordAssumption == Word \subseteq [1 .. Digits -> 0 .. 15]

VARIABLES
  pc,        \* next step of tbt_hw_init()
  retries,   \* polls left
  cap22,     \* VS_CAP_22: VS_FORCE_PWR and the DMA delay counter
  status,    \* VS_CAP_9, with VS_FW_RDY in its top bit
  ltr,       \* VS_CAP_15 has been written
  ret        \* what tbt_hw_init() returns

vars == <<pc, retries, cap22, status, ltr, ret>>

ETIMEDOUT == 110
DmaDelay == 34      \* 0x22

-----------------------------------------------------------------------------
(* Conversions *)

\* Leading digits that strtoul() accepts in the given base.
Accepted(w, base) ==
  {i \in 1 .. Digits : \A j \in 1 .. i : w[j] < base}

\* strtoul(), base 10 or 16, on the digits setpci printed.
strtou(w, base) ==
  LET acc[i \in 0 .. Digits] ==
        IF i = 0 THEN 0
        ELSE IF i \in Accepted(w, base) THEN base * acc[i - 1] + w[i]
        ELSE acc[i - 1]
  IN acc[Digits]

\* Variant: the number is read in the base it was printed in.
strtoud_Hex(w) == strtou(w, 16)

strtoud(w) == strtou(w, 10)

\* BIT(n), 1 << n, for the bits of a register.
BIT[n \in 0 .. 4 * Digits - 1] == IF n = 0 THEN 1 ELSE 2 * BIT[n - 1]

VS_FW_RDY == BIT[4 * Digits - 1]

\* val & VS_FW_RDY
TopBit(val) == val \div VS_FW_RDY % 2 = 1

\* What the hardware means by the digits.
FwReady(w) == w[1] >= 8

-----------------------------------------------------------------------------
Init ==
  /\ pc = "force"
  /\ retries = Retries
  /\ cap22 \in [force : {FALSE}, delay : {0, DmaDelay}]
  /\ status \in {w \in Word : ~FwReady(w)}
  /\ ltr = FALSE
  /\ ret = 0

\* Variant: the counter is added, not OR-ed.
Delay_Added(d) == d + DmaDelay

\* The truth value of 0x22 < VS_DMA_DELAY_SHIFT, a zero, is OR-ed in.
Delay(d) == d

\* tbt_hw_force_pwr().  Whether setpci wrote the register is not looked at.
ForcePower ==
  /\ pc = "force"
  /\ cap22' \in {cap22, [cap22 EXCEPT !.force = TRUE, !.delay = Delay(@)]}
  /\ pc' = "poll"
  /\ UNCHANGED <<retries, status, ltr, ret>>

\* Variant: the retries are not counted.
RetriesLeft_Uncounted == retries

RetriesLeft == retries - 1

\* One round of tbt_wait_for_pwr() with the msleep() after it; when the bit is
\* seen, tbt_hw_set_ltr() and the return follow.
Poll ==
  /\ pc = "poll"
  /\ retries > 0
  /\ retries' = RetriesLeft
  /\ LET ready == TopBit(strtoud(status)) IN
       /\ pc' = IF ready THEN "done" ELSE "poll"
       /\ ltr' = (ltr \/ ready)
  /\ UNCHANGED <<cap22, status, ret>>

GiveUp ==
  /\ pc = "poll"
  /\ retries = 0
  /\ ret' = ETIMEDOUT
  /\ pc' = "done"
  /\ UNCHANGED <<retries, cap22, status, ltr>>

\* Both reads, of VS_CAP_22 before the power is forced and of VS_CAP_9 in a poll,
\* dereference the NULL do_bash_cmd() returns when setpci prints nothing.
NoAnswer ==
  /\ pc = "force" \/ (pc = "poll" /\ retries > 0)
  /\ pc' = "crash"
  /\ UNCHANGED <<retries, cap22, status, ltr, ret>>

\* The firmware comes up, any time after the power is forced, and may go on
\* changing the other bits; it does not go back.
Firmware ==
  /\ cap22.force
  /\ status' \in {w \in Word : FwReady(status) => FwReady(w)}
  /\ UNCHANGED <<pc, retries, cap22, ltr, ret>>

Done == pc \in {"done", "crash"} /\ UNCHANGED vars

Library == ForcePower \/ Poll \/ GiveUp

Next == Library \/ NoAnswer \/ Firmware \/ Done

Spec == Init /\ [][Next]_vars /\ WF_vars(Library)
-----------------------------------------------------------------------------
TypeOK ==
  /\ pc \in {"force", "poll", "done", "crash"}
  /\ retries \in 0 .. Retries
  /\ cap22 \in [force : BOOLEAN, delay : {0, DmaDelay}]
  /\ status \in Word
  /\ ltr \in BOOLEAN
  /\ ret \in {0, ETIMEDOUT}

\* tbt_wait_for_pwr() gives up after its retries whatever the firmware does, if
\* no setpci without an answer ended the program before.
Returns == <>(pc \in {"done", "crash"})

\* Whatever the firmware does, a tbt_hw_init() that returns reports a timeout and
\* has left the latency tolerance alone: no string of as many decimal digits as the register
\* has hexadecimal ones reaches the value of VS_FW_RDY.
AlwaysTimesOut == pc = "done" => ret = ETIMEDOUT /\ ~ltr

-----------------------------------------------------------------------------
(* What comments of the code say and the code does not keep *)

\* tbtutils.c:173, "Wait for the FW_ready bit to settle down": hardware that is
\* ready when the last poll is made is found ready.
ReadyIsSeen ==
  [][pc = "poll" /\ retries = 1 /\ FwReady(status) /\ retries' = 0
       => pc' = "done" /\ ret' = 0]_vars
=============================================================================
