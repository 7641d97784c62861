------------------------------- MODULE MCAlu -------------------------------
(***************************************************************************)
(* An accumulator fed with every operand in every mode: the arithmetic of  *)
(* module Alu against what addition, subtraction and comparison mean.      *)
(***************************************************************************)
EXTENDS Alu

CONSTANT Operands    \* operands of the walk; the invariants try all of Byte

ASSUME OperandsAssumption == Operands \subseteq Byte

VARIABLES a, carry, decimal, wired     \* wired is decimalDisabled

vars == <<a, carry, decimal, wired>>

r == [a |-> a, x |-> 0, y |-> 0, sp |-> 253, pc |-> 0, decimalDisabled |-> wired,
      sr |-> {"U"} \cup (IF carry THEN {"C"} ELSE {}) \cup (IF decimal THEN {"D"} ELSE {})]

Init == a \in {0, 127, 128, 255} /\ carry = FALSE /\ decimal = FALSE /\ wired \in BOOLEAN

Compute(core(_, _)) ==
  \E val \in Operands :
    /\ a' = core(r, val).a
    /\ carry' = ("C" \in core(r, val).sr)
    /\ UNCHANGED <<decimal, wired>>

Adc == Compute(adcCore)
Sbc == Compute(sbcCore)
Flag == carry' \in BOOLEAN /\ decimal' \in BOOLEAN /\ UNCHANGED <<a, wired>>

Next == Adc \/ Sbc \/ Flag
Spec == Init /\ [][Next]_vars

-----------------------------------------------------------------------------
(* What the arithmetic means, without the code's bit tricks.               *)
Signed(v) == IF v > 127 THEN v - 256 ELSE v
IsBcd(v) == v % 16 < 10 /\ v \div 16 < 10
Bcd(v) == 10 * (v \div 16) + (v % 16)
ToBcd(n) == 16 * (n \div 10) + (n % 10)
C == IfBit(carry, 1)
Decimal == decimal /\ ~wired
InByte(n) == n \in -128..127

(* ADC and RRA's addition: in binary mode A and C are the nine-bit sum, V  *)
(* says the signed sum does not fit, N and Z describe A; in decimal mode,  *)
(* on valid digits, A and C are the three-digit decimal sum; a chip with   *)
(* decimalDisabled never computes the decimal result.                      *)
AdcIsAddition ==
  \A val \in Byte :
    LET o == adcCore(r, val) IN
    IF Decimal
    THEN (IsBcd(a) /\ IsBcd(val)) =>
           LET sum == Bcd(a) + Bcd(val) + C IN
           o.a = ToBcd(sum % 100) /\ ("C" \in o.sr <=> sum > 99)
    ELSE LET sum == a + val + C IN
         /\ o.a = sum % 256
         /\ "C" \in o.sr <=> sum > 255
         /\ "V" \in o.sr <=> ~InByte(Signed(a) + Signed(val) + C)
         /\ "Z" \in o.sr <=> o.a = 0
         /\ "N" \in o.sr <=> Signed(o.a) < 0

(* SBC and ISC's subtraction, likewise, with C as the inverted borrow.     *)
SbcIsSubtraction ==
  \A val \in Byte :
    LET o == sbcCore(r, val)
        d == a - val - (1 - C)
    IN  /\ "V" \in o.sr <=> ~InByte(Signed(a) - Signed(val) - (1 - C))
        /\ "Z" \in o.sr <=> d % 256 = 0
        /\ IF Decimal
           THEN (IsBcd(a) /\ IsBcd(val)) =>
                  LET dd == Bcd(a) - Bcd(val) - (1 - C) IN
                  o.a = ToBcd(dd % 100) /\ ("C" \in o.sr <=> dd >= 0)
           ELSE o.a = d % 256 /\ ("C" \in o.sr <=> d >= 0)

(* Subtracting what was added gives A back, in binary for every byte and   *)
(* in decimal for valid digits: ADC with carry clear, then SBC with carry  *)
(* set.  Programs that keep scores in BCD rely on it.                      *)
SbcUndoesAdc ==
  \A val \in Byte :
    (Decimal => IsBcd(a) /\ IsBcd(val)) =>
      LET sum == adcCore([r EXCEPT !.sr = @ \ {"C"}], val)
      IN  sbcCore([sum EXCEPT !.sr = @ \cup {"C"}], val).a = a

(* CMP, CPX, CPY and DCP order unsigned bytes: C is >=, Z is =, and N is   *)
(* bit 7 of the difference; V and D play no part and A is left alone.      *)
CmpIsUnsignedOrder ==
  \A val \in Byte :
    LET o == cmpCore(r, a, val) IN
    /\ "C" \in o.sr <=> a >= val
    /\ "Z" \in o.sr <=> a = val
    /\ "N" \in o.sr <=> ((a - val) % 256) > 127
    /\ o = [r EXCEPT !.sr = o.sr] /\ (o.sr \ {"C", "Z", "N"}) = (r.sr \ {"C", "Z", "N"})
=============================================================================
