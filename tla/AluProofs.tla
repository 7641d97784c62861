------------------------------ MODULE AluProofs ------------------------------
(***************************************************************************)
(* The arithmetic cores compute what module MCAlu says arithmetic means,   *)
(* first for any registers and operand, then along every behaviour of the  *)
(* accumulator.  A byte of valid digits is handled as its pair of digits:  *)
(* there the corrections of the code by 6 and 96 are linear arithmetic.    *)
(***************************************************************************)
EXTENDS MCAlu, TLAPS

Digit == 0..9
Bit == 0..1

-----------------------------------------------------------------------------
(* A byte is an integer between 0 and 255.                                 *)
LEMMA ByteRange == \A n : n \in Byte <=> n \in Int /\ 0 <= n /\ n <= 255
<1>1. UINT8_MAX \in Int BY SMT DEF UINT8_MAX
<1>2. \A n : n \in Byte <=> n \in Int /\ 0 <= n /\ n <= UINT8_MAX BY <1>1, SMT DEF Byte
<1> QED BY <1>2, SMT DEF UINT8_MAX

(* The carry is one or zero.                                               *)
LEMMA CarryBit ==
  ASSUME NEW s
  PROVE  Carry(s) \in Bit /\ (Carry(s) = 1 <=> "C" \in s.sr)
  BY SMT DEF Carry, IfBit, getStatus, Bit

(* Bit 7 of a byte is its sign.                                            *)
LEMMA SignBit ==
  ASSUME NEW n \in Byte
  PROVE  Has(n, 128) <=> n > 127
  BY ByteRange, SMT DEF Has

(* Bit 7 of a sum or a difference is that of its low byte.                 *)
LEMMA SignOfLow ==
  ASSUME NEW n \in Nat
  PROVE  Has(n, 128) <=> n % 256 > 127
  BY SMT DEF Has

-----------------------------------------------------------------------------
(* The digits of a byte in BCD.                                            *)
LEMMA BcdDigits ==
  ASSUME NEW v \in Byte, IsBcd(v)
  PROVE  \E h \in Digit, l \in Digit : v = 16 * h + l /\ Bcd(v) = 10 * h + l
<1>1. v \div 16 \in Digit /\ v % 16 \in Digit
  BY ByteRange, SMT DEF IsBcd, Digit
<1>2. v = 16 * (v \div 16) + (v % 16) BY ByteRange, SMT
<1> QED BY <1>1, <1>2 DEF Bcd

(* Two digits, read in decimal and in BCD.                                 *)
LEMMA DigitsToBcd ==
  ASSUME NEW h \in Digit, NEW l \in Digit
  PROVE  /\ ToBcd(10 * h + l) = 16 * h + l
         /\ (16 * h + l) % 16 = l /\ (16 * h + l) \div 16 = h
         /\ 16 * h + l \in Byte
         /\ (10 * h + l) % 100 = 10 * h + l
  BY ByteRange, SMT DEF ToBcd, Digit

(* The sum of two digits and a carry: a digit and a carry, the carry being *)
(* what DigitCarry tests.                                                  *)
LEMMA DigitSum ==
  ASSUME NEW m \in Digit, NEW n \in Digit, NEW k \in Bit
  PROVE  \E d \in Digit, c \in Bit : m + n + k = 10 * c + d /\ (c = 1 <=> m + n + k > 9)
<1>1. CASE m + n + k > 9
  <2>1. m + n + k - 10 \in Digit BY <1>1, SMT DEF Digit, Bit
  <2>2. m + n + k = 10 * 1 + (m + n + k - 10) BY SMT DEF Digit, Bit
  <2> QED BY <1>1, <2>1, <2>2, SMT DEF Bit
<1>2. CASE ~(m + n + k > 9)
  <2>1. m + n + k \in Digit BY <1>2, SMT DEF Digit, Bit
  <2>2. m + n + k = 10 * 0 + (m + n + k) BY SMT DEF Digit, Bit
  <2> QED BY <1>2, <2>1, <2>2, SMT DEF Bit
<1> QED BY <1>1, <1>2

(* The difference, with the borrow that DigitBorrow tests.                 *)
LEMMA DigitDifference ==
  ASSUME NEW m \in Digit, NEW n \in Digit, NEW k \in Bit
  PROVE  \E d \in Digit, b \in Bit : m - n - (1 - k) = d - 10 * b /\ (b = 1 <=> m - (1 - k) < n)
<1>1. CASE m - (1 - k) < n
  <2>1. m - n - (1 - k) + 10 \in Digit BY <1>1, SMT DEF Digit, Bit
  <2>2. m - n - (1 - k) = (m - n - (1 - k) + 10) - 10 * 1 BY SMT DEF Digit, Bit
  <2> QED BY <1>1, <2>1, <2>2, SMT DEF Bit
<1>2. CASE ~(m - (1 - k) < n)
  <2>1. m - n - (1 - k) \in Digit BY <1>2, SMT DEF Digit, Bit
  <2>2. m - n - (1 - k) = (m - n - (1 - k)) - 10 * 0 BY SMT DEF Digit, Bit
  <2> QED BY <1>2, <2>1, <2>2, SMT DEF Bit
<1> QED BY <1>1, <1>2

-----------------------------------------------------------------------------
(* The intermediate values of adcCore and sbcCore.                         *)
AdcBin(s, val) == s.a + val + Carry(s)
AdcAdj(s, val) == AdcBin(s, val) + IfBit(DecimalOn(s) /\ DigitCarry(s, val), 6)
AdcFull(s, val) == AdcAdj(s, val) + IfBit(DecimalOn(s) /\ AdcAdj(s, val) > 153, 96)
SbcBin(s, val) == Wrap16(s.a - val - (1 - Carry(s)))
SbcAdj(s, val) == Wrap16(SbcBin(s, val) - IfBit(DecimalOn(s) /\ DigitBorrow(s, val), 6))
SbcFull(s, val) == Wrap16(SbcAdj(s, val) - IfBit(DecimalOn(s) /\ SbcAdj(s, val) > 153, 96))

(* Registers with a new accumulator and new flags are registers.           *)
LEMMA NewAccumulator ==
  ASSUME NEW s \in Registers, NEW b \in Byte, NEW t \in SUBSET Flags6502
  PROVE  [s EXCEPT !.a = b, !.sr = t] \in Registers
<1> DEFINE u == [s EXCEPT !.a = b]
<1>1. u \in Registers BY SMT DEF Registers
<1>2. [u EXCEPT !.sr = t] \in Registers
  <2> HIDE DEF u
  <2> QED BY <1>1, SMT DEF Registers
<1>3. [u EXCEPT !.sr = t] = [s EXCEPT !.a = b, !.sr = t] OBVIOUS
<1> QED BY <1>2, <1>3, Zenon

(* What adcCore leaves in A and in each flag.                              *)
LEMMA AdcResult ==
  ASSUME NEW s \in Registers, NEW val
  PROVE  LET o == adcCore(s, val) IN
         /\ o.a = Lo(AdcFull(s, val))
         /\ "C" \in o.sr <=> IF DecimalOn(s) THEN AdcFull(s, val) > 153 ELSE AdcFull(s, val) > 255
         /\ "V" \in o.sr <=> Has(s.a, 128) = Has(val, 128) /\ Has(s.a, 128) # Has(AdcAdj(s, val), 128)
         /\ "Z" \in o.sr <=> Lo(AdcBin(s, val)) = 0
         /\ "N" \in o.sr <=> Has(AdcAdj(s, val), 128)
         /\ "D" \in o.sr <=> "D" \in s.sr
         /\ o.decimalDisabled = s.decimalDisabled
         /\ Lo(AdcFull(s, val)) \in Byte => o \in Registers
<1> DEFINE bin  == AdcBin(s, val)
           adj  == AdcAdj(s, val)
           full == AdcFull(s, val)
           c    == IF DecimalOn(s) THEN full > 153 ELSE full > 255
           v    == Has(s.a, 128) = Has(val, 128) /\ Has(s.a, 128) # Has(adj, 128)
           t    == setStatus(setStatus(setStatus(setStatus(s.sr, "Z", Lo(bin) = 0),
                                                 "N", Has(adj, 128)), "V", v), "C", c)
<1>1. adcCore(s, val) = [s EXCEPT !.a = Lo(full), !.sr = t]
  BY DEF adcCore, AdcFull, AdcAdj, AdcBin
<1> HIDE DEF bin, adj, full, c, v
<1>2. /\ "C" \in t <=> c
      /\ "V" \in t <=> v
      /\ "Z" \in t <=> Lo(bin) = 0
      /\ "N" \in t <=> Has(adj, 128)
      /\ "D" \in t <=> "D" \in s.sr
      /\ t \in SUBSET Flags6502
  BY SMT DEF setStatus, Flags6502, Registers
<1> HIDE DEF t
<1>3. /\ adcCore(s, val).a = Lo(full) /\ adcCore(s, val).sr = t
      /\ adcCore(s, val).decimalDisabled = s.decimalDisabled
  BY <1>1, SMT DEF Registers
<1>4. ASSUME Lo(full) \in Byte
      PROVE  adcCore(s, val) \in Registers
  <2>1. [s EXCEPT !.a = Lo(full), !.sr = t] \in Registers BY <1>2, <1>4, NewAccumulator
  <2> QED BY <1>1, <2>1, Zenon
<1> QED BY <1>2, <1>3, <1>4, Zenon DEF bin, adj, full, c, v

(* What sbcCore leaves in A and in each flag.                              *)
LEMMA SbcResult ==
  ASSUME NEW s \in Registers, NEW val
  PROVE  LET o == sbcCore(s, val) IN
         /\ o.a = Lo(SbcFull(s, val))
         /\ "C" \in o.sr <=> SbcFull(s, val) < 256
         /\ "V" \in o.sr <=> Has(s.a, 128) # Has(val, 128) /\ Has(s.a, 128) # Has(SbcBin(s, val), 128)
         /\ "Z" \in o.sr <=> Lo(SbcBin(s, val)) = 0
<1> DEFINE bin  == SbcBin(s, val)
           full == SbcFull(s, val)
           v    == Has(s.a, 128) # Has(val, 128) /\ Has(s.a, 128) # Has(bin, 128)
           t    == setStatus(setStatus(nz(s.sr, Lo(bin)), "V", v), "C", full < 256)
<1>1. sbcCore(s, val) = [s EXCEPT !.a = Lo(full), !.sr = t]
  BY DEF sbcCore, SbcFull, SbcAdj, SbcBin
<1> HIDE DEF bin, full, v
<1>2. /\ "C" \in t <=> full < 256
      /\ "V" \in t <=> v
      /\ "Z" \in t <=> Lo(bin) = 0
  BY SMT DEF setStatus, nz
<1> HIDE DEF t
<1>3. sbcCore(s, val).a = Lo(full) /\ sbcCore(s, val).sr = t
  BY <1>1, SMT DEF Registers
<1> QED BY <1>2, <1>3, Zenon DEF bin, full, v

-----------------------------------------------------------------------------
(* V of an addition: the operands have the same sign and the low byte of   *)
(* the sum has the other, exactly when the signed sum does not fit.        *)
LEMMA AddOverflow ==
  ASSUME NEW m \in Byte, NEW n \in Byte, NEW k \in Bit
  PROVE  (m > 127 <=> n > 127) /\ ~(m > 127 <=> (m + n + k) % 256 > 127)
           <=> ~InByte(Signed(m) + Signed(n) + k)
<1> USE ByteRange DEF Bit, InByte, Signed
<1>1. m \in Int /\ 0 <= m /\ m <= 255 /\ n \in Int /\ 0 <= n /\ n <= 255 /\ k \in Int /\ 0 <= k /\ k <= 1
  BY SMT
<1>2. CASE m > 127 /\ n > 127
  <2>1. (m + n + k) % 256 = m + n + k - 256 BY <1>1, <1>2, SMT
  <2> QED BY <1>1, <1>2, <2>1, SMT
<1>3. CASE m <= 127 /\ n <= 127
  <2>1. (m + n + k) % 256 = m + n + k BY <1>1, <1>3, SMT
  <2> QED BY <1>1, <1>3, <2>1, SMT
<1>4. CASE ~(m > 127 <=> n > 127) BY <1>1, <1>4, SMT
<1> QED BY <1>1, <1>2, <1>3, <1>4, SMT

(* V of a subtraction, likewise.                                           *)
LEMMA SubOverflow ==
  ASSUME NEW m \in Byte, NEW n \in Byte, NEW k \in Bit
  PROVE  ~(m > 127 <=> n > 127) /\ ~(m > 127 <=> (m - n - (1 - k)) % 256 > 127)
           <=> ~InByte(Signed(m) - Signed(n) - (1 - k))
<1> USE ByteRange DEF Bit, InByte, Signed
<1>1. m \in Int /\ 0 <= m /\ m <= 255 /\ n \in Int /\ 0 <= n /\ n <= 255 /\ k \in Int /\ 0 <= k /\ k <= 1
  BY SMT
<1>2. CASE m > 127 /\ n <= 127
  <2>1. (m - n - (1 - k)) % 256 = m - n - (1 - k) BY <1>1, <1>2, SMT
  <2> QED BY <1>1, <1>2, <2>1, SMT
<1>3. CASE m <= 127 /\ n > 127
  <2>1. (m - n - (1 - k)) % 256 = m - n - (1 - k) + 256 BY <1>1, <1>3, SMT
  <2> QED BY <1>1, <1>3, <2>1, SMT
<1>4. CASE m > 127 <=> n > 127 BY <1>1, <1>4, SMT
<1> QED BY <1>1, <1>2, <1>3, <1>4, SMT

(* Binary addition: nine bits of sum, and V for a signed overflow.         *)
LEMMA AdcBinary ==
  ASSUME NEW s \in Registers, NEW val \in Byte, ~DecimalOn(s)
  PROVE  LET o == adcCore(s, val)
             sum == s.a + val + Carry(s)
         IN  /\ o.a = sum % 256
             /\ "C" \in o.sr <=> sum > 255
             /\ "V" \in o.sr <=> ~InByte(Signed(s.a) + Signed(val) + Carry(s))
             /\ "Z" \in o.sr <=> o.a = 0
             /\ "N" \in o.sr <=> Signed(o.a) < 0
<1> DEFINE sum == s.a + val + Carry(s)
<1>1. s.a \in Byte /\ sum \in Nat /\ sum <= 511
  BY ByteRange, CarryBit, SMT DEF Registers, Bit
<1>2. AdcBin(s, val) = sum /\ AdcAdj(s, val) = sum /\ AdcFull(s, val) = sum
  BY <1>1, SMT DEF AdcBin, AdcAdj, AdcFull, IfBit
<1>3. Has(s.a, 128) <=> s.a > 127 BY <1>1, SignBit
<1>4. Has(val, 128) <=> val > 127 BY SignBit
<1>5. Has(sum, 128) <=> sum % 256 > 127 BY <1>1, SignOfLow
<1>6. (Has(s.a, 128) = Has(val, 128) /\ Has(s.a, 128) # Has(sum, 128))
        <=> ~InByte(Signed(s.a) + Signed(val) + Carry(s))
  <2>1. (s.a > 127 <=> val > 127) /\ ~(s.a > 127 <=> sum % 256 > 127)
          <=> ~InByte(Signed(s.a) + Signed(val) + Carry(s))
    BY <1>1, CarryBit, AddOverflow
  <2>2. Has(s.a, 128) \in BOOLEAN /\ Has(val, 128) \in BOOLEAN /\ Has(sum, 128) \in BOOLEAN
    BY DEF Has
  <2> QED BY <2>1, <2>2, <1>3, <1>4, <1>5
<1>7. sum % 256 > 127 <=> Signed(sum % 256) < 0 BY <1>1, SMT DEF Signed
<1> HIDE DEF sum
<1>8. QED BY <1>2, <1>5, <1>6, <1>7, AdcResult DEF Lo, sum


(* Decimal addition of valid digits: the corrections by 6 and 96 give the  *)
(* two digits of the decimal sum, and C its hundred.                       *)
LEMMA AdcDecimal ==
  ASSUME NEW s \in Registers, NEW val \in Byte, DecimalOn(s), IsBcd(s.a), IsBcd(val)
  PROVE  LET o == adcCore(s, val)
             sum == Bcd(s.a) + Bcd(val) + Carry(s)
         IN  o.a = ToBcd(sum % 100) /\ ("C" \in o.sr <=> sum > 99)
<1> DEFINE k == Carry(s)
           sum == Bcd(s.a) + Bcd(val) + k
<1>1. s.a \in Byte BY DEF Registers
<1>2. PICK ah \in Digit, al \in Digit : s.a = 16 * ah + al /\ Bcd(s.a) = 10 * ah + al
  BY <1>1, BcdDigits
<1>3. PICK vh \in Digit, vl \in Digit : val = 16 * vh + vl /\ Bcd(val) = 10 * vh + vl
  BY BcdDigits
<1>4. k \in Bit BY CarryBit
<1>5. PICK l \in Digit, c \in Bit : al + vl + k = 10 * c + l /\ (c = 1 <=> al + vl + k > 9)
  BY <1>4, DigitSum
<1>6. PICK h \in Digit, d \in Bit : ah + vh + c = 10 * d + h /\ (d = 1 <=> ah + vh + c > 9)
  BY DigitSum
<1>7. s.a % 16 = al /\ val % 16 = vl BY <1>2, <1>3, DigitsToBcd
<1> HIDE DEF k
<1>8. AdcBin(s, val) = 160 * d + 16 * h + l - 6 * c /\ sum = 100 * d + 10 * h + l
  <2>1. AdcBin(s, val) = s.a + val + k BY DEF AdcBin, k
  <2>2. s.a + val + k = 160 * d + 16 * h + l - 6 * c
    BY <1>2, <1>3, <1>4, <1>5, <1>6, SMT DEF Digit, Bit
  <2>3. sum = 100 * d + 10 * h + l
    BY <1>2, <1>3, <1>4, <1>5, <1>6, SMT DEF Digit, Bit
  <2> QED BY <2>1, <2>2, <2>3
<1>9. AdcAdj(s, val) = 160 * d + 16 * h + l
  <2>1. DigitCarry(s, val) <=> c = 1 BY <1>5, <1>7 DEF DigitCarry, k
  <2> QED BY <1>8, <2>1, SMT DEF AdcAdj, IfBit, Digit, Bit
<1>10. AdcFull(s, val) = 256 * d + 16 * h + l
  BY <1>9, SMT DEF AdcFull, IfBit, Digit, Bit
<1>11. Lo(AdcFull(s, val)) = 16 * h + l /\ (AdcFull(s, val) > 153 <=> d = 1)
  BY <1>10, SMT DEF Lo, Digit, Bit
<1>12. sum % 100 = 10 * h + l /\ (sum > 99 <=> d = 1)
  BY <1>8, SMT DEF Digit, Bit
<1>13. ToBcd(sum % 100) = 16 * h + l BY <1>12, DigitsToBcd
<1> HIDE DEF sum
<1> QED BY <1>11, <1>12, <1>13, AdcResult DEF sum, k

-----------------------------------------------------------------------------
(* A uint16 that holds a difference has the low byte and the bit 7 of the  *)
(* difference, and is below 256 exactly when nothing was borrowed.         *)
LEMMA BorrowWraps ==
  ASSUME NEW n \in Int, -256 <= n, n <= 255
  PROVE  /\ Wrap16(n) \in Nat
         /\ Wrap16(n) = IF n < 0 THEN n + 65536 ELSE n
         /\ Lo(Wrap16(n)) = n % 256
         /\ Wrap16(n) < 256 <=> n >= 0
         /\ Has(Wrap16(n), 128) <=> n % 256 > 127
<1>1. Wrap16(n) = IF n < 0 THEN n + 65536 ELSE n BY SMT DEF Wrap16
<1>2. Wrap16(n) \in Nat BY <1>1, SMT
<1>3. Lo(Wrap16(n)) = n % 256 BY <1>1, SMT DEF Lo
<1>4. Wrap16(n) < 256 <=> n >= 0 BY <1>1, SMT
<1>5. Has(Wrap16(n), 128) <=> n % 256 > 127
  BY <1>2, <1>3, SignOfLow DEF Lo
<1> QED BY <1>1, <1>2, <1>3, <1>4, <1>5

(* Subtraction in either mode: V and Z are those of the binary difference. *)
LEMMA SbcFlags ==
  ASSUME NEW s \in Registers, NEW val \in Byte
  PROVE  LET o == sbcCore(s, val)
             d == s.a - val - (1 - Carry(s))
         IN  /\ "V" \in o.sr <=> ~InByte(Signed(s.a) - Signed(val) - (1 - Carry(s)))
             /\ "Z" \in o.sr <=> d % 256 = 0
<1> DEFINE d == s.a - val - (1 - Carry(s))
<1>1. s.a \in Byte /\ Carry(s) \in Bit BY CarryBit DEF Registers
<1>2. d \in Int /\ -256 <= d /\ d <= 255 BY <1>1, ByteRange, SMT DEF Bit
<1>3. SbcBin(s, val) = Wrap16(d) BY DEF SbcBin
<1>4. Lo(SbcBin(s, val)) = d % 256 /\ (Has(SbcBin(s, val), 128) <=> d % 256 > 127)
  <2> HIDE DEF d
  <2> QED BY <1>2, <1>3, BorrowWraps
<1>5. (Has(s.a, 128) <=> s.a > 127) /\ (Has(val, 128) <=> val > 127) BY <1>1, SignBit
<1>6. ~(s.a > 127 <=> val > 127) /\ ~(s.a > 127 <=> d % 256 > 127)
        <=> ~InByte(Signed(s.a) - Signed(val) - (1 - Carry(s)))
  BY <1>1, SubOverflow
<1>7. Has(s.a, 128) \in BOOLEAN /\ Has(val, 128) \in BOOLEAN /\ Has(SbcBin(s, val), 128) \in BOOLEAN
  BY DEF Has
<1>8. (Has(s.a, 128) # Has(val, 128) /\ Has(s.a, 128) # Has(SbcBin(s, val), 128))
        <=> ~InByte(Signed(s.a) - Signed(val) - (1 - Carry(s)))
  <2> HIDE DEF d
  <2> QED BY <1>4, <1>5, <1>6, <1>7
<1> HIDE DEF d
<1> QED BY <1>4, <1>8, SbcResult DEF d

(* Binary subtraction, with C as the inverted borrow.                      *)
LEMMA SbcBinary ==
  ASSUME NEW s \in Registers, NEW val \in Byte, ~DecimalOn(s)
  PROVE  LET o == sbcCore(s, val)
             d == s.a - val - (1 - Carry(s))
         IN  o.a = d % 256 /\ ("C" \in o.sr <=> d >= 0)
<1> DEFINE d == s.a - val - (1 - Carry(s))
<1>1. s.a \in Byte /\ Carry(s) \in Bit BY CarryBit DEF Registers
<1>2. d \in Int /\ -256 <= d /\ d <= 255 BY <1>1, ByteRange, SMT DEF Bit
<1>3. SbcBin(s, val) = Wrap16(d) BY DEF SbcBin
<1> HIDE DEF d
<1>4. SbcFull(s, val) = Wrap16(d)
  BY <1>2, <1>3, BorrowWraps, SMT DEF SbcFull, SbcAdj, IfBit, Wrap16
<1> QED BY <1>2, <1>4, BorrowWraps, SbcResult DEF d

(* Decimal subtraction of valid digits.                                    *)
LEMMA SbcDecimal ==
  ASSUME NEW s \in Registers, NEW val \in Byte, DecimalOn(s), IsBcd(s.a), IsBcd(val)
  PROVE  LET o == sbcCore(s, val)
             d == Bcd(s.a) - Bcd(val) - (1 - Carry(s))
         IN  o.a = ToBcd(d % 100) /\ ("C" \in o.sr <=> d >= 0)
<1> DEFINE k == Carry(s)
           d == Bcd(s.a) - Bcd(val) - (1 - k)
<1>1. s.a \in Byte BY DEF Registers
<1>2. PICK ah \in Digit, al \in Digit : s.a = 16 * ah + al /\ Bcd(s.a) = 10 * ah + al
  BY <1>1, BcdDigits
<1>3. PICK vh \in Digit, vl \in Digit : val = 16 * vh + vl /\ Bcd(val) = 10 * vh + vl
  BY BcdDigits
<1>4. k \in Bit BY CarryBit
<1>5. PICK l \in Digit, b \in Bit : al - vl - (1 - k) = l - 10 * b /\ (b = 1 <=> al - (1 - k) < vl)
  BY <1>4, DigitDifference
<1>6. PICK h \in Digit, c \in Bit :
        ah - vh - (1 - (1 - b)) = h - 10 * c /\ (c = 1 <=> ah - (1 - (1 - b)) < vh)
  <2>1. 1 - b \in Bit BY SMT DEF Bit
  <2> QED BY <2>1, DigitDifference
<1>7. s.a % 16 = al /\ val % 16 = vl BY <1>2, <1>3, DigitsToBcd
<1> HIDE DEF k
<1>8. s.a - val - (1 - k) = 16 * h + l + 6 * b - 160 * c /\ d = 10 * h + l - 100 * c
  BY <1>2, <1>3, <1>4, <1>5, <1>6, SMT DEF Digit, Bit
<1>9. DigitBorrow(s, val) <=> b = 1 BY <1>5, <1>7 DEF DigitBorrow, k
<1>10. SbcBin(s, val) = 16 * h + l + 6 * b - 160 * c + 65536 * IfBit(16 * h + l + 6 * b - 160 * c < 0, 1)
  BY <1>8, SMT DEF SbcBin, Wrap16, IfBit, Digit, Bit, k
<1>11. SbcAdj(s, val) = 16 * h + l - 160 * c + 65536 * c
  BY <1>9, <1>10, SMT DEF SbcAdj, IfBit, Wrap16, Digit, Bit
<1>12. SbcFull(s, val) = 16 * h + l + 65280 * c
  BY <1>11, SMT DEF SbcFull, IfBit, Wrap16, Digit, Bit
<1>13. Lo(SbcFull(s, val)) = 16 * h + l /\ (SbcFull(s, val) < 256 <=> c = 0)
  BY <1>12, SMT DEF Lo, Digit, Bit
<1>14. d % 100 = 10 * h + l /\ (d >= 0 <=> c = 0)
  BY <1>8, SMT DEF Digit, Bit
<1>15. ToBcd(d % 100) = 16 * h + l BY <1>14, DigitsToBcd
<1> HIDE DEF d
<1> QED BY <1>13, <1>14, <1>15, SbcResult DEF d, k

-----------------------------------------------------------------------------
(* Comparison is the order of unsigned bytes and changes nothing but C, Z  *)
(* and N.                                                                  *)
LEMMA CmpOrder ==
  ASSUME NEW s \in Registers, NEW reg \in Byte, NEW val \in Byte
  PROVE  LET o == cmpCore(s, reg, val) IN
         /\ "C" \in o.sr <=> reg >= val
         /\ "Z" \in o.sr <=> reg = val
         /\ "N" \in o.sr <=> ((reg - val) % 256) > 127
         /\ o = [s EXCEPT !.sr = o.sr] /\ (o.sr \ {"C", "Z", "N"}) = (s.sr \ {"C", "Z", "N"})
<1> DEFINE d == Wrap16(reg - val)
           t == setStatus(setStatus(setStatus(s.sr, "C", d < 256), "Z", d = 0), "N", Has(d, 128))
<1>1. cmpCore(s, reg, val) = [s EXCEPT !.sr = t] BY DEF cmpCore
<1>2. reg - val \in Int /\ -256 <= reg - val /\ reg - val <= 255 BY ByteRange, SMT
<1>3. /\ d < 256 <=> reg - val >= 0
      /\ Has(d, 128) <=> (reg - val) % 256 > 127
      /\ d = IF reg - val < 0 THEN (reg - val) + 65536 ELSE reg - val
  BY <1>2, BorrowWraps
<1> HIDE DEF d
<1>4. (d < 256 <=> reg >= val) /\ (d = 0 <=> reg = val)
  BY <1>3, ByteRange, SMT
<1>5. /\ "C" \in t <=> d < 256
      /\ "Z" \in t <=> d = 0
      /\ "N" \in t <=> Has(d, 128)
      /\ t \ {"C", "Z", "N"} = s.sr \ {"C", "Z", "N"}
  BY SMT DEF setStatus
<1> HIDE DEF t
<1>6. cmpCore(s, reg, val).sr = t BY <1>1, SMT DEF Registers
<1> QED BY <1>1, <1>3, <1>4, <1>5, <1>6

(* ADC with C clear and SBC with C set are inverse, in both modes.         *)
LEMMA SbcInvertsAdc ==
  ASSUME NEW s \in Registers, NEW u \in Registers, NEW val \in Byte,
         "C" \notin s.sr, "C" \in u.sr, u.a = adcCore(s, val).a, DecimalOn(u) <=> DecimalOn(s),
         DecimalOn(s) => IsBcd(s.a) /\ IsBcd(val)
  PROVE  sbcCore(u, val).a = s.a
<1>1. Carry(s) = 0 /\ Carry(u) = 1 BY CarryBit, SMT DEF Bit
<1>2. s.a \in Byte BY DEF Registers
<1>3. CASE ~DecimalOn(s)
  <2>1. u.a = (s.a + val + 0) % 256 BY <1>1, <1>3, AdcBinary
  <2>2. sbcCore(u, val).a = (u.a - val - (1 - 1)) % 256 BY <1>1, <1>3, SbcBinary
  <2>3. ASSUME NEW m \in Byte, NEW n \in Byte
        PROVE  (((m + n + 0) % 256) - n - (1 - 1)) % 256 = m
    <3>1. (m + n + 0) % 256 = m + n - IfBit(m + n > 255, 256) BY ByteRange, SMT DEF IfBit
    <3> QED BY <3>1, ByteRange, SMT DEF IfBit
  <2> QED BY <2>1, <2>2, <2>3, <1>2
<1>4. CASE DecimalOn(s)
  <2>1. PICK ah \in Digit, al \in Digit : s.a = 16 * ah + al /\ Bcd(s.a) = 10 * ah + al
    BY <1>2, <1>4, BcdDigits
  <2>2. PICK vh \in Digit, vl \in Digit : val = 16 * vh + vl /\ Bcd(val) = 10 * vh + vl
    BY <1>4, BcdDigits
  <2> DEFINE m == Bcd(s.a)
             n == Bcd(val)
             p == (m + n + 0) % 100
  <2>3. m \in 0..99 /\ n \in 0..99 BY <2>1, <2>2, SMT DEF Digit
  <2>4. u.a = ToBcd(p) BY <1>1, <1>4, AdcDecimal
  <2> HIDE DEF m, n
  <2>5. p \in 0..99 BY <2>3, SMT
  <2> HIDE DEF p
  <2>6. p \div 10 \in Digit /\ p % 10 \in Digit BY <2>5, SMT DEF Digit
  <2>7. ToBcd(p) % 16 = p % 10 /\ ToBcd(p) \div 16 = p \div 10
    BY <2>6, DigitsToBcd DEF ToBcd
  <2>8. IsBcd(u.a) BY <2>4, <2>6, <2>7, SMT DEF IsBcd, Digit
  <2>9. Bcd(u.a) = p BY <2>4, <2>5, <2>7, SMT DEF Bcd
  <2>10. sbcCore(u, val).a = ToBcd((p - n - (1 - 1)) % 100)
    BY <1>1, <1>4, <2>8, <2>9, SbcDecimal DEF n
  <2>11. (p - n - (1 - 1)) % 100 = m BY <2>3, SMT DEF p
  <2>12. ToBcd(m) = s.a BY <2>1, DigitsToBcd DEF m
  <2> QED BY <2>10, <2>11, <2>12
<1> QED BY <1>3, <1>4

-----------------------------------------------------------------------------
(* The accumulator and the switches of MCAlu keep their types.             *)
AluTypeOK == a \in Byte /\ carry \in BOOLEAN /\ decimal \in BOOLEAN /\ wired \in BOOLEAN

(* The registers that MCAlu makes of them.                                 *)
LEMMA WalkRegisters ==
  ASSUME AluTypeOK
  PROVE  /\ r \in Registers /\ r.a = a
         /\ Carry(r) = C /\ (DecimalOn(r) <=> Decimal)
<1> DEFINE t == {"U"} \cup (IF carry THEN {"C"} ELSE {}) \cup (IF decimal THEN {"D"} ELSE {})
<1>1. t \in SUBSET Flags6502 /\ ("C" \in t <=> carry) /\ ("D" \in t <=> decimal)
  BY SMT DEF AluTypeOK, Flags6502
<1>2. 0 \in Byte /\ 253 \in Byte BY ByteRange, SMT
<1>3. 0 \in Word BY SMT DEF Word, UINT16_MAX
<1>4. r = [a |-> a, x |-> 0, y |-> 0, sp |-> 253, pc |-> 0, decimalDisabled |-> wired, sr |-> t]
  BY DEF r
<1> HIDE DEF t
<1>5. r \in Registers BY <1>1, <1>2, <1>3, <1>4, SMT DEF AluTypeOK, Registers
<1>6. r.a = a /\ r.sr = t /\ r.decimalDisabled = wired BY <1>4, SMT
<1>7. Carry(r) = C BY <1>1, <1>6, SMT DEF Carry, C, IfBit, getStatus
<1>8. DecimalOn(r) <=> Decimal BY <1>1, <1>6 DEF DecimalOn, Decimal, getStatus
<1> QED BY <1>5, <1>6, <1>7, <1>8

(* The arithmetic cores leave a byte in A.                                 *)
LEMMA CoreByte ==
  ASSUME NEW s \in Registers, NEW val \in Byte
  PROVE  Lo(AdcFull(s, val)) \in Byte /\ Lo(SbcFull(s, val)) \in Byte
<1>1. s.a \in Int /\ val \in Int /\ Carry(s) \in Int BY ByteRange, CarryBit, SMT DEF Registers, Bit
<1>2. AdcBin(s, val) \in Int BY <1>1, SMT DEF AdcBin
<1>3. AdcAdj(s, val) \in Int BY <1>2, SMT DEF AdcAdj, IfBit
<1>4. AdcFull(s, val) \in Int BY <1>3, SMT DEF AdcFull, IfBit
<1>5. SbcBin(s, val) \in Int BY <1>1, SMT DEF SbcBin, Wrap16
<1>6. SbcAdj(s, val) \in Int BY <1>5, SMT DEF SbcAdj, IfBit, Wrap16
<1>7. SbcFull(s, val) \in Int BY <1>6, SMT DEF SbcFull, IfBit, Wrap16
<1> QED BY <1>4, <1>7, ByteRange, SMT DEF Lo

(* AluTypeOK is inductive.                                                 *)
LEMMA AluType == Spec => []AluTypeOK
<1>1. Init => AluTypeOK
  <2>1. {0, 127, 128, 255} \subseteq Byte BY ByteRange, SMT
  <2> QED BY <2>1 DEF Init, AluTypeOK
<1>2. AluTypeOK /\ [Next]_vars => AluTypeOK'
  <2> SUFFICES ASSUME AluTypeOK, [Next]_vars PROVE AluTypeOK' OBVIOUS
  <2>1. CASE Adc
    <3>1. PICK val \in Operands : a' = adcCore(r, val).a /\ carry' = ("C" \in adcCore(r, val).sr)
                                    /\ UNCHANGED <<decimal, wired>>
      BY <2>1 DEF Adc, Compute
    <3>2. a' \in Byte BY <3>1, WalkRegisters, OperandsAssumption, AdcResult, CoreByte
    <3> QED BY <3>1, <3>2 DEF AluTypeOK
  <2>2. CASE Sbc
    <3>1. PICK val \in Operands : a' = sbcCore(r, val).a /\ carry' = ("C" \in sbcCore(r, val).sr)
                                    /\ UNCHANGED <<decimal, wired>>
      BY <2>2 DEF Sbc, Compute
    <3>2. a' \in Byte BY <3>1, WalkRegisters, OperandsAssumption, SbcResult, CoreByte
    <3> QED BY <3>1, <3>2 DEF AluTypeOK
  <2>3. CASE Flag BY <2>3 DEF Flag, AluTypeOK
  <2>4. CASE UNCHANGED vars BY <2>4 DEF vars, AluTypeOK
  <2> QED BY <2>1, <2>2, <2>3, <2>4 DEF Next
<1> QED BY <1>1, <1>2, PTL DEF Spec

(* adcCore is nine-bit binary addition with a signed overflow, and         *)
(* two-digit decimal addition on valid digits, for every accumulator,      *)
(* operand, carry, mode and wiring.                                        *)
THEOREM AdditionIsRight == Spec => []AdcIsAddition
<1>1. AluTypeOK => AdcIsAddition
  BY WalkRegisters, AdcBinary, AdcDecimal DEF AdcIsAddition
<1> QED BY <1>1, AluType, PTL

(* sbcCore is subtraction with C as the inverted borrow, in both modes.    *)
THEOREM SubtractionIsRight == Spec => []SbcIsSubtraction
<1>1. AluTypeOK => SbcIsSubtraction
  BY WalkRegisters, SbcFlags, SbcBinary, SbcDecimal DEF SbcIsSubtraction
<1> QED BY <1>1, AluType, PTL

(* Subtracting what was added gives A back.                                *)
THEOREM SubtractionUndoesAddition == Spec => []SbcUndoesAdc
<1>1. ASSUME AluTypeOK PROVE SbcUndoesAdc
  <2> SUFFICES ASSUME NEW val \in Byte, Decimal => IsBcd(a) /\ IsBcd(val)
               PROVE  LET sum == adcCore([r EXCEPT !.sr = @ \ {"C"}], val)
                      IN  sbcCore([sum EXCEPT !.sr = @ \cup {"C"}], val).a = a
    BY DEF SbcUndoesAdc
  <2> DEFINE s == [r EXCEPT !.sr = @ \ {"C"}]
             sum == adcCore(s, val)
             u == [sum EXCEPT !.sr = @ \cup {"C"}]
  <2>1. r \in Registers /\ r.a = a /\ (DecimalOn(r) <=> Decimal) BY <1>1, WalkRegisters
  <2> HIDE DEF r
  <2>2. s \in Registers /\ s.a = a /\ "C" \notin s.sr /\ (DecimalOn(s) <=> DecimalOn(r))
    BY <2>1, SMT DEF Registers, DecimalOn, getStatus
  <2> HIDE DEF s
  <2>3. /\ sum \in Registers /\ ("D" \in sum.sr <=> "D" \in s.sr)
        /\ sum.decimalDisabled = s.decimalDisabled
    BY <2>2, AdcResult, CoreByte
  <2> HIDE DEF sum
  <2>4. u \in Registers /\ u.a = sum.a /\ "C" \in u.sr /\ (DecimalOn(u) <=> DecimalOn(sum))
    BY <2>3, SMT DEF Registers, DecimalOn, getStatus, Flags6502
  <2>5. DecimalOn(sum) <=> DecimalOn(s) BY <2>3 DEF DecimalOn, getStatus
  <2> HIDE DEF u
  <2>6. sbcCore(u, val).a = s.a BY <2>1, <2>2, <2>4, <2>5, SbcInvertsAdc DEF sum
  <2> QED BY <2>2, <2>6 DEF u, sum, s
<1> QED BY <1>1, AluType, PTL

(* cmpCore orders unsigned bytes.                                          *)
THEOREM ComparisonIsOrder == Spec => []CmpIsUnsignedOrder
<1>1. AluTypeOK => CmpIsUnsignedOrder
  BY WalkRegisters, CmpOrder DEF CmpIsUnsignedOrder, AluTypeOK
<1> QED BY <1>1, AluType, PTL
=============================================================================
