--------------------------------- MODULE Alu ---------------------------------
(***************************************************************************)
(* Registers (emu_base.h) and the arithmetic shared by the instructions    *)
(* (the inline functions at the top of InstructionImpl.h).                 *)
(*                                                                         *)
(* The status register is the SET of the flags that are on, so that what   *)
(* an instruction does to one flag can be read off; the byte of            *)
(* Flags6502 weights exists only where the code makes one: on the stack.   *)
(***************************************************************************)
EXTENDS Bits

(* enum Flags6502; "U" is FLAG__, bit 5.                                   *)
Flags6502 == {"C", "Z", "I", "D", "B", "U", "V", "N"}

FlagOf == [w \in {1, 2, 4, 8, 16, 32, 64, 128} |->
             CASE w = 1 -> "C" [] w = 2 -> "Z" [] w = 4 -> "I" [] w = 8 -> "D"
               [] w = 16 -> "B" [] w = 32 -> "U" [] w = 64 -> "V" [] w = 128 -> "N"]

(* The status register as the byte that is pushed, and back.               *)
SrByte(sr) == LET on(w) == FlagOf[w] \in sr IN ByteWhere(on)
SrFlags(v) == {FlagOf[w] : w \in {x \in DOMAIN FlagOf : Has(v, x)}}

Registers == [a : Byte, x : Byte, y : Byte, sr : SUBSET Flags6502, sp : Byte,
              pc : Word, decimalDisabled : BOOLEAN]

setStatus(sr, flag, v) == IF v THEN sr \cup {flag} ELSE sr \ {flag}
getStatus(r, flag) == flag \in r.sr

-----------------------------------------------------------------------------
(* Flag updates on a set of flags, for a result byte.                      *)
nz(sr, val) == setStatus(setStatus(sr, "Z", val = 0), "N", Has(val, 128))

setNZ(r, val) == [r EXCEPT !.sr = nz(@, val)]

(* (regs->getStatus(FLAG_C) ? 1 : 0), and the test for decimal arithmetic. *)
Carry(r) == IfBit(getStatus(r, "C"), 1)
DecimalOnIgnoresWiring(r) == getStatus(r, "D")
DecimalOn(r) == ~r.decimalDisabled /\ getStatus(r, "D")

(* Does the low digit need correcting?  Both tests see the old carry.      *)
DigitCarryWithoutCarryIn(r, val) == (r.a % 16) + (val % 16) > 9
DigitCarry(r, val) == (r.a % 16) + (val % 16) + Carry(r) > 9
DigitBorrowOffByOne(r, val) == (r.a % 16) - (1 - Carry(r)) <= val % 16
DigitBorrow(r, val) == (r.a % 16) - (1 - Carry(r)) < val % 16

(* Z is the binary sum's; N and V are taken after the low digit is         *)
(* corrected, C and A after both are.                                      *)
adcCore(r, val) ==
  LET bin  == r.a + val + Carry(r)
      adj  == bin + IfBit(DecimalOn(r) /\ DigitCarry(r, val), 6)
      full == adj + IfBit(DecimalOn(r) /\ adj > 153, 96)
      c    == IF DecimalOn(r) THEN full > 153 ELSE full > 255
      v    == Has(r.a, 128) = Has(val, 128) /\ Has(r.a, 128) # Has(adj, 128)
      z    == setStatus(r.sr, "Z", Lo(bin) = 0)
      n    == setStatus(z, "N", Has(adj, 128))
  IN  [r EXCEPT !.a = Lo(full), !.sr = setStatus(setStatus(n, "V", v), "C", c)]

(* The flags other than C are those of the binary difference.  res is a    *)
(* uint16: a borrow wraps it above 255.                                    *)
sbcCore(r, val) ==
  LET bin  == Wrap16(r.a - val - (1 - Carry(r)))
      adj  == Wrap16(bin - IfBit(DecimalOn(r) /\ DigitBorrow(r, val), 6))
      full == Wrap16(adj - IfBit(DecimalOn(r) /\ adj > 153, 96))
      v    == Has(r.a, 128) # Has(val, 128) /\ Has(r.a, 128) # Has(bin, 128)
      flag == setStatus(nz(r.sr, Lo(bin)), "V", v)
  IN  [r EXCEPT !.a = Lo(full), !.sr = setStatus(flag, "C", full < 256)]

cmpCoreUint8(r, reg, val) ==
  LET d == Wrap8(reg - val)
  IN  [r EXCEPT !.sr = setStatus(nz(@, d), "C", d < 256)]

cmpCore(r, reg, val) ==
  LET d == Wrap16(reg - val)
  IN  [r EXCEPT !.sr = setStatus(setStatus(setStatus(@, "C", d < 256),
                                           "Z", d = 0), "N", Has(d, 128))]
=============================================================================
