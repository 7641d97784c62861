-------------------------- MODULE ProcessorProofs --------------------------
(***************************************************************************)
(* Theorems about Processor for every program, memory size, register       *)
(* contents and behaviour of the interrupt lines.                          *)
(*                                                                         *)
(* First, what executing an instruction does to a machine: it leaves a     *)
(* well-formed machine, and only CLI, SEI, PLP, RTI and BRK can change I.  *)
(* That begins with the arithmetic: bytes stay bytes, and no arithmetic on *)
(* registers disturbs I, B, bit 5 or the decimal wiring.                   *)
(***************************************************************************)
EXTENDS ProcessorGate, TLAPS

(* The registers between two instructions: B is never on in the status     *)
(* register and bit 5 always is.                                           *)
Regs == {r \in Registers : "B" \notin r.sr /\ "U" \in r.sr}

(* t differs from sr in arithmetic flags only.                             *)
SameControl(sr, t) ==
  /\ t \subseteq Flags6502
  /\ "I" \in t <=> "I" \in sr
  /\ "B" \in t <=> "B" \in sr
  /\ "U" \in t <=> "U" \in sr

(* s is what instructions other than CLI, SEI, PLP, RTI and BRK may make   *)
(* of the registers r.                                                     *)
Keeps(r, s) ==
  /\ s \in Regs
  /\ s.decimalDisabled = r.decimalDisabled
  /\ "I" \in s.sr <=> "I" \in r.sr

ArithmeticFlags == {"C", "Z", "V", "N", "D"}

-----------------------------------------------------------------------------
(* The two integer types, as bounds.                                       *)
LEMMA ByteIs == \A n : n \in Byte <=> n \in Int /\ 0 <= n /\ n <= 255
<1>1. UINT8_MAX \in Int BY SMT DEF UINT8_MAX
<1>2. \A n : n \in Byte <=> n \in Int /\ 0 <= n /\ n <= UINT8_MAX BY <1>1, SMT DEF Byte
<1> QED BY <1>2, SMT DEF UINT8_MAX

(* The words are the integers from 0 to 65535.                             *)
LEMMA WordIs == \A n : n \in Word <=> n \in Int /\ 0 <= n /\ n <= 65535
<1>1. UINT16_MAX \in Int BY SMT DEF UINT16_MAX
<1>2. \A n : n \in Word <=> n \in Int /\ 0 <= n /\ n <= UINT16_MAX BY <1>1, SMT DEF Word
<1> QED BY <1>2, SMT DEF UINT16_MAX

(* A uint8 fits a uint16.                                                  *)
LEMMA ByteIsWord == Byte \subseteq Word
  BY ByteIs, WordIs, SMT

(* Assignments to uint8 and uint16 variables yield bytes and words.        *)
LEMMA Wrap8Type ==
  ASSUME NEW n \in Int
  PROVE  Wrap8(n) \in Byte
  BY ByteIs, SMT DEF Wrap8

(* Assignment to a uint16 yields a word.                                   *)
LEMMA Wrap16Type ==
  ASSUME NEW n \in Int
  PROVE  Wrap16(n) \in Word
  BY WordIs, SMT DEF Wrap16

(* The low byte is a byte.                                                 *)
LEMMA LoType ==
  ASSUME NEW n \in Int
  PROVE  Lo(n) \in Byte
  BY ByteIs, SMT DEF Lo

(* So is the high byte of a word.                                          *)
LEMMA HiType ==
  ASSUME NEW w \in Word
  PROVE  Hi(w) \in Byte
  BY ByteIs, WordIs, SMT DEF Hi

(* Two bytes make a word.                                                  *)
LEMMA JoinType ==
  ASSUME NEW lo \in Byte, NEW hi \in Byte
  PROVE  Join(lo, hi) \in Word
  BY ByteIs, WordIs, SMT DEF Join

(* A word is its two bytes: what push16 takes apart, pop16 puts together.  *)
LEMMA JoinLoHi ==
  ASSUME NEW w \in Word
  PROVE  Join(Lo(w), Hi(w)) = w
  BY WordIs, SMT DEF Join, Lo, Hi

(* A byte shifted right, and with a bit shifted in from above.             *)
LEMMA HalfType ==
  ASSUME NEW v \in Byte
  PROVE  v \div 2 \in Byte /\ (v \div 2) + 128 \in Byte
  BY ByteIs, SMT

(* Bytes built bit by bit.                                                 *)
LEMMA ByteWhereType ==
  ASSUME NEW on(_)
  PROVE  ByteWhere(on) \in Byte
  BY ByteIs, SMT DEF ByteWhere

(* The bitwise and is a byte.                                              *)
LEMMA AndType ==
  ASSUME NEW u, NEW v
  PROVE  And(u, v) \in Byte
  BY ByteIs, SMT DEF And, ByteWhere

(* The bitwise or is a byte.                                               *)
LEMMA OrType ==
  ASSUME NEW u, NEW v
  PROVE  Or(u, v) \in Byte
  BY ByteIs, SMT DEF Or, ByteWhere

(* The exclusive or is a byte.                                             *)
LEMMA XorType ==
  ASSUME NEW u, NEW v
  PROVE  Xor(u, v) \in Byte
  BY ByteIs, SMT DEF Xor, ByteWhere

(* The carry adds zero or one.                                             *)
LEMMA CarryType ==
  ASSUME NEW r
  PROVE  Carry(r) \in {0, 1}
  BY SMT DEF Carry, IfBit, getStatus

(* The pushed status is a byte, and a pulled byte is a set of flags.       *)
LEMMA SrByteType ==
  ASSUME NEW sr
  PROVE  SrByte(sr) \in Byte
  BY ByteIs, SMT DEF SrByte, ByteWhere

(* A pulled byte is a set of flags.                                        *)
LEMMA SrFlagsType ==
  ASSUME NEW v
  PROVE  SrFlags(v) \subseteq Flags6502
<1>1. \A w \in DOMAIN FlagOf : FlagOf[w] \in Flags6502
  BY SMT DEF FlagOf, Flags6502
<1> QED BY <1>1, SMT DEF SrFlags

-----------------------------------------------------------------------------
(* Setting an arithmetic flag leaves I, B and bit 5 alone.                 *)
LEMMA SetStatusSame ==
  ASSUME NEW sr, NEW t, SameControl(sr, t), NEW flag \in ArithmeticFlags, NEW v
  PROVE  SameControl(sr, setStatus(t, flag, v))
  BY SMT DEF SameControl, setStatus, ArithmeticFlags, Flags6502

(* A status register differs from itself in nothing.                       *)
LEMMA SameSelf ==
  ASSUME NEW r \in Regs
  PROVE  SameControl(r.sr, r.sr)
  BY SMT DEF SameControl, Regs, Registers

(* Setting N and Z disturbs no control flag.                               *)
LEMMA NzSame ==
  ASSUME NEW sr, NEW t, SameControl(sr, t), NEW v
  PROVE  SameControl(sr, nz(t, v))
  BY SetStatusSame, SMT DEF nz, ArithmeticFlags

(* Registers with new arithmetic flags are still registers.                *)
LEMMA KeepsSr ==
  ASSUME NEW r \in Regs, NEW t, SameControl(r.sr, t)
  PROVE  Keeps(r, [r EXCEPT !.sr = t])
  BY SMT DEF SameControl, Keeps, Regs, Registers

(* What two operations in turn keep, both together keep.                   *)
LEMMA KeepsTrans ==
  ASSUME NEW r, NEW s, NEW t, Keeps(r, s), Keeps(s, t)
  PROVE  Keeps(r, t)
  BY SMT DEF Keeps

(* So are registers with a new byte in one of them.                        *)
LEMMA KeepsByte ==
  ASSUME NEW r \in Regs, NEW b \in Byte
  PROVE  /\ Keeps(r, [r EXCEPT !.a = b])
         /\ Keeps(r, [r EXCEPT !.x = b])
         /\ Keeps(r, [r EXCEPT !.y = b])
         /\ Keeps(r, [r EXCEPT !.sp = b])
<1>1. Keeps(r, [r EXCEPT !.a = b]) BY SMT DEF Keeps, Regs, Registers
<1>2. Keeps(r, [r EXCEPT !.x = b]) BY SMT DEF Keeps, Regs, Registers
<1>3. Keeps(r, [r EXCEPT !.y = b]) BY SMT DEF Keeps, Regs, Registers
<1>4. Keeps(r, [r EXCEPT !.sp = b]) BY SMT DEF Keeps, Regs, Registers
<1> QED BY <1>1, <1>2, <1>3, <1>4

(* A new accumulator with new arithmetic flags keeps the rest.             *)
LEMMA KeepsA ==
  ASSUME NEW r \in Regs, NEW t, SameControl(r.sr, t), NEW a \in Byte
  PROVE  Keeps(r, [r EXCEPT !.a = a, !.sr = t])
<1> DEFINE s == [r EXCEPT !.a = a]
<1>1. Keeps(r, s) BY KeepsByte
<1>2. s.sr = r.sr BY SMT DEF Regs, Registers
<1>3. Keeps(s, [s EXCEPT !.sr = t])
  <2> HIDE DEF s
  <2> QED BY <1>1, <1>2, KeepsSr DEF Keeps
<1>4. [s EXCEPT !.sr = t] = [r EXCEPT !.a = a, !.sr = t] OBVIOUS
<1> QED BY <1>1, <1>3, <1>4, KeepsTrans, Zenon

(* ADC and SBC keep the accumulator a byte and touch N, V, Z and C only,   *)
(* decimal or not.                                                         *)
LEMMA AdcKeeps ==
  ASSUME NEW r \in Regs, NEW val \in Byte
  PROVE  Keeps(r, adcCore(r, val))
<1> DEFINE bin  == r.a + val + Carry(r)
           adj  == bin + IfBit(DecimalOn(r) /\ DigitCarry(r, val), 6)
           full == adj + IfBit(DecimalOn(r) /\ adj > 153, 96)
           c    == IF DecimalOn(r) THEN full > 153 ELSE full > 255
           v    == Has(r.a, 128) = Has(val, 128) /\ Has(r.a, 128) # Has(adj, 128)
           z    == setStatus(r.sr, "Z", Lo(bin) = 0)
           n    == setStatus(z, "N", Has(adj, 128))
           t    == setStatus(setStatus(n, "V", v), "C", c)
<1>1. bin \in Int BY ByteIs, CarryType, SMT DEF Regs, Registers
<1>2. full \in Int BY <1>1, SMT DEF IfBit
<1>3. Lo(full) \in Byte BY <1>2, LoType
<1>4. SameControl(r.sr, t)
  BY SameSelf, SetStatusSame, SMT DEF ArithmeticFlags
<1>5. adcCore(r, val) = [r EXCEPT !.a = Lo(full), !.sr = t] BY DEF adcCore
<1> HIDE DEF t, full
<1>6. Keeps(r, [r EXCEPT !.a = Lo(full), !.sr = t]) BY <1>3, <1>4, KeepsA
<1> QED BY <1>5, <1>6, Zenon

(* Subtraction leaves I, B, bit 5 and the wiring alone.                    *)
LEMMA SbcKeeps ==
  ASSUME NEW r \in Regs, NEW val \in Byte
  PROVE  Keeps(r, sbcCore(r, val))
<1> DEFINE bin  == Wrap16(r.a - val - (1 - Carry(r)))
           adj  == Wrap16(bin - IfBit(DecimalOn(r) /\ DigitBorrow(r, val), 6))
           full == Wrap16(adj - IfBit(DecimalOn(r) /\ adj > 153, 96))
           v    == Has(r.a, 128) # Has(val, 128) /\ Has(r.a, 128) # Has(bin, 128)
           flag == setStatus(nz(r.sr, Lo(bin)), "V", v)
           t    == setStatus(flag, "C", full < 256)
<1>1. r.a - val - (1 - Carry(r)) \in Int BY ByteIs, CarryType, SMT DEF Regs, Registers
<1>2. bin \in Int BY <1>1, Wrap16Type, WordIs
<1>3. adj \in Int BY <1>2, Wrap16Type, WordIs, SMT DEF IfBit
<1>4. full \in Int BY <1>3, Wrap16Type, WordIs, SMT DEF IfBit
<1>5. Lo(full) \in Byte BY <1>4, LoType
<1>6. SameControl(r.sr, t)
  BY SameSelf, NzSame, SetStatusSame, SMT DEF ArithmeticFlags
<1>7. sbcCore(r, val) = [r EXCEPT !.a = Lo(full), !.sr = t] BY DEF sbcCore
<1> HIDE DEF t, full
<1>8. Keeps(r, [r EXCEPT !.a = Lo(full), !.sr = t]) BY <1>5, <1>6, KeepsA
<1> QED BY <1>7, <1>8, Zenon

(* So does comparison.                                                     *)
LEMMA CmpKeeps ==
  ASSUME NEW r \in Regs, NEW reg, NEW val
  PROVE  Keeps(r, cmpCore(r, reg, val))
<1> DEFINE d == Wrap16(reg - val)
           t == setStatus(setStatus(setStatus(r.sr, "C", d < 256), "Z", d = 0), "N", Has(d, 128))
<1>1. SameControl(r.sr, t)
  BY SameSelf, SetStatusSame, SMT DEF ArithmeticFlags
<1>2. cmpCore(r, reg, val) = [r EXCEPT !.sr = t] BY DEF cmpCore
<1> HIDE DEF t
<1> QED BY <1>1, <1>2, KeepsSr

-----------------------------------------------------------------------------
(* The machines that instructions work on.                                 *)
Cells == 0..(MemSize - 1)
Mems == UNION {[D -> Byte] : D \in SUBSET Cells}
Accesses == [kind : {"R", "W"}, ad : Word, val : Byte]
Machines == [r : Regs, mem : Mems, log : Seq(Accesses), p : Params, v : Word, cycles : Nat]

(* n is a machine that an operation may make of m without touching I.      *)
Ok(m, n) == n \in Machines /\ Keeps(m.r, n.r)

-----------------------------------------------------------------------------
(* Memory: addresses stay in the block, bytes stay bytes.                  *)
LEMMA MemTypeMems == \A M : MemType(M) <=> M \in Mems
<1> TAKE M
<1>1. ASSUME MemType(M) PROVE M \in Mems
  <2>1. DOMAIN M \in SUBSET Cells BY <1>1 DEF MemType, Cells
  <2>2. M \in [DOMAIN M -> Byte] BY <1>1 DEF MemType
  <2> QED BY <2>1, <2>2 DEF Mems
<1>2. ASSUME M \in Mems PROVE MemType(M)
  <2>1. PICK D \in SUBSET Cells : M \in [D -> Byte] BY <1>2 DEF Mems
  <2>2. DOMAIN M = D BY <2>1
  <2> QED BY <2>1, <2>2 DEF MemType, Cells
<1> QED BY <1>1, <1>2

(* The block is not empty, so the modulus of checkAddress is positive.     *)
LEMMA MemSizeIs == MemSize \in Int /\ MemSize > 0
  BY MemSizeAssumption, SMT

(* checkAddress stays inside the block.                                    *)
LEMMA CheckAddressType ==
  ASSUME NEW ad \in Word
  PROVE  checkAddress(ad) \in Cells
  BY MemSizeIs, WordIs, SMT DEF checkAddress, Cells

(* A read returns a byte.                                                  *)
LEMMA PeekType ==
  ASSUME NEW M \in Mems, NEW ad \in Word
  PROVE  Peek(M, ad) \in Byte
<1>1. M \in [DOMAIN M -> Byte] BY MemTypeMems DEF MemType
<1>2. 0 \in Byte BY ByteIs, SMT
<1> QED BY <1>1, <1>2 DEF Peek

(* A store leaves a block of bytes.                                        *)
LEMMA PokeType ==
  ASSUME NEW M \in Mems, NEW ad \in Word, NEW val \in Byte
  PROVE  Poke(M, ad, val) \in Mems
<1> DEFINE D == DOMAIN M \cup {checkAddress(ad)}
<1>1. MemType(M) BY MemTypeMems
<1>2. D \in SUBSET Cells BY <1>1, CheckAddressType DEF MemType, Cells
<1>3. \A k \in DOMAIN M : M[k] \in Byte BY <1>1 DEF MemType
<1>4. Poke(M, ad, val) \in [D -> Byte] BY <1>3 DEF Poke
<1> HIDE DEF D
<1> QED BY <1>2, <1>4 DEF Mems

-----------------------------------------------------------------------------
(* Replacing one part of a machine.                                        *)
LEMMA OkR ==
  ASSUME NEW m \in Machines, NEW s, Keeps(m.r, s)
  PROVE  Ok(m, [m EXCEPT !.r = s])
  BY SMT DEF Ok, Machines, Keeps

(* Registers left alone keep everything.                                   *)
LEMMA KeepsSelf ==
  ASSUME NEW r \in Regs
  PROVE  Keeps(r, r)
  BY DEF Keeps

(* A machine left alone is sound.                                          *)
LEMMA OkSelf ==
  ASSUME NEW m \in Machines
  PROVE  Ok(m, m)
  BY KeepsSelf, SMT DEF Ok, Machines

(* The value read may be replaced by a word.                               *)
LEMMA OkV ==
  ASSUME NEW m \in Machines, NEW w \in Word
  PROVE  Ok(m, [m EXCEPT !.v = w])
  BY KeepsSelf, SMT DEF Ok, Machines

(* The memory may be replaced by a memory.                                 *)
LEMMA OkMem ==
  ASSUME NEW m \in Machines, NEW M \in Mems
  PROVE  Ok(m, [m EXCEPT !.mem = M])
  BY KeepsSelf, SMT DEF Ok, Machines

(* The log of accesses may be extended.                                    *)
LEMMA OkLog ==
  ASSUME NEW m \in Machines, NEW log \in Seq(Accesses)
  PROVE  Ok(m, [m EXCEPT !.log = log])
  BY KeepsSelf, SMT DEF Ok, Machines

(* The params object may be replaced by another.                           *)
LEMMA OkP ==
  ASSUME NEW m \in Machines, NEW p \in Params
  PROVE  Ok(m, [m EXCEPT !.p = p])
  BY KeepsSelf, SMT DEF Ok, Machines

(* The cycle count may be set.                                             *)
LEMMA OkCycles ==
  ASSUME NEW m \in Machines, NEW c \in Nat
  PROVE  Ok(m, [m EXCEPT !.cycles = c])
  BY KeepsSelf, SMT DEF Ok, Machines

(* Operations that keep I compose.                                         *)
LEMMA OkTrans ==
  ASSUME NEW l, NEW m, NEW n, Ok(l, m), Ok(m, n)
  PROVE  Ok(l, n)
  BY KeepsTrans DEF Ok

-----------------------------------------------------------------------------
(* The bus and the stack.                                                  *)
LEMMA ReadOk ==
  ASSUME NEW m \in Machines, NEW ad \in Int
  PROVE  Ok(m, read(m, ad)) /\ read(m, ad).v \in Byte /\ read(m, ad).r = m.r
<1> DEFINE w   == Wrap16(ad)
           val == Peek(m.mem, w)
           s   == [m EXCEPT !.v = val]
           log == Append(m.log, Access("R", w, val))
<1>1. w \in Word BY Wrap16Type
<1>2. val \in Byte BY <1>1, PeekType DEF Machines
<1>3. Ok(m, s) BY <1>2, OkV, ByteIsWord
<1>4. s.log = m.log /\ s.r = m.r /\ s.v = val BY SMT DEF Machines
<1>5. Access("R", w, val) \in Accesses BY <1>1, <1>2 DEF Access, Accesses
<1>6. log \in Seq(Accesses)
  <2>1. m.log \in Seq(Accesses) BY DEF Machines
  <2> QED BY <2>1, <1>5
<1>7. read(m, ad) = [s EXCEPT !.log = log] BY <1>4 DEF read, Returned
<1> HIDE DEF s, log, val, w
<1>8. s \in Machines BY <1>3 DEF Ok
<1>9. Ok(s, [s EXCEPT !.log = log]) BY <1>6, <1>8, OkLog
<1>10. Ok(m, read(m, ad)) BY <1>3, <1>7, <1>9, OkTrans, Zenon
<1>11. [s EXCEPT !.log = log].v = s.v /\ [s EXCEPT !.log = log].r = s.r
  BY <1>8, SMT DEF Machines
<1> QED BY <1>2, <1>4, <1>7, <1>10, <1>11

(* A bus write leaves the registers alone.                                 *)
LEMMA WriteOk ==
  ASSUME NEW m \in Machines, NEW ad \in Int, NEW val \in Byte
  PROVE  Ok(m, write(m, ad, val)) /\ write(m, ad, val).r = m.r
<1> DEFINE w   == Wrap16(ad)
           blk == Poke(m.mem, w, val)
           s   == [m EXCEPT !.mem = blk]
           log == Append(m.log, Access("W", w, val))
<1>1. w \in Word BY Wrap16Type
<1>2. blk \in Mems BY <1>1, PokeType DEF Machines
<1>3. Ok(m, s) BY <1>2, OkMem
<1>4. s.log = m.log /\ s.r = m.r BY SMT DEF Machines
<1>5. Access("W", w, val) \in Accesses BY <1>1 DEF Access, Accesses
<1>6. log \in Seq(Accesses)
  <2>1. m.log \in Seq(Accesses) BY DEF Machines
  <2> QED BY <2>1, <1>5
<1>7. write(m, ad, val) = [s EXCEPT !.log = log] BY <1>4 DEF write
<1> HIDE DEF s, log, blk, w
<1>8. s \in Machines BY <1>3 DEF Ok
<1>9. Ok(s, [s EXCEPT !.log = log]) BY <1>6, <1>8, OkLog
<1>10. Ok(m, write(m, ad, val)) BY <1>3, <1>7, <1>9, OkTrans, Zenon
<1>11. [s EXCEPT !.log = log].r = s.r BY <1>8, SMT DEF Machines
<1> QED BY <1>4, <1>7, <1>10, <1>11

(* So do the two reads of a word.                                          *)
LEMMA Read16Ok ==
  ASSUME NEW m \in Machines, NEW lo \in Int, NEW hi \in Int
  PROVE  Ok(m, read16(m, lo, hi)) /\ read16(m, lo, hi).r = m.r
<1> DEFINE first  == read(m, lo)
           second == read(first, hi)
           w      == Join(first.v, second.v)
<1>1. Ok(m, first) /\ first.v \in Byte /\ first.r = m.r BY ReadOk
<1>2. Ok(first, second) /\ second.v \in Byte /\ second.r = first.r BY <1>1, ReadOk DEF Ok
<1>3. w \in Word BY <1>1, <1>2, JoinType
<1>4. read16(m, lo, hi) = [second EXCEPT !.v = w] BY DEF read16
<1> HIDE DEF first, second, w
<1>5. second \in Machines BY <1>2 DEF Ok
<1>6. Ok(second, [second EXCEPT !.v = w]) BY <1>3, <1>5, OkV
<1>7. [second EXCEPT !.v = w].r = second.r BY <1>5, SMT DEF Machines
<1>8. Ok(m, second) BY <1>1, <1>2, OkTrans
<1>9. Ok(m, [second EXCEPT !.v = w]) BY <1>6, <1>8, OkTrans
<1> QED BY <1>1, <1>2, <1>4, <1>7, <1>9, Zenon

(* A new stack pointer is sound.                                           *)
LEMMA SpOk ==
  ASSUME NEW m \in Machines, NEW b \in Byte
  PROVE  Ok(m, [m EXCEPT !.r.sp = b])
<1>1. m.r \in Regs BY DEF Machines
<1>2. Keeps(m.r, [m.r EXCEPT !.sp = b]) BY <1>1, KeepsByte
<1>3. [m EXCEPT !.r.sp = b] = [m EXCEPT !.r = [m.r EXCEPT !.sp = b]] OBVIOUS
<1> QED BY <1>2, <1>3, OkR, Zenon

(* A push stores a byte and wraps the stack pointer in page one.           *)
LEMMA Push8Ok ==
  ASSUME NEW m \in Machines, NEW val \in Byte
  PROVE  Ok(m, push8(m, val))
<1> DEFINE s == write(m, 256 + m.r.sp, val)
<1>1. m.r.sp \in Int /\ 256 + m.r.sp \in Int BY ByteIs DEF Machines, Regs, Registers
<1>2. Ok(m, s) /\ s.r = m.r BY <1>1, WriteOk
<1>3. push8(m, val) = [s EXCEPT !.r.sp = Wrap8(s.r.sp - 1)] BY DEF push8
<1> HIDE DEF s
<1>4. s \in Machines BY <1>2 DEF Ok
<1>5. Wrap8(s.r.sp - 1) \in Byte BY <1>1, <1>2, Wrap8Type
<1>6. Ok(s, [s EXCEPT !.r.sp = Wrap8(s.r.sp - 1)]) BY <1>4, <1>5, SpOk
<1> QED BY <1>2, <1>3, <1>6, OkTrans, Zenon

(* So do two pushes.                                                       *)
LEMMA Push16Ok ==
  ASSUME NEW m \in Machines, NEW val \in Word
  PROVE  Ok(m, push16(m, val))
<1>1. Hi(val) \in Byte /\ Lo(val) \in Byte BY HiType, LoType, WordIs
<1>2. Ok(m, push8(m, Hi(val))) BY <1>1, Push8Ok
<1>3. Ok(push8(m, Hi(val)), push8(push8(m, Hi(val)), Lo(val))) BY <1>1, <1>2, Push8Ok DEF Ok
<1> QED BY <1>2, <1>3, OkTrans DEF push16

(* A pull yields a byte and wraps the stack pointer.                       *)
LEMMA Pop8Ok ==
  ASSUME NEW m \in Machines
  PROVE  Ok(m, pop8(m)) /\ pop8(m).v \in Byte
<1> DEFINE sp == Wrap8(m.r.sp + 1)
           s  == [m EXCEPT !.r.sp = sp]
<1>1. m.r.sp \in Int BY ByteIs DEF Machines, Regs, Registers
<1>2. sp \in Byte BY <1>1, Wrap8Type
<1>3. Ok(m, s) BY <1>2, SpOk
<1>4. 256 + sp \in Int BY <1>2, ByteIs
<1>5. pop8(m) = read(s, 256 + sp) BY DEF pop8
<1> HIDE DEF s, sp
<1>6. Ok(s, read(s, 256 + sp)) /\ read(s, 256 + sp).v \in Byte BY <1>3, <1>4, ReadOk DEF Ok
<1> QED BY <1>3, <1>5, <1>6, OkTrans, Zenon

(* Two pulls yield a word.                                                 *)
LEMMA Pop16Ok ==
  ASSUME NEW m \in Machines
  PROVE  Ok(m, pop16(m)) /\ pop16(m).v \in Word
<1> DEFINE low  == pop8(m)
           high == pop8(low)
           w    == Join(low.v, high.v)
<1>1. Ok(m, low) /\ low.v \in Byte BY Pop8Ok
<1>2. Ok(low, high) /\ high.v \in Byte BY <1>1, Pop8Ok DEF Ok
<1>3. w \in Word BY <1>1, <1>2, JoinType
<1>4. pop16(m) = [high EXCEPT !.v = w] BY DEF pop16
<1> HIDE DEF low, high, w
<1>5. Ok(high, [high EXCEPT !.v = w]) BY <1>2, <1>3, OkV DEF Ok
<1>6. Ok(m, high) BY <1>1, <1>2, OkTrans
<1>7. Ok(m, pop16(m)) BY <1>4, <1>5, <1>6, OkTrans, Zenon
<1> QED BY <1>7 DEF Ok, Machines

-----------------------------------------------------------------------------
(* The addressing modes.                                                   *)
LEMMA PcOk ==
  ASSUME NEW m \in Machines, NEW w \in Word
  PROVE  Ok(m, [m EXCEPT !.r.pc = w])
<1>1. m.r \in Regs BY DEF Machines
<1>2. Keeps(m.r, [m.r EXCEPT !.pc = w]) BY <1>1, SMT DEF Keeps, Regs, Registers
<1>3. [m EXCEPT !.r.pc = w] = [m EXCEPT !.r = [m.r EXCEPT !.pc = w]] OBVIOUS
<1> QED BY <1>2, <1>3, OkR, Zenon

(* A fresh params object is well formed.                                   *)
LEMMA NewParamsType ==
  ASSUME NEW w \in Word
  PROVE  NewParams \in Params /\ [NewParams EXCEPT !.data = w] \in Params
<1>1. 0 \in Word BY WordIs, SMT
<1>2. NewParams \in Params BY <1>1, SMT DEF NewParams, Params
<1>3. [NewParams EXCEPT !.data = w] \in Params BY <1>2, SMT DEF Params
<1> QED BY <1>2, <1>3

(* The parts of the registers have their types.                            *)
LEMMA PcPartType ==
  ASSUME NEW m \in Machines
  PROVE  /\ m.r.pc \in Int /\ m.r.pc + 1 \in Int
         /\ m.r.a \in Byte /\ m.r.x \in Byte /\ m.r.y \in Byte /\ m.r.sp \in Byte
  BY WordIs DEF Machines, Regs, Registers

(* An instruction has at most two operand bytes.                           *)
LEMMA OperandBytesType ==
  ASSUME NEW mode
  PROVE  OperandBytes(mode) \in {0, 1, 2}
  BY DEF OperandBytes

(* The operand bytes are fetched and a fresh params object made.           *)
LEMMA InitOk ==
  ASSUME NEW m \in Machines, NEW mode
  PROVE  Ok(m, init(m, mode))
<1> DEFINE pc   == m.r.pc
           size == OperandBytes(mode)
           got  == CASE size = 0 -> [m EXCEPT !.v = 0]
                     [] size = 1 -> read(m, pc)
                     [] OTHER    -> read16(m, pc, pc + 1)
           w    == Wrap16(got.r.pc + size)
           s    == [got EXCEPT !.r.pc = w]
           p    == [NewParams EXCEPT !.data = got.v]
<1>1. pc \in Int /\ pc + 1 \in Int BY PcPartType
<1>2. size \in {0, 1, 2} BY OperandBytesType
<1>3. Ok(m, got)
  <2>1. CASE size = 0
    <3>1. 0 \in Word BY WordIs, SMT
    <3>2. Ok(m, [m EXCEPT !.v = 0]) BY <3>1, OkV
    <3> QED BY <2>1, <3>2
  <2>2. CASE size = 1 BY <1>1, <2>2, ReadOk
  <2>3. CASE size = 2 BY <1>1, <2>3, Read16Ok
  <2> QED BY <1>2, <2>1, <2>2, <2>3
<1>4. init(m, mode) = [s EXCEPT !.p = p] BY DEF init, Consume
<1> HIDE DEF got, size, pc
<1>5. got \in Machines BY <1>3 DEF Ok
<1>6. got.r.pc + size \in Int BY <1>2, <1>5, PcPartType
<1>7. w \in Word BY <1>6, Wrap16Type
<1>8. Ok(got, s) BY <1>5, <1>7, PcOk
<1>9. got.v \in Word BY <1>5 DEF Machines
<1>10. p \in Params BY <1>9, NewParamsType
<1> HIDE DEF s, p, w
<1>11. Ok(s, [s EXCEPT !.p = p]) BY <1>8, <1>10, OkP DEF Ok
<1>12. Ok(m, s) BY <1>3, <1>8, OkTrans
<1> QED BY <1>4, <1>11, <1>12, OkTrans, Zenon

(* The operand, the pointer, the base and the index have their types.      *)
LEMMA ParamsType ==
  ASSUME NEW m \in Machines, NEW mode
  PROVE  /\ m.p \in Params
         /\ m.p.data \in Word /\ m.p.m_addr \in Word
         /\ base(m, mode) \in Word
         /\ IndexOf(m, mode) \in Byte
<1>1. m.p \in Params BY DEF Machines
<1>2. m.p.data \in Word /\ m.p.m_addr \in Word BY <1>1, SMT DEF Params
<1>3. base(m, mode) \in Word BY <1>2, SMT DEF base
<1>4. 0 \in Byte BY ByteIs, SMT
<1>5. IndexOf(m, mode) \in Byte BY <1>4, PcPartType, SMT DEF IndexOf
<1> QED BY <1>1, <1>2, <1>3, <1>5

(* The effective and the unfinished address are words.                     *)
LEMMA EffectiveType ==
  ASSUME NEW m \in Machines, NEW mode
  PROVE  Effective(m, mode) \in Word /\ Unfinished(m, mode) \in Word
<1>1. /\ m.p.data \in Word /\ base(m, mode) \in Word /\ IndexOf(m, mode) \in Byte BY ParamsType
<1>2. m.p.data + IndexOf(m, mode) \in Int /\ base(m, mode) + IndexOf(m, mode) \in Int
  BY <1>1, ByteIs, WordIs
<1>3. /\ Wrap8(m.p.data + IndexOf(m, mode)) \in Word
      /\ Wrap16(base(m, mode) + IndexOf(m, mode)) \in Word
  BY <1>2, Wrap8Type, Wrap16Type, ByteIsWord
<1>4. Join(Lo(base(m, mode) + IndexOf(m, mode)), Hi(base(m, mode))) \in Word
  BY <1>1, <1>2, LoType, HiType, JoinType
<1> QED BY <1>1, <1>3, <1>4, Zenon DEF Effective, Unfinished

(* Setting a flag of the params object keeps it well formed.               *)
LEMMA ParamsFlag ==
  ASSUME NEW p \in Params, NEW c \in BOOLEAN
  PROVE  /\ [p EXCEPT !.m_crossed = c] \in Params
         /\ [p EXCEPT !.m_resolved = c] \in Params
         /\ [p EXCEPT !.m_dummyDone = c] \in Params
<1>1. [p EXCEPT !.m_crossed = c] \in Params BY SMT DEF Params
<1>2. [p EXCEPT !.m_resolved = c] \in Params BY SMT DEF Params
<1>3. [p EXCEPT !.m_dummyDone = c] \in Params BY SMT DEF Params
<1> QED BY <1>1, <1>2, <1>3

(* Fetching a pointer is sound.                                            *)
LEMMA ResolveOk ==
  ASSUME NEW m \in Machines, NEW mode
  PROVE  Ok(m, resolve(m, mode))
<1> DEFINE zp  == Wrap8(m.p.data + (IF mode = "izx" THEN m.r.x ELSE 0))
           got == read16(m, zp, Wrap8(zp + 1))
           p   == [got.p EXCEPT !.m_resolved = TRUE, !.m_addr = got.v]
<1>1. m.p.data + (IF mode = "izx" THEN m.r.x ELSE 0) \in Int
  BY ParamsType, PcPartType, ByteIs, WordIs
<1>2. zp \in Int /\ zp + 1 \in Int BY <1>1, Wrap8Type, ByteIs
<1>3. Wrap8(zp + 1) \in Int BY <1>2, Wrap8Type, ByteIs
<1>4. Ok(m, got) BY <1>2, <1>3, Read16Ok
<1>5. fetchPointer(m, mode) = [got EXCEPT !.p = p] BY DEF fetchPointer, Resolved
<1> HIDE DEF got, zp
<1>6. got \in Machines BY <1>4 DEF Ok
<1>7. got.p \in Params /\ got.v \in Word BY <1>6 DEF Machines
<1>8. p \in Params
  <2> DEFINE q == [got.p EXCEPT !.m_resolved = TRUE]
  <2>1. q \in Params BY <1>7, ParamsFlag, Zenon
  <2>2. p = [q EXCEPT !.m_addr = got.v] OBVIOUS
  <2> HIDE DEF q, p
  <2>3. [q EXCEPT !.m_addr = got.v] \in Params BY <1>7, <2>1, SMT DEF Params
  <2> QED BY <2>2, <2>3, Zenon
<1> HIDE DEF p
<1>9. Ok(got, [got EXCEPT !.p = p]) BY <1>6, <1>8, OkP
<1>10. Ok(m, fetchPointer(m, mode)) BY <1>4, <1>5, <1>9, OkTrans, Zenon
<1> QED BY <1>10, OkSelf DEF resolve

(* Computing the address is sound.                                         *)
LEMMA AddrOk ==
  ASSUME NEW m \in Machines, NEW mode
  PROVE  Ok(m, addr(m, mode))
<1> DEFINE got == resolve(m, mode)
           c   == Hi(Effective(got, mode)) # Hi(base(got, mode))
           p   == [got.p EXCEPT !.m_crossed = c]
<1>1. Ok(m, got) BY ResolveOk
<1>2. addr(m, mode) = IF mode \notin CarryModes THEN got ELSE [got EXCEPT !.p = p]
  BY DEF addr, NoteCrossing
<1> HIDE DEF got
<1>3. got \in Machines /\ got.p \in Params BY <1>1 DEF Ok, Machines
<1>4. c \in BOOLEAN OBVIOUS
<1> HIDE DEF c
<1>5. p \in Params BY <1>3, <1>4, ParamsFlag
<1> HIDE DEF p
<1>6. Ok(got, [got EXCEPT !.p = p]) BY <1>3, <1>5, OkP
<1>7. Ok(m, [got EXCEPT !.p = p]) BY <1>1, <1>6, OkTrans
<1> QED BY <1>1, <1>2, <1>7, Zenon

(* The dummy read is sound.                                                *)
LEMMA DummyReadOk ==
  ASSUME NEW m \in Machines, NEW mode
  PROVE  Ok(m, dummyRead(m, mode))
<1> DEFINE p   == [m.p EXCEPT !.m_dummyDone = TRUE]
           s   == [m EXCEPT !.p = p]
           got == resolve(s, mode)
<1>1. m.p \in Params BY DEF Machines
<1>2. p \in Params BY <1>1, ParamsFlag, Zenon
<1> HIDE DEF p
<1>3. Ok(m, s) BY <1>2, OkP
<1>4. readUnfinished(m, mode) = read(got, Unfinished(got, mode)) BY DEF readUnfinished, ReadAtUnfinished, p
<1> HIDE DEF s
<1>5. Ok(s, got) BY <1>3, ResolveOk DEF Ok
<1> HIDE DEF got
<1>6. got \in Machines BY <1>5 DEF Ok
<1>7. Unfinished(got, mode) \in Int BY <1>6, EffectiveType, WordIs
<1>8. Ok(got, read(got, Unfinished(got, mode))) BY <1>6, <1>7, ReadOk
<1>9. Ok(m, got) BY <1>3, <1>5, OkTrans
<1>10. Ok(m, readUnfinished(m, mode)) BY <1>4, <1>8, <1>9, OkTrans, Zenon
<1> QED BY <1>10, OkSelf DEF dummyRead

(* Reading the operand yields a byte.                                      *)
LEMMA Get8bitOk ==
  ASSUME NEW m \in Machines, NEW mode
  PROVE  Ok(m, get8bit(m, mode)) /\ get8bit(m, mode).v \in Byte
<1>1. ASSUME NEW b \in Byte
      PROVE  Ok(m, [m EXCEPT !.v = b]) /\ [m EXCEPT !.v = b].v \in Byte
  BY OkV, ByteIsWord, SMT DEF Machines
<1>2. CASE mode = "nul"
  <2>1. 0 \in Byte BY ByteIs, SMT
  <2> QED BY <1>1, <1>2, <2>1 DEF get8bit
<1>3. CASE mode = "acc" BY <1>1, <1>3, PcPartType DEF get8bit
<1>4. CASE mode \in {"imm", "rel", "abc"}
  <2>1. Lo(m.p.data) \in Byte BY ParamsType, LoType, WordIs
  <2> QED BY <1>1, <1>4, <2>1 DEF get8bit
<1>5. CASE mode = "ind"
  <2>1. m.p.data \in Int BY ParamsType, WordIs
  <2> QED BY <1>5, <2>1, ReadOk DEF get8bit
<1>6. CASE mode \notin {"nul", "acc", "imm", "rel", "abc", "ind"}
  <2> DEFINE at  == addr(m, mode)
             dum == IF mode \in {"zpx", "zpy"} \/ at.p.m_crossed
                    THEN dummyRead(at, mode) ELSE at
             ad  == Effective(dum, mode)
  <2>1. Ok(m, at) BY AddrOk
  <2>2. get8bit(m, mode) = read(dum, ad) BY <1>6 DEF get8bit, ReadAtEffective, DummyOnCrossing
  <2> HIDE DEF at
  <2>3. at \in Machines BY <2>1 DEF Ok
  <2>4. Ok(at, dum) BY <2>3, DummyReadOk, OkSelf
  <2> HIDE DEF dum
  <2>5. dum \in Machines BY <2>4 DEF Ok
  <2>6. ad \in Int BY <2>5, EffectiveType, WordIs
  <2> HIDE DEF ad
  <2>7. Ok(dum, read(dum, ad)) /\ read(dum, ad).v \in Byte BY <2>5, <2>6, ReadOk
  <2>8. Ok(m, read(dum, ad)) BY <2>1, <2>4, <2>7, OkTrans
  <2> QED BY <2>2, <2>7, <2>8, Zenon
<1> QED BY <1>2, <1>3, <1>4, <1>5, <1>6

(* Reading a jump target yields a word.                                    *)
LEMMA Get16bitOk ==
  ASSUME NEW m \in Machines, NEW mode
  PROVE  Ok(m, get16bit(m, mode)) /\ get16bit(m, mode).v \in Word
<1>1. m.p.data \in Word /\ m.p.data \in Int BY ParamsType, WordIs
<1>2. Join(Lo(m.p.data + 1), Hi(m.p.data)) \in Int
  <2>1. m.p.data + 1 \in Int BY <1>1
  <2>2. Lo(m.p.data + 1) \in Byte /\ Hi(m.p.data) \in Byte BY <1>1, <2>1, LoType, HiType
  <2> QED BY <2>2, JoinType, WordIs
<1>3. Ok(m, get16bit(m, mode))
  BY <1>1, <1>2, Read16Ok, OkV DEF get16bit
<1> QED BY <1>3 DEF Ok, Machines

(* Storing the result is sound.                                            *)
LEMMA Set8bitOk ==
  ASSUME NEW m \in Machines, NEW mode, NEW val \in Byte
  PROVE  Ok(m, set8bit(m, mode, val))
<1>1. CASE mode = "acc"
  <2>1. m.r \in Regs BY DEF Machines
  <2>2. Keeps(m.r, [m.r EXCEPT !.a = val]) BY <2>1, KeepsByte
  <2>3. Ok(m, [m EXCEPT !.r = [m.r EXCEPT !.a = val]]) BY <2>2, OkR
  <2>4. set8bit(m, mode, val) = [m EXCEPT !.r = [m.r EXCEPT !.a = val]]
    BY <1>1, SMT DEF set8bit, MemoryModes, ZeroPageModes, CarryModes
  <2> QED BY <2>3, <2>4, Zenon
<1>2. CASE mode # "acc" /\ mode \in MemoryModes
  <2> DEFINE at == addr(m, mode)
  <2>1. Ok(m, at) BY AddrOk
  <2>2. set8bit(m, mode, val) = write(at, Effective(at, mode), val) 
    BY <1>2 DEF set8bit, WriteAtEffective
  <2> HIDE DEF at
  <2>3. at \in Machines BY <2>1 DEF Ok
  <2>4. Effective(at, mode) \in Int BY <2>3, EffectiveType, WordIs
  <2>5. Ok(at, write(at, Effective(at, mode), val)) BY <2>3, <2>4, WriteOk
  <2> QED BY <2>1, <2>2, <2>5, OkTrans, Zenon
<1>3. CASE mode # "acc" /\ mode \notin MemoryModes BY <1>3, OkSelf DEF set8bit
<1> QED BY <1>1, <1>2, <1>3

-----------------------------------------------------------------------------
(* The instruction families.                                               *)
LEMMA SetRegister ==
  ASSUME NEW r \in Regs, NEW b \in Byte
  PROVE  Keeps(r, SetA(r, b)) /\ Keeps(r, SetX(r, b)) /\ Keeps(r, SetY(r, b))
<1>1. ASSUME NEW s, Keeps(r, s) PROVE Keeps(r, setNZ(s, b))
  <2>1. s \in Regs BY <1>1 DEF Keeps
  <2>2. SameControl(s.sr, nz(s.sr, b)) BY <2>1, SameSelf, NzSame
  <2>3. Keeps(s, [s EXCEPT !.sr = nz(s.sr, b)]) BY <2>1, <2>2, KeepsSr
  <2>4. setNZ(s, b) = [s EXCEPT !.sr = nz(s.sr, b)] BY DEF setNZ
  <2> QED BY <1>1, <2>3, <2>4, KeepsTrans, Zenon
<1>2. Keeps(r, SetA(r, b)) BY <1>1, KeepsByte DEF SetA
<1>3. Keeps(r, SetX(r, b)) BY <1>1, KeepsByte DEF SetX
<1>4. Keeps(r, SetY(r, b)) BY <1>1, KeepsByte DEF SetY
<1> QED BY <1>2, <1>3, <1>4

(* Setting an arithmetic flag keeps the control flags.                     *)
LEMMA SetFlagKeeps ==
  ASSUME NEW r \in Regs, NEW flag \in ArithmeticFlags, NEW v
  PROVE  Keeps(r, SetFlag(r, flag, v))
<1>1. SameControl(r.sr, setStatus(r.sr, flag, v)) BY SameSelf, SetStatusSame
<1>2. SetFlag(r, flag, v) = [r EXCEPT !.sr = setStatus(r.sr, flag, v)] BY DEF SetFlag
<1>3. Keeps(r, [r EXCEPT !.sr = setStatus(r.sr, flag, v)]) BY <1>1, KeepsSr
<1> QED BY <1>2, <1>3, Zenon

(* The composition of two such updates, which is what most effects are.    *)
LEMMA SetFlagAfter ==
  ASSUME NEW r, NEW s, Keeps(r, s), NEW flag \in ArithmeticFlags, NEW v
  PROVE  Keeps(r, SetFlag(s, flag, v))
  BY SetFlagKeeps, KeepsTrans DEF Keeps

(* The same, after another operation on the registers.                     *)
LEMMA SetAAfter ==
  ASSUME NEW r, NEW s, Keeps(r, s), NEW b \in Byte
  PROVE  Keeps(r, SetA(s, b)) /\ Keeps(r, SetX(s, b))
  BY SetRegister, KeepsTrans DEF Keeps

(* The byte registers hold bytes.                                          *)
LEMMA RegsType ==
  ASSUME NEW r \in Regs
  PROVE  r.a \in Byte /\ r.x \in Byte /\ r.y \in Byte /\ r.sp \in Byte
  BY DEF Regs, Registers

(* The instructions that read an operand.                                  *)
LEMMA ReadEffectKeeps ==
  ASSUME NEW r \in Regs, NEW v \in Byte, NEW op \in ReadOps
  PROVE  Keeps(r, ReadEffect(op, r, v))
<1> USE DEF ReadEffect, Load, Compare, BIT, UndocumentedRead
<1>1. CASE op = "ADC" BY <1>1, AdcKeeps
<1>2. CASE op = "SBC" BY <1>2, SbcKeeps
<1>3. CASE op = "AND" BY <1>3, AndType, SetRegister
<1>4. CASE op = "ORA" BY <1>4, OrType, SetRegister
<1>5. CASE op = "EOR" BY <1>5, XorType, SetRegister
<1>6. CASE op = "LDA" BY <1>6, SetRegister
<1>7. CASE op = "LDX" BY <1>7, SetRegister
<1>8. CASE op = "LDY" BY <1>8, SetRegister
<1>9. CASE op \in {"CMP", "CPX", "CPY"} BY <1>9, CmpKeeps
<1>10. CASE op = "BIT"
  <2>1. Keeps(r, SetFlag(r, "V", Has(v, 64))) BY SetFlagKeeps DEF ArithmeticFlags
  <2>2. Keeps(r, SetFlag(SetFlag(r, "V", Has(v, 64)), "N", Has(v, 128)))
    BY <2>1, SetFlagAfter DEF ArithmeticFlags
  <2>3. Keeps(r, SetFlag(SetFlag(SetFlag(r, "V", Has(v, 64)), "N", Has(v, 128)),
                         "Z", And(v, r.a) = 0))
    BY <2>2, SetFlagAfter DEF ArithmeticFlags
  <2> QED BY <1>10, <2>3
<1>11. CASE op = "NOPR" BY <1>11, KeepsSelf
<1>12. CASE op = "LAX"
  <2>1. Keeps(r, SetA([r EXCEPT !.x = v], v)) BY KeepsByte, SetAAfter
  <2> QED BY <1>12, <2>1
<1>13. CASE op = "LAS"
  <2> DEFINE w == And(v, r.sp)
             s == [r EXCEPT !.x = w]
             t == [s EXCEPT !.sp = w]
  <2>1. w \in Byte BY AndType
  <2>2. Keeps(r, s) BY <2>1, KeepsByte
  <2>3. ReadEffect(op, r, v) = SetA(t, w) BY <1>13
  <2> HIDE DEF w, s
  <2>4. Keeps(s, t) BY <2>1, <2>2, KeepsByte DEF Keeps
  <2> HIDE DEF t
  <2>5. Keeps(r, t) BY <2>2, <2>4, KeepsTrans
  <2>6. Keeps(r, SetA(t, w)) BY <2>1, <2>5, SetAAfter
  <2> QED BY <2>3, <2>6, Zenon
<1>14. CASE op = "ANC"
  <2> DEFINE w == And(r.a, v)
  <2>1. w \in Byte BY AndType
  <2>2. ReadEffect(op, r, v) = SetFlag(SetA(r, w), "C", Has(w, 128)) BY <1>14
  <2> HIDE DEF w
  <2>3. Keeps(r, SetA(r, w)) BY <2>1, SetRegister
  <2>4. Keeps(r, SetFlag(SetA(r, w), "C", Has(w, 128)))
    BY <2>3, SetFlagAfter DEF ArithmeticFlags
  <2> QED BY <2>2, <2>4, Zenon
<1>15. CASE op = "ALR"
  <2> DEFINE w == And(r.a, v)
  <2>1. w \in Byte BY AndType
  <2>2. ReadEffect(op, r, v) = SetA(SetFlag(r, "C", Has(w, 1)), w \div 2) BY <1>15
  <2> HIDE DEF w
  <2>3. Keeps(r, SetFlag(r, "C", Has(w, 1))) BY SetFlagKeeps DEF ArithmeticFlags
  <2>4. Keeps(r, SetA(SetFlag(r, "C", Has(w, 1)), w \div 2)) BY <2>1, <2>3, HalfType, SetAAfter
  <2> QED BY <2>2, <2>4, Zenon
<1>16. CASE op = "ARR"
  <2> DEFINE u == And(r.a, v)
             w == (u \div 2) + IfBit(getStatus(r, "C"), 128)
  <2>1. u \in Byte BY AndType
  <2>2. ReadEffect(op, r, v) = SetFlag(SetFlag(SetA(r, w), "C", Has(w, 64)),
                                       "V", Has(w, 64) # Has(w, 32))
    BY <1>16
  <2> HIDE DEF u
  <2>3. w \in Byte BY <2>1, HalfType, ByteIs, SMT DEF IfBit
  <2> HIDE DEF w
  <2>4. Keeps(r, SetFlag(SetA(r, w), "C", Has(w, 64)))
    BY <2>3, SetRegister, SetFlagAfter DEF ArithmeticFlags
  <2>5. Keeps(r, SetFlag(SetFlag(SetA(r, w), "C", Has(w, 64)), "V", Has(w, 64) # Has(w, 32)))
    BY <2>4, SetFlagAfter DEF ArithmeticFlags
  <2> QED BY <2>2, <2>5, Zenon
<1>17. CASE op = "SBX"
  <2> DEFINE w == And(r.a, r.x)
  <2>1. w \in Byte BY AndType
  <2>2. ReadEffect(op, r, v) = SetX(SetFlag(r, "C", w >= v), Wrap8(w - v)) BY <1>17
  <2> HIDE DEF w
  <2>3. w - v \in Int BY <2>1, ByteIs
  <2>4. Keeps(r, SetFlag(r, "C", w >= v)) BY SetFlagKeeps DEF ArithmeticFlags
  <2>5. Wrap8(w - v) \in Byte BY <2>3, Wrap8Type
  <2>6. Keeps(r, SetX(SetFlag(r, "C", w >= v), Wrap8(w - v))) BY <2>4, <2>5, SetAAfter
  <2> QED BY <2>2, <2>6, Zenon
<1>18. CASE op = "XAA" BY <1>18, AndType, SetRegister
<1> QED
  BY <1>1, <1>2, <1>3, <1>4, <1>5, <1>6, <1>7, <1>8, <1>9, <1>10, <1>11, <1>12, <1>13,
     <1>14, <1>15, <1>16, <1>17, <1>18 DEF ReadOps

(* What the instruction table holds.                                       *)
Entries == [op : Op, mode : Mode, cycles : 2..8]

(* A table entry names an operation, and its cycles are a number.          *)
LEMMA EntryType ==
  ASSUME NEW e \in Entries
  PROVE  e.op \in Op /\ e.cycles \in Nat /\ e.cycles + 1 \in Nat /\ e.cycles + 2 \in Nat
  BY SMT DEF Entries

(* Registers and cycles replaced together, at the end of an instruction.   *)
LEMMA FinishOk ==
  ASSUME NEW m \in Machines, NEW s, Keeps(m.r, s), NEW c \in Nat
  PROVE  Ok(m, [m EXCEPT !.r = s, !.cycles = c])
<1> DEFINE n == [m EXCEPT !.r = s]
<1>1. Ok(m, n) BY OkR
<1>2. [m EXCEPT !.r = s, !.cycles = c] = [n EXCEPT !.cycles = c] OBVIOUS
<1> HIDE DEF n
<1>3. Ok(n, [n EXCEPT !.cycles = c]) BY <1>1, OkCycles DEF Ok
<1> QED BY <1>1, <1>2, <1>3, OkTrans, Zenon

(* An instruction that reads its operand does not touch I.                 *)
LEMMA ReadOperandOk ==
  ASSUME NEW m \in Machines, NEW e \in Entries, e.op \in ReadOps
  PROVE  Ok(m, readOperand(m, e))
<1> DEFINE ini == init(m, e.mode)
           got == get8bit(ini, e.mode)
           s   == ReadEffect(e.op, got.r, got.v)
           c   == e.cycles + IF e.op \in ExtraOps THEN extraCycles(got) ELSE 0
<1>1. Ok(m, ini) BY InitOk
<1>2. Ok(ini, got) /\ got.v \in Byte BY <1>1, Get8bitOk DEF Ok
<1>3. readOperand(m, e) = [got EXCEPT !.r = s, !.cycles = c] BY DEF readOperand, UseOperand
<1> HIDE DEF got, ini
<1>4. got \in Machines /\ got.r \in Regs BY <1>2 DEF Ok, Machines
<1>5. Keeps(got.r, s) BY <1>2, <1>4, ReadEffectKeeps
<1>6. c \in Nat BY EntryType, SMT DEF extraCycles, IfBit
<1> HIDE DEF s, c
<1>7. Ok(got, [got EXCEPT !.r = s, !.cycles = c]) BY <1>4, <1>5, <1>6, FinishOk
<1>8. Ok(m, got) BY <1>1, <1>2, OkTrans
<1> QED BY <1>3, <1>7, <1>8, OkTrans, Zenon

(* The byte a read-modify-write stores is a byte.                          *)
LEMMA RmwValueType ==
  ASSUME NEW r \in Regs, NEW orig \in Byte, NEW op \in RmwOps
  PROVE  RmwValue(op, r, orig) \in Byte
<1> USE DEF RmwValue
<1>1. orig \in Int /\ 2 * orig \in Int /\ orig + 1 \in Int /\ orig - 1 \in Int BY ByteIs
<1>2. CASE op \in {"ASL", "SLO"} BY <1>1, <1>2, LoType
<1>3. CASE op \in {"ROL", "RLA"}
  <2>1. Lo(2 * orig) + Carry(r) \in Byte BY CarryType, ByteIs, SMT DEF Lo
  <2> QED BY <1>3, <2>1
<1>4. CASE op \in {"LSR", "SRE"} BY <1>4, HalfType
<1>5. CASE op \in {"ROR", "RRA"}
  <2>1. (orig \div 2) + 128 * Carry(r) \in Byte BY CarryType, HalfType, ByteIs, SMT
  <2> QED BY <1>5, <2>1
<1>6. CASE op \in {"INC", "ISC"} BY <1>1, <1>6, Wrap8Type
<1>7. CASE op \in {"DEC", "DCP"} BY <1>1, <1>7, Wrap8Type
<1> QED BY <1>2, <1>3, <1>4, <1>5, <1>6, <1>7 DEF RmwOps, LeftOps, RightOps

(* Its effect on the registers does not touch I.                           *)
LEMMA RmwEffectKeeps ==
  ASSUME NEW r \in Regs, NEW orig \in Byte, NEW val \in Byte, NEW op \in RmwOps
  PROVE  Keeps(r, RmwEffect(op, r, orig, val))
<1> DEFINE s == CASE op \in LeftOps  -> SetFlag(r, "C", Has(orig, 128))
                  [] op \in RightOps -> SetFlag(r, "C", Has(orig, 1))
                  [] OTHER -> r
<1>1. Keeps(r, s)
  <2>1. Keeps(r, SetFlag(r, "C", Has(orig, 128))) BY SetFlagKeeps DEF ArithmeticFlags
  <2>2. Keeps(r, SetFlag(r, "C", Has(orig, 1))) BY SetFlagKeeps DEF ArithmeticFlags
  <2> QED BY <2>1, <2>2, KeepsSelf DEF LeftOps, RightOps
<1> DEFINE after ==
      CASE op \in {"ASL", "LSR", "ROL", "ROR", "INC", "DEC"} -> setNZ(s, val)
        [] op = "SLO" -> SetA(s, Or(s.a, val))
        [] op = "RLA" -> SetA(s, And(s.a, val))
        [] op = "SRE" -> SetA(s, Xor(s.a, val))
        [] op = "RRA" -> adcCore(s, val)
        [] op = "ISC" -> sbcCore(s, val)
        [] op = "DCP" -> cmpCore(s, s.a, val)
<1>2. RmwEffect(op, r, orig, val) = after BY DEF RmwEffect
<1> HIDE DEF s
<1>3. s \in Regs BY <1>1 DEF Keeps
<1>4. Keeps(s, after)
  <2>1. CASE op \in {"ASL", "LSR", "ROL", "ROR", "INC", "DEC"}
    <3>1. SameControl(s.sr, nz(s.sr, val)) BY <1>3, SameSelf, NzSame
    <3>2. Keeps(s, [s EXCEPT !.sr = nz(s.sr, val)]) BY <1>3, <3>1, KeepsSr
    <3>3. after = [s EXCEPT !.sr = nz(s.sr, val)] BY <2>1 DEF setNZ
    <3> QED BY <3>2, <3>3, Zenon
  <2>2. CASE op = "SLO" BY <1>3, <2>2, OrType, SetRegister
  <2>3. CASE op = "RLA" BY <1>3, <2>3, AndType, SetRegister
  <2>4. CASE op = "SRE" BY <1>3, <2>4, XorType, SetRegister
  <2>5. CASE op = "RRA" BY <1>3, <2>5, AdcKeeps
  <2>6. CASE op = "ISC" BY <1>3, <2>6, SbcKeeps
  <2>7. CASE op = "DCP" BY <1>3, <2>7, CmpKeeps
  <2> QED BY <2>1, <2>2, <2>3, <2>4, <2>5, <2>6, <2>7 DEF RmwOps, LeftOps, RightOps
<1> HIDE DEF after
<1> QED BY <1>1, <1>2, <1>4, KeepsTrans, Zenon

(* Nor does the whole read-modify-write.                                   *)
LEMMA ReadModifyWriteOk ==
  ASSUME NEW m \in Machines, NEW e \in Entries, e.op \in RmwOps
  PROVE  Ok(m, readModifyWrite(m, e))
<1> DEFINE ini  == init(m, e.mode)
           dum  == dummyRead(ini, e.mode)
           got  == get8bit(dum, e.mode)
           orig == got.v
           val  == RmwValue(e.op, got.r, orig)
           s    == RmwEffect(e.op, got.r, orig, val)
           mod  == [got EXCEPT !.r = s, !.cycles = e.cycles]
           once == set8bit(mod, e.mode, orig)
<1>1. Ok(m, ini) BY InitOk
<1>2. Ok(ini, dum) BY <1>1, DummyReadOk DEF Ok
<1>3. Ok(dum, got) /\ orig \in Byte BY <1>2, Get8bitOk DEF Ok
<1>4. readModifyWrite(m, e) = set8bit(once, e.mode, val) 
  BY DEF readModifyWrite, ModifyWrite, rmwStore
<1> HIDE DEF got, dum, ini
<1>5. got \in Machines /\ got.r \in Regs BY <1>3 DEF Ok, Machines
<1> HIDE DEF orig
<1>6. val \in Byte BY <1>3, <1>5, RmwValueType
<1> HIDE DEF val
<1>7. Keeps(got.r, s) BY <1>3, <1>5, <1>6, RmwEffectKeeps
<1> HIDE DEF s
<1>8. Ok(got, mod) BY <1>5, <1>7, EntryType, FinishOk
<1> HIDE DEF mod
<1>9. Ok(mod, once) BY <1>3, <1>8, Set8bitOk DEF Ok
<1> HIDE DEF once
<1>10. Ok(once, set8bit(once, e.mode, val)) BY <1>6, <1>9, Set8bitOk DEF Ok
<1>11. Ok(m, got) BY <1>1, <1>2, <1>3, OkTrans
<1>12. Ok(m, once) BY <1>8, <1>9, <1>11, OkTrans
<1> QED BY <1>4, <1>10, <1>12, OkTrans, Zenon

(* The byte a store writes is a byte.                                      *)
LEMMA StoreValueType ==
  ASSUME NEW r \in Regs, NEW op \in StoreOps \cup ShxOps
  PROVE  StoreValue(op, r) \in Byte
  BY RegsType, AndType DEF StoreValue, StoreOps, ShxOps

(* Stores do not touch I.                                                  *)
LEMMA StoreOk ==
  ASSUME NEW m \in Machines, NEW e \in Entries, e.op \in StoreOps
  PROVE  Ok(m, store(m, e))
<1> DEFINE ini == init(m, e.mode)
           dum == dummyRead(ini, e.mode)
           val == StoreValue(e.op, dum.r)
           s   == set8bit(dum, e.mode, val)
<1>1. Ok(m, ini) BY InitOk
<1>2. Ok(ini, dum) BY <1>1, DummyReadOk DEF Ok
<1>3. store(m, e) = [s EXCEPT !.cycles = e.cycles] BY DEF store, StoreRegister
<1> HIDE DEF dum, ini
<1>4. dum \in Machines /\ dum.r \in Regs BY <1>2 DEF Ok, Machines
<1>5. val \in Byte BY <1>4, StoreValueType
<1> HIDE DEF val
<1>6. Ok(dum, s) BY <1>4, <1>5, Set8bitOk
<1> HIDE DEF s
<1>7. Ok(s, [s EXCEPT !.cycles = e.cycles]) BY <1>6, EntryType, OkCycles DEF Ok
<1>8. Ok(m, s) BY <1>1, <1>2, <1>6, OkTrans
<1> QED BY <1>3, <1>7, <1>8, OkTrans, Zenon

(* Nor does the SHx family.                                                *)
LEMMA StoreShxOk ==
  ASSUME NEW m \in Machines, NEW e \in Entries, e.op \in ShxOps
  PROVE  Ok(m, storeShx(m, e))
<1> DEFINE ini == init(m, e.mode)
           src == StoreValue(e.op, ini.r)
           sp  == IF e.op = "TAS" THEN [ini EXCEPT !.r.sp = src] ELSE ini
           got == resolve(sp, e.mode)
           val == And(src, Wrap8(Hi(base(got, e.mode)) + 1))
           s   == set8bit(got, e.mode, val)
<1>1. Ok(m, ini) BY InitOk
<1>2. storeShx(m, e) = [s EXCEPT !.cycles = e.cycles] 
  BY DEF storeShx, StoreShxFrom, StoreMasked
<1>3. val \in Byte BY AndType
<1> HIDE DEF ini, val
<1>4. ini \in Machines /\ ini.r \in Regs BY <1>1 DEF Ok, Machines
<1>5. src \in Byte BY <1>4, StoreValueType
<1> HIDE DEF src
<1>6. Ok(ini, sp) BY <1>4, <1>5, SpOk, OkSelf
<1> HIDE DEF sp
<1>7. Ok(sp, got) BY <1>6, ResolveOk DEF Ok
<1> HIDE DEF got
<1>8. Ok(got, s) BY <1>3, <1>7, Set8bitOk DEF Ok
<1> HIDE DEF s
<1>9. Ok(s, [s EXCEPT !.cycles = e.cycles]) BY <1>8, EntryType, OkCycles DEF Ok
<1>10. Ok(m, got) BY <1>1, <1>6, <1>7, OkTrans
<1>11. Ok(m, s) BY <1>8, <1>10, OkTrans
<1> QED BY <1>2, <1>9, <1>11, OkTrans, Zenon

(* Nor do branches.                                                        *)
LEMMA BranchOk ==
  ASSUME NEW m \in Machines, NEW e \in Entries
  PROVE  Ok(m, branch(m, e))
<1> DEFINE ini    == init(m, e.mode)
           got    == get8bit(ini, e.mode)
           target == Wrap16(got.r.pc + got.v - IfBit(Has(got.v, 128), 256))
           extra  == 1 + IfBit(Hi(got.r.pc) # Hi(target), 1)
           s      == [got EXCEPT !.r.pc = target]
<1>1. Ok(m, ini) BY InitOk
<1>2. Ok(ini, got) /\ got.v \in Byte BY <1>1, Get8bitOk DEF Ok
<1>3. branch(m, e) = IF BranchTaken(e.op, got.r)
                     THEN [s EXCEPT !.cycles = e.cycles + extra]
                     ELSE [got EXCEPT !.cycles = e.cycles]
  BY DEF branch, BranchFrom
<1>4. e.cycles + extra \in Nat BY EntryType, SMT DEF IfBit
<1> HIDE DEF got, ini, extra
<1>5. got \in Machines BY <1>2 DEF Ok
<1>6. got.r.pc + got.v - IfBit(Has(got.v, 128), 256) \in Int
  BY <1>2, <1>5, PcPartType, ByteIs DEF IfBit
<1>7. target \in Word BY <1>6, Wrap16Type
<1> HIDE DEF target
<1>8. Ok(got, s) BY <1>5, <1>7, PcOk
<1> HIDE DEF s
<1>9. Ok(s, [s EXCEPT !.cycles = e.cycles + extra]) BY <1>4, <1>8, OkCycles DEF Ok
<1>10. Ok(got, [got EXCEPT !.cycles = e.cycles]) BY <1>5, EntryType, OkCycles
<1>11. Ok(m, got) BY <1>1, <1>2, OkTrans
<1>12. Ok(m, s) BY <1>8, <1>11, OkTrans
<1>13. /\ Ok(m, [s EXCEPT !.cycles = e.cycles + extra])
       /\ Ok(m, [got EXCEPT !.cycles = e.cycles])
  BY <1>9, <1>10, <1>11, <1>12, OkTrans
<1> QED BY <1>3, <1>13, Zenon

-----------------------------------------------------------------------------
(* Instructions that may write I: the machine stays well formed and the    *)
(* wiring untouched.                                                       *)
Sound(r, s) == s \in Regs /\ s.decimalDisabled = r.decimalDisabled
SoundM(m, n) == n \in Machines /\ Sound(m.r, n.r)

(* Registers that kept I are sound.                                        *)
LEMMA KeepsSound == \A r, s : Keeps(r, s) => Sound(r, s)
  BY DEF Keeps, Sound

(* So is a machine whose registers kept I.                                 *)
LEMMA OkSound == \A m, n : Ok(m, n) => SoundM(m, n)
  BY KeepsSound DEF Ok, SoundM

(* Sound operations compose.                                               *)
LEMMA SoundTrans ==
  ASSUME NEW l, NEW m, NEW n, SoundM(l, m), SoundM(m, n)
  PROVE  SoundM(l, n)
  BY DEF SoundM, Sound

(* Replacing the registers by sound ones is sound.                         *)
LEMMA SoundR ==
  ASSUME NEW m \in Machines, NEW s, Sound(m.r, s)
  PROVE  SoundM(m, [m EXCEPT !.r = s])
  BY SMT DEF SoundM, Sound, Machines

(* So is a status register without B and with bit 5.                       *)
LEMMA SoundSr ==
  ASSUME NEW r \in Regs, NEW t, t \subseteq Flags6502, "B" \notin t, "U" \in t
  PROVE  Sound(r, [r EXCEPT !.sr = t])
  BY SMT DEF Sound, Regs, Registers

(* Implied instructions are sound; only CLI and SEI touch I.               *)
LEMMA ImpliedEffectSound ==
  ASSUME NEW r \in Regs, NEW op \in ImpliedOps
  PROVE  /\ Sound(r, ImpliedEffect(op, r))
         /\ op \notin {"CLI", "SEI"} => Keeps(r, ImpliedEffect(op, r))
<1> USE DEF ImpliedEffect, ClearOrSet, Transfer
<1>1. CASE op \in {"CLC", "CLD", "CLV", "SEC", "SED"}
  BY <1>1, SetFlagKeeps, KeepsSound DEF ArithmeticFlags
<1>2. CASE op \in {"TAX", "TAY", "TSX", "TXA", "TYA"}
  BY <1>2, RegsType, SetRegister, KeepsSound
<1>3. CASE op = "TXS"
  <2>1. Keeps(r, [r EXCEPT !.sp = r.x]) BY RegsType, KeepsByte
  <2> QED BY <1>3, <2>1, KeepsSound
<1>4. CASE op \in {"INX", "INY", "DEX", "DEY"}
  <2>1. /\ Wrap8(r.x + 1) \in Byte /\ Wrap8(r.y + 1) \in Byte
        /\ Wrap8(r.x - 1) \in Byte /\ Wrap8(r.y - 1) \in Byte
    BY RegsType, ByteIs, Wrap8Type
  <2> QED BY <1>4, <2>1, SetRegister, KeepsSound
<1>5. CASE op \in {"CLI", "SEI"}
  <2> DEFINE t == setStatus(r.sr, "I", op = "SEI")
  <2>1. t \subseteq Flags6502 /\ "B" \notin t /\ "U" \in t
    BY SMT DEF setStatus, Regs, Registers, Flags6502
  <2>2. ImpliedEffect(op, r) = [r EXCEPT !.sr = t] BY <1>5 DEF SetFlag
  <2> HIDE DEF t
  <2>3. Sound(r, [r EXCEPT !.sr = t]) BY <2>1, SoundSr
  <2> QED BY <1>5, <2>2, <2>3, Zenon
<1> QED BY <1>1, <1>2, <1>3, <1>4, <1>5 DEF ImpliedOps

(* A pulled status has bit 5 and not B, whatever byte was pulled.          *)
LEMMA PulledSrType ==
  ASSUME NEW v
  PROVE  PulledSr(v) \subseteq Flags6502 /\ "B" \notin PulledSr(v) /\ "U" \in PulledSr(v)
  BY SrFlagsType, SMT DEF PulledSr, Flags6502

(* A jump through a vector does not touch I.                               *)
LEMMA VectorOk ==
  ASSUME NEW m \in Machines, NEW ad \in Int
  PROVE  Ok(m, vector(m, ad))
<1> DEFINE got == read16(m, ad, ad + 1)
<1>1. ad + 1 \in Int OBVIOUS
<1>2. Ok(m, got) BY <1>1, Read16Ok
<1>3. vector(m, ad) = [got EXCEPT !.r.pc = got.v] BY DEF vector, JumpToRead
<1> HIDE DEF got
<1>4. got \in Machines /\ got.v \in Word BY <1>2 DEF Ok, Machines
<1>5. Ok(got, [got EXCEPT !.r.pc = got.v]) BY <1>4, PcOk
<1> QED BY <1>2, <1>3, <1>5, OkTrans, Zenon

(* The interrupt sequence that BRK shares with serviceInterrupt: disabling *)
(* interrupts, then jumping through a vector.                              *)
LEMMA DisableAndJump ==
  ASSUME NEW m \in Machines, NEW ad \in Int
  PROVE  /\ SoundM(m, vector([m EXCEPT !.r.sr = @ \cup {"I"}], ad))
         /\ "I" \in vector([m EXCEPT !.r.sr = @ \cup {"I"}], ad).r.sr
<1> DEFINE t == m.r.sr \cup {"I"}
           q == [m.r EXCEPT !.sr = t]
           s == [m EXCEPT !.r = q]
<1>1. m.r \in Regs BY DEF Machines
<1>2. t \subseteq Flags6502 /\ "B" \notin t /\ "U" \in t
  BY <1>1, SMT DEF Regs, Registers, Flags6502
<1>3. "I" \in t OBVIOUS
<1>4. [m EXCEPT !.r.sr = @ \cup {"I"}] = s OBVIOUS
<1> HIDE DEF t
<1>5. Sound(m.r, q) BY <1>1, <1>2, SoundSr
<1>6. q.sr = t BY <1>1, SMT DEF Regs, Registers
<1> HIDE DEF q
<1>7. SoundM(m, s) BY <1>5, SoundR
<1>8. s.r = q BY SMT DEF Machines
<1> HIDE DEF s
<1>9. Ok(s, vector(s, ad)) BY <1>7, VectorOk DEF SoundM
<1>10. SoundM(m, vector(s, ad)) BY <1>7, <1>9, OkSound, SoundTrans
<1>11. "I" \in vector(s, ad).r.sr BY <1>3, <1>6, <1>8, <1>9 DEF Ok, Keeps
<1> QED BY <1>4, <1>10, <1>11, Zenon

(* BRK leaves a well-formed machine.                                       *)
LEMMA BrkSound ==
  ASSUME NEW m \in Machines
  PROVE  SoundM(m, BRK(m))
<1> DEFINE ad == 65534
           w  == Wrap16(m.r.pc + 1)
           first  == push16(m, w)
           pushed == push8(first, PushedSr(m.r))
<1>1. w \in Word BY PcPartType, Wrap16Type
<1> HIDE DEF w
<1>2. Ok(m, first) BY <1>1, Push16Ok
<1>3. PushedSr(m.r) \in Byte BY SrByteType DEF PushedSr
<1>4. BRK(m) = vector([pushed EXCEPT !.r.sr = @ \cup {"I"}], ad) BY SMT DEF BRK, w
<1>5. ad \in Int BY SMT
<1> HIDE DEF first, ad
<1>6. Ok(first, pushed) BY <1>2, <1>3, Push8Ok DEF Ok
<1> HIDE DEF pushed
<1>7. Ok(m, pushed) BY <1>2, <1>6, OkTrans
<1>8. SoundM(pushed, vector([pushed EXCEPT !.r.sr = @ \cup {"I"}], ad))
  BY <1>7, <1>5, DisableAndJump DEF Ok
<1> QED BY <1>4, <1>7, <1>8, OkSound, SoundTrans, Zenon

(* PLP and RTI: the pulled status replaces the flags.                      *)
LEMMA PullSrSound ==
  ASSUME NEW m \in Machines, NEW v
  PROVE  SoundM(m, [m EXCEPT !.r.sr = PulledSr(v)])
<1>1. m.r \in Regs BY DEF Machines
<1>2. Sound(m.r, [m.r EXCEPT !.sr = PulledSr(v)]) BY <1>1, PulledSrType, SoundSr
<1>3. [m EXCEPT !.r.sr = PulledSr(v)] = [m EXCEPT !.r = [m.r EXCEPT !.sr = PulledSr(v)]]
  OBVIOUS
<1> QED BY <1>2, <1>3, SoundR, Zenon

(* PLP leaves a well-formed machine, whatever it pulls.                    *)
LEMMA PlpSound ==
  ASSUME NEW m \in Machines
  PROVE  SoundM(m, PLP(m))
<1> DEFINE p == pop8(m)
<1>1. Ok(m, p) BY Pop8Ok
<1>2. PLP(m) = [p EXCEPT !.r.sr = PulledSr(p.v)] BY DEF PLP
<1> HIDE DEF p
<1>3. SoundM(p, [p EXCEPT !.r.sr = PulledSr(p.v)]) BY <1>1, PullSrSound DEF Ok
<1> QED BY <1>1, <1>2, <1>3, OkSound, SoundTrans, Zenon

(* So does RTI.                                                            *)
LEMMA RtiSound ==
  ASSUME NEW m \in Machines
  PROVE  SoundM(m, RTI(m))
<1> DEFINE s == pop8(m)
           t == [s EXCEPT !.r.sr = PulledSr(s.v)]
           p == pop16(t)
<1>1. Ok(m, s) BY Pop8Ok
<1>2. RTI(m) = [p EXCEPT !.r.pc = p.v] BY DEF RTI, JumpToRead
<1> HIDE DEF s
<1>3. SoundM(s, t) BY <1>1, PullSrSound DEF Ok
<1> HIDE DEF t
<1>4. Ok(t, p) /\ p.v \in Word BY <1>3, Pop16Ok DEF SoundM
<1> HIDE DEF p
<1>5. Ok(p, [p EXCEPT !.r.pc = p.v]) BY <1>4, PcOk DEF Ok
<1>6. SoundM(m, t) BY <1>1, <1>3, OkSound, SoundTrans
<1>7. SoundM(t, [p EXCEPT !.r.pc = p.v]) BY <1>4, <1>5, OkTrans, OkSound
<1> QED BY <1>2, <1>6, <1>7, SoundTrans, Zenon

(* JMP does not touch I.                                                   *)
LEMMA JmpOk ==
  ASSUME NEW m \in Machines, NEW mode
  PROVE  Ok(m, JMP(m, mode))
<1> DEFINE ini == init(m, mode)
           got == get16bit(ini, mode)
<1>1. Ok(m, ini) BY InitOk
<1>2. Ok(ini, got) /\ got.v \in Word BY <1>1, Get16bitOk DEF Ok
<1>3. JMP(m, mode) = [got EXCEPT !.r.pc = got.v] BY DEF JMP, JumpToRead
<1> HIDE DEF got, ini
<1>4. Ok(got, [got EXCEPT !.r.pc = got.v]) BY <1>2, PcOk DEF Ok
<1>5. Ok(m, got) BY <1>1, <1>2, OkTrans
<1> QED BY <1>3, <1>4, <1>5, OkTrans, Zenon

(* Nor does JSR.                                                           *)
LEMMA JsrOk ==
  ASSUME NEW m \in Machines, NEW mode
  PROVE  Ok(m, JSR(m, mode))
<1> DEFINE ini == init(m, mode)
           got == get16bit(ini, mode)
           w   == Wrap16(got.r.pc - 1)
           s   == push16(got, w)
<1>1. Ok(m, ini) BY InitOk
<1>2. Ok(ini, got) /\ got.v \in Word BY <1>1, Get16bitOk DEF Ok
<1>3. JSR(m, mode) = [s EXCEPT !.r.pc = got.v] BY DEF JSR, Call
<1> HIDE DEF got, ini
<1>4. got \in Machines BY <1>2 DEF Ok
<1>5. got.r.pc - 1 \in Int BY <1>4, PcPartType
<1>6. w \in Word BY <1>5, Wrap16Type
<1> HIDE DEF w
<1>7. Ok(got, s) BY <1>4, <1>6, Push16Ok
<1> HIDE DEF s
<1>8. Ok(s, [s EXCEPT !.r.pc = got.v]) BY <1>2, <1>7, PcOk DEF Ok
<1>9. Ok(m, s) BY <1>1, <1>2, <1>7, OkTrans
<1> QED BY <1>3, <1>8, <1>9, OkTrans, Zenon

(* Nor does RTS.                                                           *)
LEMMA RtsOk ==
  ASSUME NEW m \in Machines
  PROVE  Ok(m, RTS(m))
<1> DEFINE p == pop16(m)
           w == Wrap16(p.v + 1)
<1>1. Ok(m, p) /\ p.v \in Word BY Pop16Ok
<1>2. RTS(m) = [p EXCEPT !.r.pc = w] BY DEF RTS
<1> HIDE DEF p
<1>3. p.v + 1 \in Int BY <1>1, WordIs
<1>4. w \in Word BY <1>3, Wrap16Type
<1> HIDE DEF w
<1>5. Ok(p, [p EXCEPT !.r.pc = w]) BY <1>1, <1>4, PcOk DEF Ok
<1> QED BY <1>1, <1>2, <1>5, OkTrans, Zenon

(* Nor does PLA.                                                           *)
LEMMA PlaOk ==
  ASSUME NEW m \in Machines
  PROVE  Ok(m, PLA(m))
<1> DEFINE p == pop8(m)
           s == SetA(p.r, p.v)
<1>1. Ok(m, p) /\ p.v \in Byte BY Pop8Ok
<1>2. PLA(m) = [p EXCEPT !.r = s] BY DEF PLA
<1> HIDE DEF p
<1>3. p \in Machines /\ p.r \in Regs BY <1>1 DEF Ok, Machines
<1>4. Keeps(p.r, s) BY <1>1, <1>3, SetRegister
<1> HIDE DEF s
<1>5. Ok(p, [p EXCEPT !.r = s]) BY <1>3, <1>4, OkR
<1> QED BY <1>1, <1>2, <1>5, OkTrans, Zenon

(* Nor does KIL.                                                           *)
LEMMA KilOk ==
  ASSUME NEW m \in Machines
  PROVE  Ok(m, KIL(m))
<1>1. m.r.pc - 1 \in Int BY PcPartType
<1>2. Wrap16(m.r.pc - 1) \in Word BY <1>1, Wrap16Type
<1>3. KIL(m) = [m EXCEPT !.r.pc = Wrap16(m.r.pc - 1)] BY DEF KIL
<1> QED BY <1>2, <1>3, PcOk, Zenon

(* Jumps, stack instructions, NOP, BRK and KIL.                            *)
LEMMA ControlSound ==
  ASSUME NEW m \in Machines, NEW e \in Entries, e.op \in ControlOps
  PROVE  /\ SoundM(m, control(m, e))
         /\ e.op \notin {"BRK", "RTI", "PLP"} => Ok(m, control(m, e))
<1> DEFINE done == CASE e.op = "BRK" -> BRK(m)
                     [] e.op = "JMP" -> JMP(m, e.mode)
                     [] e.op = "JSR" -> JSR(m, e.mode)
                     [] e.op = "RTI" -> RTI(m)
                     [] e.op = "RTS" -> RTS(m)
                     [] e.op = "PHA" -> push8(m, m.r.a)
                     [] e.op = "PHP" -> push8(m, PushedSr(m.r))
                     [] e.op = "PLA" -> PLA(m)
                     [] e.op = "PLP" -> PLP(m)
                     [] e.op = "NOP" -> init(m, e.mode)
                     [] e.op = "KIL" -> KIL(m)
<1>1. m.r.a \in Byte /\ PushedSr(m.r) \in Byte BY PcPartType, SrByteType DEF PushedSr
<1>2. e.op \notin {"BRK", "RTI", "PLP"} => Ok(m, done)
  BY <1>1, JmpOk, JsrOk, RtsOk, Push8Ok, PlaOk, InitOk, KilOk DEF ControlOps
<1>3. e.op \in {"BRK", "RTI", "PLP"} => SoundM(m, done)
  BY BrkSound, RtiSound, PlpSound
<1>4. control(m, e) = [done EXCEPT !.cycles = e.cycles] BY DEF control
<1> HIDE DEF done
<1>5. SoundM(m, done) BY <1>2, <1>3, OkSound
<1>6. Ok(done, [done EXCEPT !.cycles = e.cycles]) BY <1>5, EntryType, OkCycles DEF SoundM
<1>7. SoundM(m, [done EXCEPT !.cycles = e.cycles]) BY <1>5, <1>6, OkSound, SoundTrans
<1>8. e.op \notin {"BRK", "RTI", "PLP"} => Ok(m, [done EXCEPT !.cycles = e.cycles])
  BY <1>2, <1>6, OkTrans
<1> QED BY <1>4, <1>7, <1>8, Zenon

-----------------------------------------------------------------------------
(* Every instruction leaves a well-formed machine, keeps B out of the      *)
(* status register and bit 5 in, and leaves the decimal wiring alone; all  *)
(* but five leave I alone.                                                 *)
IWriters == {"CLI", "SEI", "PLP", "RTI", "BRK"}

(* Every instruction leaves a well-formed machine, and I alone unless it   *)
(* is one of the five.                                                     *)
LEMMA ExecuteSound ==
  ASSUME NEW m \in Machines, NEW e \in Entries
  PROVE  /\ SoundM(m, execute(m, e))
         /\ e.op \notin IWriters => Ok(m, execute(m, e))
<1> USE DEF execute, ReadOps, RmwOps, LeftOps, RightOps, StoreOps, ShxOps, BranchOps,
            ImpliedOps, ControlOps
<1>1. CASE e.op \in ReadOps
  <2>1. execute(m, e) = readOperand(m, e) BY <1>1
  <2> QED BY <1>1, <2>1, ReadOperandOk, OkSound, Zenon
<1>2. CASE e.op \in RmwOps
  <2>1. execute(m, e) = readModifyWrite(m, e) BY <1>2
  <2> QED BY <1>2, <2>1, ReadModifyWriteOk, OkSound, Zenon
<1>3. CASE e.op \in StoreOps
  <2>1. execute(m, e) = store(m, e) BY <1>3
  <2> QED BY <1>3, <2>1, StoreOk, OkSound, Zenon
<1>4. CASE e.op \in ShxOps
  <2>1. execute(m, e) = storeShx(m, e) BY <1>4
  <2> QED BY <1>4, <2>1, StoreShxOk, OkSound, Zenon
<1>5. CASE e.op \in BranchOps
  <2>1. execute(m, e) = branch(m, e) BY <1>5
  <2> QED BY <2>1, BranchOk, OkSound, Zenon
<1>6. CASE e.op \in ImpliedOps
  <2> DEFINE s == ImpliedEffect(e.op, m.r)
             n == [m EXCEPT !.r = s]
             c == e.cycles
  <2>1. execute(m, e) = [n EXCEPT !.cycles = c] BY <1>6
  <2>2. m.r \in Regs /\ c \in Nat BY EntryType DEF Machines
  <2>3. Sound(m.r, s) /\ (e.op \notin {"CLI", "SEI"} => Keeps(m.r, s))
    BY <1>6, <2>2, ImpliedEffectSound, Zenon
  <2> HIDE DEF s, c
  <2>4. SoundM(m, n) /\ (e.op \notin {"CLI", "SEI"} => Ok(m, n)) BY <2>3, SoundR, OkR
  <2> HIDE DEF n
  <2>5. Ok(n, [n EXCEPT !.cycles = c]) BY <2>2, <2>4, OkCycles DEF SoundM
  <2>6. SoundM(m, [n EXCEPT !.cycles = c]) BY <2>4, <2>5, OkSound, SoundTrans
  <2>7. e.op \notin {"CLI", "SEI"} => Ok(m, [n EXCEPT !.cycles = c]) BY <2>4, <2>5, OkTrans
  <2> QED BY <2>1, <2>6, <2>7, Zenon DEF IWriters
<1>7. CASE e.op \in ControlOps
  <2>1. execute(m, e) = control(m, e) BY <1>7
  <2> QED BY <1>7, <2>1, ControlSound, Zenon DEF IWriters
<1>8. e.op \in Op BY EntryType
<1> QED BY <1>1, <1>2, <1>3, <1>4, <1>5, <1>6, <1>7, <1>8, Zenon DEF Op

-----------------------------------------------------------------------------
(* The instruction table: every opcode has a well-formed entry, and the    *)
(* codes step() compares with are those of CLI, SEI and PLP.               *)
LEMMA LowRows ==
  \A k \in 1..128 :
    /\ Rows00To7F[k] \in Entries
    /\ Rows00To7F[k].op \in {"CLI", "SEI", "PLP"} <=> k \in {89, 121, 41}
<1>1. \A k \in 1..128 : Rows00To7F[k] \in Entries
  BY SMTT(60) DEF Rows00To7F, E, Entries, Op, Mode, ReadOps, RmwOps, LeftOps, RightOps, StoreOps,
             ShxOps, BranchOps, ImpliedOps, ControlOps
<1>2. \A k \in 1..128 : Rows00To7F[k].op \in {"CLI", "SEI", "PLP"} <=> k \in {89, 121, 41}
  BY SMTT(60) DEF Rows00To7F, E
<1> QED BY <1>1, <1>2

(* The upper half of the table.                                            *)
LEMMA HighRows ==
  \A k \in 1..128 :
    /\ Rows80ToFF[k] \in Entries
    /\ Rows80ToFF[k].op \notin {"CLI", "SEI", "PLP"}
<1>1. \A k \in 1..128 : Rows80ToFF[k] \in Entries
  BY SMTT(60) DEF Rows80ToFF, E, Entries, Op, Mode, ReadOps, RmwOps, LeftOps, RightOps, StoreOps,
             ShxOps, BranchOps, ImpliedOps, ControlOps
<1>2. \A k \in 1..128 : Rows80ToFF[k].op \notin {"CLI", "SEI", "PLP"}
  BY SMTT(60) DEF Rows80ToFF, E
<1> QED BY <1>1, <1>2

(* Both halves, indexed by the opcode.                                     *)
LEMMA TableType ==
  ASSUME NEW code \in Byte
  PROVE  /\ instruction_table[code] \in Entries
         /\ instruction_table[code].op \in {"CLI", "SEI", "PLP"} <=> code \in DelayedCodes
<1>1. code \in Int /\ 0 <= code /\ code <= 255 BY ByteIs
<1>2. CASE code < 128
  <2> DEFINE k == code + 1
  <2>1. k \in 1..128 BY <1>1, <1>2
  <2>2. instruction_table[code] = Rows00To7F[k] BY <1>2 DEF instruction_table
  <2>3. k \in {89, 121, 41} <=> code \in DelayedCodes BY <1>1, SMT DEF DelayedCodes
  <2> HIDE DEF k
  <2> QED BY <2>1, <2>2, <2>3, LowRows
<1>3. CASE ~(code < 128)
  <2> DEFINE k == code - 127
  <2>1. k \in 1..128 BY <1>1, <1>3
  <2>2. instruction_table[code] = Rows80ToFF[k] BY <1>3 DEF instruction_table
  <2>3. code \notin DelayedCodes BY <1>1, <1>3, SMT DEF DelayedCodes
  <2> HIDE DEF k
  <2> QED BY <2>1, <2>2, <2>3, HighRows
<1> QED BY <1>2, <1>3

-----------------------------------------------------------------------------
(* The inductive invariant: types, and the two status bits, without which  *)
(* a pulled status byte could not be shown to leave well-formed registers. *)
ProcInv == TypeOK /\ StatusBits

(* A step starts from a well-formed machine.                               *)
LEMMA MachineType ==
  ASSUME ProcInv
  PROVE  Machine(regs, mem) \in Machines /\ Machine(regs, mem).r = regs
<1>1. regs \in Regs BY DEF ProcInv, TypeOK, StatusBits, Regs
<1>2. mem \in Mems BY MemTypeMems DEF ProcInv, TypeOK
<1>3. 0 \in Word BY WordIs, SMT
<1>4. NewParams \in Params BY <1>3, NewParamsType
<1>5. <<>> \in Seq(Accesses) OBVIOUS
<1>6. Machine(regs, mem) \in Machines BY <1>1, <1>2, <1>3, <1>4, <1>5 DEF Machine, Machines
<1> QED BY <1>6 DEF Machine

(* Servicing an interrupt is sound and disables IRQs.                      *)
LEMMA ServiceSound ==
  ASSUME NEW m \in Machines, NEW ad \in Int
  PROVE  /\ SoundM(m, serviceInterrupt(m, ad))
         /\ "I" \in serviceInterrupt(m, ad).r.sr
<1> DEFINE pc     == m.r.pc
           first  == push16(m, pc)
           b      == SrByte((m.r.sr \ {"B"}) \cup {"U"})
           pushed == push8(first, b)
           n      == vector([pushed EXCEPT !.r.sr = @ \cup {"I"}], ad)
<1>1. pc \in Word BY DEF Machines, Regs, Registers
<1>2. Ok(m, first) BY <1>1, Push16Ok
<1>3. b \in Byte BY SrByteType
<1>4. serviceInterrupt(m, ad) = [n EXCEPT !.cycles = 7] BY DEF serviceInterrupt
<1> HIDE DEF first, b
<1>5. Ok(first, pushed) BY <1>2, <1>3, Push8Ok DEF Ok
<1> HIDE DEF pushed
<1>6. Ok(m, pushed) BY <1>2, <1>5, OkTrans
<1>7. SoundM(pushed, n) /\ "I" \in n.r.sr BY <1>6, DisableAndJump DEF Ok
<1> HIDE DEF n
<1>8. Ok(n, [n EXCEPT !.cycles = 7]) BY <1>7, OkCycles DEF SoundM
<1>9. SoundM(m, n) BY <1>6, <1>7, OkSound, SoundTrans
<1>10. SoundM(m, [n EXCEPT !.cycles = 7]) BY <1>8, <1>9, OkSound, SoundTrans
<1>11. "I" \in [n EXCEPT !.cycles = 7].r.sr BY <1>7, <1>8 DEF Ok, Keeps
<1> QED BY <1>4, <1>10, <1>11

(* What the instruction at pc leaves behind.                               *)
LEMMA ExecuteStep ==
  ASSUME ProcInv
  PROVE  /\ Code \in Byte
         /\ execute(fetched, Entry) \in Machines
         /\ Sound(regs, execute(fetched, Entry).r)
         /\ Entry.op \notin IWriters => Keeps(regs, execute(fetched, Entry).r)
<1> DEFINE m == Machine(regs, mem)
           n == read(m, regs.pc)
           w == Wrap16(n.r.pc + 1)
<1>1. m \in Machines /\ m.r = regs BY MachineType
<1>2. regs.pc \in Word /\ regs.pc \in Int BY WordIs DEF ProcInv, TypeOK, Registers
<1>3. Code \in Byte BY <1>2, PeekType, MemTypeMems DEF Code, ProcInv, TypeOK
<1>4. Entry \in Entries BY <1>3, TableType DEF Entry
<1>5. fetched = [n EXCEPT !.r.pc = w] BY DEF fetched
<1> HIDE DEF m
<1>6. Ok(m, n) BY <1>1, <1>2, ReadOk
<1> HIDE DEF n
<1>7. n.r.pc + 1 \in Int BY <1>6, PcPartType DEF Ok
<1>8. w \in Word BY <1>7, Wrap16Type
<1> HIDE DEF w
<1>9. Ok(n, [n EXCEPT !.r.pc = w]) BY <1>6, <1>8, PcOk DEF Ok
<1>10. Ok(m, fetched) BY <1>5, <1>6, <1>9, OkTrans, Zenon
<1> DEFINE f == fetched
           x == execute(f, Entry)
<1>11. f \in Machines /\ Ok(m, f) BY <1>10 DEF Ok
<1> HIDE DEF f
<1>12. SoundM(f, x) /\ (Entry.op \notin IWriters => Ok(f, x)) BY <1>4, <1>11, ExecuteSound
<1> HIDE DEF x
<1>13. SoundM(m, x) BY <1>11, <1>12, OkSound, SoundTrans
<1>14. Entry.op \notin IWriters => Ok(m, x) BY <1>11, <1>12, OkTrans
<1>15. x \in Machines /\ Sound(regs, x.r) /\ (Entry.op \notin IWriters => Keeps(regs, x.r))
  BY <1>1, <1>13, <1>14 DEF SoundM, Ok
<1> QED BY <1>3, <1>15 DEF f, x

-----------------------------------------------------------------------------
(* Reset leaves well-formed registers, interrupts disabled.                *)
LEMMA ResetType ==
  ASSUME MemType(mem)
  PROVE  ResetRegisters \in Regs /\ "I" \in ResetRegisters.sr
<1> DEFINE lo == 65532
           hi == 65533
           pc == Join(Peek(mem, lo), Peek(mem, hi))
<1>1. mem \in Mems BY MemTypeMems
<1>2. lo \in Word /\ hi \in Word BY WordIs, SMT
<1>3. ResetRegisters = [a |-> 0, x |-> 0, y |-> 0, sp |-> 253, sr |-> {"U", "I"},
                        decimalDisabled |-> FALSE, pc |-> pc]
  BY DEF ResetRegisters
<1> HIDE DEF lo, hi
<1>4. pc \in Word BY <1>1, <1>2, PeekType, JoinType
<1> HIDE DEF pc
<1>5. 0 \in Byte /\ 253 \in Byte BY ByteIs, SMT
<1>6. {"U", "I"} \subseteq Flags6502 BY DEF Flags6502
<1>7. ResetRegisters \in Registers BY <1>3, <1>4, <1>5, <1>6, SMT DEF Registers
<1>8. ResetRegisters.sr = {"U", "I"} BY <1>3
<1> QED BY <1>7, <1>8 DEF Regs

(* The record of a step is well formed.                                    *)
Dids == [did : {"start", "nmi", "irq", "exec"}, code : Byte, charged : Nat]

(* What an action records is such a record.                                *)
LEMMA DidType ==
  ASSUME NEW what \in {"start", "nmi", "irq", "exec"}, NEW code \in Byte, NEW c \in Nat
  PROVE  Did(what, code, c) \in Dids
  BY DEF Did, Dids

(* The invariant as facts about each variable, now and after a step.       *)
LEMMA ProcInvParts ==
  ASSUME ProcInv
  PROVE  /\ regs \in Regs /\ MemType(mem) /\ last \in Dids
         /\ m_nmi_pending \in BOOLEAN /\ m_irq_line \in BOOLEAN
         /\ m_i_flag_delayed \in BOOLEAN /\ m_i_flag_before \in BOOLEAN
         /\ noNmi \in BOOLEAN
  BY Zenon DEF ProcInv, TypeOK, StatusBits, Regs, Dids

(* So a step that leaves each variable well formed keeps the invariant.    *)
LEMMA ProcInvNext ==
  ASSUME regs' \in Regs, MemType(mem'), last' \in Dids,
         m_nmi_pending' \in BOOLEAN, m_irq_line' \in BOOLEAN,
         m_i_flag_delayed' \in BOOLEAN, m_i_flag_before' \in BOOLEAN, noNmi' \in BOOLEAN
  PROVE  ProcInv'
  BY Zenon DEF ProcInv, TypeOK, StatusBits, Regs, Dids

(* The machine starts in the invariant, whatever image was loaded.         *)
LEMMA InitInv == Init => ProcInv
<1> SUFFICES ASSUME Init PROVE ProcInv OBVIOUS
<1>1. MemType(mem) BY ImageAssumption DEF Init
<1>2. regs \in Regs BY <1>1, ResetType DEF Init
<1>3. 0 \in Byte BY ByteIs, SMT
<1>4. last \in Dids BY <1>3, DidType DEF Init
<1> QED BY <1>1, <1>2, <1>4, Zenon DEF Init, ProcInv, TypeOK, StatusBits, Regs, Dids

(* What an interrupt leaves behind.                                        *)
LEMMA ServiceStep ==
  ASSUME ProcInv, NEW ad \in Int, NEW what, NEW code,
         Apply(serviceInterrupt(Machine(regs, mem), ad), what, code)
  PROVE  /\ regs' \in Regs /\ "I" \in regs'.sr
         /\ MemType(mem') 
         /\ serviceInterrupt(Machine(regs, mem), ad).cycles \in Nat
<1> DEFINE m == Machine(regs, mem)
           n == serviceInterrupt(m, ad)
<1>1. m \in Machines BY MachineType
<1> HIDE DEF m
<1>2. SoundM(m, n) /\ "I" \in n.r.sr BY <1>1, ServiceSound
<1>3. regs' = n.r /\ mem' = n.mem BY DEF Apply, m
<1> HIDE DEF n
<1>4. n.r \in Regs /\ n.mem \in Mems /\ n.cycles \in Nat BY <1>2 DEF SoundM, Machines
<1>5. n.cycles = serviceInterrupt(Machine(regs, mem), ad).cycles BY DEF n, m
<1> QED BY <1>2, <1>3, <1>4, <1>5, MemTypeMems

(* Taking an NMI, and an IRQ, keeps the invariant and disables IRQs.       *)
LEMMA StepNmiInv ==
  ASSUME ProcInv, StepNmi
  PROVE  ProcInv' /\ "I" \in regs'.sr
<1> DEFINE m == serviceInterrupt(Machine(regs, mem), NmiVector)
<1>1. NmiVector \in Int BY DEF NmiVector
<1>2. Apply(m, "nmi", 0) /\ last' = Did("nmi", 0, m.cycles) BY DEF StepNmi, Apply
<1>3. regs' \in Regs /\ "I" \in regs'.sr /\ MemType(mem') /\ m.cycles \in Nat
  BY <1>1, <1>2, ServiceStep
<1>4. 0 \in Byte BY ByteIs, SMT
<1>5. last' \in Dids BY <1>2, <1>3, <1>4, DidType
<1>6. /\ m_nmi_pending' \in BOOLEAN /\ m_irq_line' \in BOOLEAN
      /\ m_i_flag_delayed' \in BOOLEAN /\ m_i_flag_before' \in BOOLEAN /\ noNmi' \in BOOLEAN
  BY ProcInvParts, Zenon DEF StepNmi
<1> QED BY <1>3, <1>5, <1>6, ProcInvNext

(* The same for an IRQ.                                                    *)
LEMMA StepIrqInv ==
  ASSUME ProcInv, StepIrq
  PROVE  ProcInv' /\ "I" \in regs'.sr
<1> DEFINE m == serviceInterrupt(Machine(regs, mem), IrqVector)
<1>1. IrqVector \in Int BY DEF IrqVector
<1>2. Apply(m, "irq", 0) /\ last' = Did("irq", 0, m.cycles) BY DEF StepIrq, Apply
<1>3. regs' \in Regs /\ "I" \in regs'.sr /\ MemType(mem') /\ m.cycles \in Nat
  BY <1>1, <1>2, ServiceStep
<1>4. 0 \in Byte BY ByteIs, SMT
<1>5. last' \in Dids BY <1>2, <1>3, <1>4, DidType
<1>6. /\ m_nmi_pending' \in BOOLEAN /\ m_irq_line' \in BOOLEAN
      /\ m_i_flag_delayed' \in BOOLEAN /\ m_i_flag_before' \in BOOLEAN /\ noNmi' \in BOOLEAN
  BY ProcInvParts, Zenon DEF StepIrq, lines
<1> QED BY <1>3, <1>5, <1>6, ProcInvNext

(* Executing an instruction keeps the invariant, and leaves I as it was    *)
(* unless the instruction is one of the five that write it.                *)
LEMMA StepExecuteInv ==
  ASSUME ProcInv, StepExecute
  PROVE  /\ ProcInv'
         /\ Entry.op \notin IWriters => ("I" \in regs'.sr <=> "I" \in regs.sr)
<1> DEFINE m == execute(fetched, Entry)
<1>1. Apply(m, "exec", Code) /\ last' = Did("exec", Code, m.cycles) BY DEF StepExecute, Apply
<1>2. /\ Code \in Byte /\ m \in Machines /\ Sound(regs, m.r)
      /\ Entry.op \notin IWriters => Keeps(regs, m.r)
  BY ExecuteStep
<1> HIDE DEF m
<1>3. regs' = m.r /\ mem' = m.mem BY <1>1 DEF Apply
<1>4. m.r \in Regs /\ m.mem \in Mems /\ m.cycles \in Nat BY <1>2 DEF Machines
<1>5. regs' \in Regs /\ MemType(mem') BY <1>3, <1>4, MemTypeMems
<1>6. last' \in Dids BY <1>1, <1>2, <1>4, DidType
<1>7. /\ m_nmi_pending' \in BOOLEAN /\ m_irq_line' \in BOOLEAN /\ noNmi' \in BOOLEAN
  BY ProcInvParts, Zenon DEF StepExecute, lines
<1>8. m_i_flag_delayed' \in BOOLEAN /\ m_i_flag_before' \in BOOLEAN
  <2> DEFINE late == Code \in DelayedCodes
             on   == "I" \in regs.sr
  <2>1. m_i_flag_delayed' = late /\ m_i_flag_before' = on BY DEF StepExecute
  <2>2. late \in BOOLEAN /\ on \in BOOLEAN OBVIOUS
  <2> QED BY <2>1, <2>2
<1>9. ProcInv' BY <1>5, <1>6, <1>7, <1>8, ProcInvNext
<1>10. Entry.op \notin IWriters => ("I" \in regs'.sr <=> "I" \in regs.sr)
  BY <1>2, <1>3 DEF Keeps
<1> QED BY <1>9, <1>10

(* The lines, a reset, the host's wiring and the first half of a step keep *)
(* the invariant.                                                          *)
LEMMA OthersInv ==
  ASSUME ProcInv,
         FindNoNmi \/ nmi \/ (\E b \in BOOLEAN : irq(b)) \/ start \/ HostDisableDecimal
  PROVE  ProcInv'
<1>1. CASE FindNoNmi BY <1>1, ProcInvParts, ProcInvNext, Zenon DEF FindNoNmi, lines, delay
<1>2. CASE nmi BY <1>2, ProcInvParts, ProcInvNext, Zenon DEF nmi, delay
<1>3. ASSUME NEW b \in BOOLEAN, irq(b) PROVE ProcInv'
  BY <1>3, ProcInvParts, ProcInvNext, Zenon DEF irq, delay
<1>4. CASE start
  <2>1. regs' \in Regs BY <1>4, ProcInvParts, ResetType DEF start
  <2>2. 0 \in Byte BY ByteIs, SMT
  <2>3. 7 \in Nat OBVIOUS
  <2>4. last' \in Dids BY <1>4, <2>2, <2>3, DidType DEF start
  <2> QED BY <1>4, <2>1, <2>4, ProcInvParts, ProcInvNext, Zenon DEF start
<1>5. CASE HostDisableDecimal
  <2>1. regs \in Regs BY ProcInvParts
  <2>2. ASSUME NEW c \in BOOLEAN PROVE [regs EXCEPT !.decimalDisabled = c] \in Regs
    BY <2>1, SMT DEF Regs, Registers
  <2>3. regs' \in Regs BY <1>5, <2>2, Zenon DEF HostDisableDecimal
  <2> QED BY <1>5, <2>3, ProcInvParts, ProcInvNext, Zenon DEF HostDisableDecimal, lines, delay
<1> QED BY <1>1, <1>2, <1>3, <1>4, <1>5

(* The invariant is inductive.                                             *)
LEMMA NextInv ==
  ASSUME ProcInv, [Next]_vars
  PROVE  ProcInv'
<1>1. CASE UNCHANGED vars
  BY <1>1, ProcInvParts, ProcInvNext, Zenon DEF vars, lines, delay
<1> QED BY <1>1, StepNmiInv, StepIrqInv, StepExecuteInv, OthersInv DEF Next, step

(* Registers, memory, lines and charges keep their C++ types under every   *)
(* program: no pc, sp or status byte leaves its width in any sequence of   *)
(* instructions, interrupts and resets.                                    *)
THEOREM TypeCorrect == Spec => []TypeOK
<1>1. ProcInv => TypeOK BY DEF ProcInv
<1> QED BY <1>1, InitInv, NextInv, PTL DEF Spec

(* B is never a bit of the status register and bit 5 always is, whatever   *)
(* status bytes a program leaves on its stack for PLP and RTI.             *)
THEOREM StatusBitsHold == Spec => []StatusBits
<1>1. ProcInv => StatusBits BY DEF ProcInv
<1> QED BY <1>1, InitInv, NextInv, PTL DEF Spec

(* No instruction but CLI, SEI, PLP, RTI and BRK moves the I flag, the     *)
(* codes step() delays are the first three, and none touches the decimal   *)
(* wiring: in every state, for the instruction at pc.                      *)
THEOREM IWritersAreKnown == Spec => []OnlyTheseWriteI
<1>1. ASSUME ProcInv PROVE OnlyTheseWriteI
  <2>1. /\ Code \in Byte /\ Sound(regs, After.r)
        /\ Entry.op \notin IWriters => Keeps(regs, After.r)
    BY <1>1, ExecuteStep DEF After
  <2>2. Entry.op \in {"CLI", "SEI", "PLP"} => Code \in DelayedCodes
    BY <2>1, TableType DEF Entry
  <2>3. ("I" \in After.r.sr) # ("I" \in regs.sr) => Entry.op \in IWriters BY <2>1 DEF Keeps
  <2> QED BY <2>1, <2>2, <2>3 DEF OnlyTheseWriteI, IWriters, Sound
<1> QED BY <1>1, InitInv, NextInv, PTL DEF Spec

-----------------------------------------------------------------------------
(* The refinement.  The gate's flags, as the processor computes them.      *)
On == "I" \in regs.sr

(* Neither the flag nor the boundary changes when no step is taken.        *)
LEMMA MappingUnchanged ==
  ASSUME UNCHANGED <<regs, delay, last>>
  PROVE  UNCHANGED <<On, masked, Boundary>>
  BY DEF On, masked, Boundary, delay

(* After an interrupt or a reset the flag is on and polled as it is.       *)
LEMMA Entered ==
  ASSUME ProcInv, "I" \in regs'.sr, m_i_flag_delayed' = FALSE,
         NEW what \in {"start", "nmi", "irq"}, NEW code, NEW c, last' = Did(what, code, c)
  PROVE  On' = TRUE /\ masked' = TRUE /\ Boundary' = what
<1>1. On' = TRUE BY DEF On
<1>2. masked' = TRUE BY DEF masked
<1>3. last'.did = what BY DEF Did
<1>4. Boundary' = what BY <1>3 DEF Boundary
<1> QED BY <1>1, <1>2, <1>4

(* After an instruction the polled flag is the old one exactly if the      *)
(* boundary is late, and the flag has moved only if it is not plain.       *)
LEMMA Executed ==
  ASSUME ProcInv, StepExecute
  PROVE  /\ Boundary' \in {"late", "early", "plain"}
         /\ Boundary' = "plain" => On' = On
         /\ masked' = IF Boundary' = "late" THEN On ELSE On'
<1>1. Code \in Byte BY ExecuteStep
<1>2. Entry.op \in {"CLI", "SEI", "PLP"} <=> Code \in DelayedCodes BY <1>1, TableType DEF Entry
<1>3. last'.did = "exec" /\ last'.code = Code BY DEF StepExecute, Apply, Did
<1>4. Boundary' = CASE Entry.op \in {"CLI", "SEI", "PLP"} -> "late"
                    [] Entry.op \in {"RTI", "BRK"} -> "early"
                    [] OTHER -> "plain"
  BY <1>3 DEF Boundary, Entry
<1>5. Boundary' \in {"late", "early", "plain"} /\ (Boundary' = "late" <=> Code \in DelayedCodes)
      /\ (Boundary' = "plain" => Entry.op \notin IWriters)
  BY <1>2, <1>4 DEF IWriters
<1>6. Boundary' = "plain" => On' = On BY <1>5, StepExecuteInv DEF On
<1>7. masked' = IF Code \in DelayedCodes THEN On ELSE On'
  BY Zenon DEF masked, On, StepExecute
<1> QED BY <1>5, <1>6, <1>7

(* Every step of the processor is a step of the gate or leaves it alone.   *)
LEMMA StepRefines ==
  ASSUME ProcInv, [Next]_vars
  PROVE  [Gate!GateNext]_(Gate!gateVars)
<1> USE DEF Gate!GateNext, Gate!gateVars
<1>1. CASE StepNmi
  <2>1. On' = TRUE /\ masked' = TRUE /\ Boundary' = "nmi"
    BY <1>1, StepNmiInv, Entered DEF StepNmi, Apply
  <2>2. noNmi' = FALSE BY <1>1, ProcInvParts, Zenon DEF StepNmi
  <2> QED BY <1>1, <2>1, <2>2, Zenon DEF StepNmi, Gate!TakeNmi, Gate!Enter, On
<1>2. CASE FindNoNmi
  <2>1. UNCHANGED <<On, masked, Boundary>> BY <1>2, MappingUnchanged DEF FindNoNmi
  <2> QED BY <1>2, <2>1, Zenon DEF FindNoNmi, Gate!Look, On, lines
<1>3. CASE StepIrq
  <2>1. On' = TRUE /\ masked' = TRUE /\ Boundary' = "irq"
    BY <1>3, StepIrqInv, Entered DEF StepIrq, Apply
  <2> QED BY <1>3, <2>1, Zenon DEF StepIrq, Gate!TakeIrq, Gate!Enter, On, lines
<1>4. CASE StepExecute
  <2>1. On' \in BOOLEAN BY DEF On
  <2> QED BY <1>4, <2>1, Executed, Zenon DEF StepExecute, Gate!Instruction, Gate!Kinds, On, lines
<1>5. CASE nmi
  <2>1. UNCHANGED <<On, masked, Boundary>> BY <1>5, MappingUnchanged DEF nmi
  <2> QED BY <1>5, <2>1, Zenon DEF nmi, Gate!RaiseNmi, On
<1>6. ASSUME NEW b \in BOOLEAN, irq(b) PROVE Gate!DriveIrq
  <2>1. UNCHANGED <<On, masked, Boundary>> BY <1>6, MappingUnchanged DEF irq
  <2> QED BY <1>6, <2>1, Zenon DEF irq, Gate!DriveIrq, On
<1>7. CASE start
  <2>1. "I" \in regs'.sr BY <1>7, ProcInvParts, ResetType DEF start
  <2>2. On' = TRUE /\ masked' = TRUE /\ Boundary' = "start"
    BY <1>7, <2>1, Entered DEF start
  <2>3. noNmi' = FALSE BY <1>7, ProcInvParts, Zenon DEF start
  <2> QED BY <1>7, <2>2, <2>3, Zenon DEF start, Gate!Reset, Gate!Enter, On
<1>8. CASE HostDisableDecimal
  <2>1. regs'.sr = regs.sr
    BY <1>8, ProcInvParts, SMT DEF HostDisableDecimal, Regs, Registers
  <2>2. UNCHANGED <<On, masked, Boundary>>
    BY <1>8, <2>1 DEF HostDisableDecimal, On, masked, Boundary, delay
  <2> QED BY <1>8, <2>2, Zenon DEF HostDisableDecimal, On, lines
<1>9. CASE UNCHANGED vars
  <2>1. UNCHANGED <<On, masked, Boundary>> BY <1>9, MappingUnchanged DEF vars
  <2> QED BY <1>9, <2>1, Zenon DEF vars, lines, On
<1> QED BY <1>1, <1>2, <1>3, <1>4, <1>5, <1>6, <1>7, <1>8, <1>9 DEF Next, step

(* The started processor is in the gate's initial state.                   *)
LEMMA InitRefines == Init => Gate!GateInit
<1> SUFFICES ASSUME Init PROVE Gate!GateInit OBVIOUS
<1>1. MemType(mem) BY ImageAssumption DEF Init
<1>2. "I" \in regs.sr BY <1>1, ResetType DEF Init
<1>3. Boundary = "start" BY DEF Init, Did, Boundary
<1>4. masked = TRUE BY <1>2 DEF Init, masked
<1> QED BY <1>2, <1>3, <1>4, Zenon DEF Init, Gate!GateInit

(* The processor implements the gate, whatever program it runs: an NMI is  *)
(* taken at the next boundary that looks, an IRQ exactly when its line is  *)
(* held and the I flag the instruction polled was clear.                   *)
THEOREM GateImplemented == Spec => ImplementsGate
<1>1. [](ProcInv) /\ [][Next]_vars => [][Gate!GateNext]_(Gate!gateVars) BY StepRefines, PTL
<1>2. Spec => []ProcInv BY InitInv, NextInv, PTL DEF Spec
<1> QED BY <1>1, <1>2, InitRefines, PTL DEF Spec, ImplementsGate, Gate!GateSpec
=============================================================================
