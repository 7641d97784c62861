---------------------------- MODULE Instructions ----------------------------
(***************************************************************************)
(* The instruction classes of InstructionImpl.h.  execute(m, e) is what    *)
(* the execute() of table entry e does to the machine m; m.cycles is the   *)
(* number it returns.  The classes fall into families that differ only in  *)
(* the arithmetic, so each family is one operator.                         *)
(***************************************************************************)
EXTENDS Opcodes

ReadOps   == {"ADC", "SBC", "AND", "ORA", "EOR", "LDA", "LDX", "LDY", "CMP", "CPX",
              "CPY", "BIT", "NOPR", "LAX", "LAS", "ANC", "ALR", "ARR", "SBX", "XAA"}
ExtraOps  == {"ADC", "SBC", "AND", "ORA", "EOR", "LDA", "LDX", "LDY", "CMP",
              "NOPR", "LAX", "LAS"}             \* return cycles + extraCycles()
LeftOps   == {"ASL", "SLO", "ROL", "RLA"}
RightOps  == {"LSR", "SRE", "ROR", "RRA"}
RmwOps    == LeftOps \cup RightOps \cup {"INC", "ISC", "DEC", "DCP"}
StoreOps  == {"STA", "STX", "STY", "SAX"}
ShxOps    == {"SHA", "SHX", "SHY", "TAS"}
BranchOps == {"BCC", "BCS", "BEQ", "BNE", "BMI", "BPL", "BVC", "BVS"}
ImpliedOps == {"CLC", "CLD", "CLI", "CLV", "SEC", "SED", "SEI", "TAX", "TAY", "TSX",
               "TXA", "TXS", "TYA", "INX", "INY", "DEX", "DEY"}
ControlOps == {"BRK", "JMP", "JSR", "RTI", "RTS", "PHA", "PHP", "PLA", "PLP", "NOP", "KIL"}
Op == ReadOps \cup RmwOps \cup StoreOps \cup ShxOps \cup BranchOps \cup ImpliedOps
        \cup ControlOps

(* A register is loaded and N, Z follow it.                                *)
SetA(r, val) == setNZ([r EXCEPT !.a = val], val)
SetX(r, val) == setNZ([r EXCEPT !.x = val], val)
SetY(r, val) == setNZ([r EXCEPT !.y = val], val)
SetFlag(r, flag, v) == [r EXCEPT !.sr = setStatus(@, flag, v)]

-----------------------------------------------------------------------------
(* Instructions that read an operand: what they do with its value.         *)
Load(op, r, v) ==
  CASE op = "LDA" -> SetA(r, v)
    [] op = "LDX" -> SetX(r, v)
    [] op = "LDY" -> SetY(r, v)

Compare(op, r, v) ==
  CASE op = "CMP" -> cmpCore(r, r.a, v)
    [] op = "CPX" -> cmpCore(r, r.x, v)
    [] op = "CPY" -> cmpCore(r, r.y, v)

BIT(r, v) ==
  SetFlag(SetFlag(SetFlag(r, "V", Has(v, 64)), "N", Has(v, 128)), "Z", And(v, r.a) = 0)

UndocumentedRead(op, r, v) ==
  CASE op = "ANC" -> LET w == And(r.a, v) IN SetFlag(SetA(r, w), "C", Has(w, 128))
    [] op = "ALR" -> LET w == And(r.a, v) IN SetA(SetFlag(r, "C", Has(w, 1)), w \div 2)
    [] op = "ARR" -> LET w == (And(r.a, v) \div 2) + IfBit(getStatus(r, "C"), 128)
                     IN  SetFlag(SetFlag(SetA(r, w), "C", Has(w, 64)),
                                 "V", Has(w, 64) # Has(w, 32))
    [] op = "SBX" -> LET w == And(r.a, r.x)
                     IN  SetX(SetFlag(r, "C", w >= v), Wrap8(w - v))
    [] op = "LAS" -> LET w == And(v, r.sp) IN SetA([r EXCEPT !.x = w, !.sp = w], w)

ReadEffect(op, r, v) ==
  CASE op = "ADC" -> adcCore(r, v)
    [] op = "SBC" -> sbcCore(r, v)
    [] op = "AND" -> SetA(r, And(r.a, v))
    [] op = "ORA" -> SetA(r, Or(r.a, v))
    [] op = "EOR" -> SetA(r, Xor(r.a, v))
    [] op \in {"LDA", "LDX", "LDY"} -> Load(op, r, v)
    [] op \in {"CMP", "CPX", "CPY"} -> Compare(op, r, v)
    [] op = "BIT" -> BIT(r, v)
    [] op = "NOPR" -> r
    [] op = "LAX" -> SetA([r EXCEPT !.x = v], v)
    [] op = "XAA" -> SetA(r, And(And(Or(r.a, 238), r.x), v))
    [] op \in {"ANC", "ALR", "ARR", "SBX", "LAS"} -> UndocumentedRead(op, r, v)

UseOperand(got, e) ==
  [got EXCEPT !.r = ReadEffect(e.op, got.r, got.v),
              !.cycles = e.cycles + IF e.op \in ExtraOps THEN extraCycles(got) ELSE 0]

readOperand(m, e) == UseOperand(get8bit(init(m, e.mode), e.mode), e)

-----------------------------------------------------------------------------
(* Read-modify-write: the byte to store, and the flags and accumulator.    *)
RmwValue(op, r, orig) ==
  CASE op \in {"ASL", "SLO"} -> Lo(2 * orig)
    [] op \in {"ROL", "RLA"} -> Lo(2 * orig) + Carry(r)
    [] op \in {"LSR", "SRE"} -> orig \div 2
    [] op \in {"ROR", "RRA"} -> (orig \div 2) + 128 * Carry(r)
    [] op \in {"INC", "ISC"} -> Wrap8(orig + 1)
    [] op \in {"DEC", "DCP"} -> Wrap8(orig - 1)

RmwEffect(op, r, orig, val) ==
  LET s == CASE op \in LeftOps  -> SetFlag(r, "C", Has(orig, 128))
             [] op \in RightOps -> SetFlag(r, "C", Has(orig, 1))
             [] OTHER -> r
  IN  CASE op \in {"ASL", "LSR", "ROL", "ROR", "INC", "DEC"} -> setNZ(s, val)
        [] op = "SLO" -> SetA(s, Or(s.a, val))
        [] op = "RLA" -> SetA(s, And(s.a, val))
        [] op = "SRE" -> SetA(s, Xor(s.a, val))
        [] op = "RRA" -> adcCore(s, val)
        [] op = "ISC" -> sbcCore(s, val)
        [] op = "DCP" -> cmpCore(s, s.a, val)

rmwStoreOnce(m, mode, orig, val) == set8bit(m, mode, val)
rmwStore(m, mode, orig, val) == set8bit(set8bit(m, mode, orig), mode, val)

ModifyWrite(got, e) ==
  LET val == RmwValue(e.op, got.r, got.v)
      mod == [got EXCEPT !.r = RmwEffect(e.op, got.r, got.v, val), !.cycles = e.cycles]
  IN  rmwStore(mod, e.mode, got.v, val)

readModifyWrite(m, e) ==
  ModifyWrite(get8bit(dummyRead(init(m, e.mode), e.mode), e.mode), e)

-----------------------------------------------------------------------------
(* Stores always spend the indexing cycle on the bus; the SHx family does  *)
(* not, and ANDs the register with the high byte of the base plus one.     *)
StoreValue(op, r) ==
  CASE op = "STA" -> r.a
    [] op \in {"STX", "SHX"} -> r.x
    [] op \in {"STY", "SHY"} -> r.y
    [] op \in {"SAX", "SHA", "TAS"} -> And(r.a, r.x)

StoreRegister(dum, e) ==
  [set8bit(dum, e.mode, StoreValue(e.op, dum.r)) EXCEPT !.cycles = e.cycles]

store(m, e) == StoreRegister(dummyRead(init(m, e.mode), e.mode), e)

StoreMasked(got, e, src) ==
  LET hi == Wrap8(Hi(base(got, e.mode)) + 1)
  IN  [set8bit(got, e.mode, And(src, hi)) EXCEPT !.cycles = e.cycles]

StoreShxFrom(ini, e) ==
  LET src == StoreValue(e.op, ini.r)
      sp  == IF e.op = "TAS" THEN [ini EXCEPT !.r.sp = src] ELSE ini
  IN  StoreMasked(resolve(sp, e.mode), e, src)

storeShx(m, e) == StoreShxFrom(init(m, e.mode), e)

-----------------------------------------------------------------------------
(* Conditional branches: the flag tested and the value that takes them.    *)
BranchTaken(op, r) ==
  CASE op = "BCC" -> ~getStatus(r, "C")
    [] op = "BCS" -> getStatus(r, "C")
    [] op = "BNE" -> ~getStatus(r, "Z")
    [] op = "BEQ" -> getStatus(r, "Z")
    [] op = "BPL" -> ~getStatus(r, "N")
    [] op = "BMI" -> getStatus(r, "N")
    [] op = "BVC" -> ~getStatus(r, "V")
    [] op = "BVS" -> getStatus(r, "V")

BranchFrom(got, e) ==
  LET target == Wrap16(got.r.pc + got.v - IfBit(Has(got.v, 128), 256))
      extra  == 1 + IfBit(Hi(got.r.pc) # Hi(target), 1)
  IN  IF BranchTaken(e.op, got.r)
      THEN [got EXCEPT !.r.pc = target, !.cycles = e.cycles + extra]
      ELSE [got EXCEPT !.cycles = e.cycles]

branch(m, e) == BranchFrom(get8bit(init(m, e.mode), e.mode), e)

-----------------------------------------------------------------------------
(* Flag, transfer and register arithmetic instructions.                    *)
ClearOrSet(op, r) ==
  CASE op = "CLC" -> SetFlag(r, "C", FALSE)
    [] op = "CLD" -> SetFlag(r, "D", FALSE)
    [] op = "CLI" -> SetFlag(r, "I", FALSE)
    [] op = "CLV" -> SetFlag(r, "V", FALSE)
    [] op = "SEC" -> SetFlag(r, "C", TRUE)
    [] op = "SED" -> SetFlag(r, "D", TRUE)
    [] op = "SEI" -> SetFlag(r, "I", TRUE)

Transfer(op, r) ==
  CASE op = "TAX" -> SetX(r, r.a)
    [] op = "TAY" -> SetY(r, r.a)
    [] op = "TSX" -> SetX(r, r.sp)
    [] op = "TXA" -> SetA(r, r.x)
    [] op = "TXS" -> [r EXCEPT !.sp = r.x]
    [] op = "TYA" -> SetA(r, r.y)

ImpliedEffect(op, r) ==
  CASE op \in {"CLC", "CLD", "CLI", "CLV", "SEC", "SED", "SEI"} -> ClearOrSet(op, r)
    [] op \in {"TAX", "TAY", "TSX", "TXA", "TXS", "TYA"} -> Transfer(op, r)
    [] op = "INX" -> SetX(r, Wrap8(r.x + 1))
    [] op = "INY" -> SetY(r, Wrap8(r.y + 1))
    [] op = "DEX" -> SetX(r, Wrap8(r.x - 1))
    [] op = "DEY" -> SetY(r, Wrap8(r.y - 1))

(* A status byte pushed by software carries B; one that is pulled loses B  *)
(* and always has bit 5.                                                   *)
PushedSr(r) == SrByte(r.sr \cup {"B", "U"})
PulledSr(v) == (SrFlags(v) \ {"B"}) \cup {"U"}

JumpToRead(got) == [got EXCEPT !.r.pc = got.v]

vector(m, ad) == JumpToRead(read16(m, ad, ad + 1))

BRK(m) ==
  LET pushed == push8(push16(m, Wrap16(m.r.pc + 1)), PushedSr(m.r))
  IN  vector([pushed EXCEPT !.r.sr = @ \cup {"I"}], 65534)

JMP(m, mode) == JumpToRead(get16bit(init(m, mode), mode))

CallPushesNext(got) == [push16(got, got.r.pc) EXCEPT !.r.pc = got.v]
Call(got) == [push16(got, Wrap16(got.r.pc - 1)) EXCEPT !.r.pc = got.v]
JSR(m, mode) == Call(get16bit(init(m, mode), mode))

RTIKeepsB(m) ==
  LET s == pop8(m) IN JumpToRead(pop16([s EXCEPT !.r.sr = SrFlags(s.v) \cup {"U"}]))
RTI(m) ==
  LET s == pop8(m) IN JumpToRead(pop16([s EXCEPT !.r.sr = PulledSr(s.v)]))

RTS(m) == LET p == pop16(m) IN [p EXCEPT !.r.pc = Wrap16(p.v + 1)]
PLA(m) == LET p == pop8(m) IN [p EXCEPT !.r = SetA(p.r, p.v)]
PLP(m) == LET p == pop8(m) IN [p EXCEPT !.r.sr = PulledSr(p.v)]
KIL(m) == [m EXCEPT !.r.pc = Wrap16(@ - 1)]

control(m, e) ==
  LET done == CASE e.op = "BRK" -> BRK(m)
                [] e.op = "JMP" -> JMP(m, e.mode)
                [] e.op = "JSR" -> JSR(m, e.mode)
                [] e.op = "RTI" -> RTI(m)
                [] e.op = "RTS" -> RTS(m)
                [] e.op = "PHA" -> push8(m, m.r.a)
                [] e.op = "PHP" -> push8(m, PushedSr(m.r))
                [] e.op = "PLA" -> PLA(m)
                [] e.op = "PLP" -> PLP(m)
                [] e.op = "NOP" -> init(m, e.mode)
                [] e.op = "KIL" -> KIL(m)
  IN  [done EXCEPT !.cycles = e.cycles]

-----------------------------------------------------------------------------
execute(m, e) ==
  CASE e.op \in ReadOps    -> readOperand(m, e)
    [] e.op \in RmwOps     -> readModifyWrite(m, e)
    [] e.op \in StoreOps   -> store(m, e)
    [] e.op \in ShxOps     -> storeShx(m, e)
    [] e.op \in BranchOps  -> branch(m, e)
    [] e.op \in ImpliedOps -> [m EXCEPT !.r = ImpliedEffect(e.op, m.r), !.cycles = e.cycles]
    [] e.op \in ControlOps -> control(m, e)

(* The machine at the start of a step.                                     *)
Machine(r, mem) == [r |-> r, mem |-> mem, log |-> <<>>, p |-> NewParams, v |-> 0, cycles |-> 0]
=============================================================================
