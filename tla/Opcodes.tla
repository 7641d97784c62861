------------------------------ MODULE Opcodes ------------------------------
(***************************************************************************)
(* Processor::_instruction_table: for each opcode the instruction class,   *)
(* its addressing mode and its base cycle count.  The four instantiations  *)
(* of SHx_Impl carry the names the disassembler gives them.                *)
(***************************************************************************)
EXTENDS Addressing

E(op, mode, cycles) == [op |-> op, mode |-> mode, cycles |-> cycles]

Rows00To7F ==
  <<
  E("BRK","nul",7), E("ORA","izx",6), E("KIL","nul",3), E("SLO","izx",8),
  E("NOPR","zp",3), E("ORA","zp",3), E("ASL","zp",5), E("SLO","zp",5),
  E("PHP","nul",3), E("ORA","imm",2), E("ASL","acc",2), E("ANC","imm",2),
  E("NOPR","abs",4), E("ORA","abs",4), E("ASL","abs",6), E("SLO","abs",6),
  E("BPL","rel",2), E("ORA","izy",5), E("KIL","nul",3), E("SLO","izy",8),
  E("NOPR","zpx",4), E("ORA","zpx",4), E("ASL","zpx",6), E("SLO","zpx",6),
  E("CLC","nul",2), E("ORA","aby",4), E("NOP","nul",2), E("SLO","aby",7),
  E("NOPR","abx",4), E("ORA","abx",4), E("ASL","abx",7), E("SLO","abx",7),
  E("JSR","abc",6), E("AND","izx",6), E("KIL","nul",3), E("RLA","izx",8),
  E("BIT","zp",3), E("AND","zp",3), E("ROL","zp",5), E("RLA","zp",5),
  E("PLP","nul",4), E("AND","imm",2), E("ROL","acc",2), E("ANC","imm",2),
  E("BIT","abs",4), E("AND","abs",4), E("ROL","abs",6), E("RLA","abs",6),
  E("BMI","rel",2), E("AND","izy",5), E("KIL","nul",3), E("RLA","izy",8),
  E("NOPR","zpx",4), E("AND","zpx",4), E("ROL","zpx",6), E("RLA","zpx",6),
  E("SEC","nul",2), E("AND","aby",4), E("NOP","nul",2), E("RLA","aby",7),
  E("NOPR","abx",4), E("AND","abx",4), E("ROL","abx",7), E("RLA","abx",7),
  E("RTI","nul",6), E("EOR","izx",6), E("KIL","nul",3), E("SRE","izx",8),
  E("NOPR","zp",3), E("EOR","zp",3), E("LSR","zp",5), E("SRE","zp",5),
  E("PHA","nul",3), E("EOR","imm",2), E("LSR","acc",2), E("ALR","imm",2),
  E("JMP","abc",3), E("EOR","abs",4), E("LSR","abs",6), E("SRE","abs",6),
  E("BVC","rel",2), E("EOR","izy",5), E("KIL","nul",3), E("SRE","izy",8),
  E("NOPR","zpx",4), E("EOR","zpx",4), E("LSR","zpx",6), E("SRE","zpx",6),
  E("CLI","nul",2), E("EOR","aby",4), E("NOP","nul",2), E("SRE","aby",7),
  E("NOPR","abx",4), E("EOR","abx",4), E("LSR","abx",7), E("SRE","abx",7),
  E("RTS","nul",6), E("ADC","izx",6), E("KIL","nul",3), E("RRA","izx",8),
  E("NOPR","zp",3), E("ADC","zp",3), E("ROR","zp",5), E("RRA","zp",5),
  E("PLA","nul",4), E("ADC","imm",2), E("ROR","acc",2), E("ARR","imm",2),
  E("JMP","ind",5), E("ADC","abs",4), E("ROR","abs",6), E("RRA","abs",6),
  E("BVS","rel",2), E("ADC","izy",5), E("KIL","nul",3), E("RRA","izy",8),
  E("NOPR","zpx",4), E("ADC","zpx",4), E("ROR","zpx",6), E("RRA","zpx",6),
  E("SEI","nul",2), E("ADC","aby",4), E("NOP","nul",2), E("RRA","aby",7),
  E("NOPR","abx",4), E("ADC","abx",4), E("ROR","abx",7), E("RRA","abx",7) >>

Rows80ToFF ==
  <<
  E("NOP","imm",2), E("STA","izx",6), E("NOP","imm",2), E("SAX","izx",6),
  E("STY","zp",3), E("STA","zp",3), E("STX","zp",3), E("SAX","zp",3),
  E("DEY","nul",2), E("NOP","imm",2), E("TXA","nul",2), E("XAA","imm",2),
  E("STY","abs",4), E("STA","abs",4), E("STX","abs",4), E("SAX","abs",4),
  E("BCC","rel",2), E("STA","izy",6), E("KIL","nul",3), E("SHA","izy",6),
  E("STY","zpx",4), E("STA","zpx",4), E("STX","zpy",4), E("SAX","zpy",4),
  E("TYA","nul",2), E("STA","aby",5), E("TXS","nul",2), E("TAS","aby",5),
  E("SHY","abx",5), E("STA","abx",5), E("SHX","aby",5), E("SHA","aby",5),
  E("LDY","imm",2), E("LDA","izx",6), E("LDX","imm",2), E("LAX","izx",6),
  E("LDY","zp",3), E("LDA","zp",3), E("LDX","zp",3), E("LAX","zp",3),
  E("TAY","nul",2), E("LDA","imm",2), E("TAX","nul",2), E("LAX","imm",2),
  E("LDY","abs",4), E("LDA","abs",4), E("LDX","abs",4), E("LAX","abs",4),
  E("BCS","rel",2), E("LDA","izy",5), E("KIL","nul",3), E("LAX","izy",5),
  E("LDY","zpx",4), E("LDA","zpx",4), E("LDX","zpy",4), E("LAX","zpy",4),
  E("CLV","nul",2), E("LDA","aby",4), E("TSX","nul",2), E("LAS","aby",4),
  E("LDY","abx",4), E("LDA","abx",4), E("LDX","aby",4), E("LAX","aby",4),
  E("CPY","imm",2), E("CMP","izx",6), E("NOP","imm",2), E("DCP","izx",8),
  E("CPY","zp",3), E("CMP","zp",3), E("DEC","zp",5), E("DCP","zp",5),
  E("INY","nul",2), E("CMP","imm",2), E("DEX","nul",2), E("SBX","imm",2),
  E("CPY","abs",4), E("CMP","abs",4), E("DEC","abs",6), E("DCP","abs",6),
  E("BNE","rel",2), E("CMP","izy",5), E("KIL","nul",3), E("DCP","izy",8),
  E("NOPR","zpx",4), E("CMP","zpx",4), E("DEC","zpx",6), E("DCP","zpx",6),
  E("CLD","nul",2), E("CMP","aby",4), E("NOP","nul",2), E("DCP","aby",7),
  E("NOPR","abx",4), E("CMP","abx",4), E("DEC","abx",7), E("DCP","abx",7),
  E("CPX","imm",2), E("SBC","izx",6), E("NOP","imm",2), E("ISC","izx",8),
  E("CPX","zp",3), E("SBC","zp",3), E("INC","zp",5), E("ISC","zp",5),
  E("INX","nul",2), E("SBC","imm",2), E("NOP","nul",2), E("SBC","imm",2),
  E("CPX","abs",4), E("SBC","abs",4), E("INC","abs",6), E("ISC","abs",6),
  E("BEQ","rel",2), E("SBC","izy",5), E("KIL","nul",3), E("ISC","izy",8),
  E("NOPR","zpx",4), E("SBC","zpx",4), E("INC","zpx",6), E("ISC","zpx",6),
  E("SED","nul",2), E("SBC","aby",4), E("NOP","nul",2), E("ISC","aby",7),
  E("NOPR","abx",4), E("SBC","abx",4), E("INC","abx",7), E("ISC","abx",7) >>

instruction_table == [code \in Byte |->
  IF code < 128 THEN Rows00To7F[code + 1] ELSE Rows80ToFF[code - 127]]
=============================================================================
