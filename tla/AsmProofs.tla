------------------------------ MODULE AsmProofs ------------------------------
(***************************************************************************)
(* The assembler for every source, of any length, and every base address.  *)
(*                                                                         *)
(* The proofs have four parts: the assembler's table and its addressing    *)
(* types agree with the processor's table and the documented grammar (so   *)
(* that a line is accepted exactly if it is documented); the lines that    *)
(* getline() splits off have the numbers a reader of the source gives them *)
(* (SplitInv, LoopInv), so that an error names the right one; what is      *)
(* emitted for a line reads back as that line; and the image keeps what    *)
(* was emitted (ImageInv), as long as it does not wrap onto itself.        *)
(***************************************************************************)
EXTENDS MCAsm, FiniteSetTheorems, TLAPS

-----------------------------------------------------------------------------
(* The assembler's table against the processor's.                          *)

(* The types that each name of the assembler's table has an opcode for.    *)
AluKeys(n, t) ==
  n \in {"ADC", "AND", "CMP", "EOR", "LDA", "ORA", "SBC"} =>
    t \in {"imm", "zp", "zpx", "abs", "abx", "aby", "izx", "izy"}
ShiftKeys(n, t) ==
  n \in {"ASL", "LSR", "ROL", "ROR"} =>
    t \in {"acc", "zp", "zpx", "abs", "abx"}
CountKeys(n, t) ==
  n \in {"DEC", "INC"} =>
    t \in {"zp", "zpx", "abs", "abx"}
CompareKeys(n, t) ==
  /\ n \in {"BIT"} => t \in {"zp", "abs"}
  /\ n \in {"CPX", "CPY"} => t \in {"imm", "zp", "abs"}
LoadKeys(n, t) ==
  /\ n \in {"LDX"} => t \in {"imm", "zp", "zpy", "abs", "aby"}
  /\ n \in {"LDY"} => t \in {"imm", "zp", "zpx", "abs", "abx"}
StoreKeys(n, t) ==
  /\ n \in {"STA"} => t \in {"zp", "zpx", "abs", "abx", "aby", "izx", "izy"}
  /\ n \in {"STX"} => t \in {"zp", "zpy", "abs"}
  /\ n \in {"STY"} => t \in {"zp", "zpx", "abs"}
JumpKeys(n, t) ==
  /\ n \in {"JMP"} => t \in {"abs", "ind"}
  /\ n \in {"JSR"} => t \in {"abs"}
BranchKeys(n, t) ==
  n \in {"BCC", "BCS", "BEQ", "BMI", "BNE", "BPL", "BVC", "BVS"} =>
    t \in {"rel"}
ImpliedKeys(n, t) ==
  n \in {"BRK", "CLC", "CLD", "CLI", "CLV", "DEX", "DEY", "INX", "INY", "NOP", "PHA", "PHP", "PLA",
        "PLP", "RTI", "RTS", "SEC", "SED", "SEI", "TAX", "TAY", "TSX", "TXA", "TXS", "TYA"} =>
    t \in {"nul"}
MapperKeys(n, t) ==
  /\ n \in DOMAIN instruction_mapper
  /\ AluKeys(n, t) /\ ShiftKeys(n, t) /\ CountKeys(n, t) /\ CompareKeys(n, t) /\ LoadKeys(n, t)
  /\ StoreKeys(n, t) /\ JumpKeys(n, t) /\ BranchKeys(n, t) /\ ImpliedKeys(n, t)

(* The instruction table has instruction n with mode t at code.            *)
Is(n, t, code) ==
  code \in Byte /\ instruction_table[code].op = n /\ Written(instruction_table[code].mode) = t

(* By the bits aaa bbb cc, the opcodes that the disassembler takes to have *)
(* an operand of two bytes, of none and of one.                            *)
TwoBytes(code) ==
  LET b == (code \div 4) % 8 IN
  \/ code % 4 = 1 /\ b \in {3, 6, 7}
  \/ code % 4 \in {0, 2} /\ b \in {3, 7}
  \/ code = 32
NoBytes(code) ==
  \/ code % 4 \in {0, 2} /\ (code \div 4) % 8 \in {2, 6}
  \/ code \in {0, 64, 96}
OneByte(code) ==
  LET b == (code \div 4) % 8 IN
  \/ code % 4 = 1 /\ b \in {0, 1, 2, 4, 5}
  \/ code % 4 = 2 /\ b \in {1, 5}
  \/ code % 4 = 0 /\ b \in {1, 4, 5}
  \/ code % 4 \in {0, 2} /\ b = 0 /\ code >= 128

(* The disassembler expects the operand of mode t behind code.             *)
Sized(t, code) ==
  /\ t \in {"abs", "abx", "aby", "ind"} => TwoBytes(code)
  /\ t \in {"nul", "acc"} => NoBytes(code)
  /\ t \in {"imm", "zp", "zpx", "zpy", "izx", "izy", "rel"} => OneByte(code)

(* What the assembler's table has for n are opcodes of n.                  *)
Sound(n) ==
  \A t \in DOMAIN instruction_mapper[n] :
    Is(n, t, instruction_mapper[n][t]) /\ Sized(t, instruction_mapper[n][t])

(* The names of the assembler's table.                                     *)
LEMMA MapperNames ==
  DOMAIN instruction_mapper =
    {"ADC", "AND", "ASL", "BIT", "CMP", "CPX", "CPY", "DEC", "EOR", "INC", "JMP", "LDA", "LDX",
     "LDY", "LSR", "ORA", "ROL", "ROR", "SBC", "STA", "STX", "STY", "BCC", "BCS", "BEQ", "BMI",
     "BNE", "BPL", "BVC", "BVS", "BRK", "CLC", "CLD", "CLI", "CLV", "DEX", "DEY", "INX", "INY",
     "NOP", "PHA", "PHP", "PLA", "PLP", "RTI", "RTS", "SEC", "SED", "SEI", "TAX", "TAY", "TSX",
     "TXA", "TXS", "TYA", "JSR"}
  BY DEF instruction_mapper

(* The instructions that combine A with memory.                            *)
LEMMA AccumulatorCodes ==
  \A n \in {"ADC", "AND", "CMP", "EOR", "LDA", "ORA", "SBC"} :
    DOMAIN instruction_mapper[n] = {"imm", "zp", "zpx", "abs", "abx", "aby", "izx", "izy"} /\ Sound(n)
<1> DEFINE T == {"imm", "zp", "zpx", "abs", "abx", "aby", "izx", "izy"}
<1>1. DOMAIN instruction_mapper["ADC"] = T /\ Sound("ADC")
  <2>1. instruction_mapper["ADC"] = [imm |-> 105, zp |-> 101, zpx |-> 117, abs |-> 109, abx |-> 125,
                              aby |-> 121, izx |-> 97, izy |-> 113]
    BY DEF instruction_mapper
  <2>2. /\ Is("ADC", "imm", 105) /\ Is("ADC", "zp", 101)
        /\ Is("ADC", "zpx", 117) /\ Is("ADC", "abs", 109)
    BY SMTT(60) DEF Is, Byte, UINT8_MAX, instruction_table, Rows00To7F, E, Written
  <2>3. /\ Is("ADC", "abx", 125) /\ Is("ADC", "aby", 121)
        /\ Is("ADC", "izx", 97) /\ Is("ADC", "izy", 113)
    BY SMTT(60) DEF Is, Byte, UINT8_MAX, instruction_table, Rows00To7F, E, Written
  <2>4. Sized("imm", 105) /\ Sized("zp", 101) /\ Sized("zpx", 117) /\ Sized("abs", 109)
    BY SMT DEF Sized, TwoBytes, NoBytes, OneByte
  <2>5. Sized("abx", 125) /\ Sized("aby", 121) /\ Sized("izx", 97) /\ Sized("izy", 113)
    BY SMT DEF Sized, TwoBytes, NoBytes, OneByte
  <2> QED BY <2>1, <2>2, <2>3, <2>4, <2>5, SMT DEF Sound
<1>2. DOMAIN instruction_mapper["AND"] = T /\ Sound("AND")
  <2>1. instruction_mapper["AND"] = [imm |-> 41, zp |-> 37, zpx |-> 53, abs |-> 45, abx |-> 61,
                              aby |-> 57, izx |-> 33, izy |-> 49]
    BY DEF instruction_mapper
  <2>2. /\ Is("AND", "imm", 41) /\ Is("AND", "zp", 37)
        /\ Is("AND", "zpx", 53) /\ Is("AND", "abs", 45)
    BY SMTT(60) DEF Is, Byte, UINT8_MAX, instruction_table, Rows00To7F, E, Written
  <2>3. /\ Is("AND", "abx", 61) /\ Is("AND", "aby", 57)
        /\ Is("AND", "izx", 33) /\ Is("AND", "izy", 49)
    BY SMTT(60) DEF Is, Byte, UINT8_MAX, instruction_table, Rows00To7F, E, Written
  <2>4. Sized("imm", 41) /\ Sized("zp", 37) /\ Sized("zpx", 53) /\ Sized("abs", 45)
    BY SMT DEF Sized, TwoBytes, NoBytes, OneByte
  <2>5. Sized("abx", 61) /\ Sized("aby", 57) /\ Sized("izx", 33) /\ Sized("izy", 49)
    BY SMT DEF Sized, TwoBytes, NoBytes, OneByte
  <2> QED BY <2>1, <2>2, <2>3, <2>4, <2>5, SMT DEF Sound
<1>3. DOMAIN instruction_mapper["CMP"] = T /\ Sound("CMP")
  <2>1. instruction_mapper["CMP"] = [imm |-> 201, zp |-> 197, zpx |-> 213, abs |-> 205, abx |-> 221,
                              aby |-> 217, izx |-> 193, izy |-> 209]
    BY DEF instruction_mapper
  <2>2. /\ Is("CMP", "imm", 201) /\ Is("CMP", "zp", 197)
        /\ Is("CMP", "zpx", 213) /\ Is("CMP", "abs", 205)
    BY SMTT(60) DEF Is, Byte, UINT8_MAX, instruction_table, Rows80ToFF, E, Written
  <2>3. /\ Is("CMP", "abx", 221) /\ Is("CMP", "aby", 217)
        /\ Is("CMP", "izx", 193) /\ Is("CMP", "izy", 209)
    BY SMTT(60) DEF Is, Byte, UINT8_MAX, instruction_table, Rows80ToFF, E, Written
  <2>4. Sized("imm", 201) /\ Sized("zp", 197) /\ Sized("zpx", 213) /\ Sized("abs", 205)
    BY SMT DEF Sized, TwoBytes, NoBytes, OneByte
  <2>5. Sized("abx", 221) /\ Sized("aby", 217) /\ Sized("izx", 193) /\ Sized("izy", 209)
    BY SMT DEF Sized, TwoBytes, NoBytes, OneByte
  <2> QED BY <2>1, <2>2, <2>3, <2>4, <2>5, SMT DEF Sound
<1>4. DOMAIN instruction_mapper["EOR"] = T /\ Sound("EOR")
  <2>1. instruction_mapper["EOR"] = [imm |-> 73, zp |-> 69, zpx |-> 85, abs |-> 77, abx |-> 93,
                              aby |-> 89, izx |-> 65, izy |-> 81]
    BY DEF instruction_mapper
  <2>2. /\ Is("EOR", "imm", 73) /\ Is("EOR", "zp", 69)
        /\ Is("EOR", "zpx", 85) /\ Is("EOR", "abs", 77)
    BY SMTT(60) DEF Is, Byte, UINT8_MAX, instruction_table, Rows00To7F, E, Written
  <2>3. /\ Is("EOR", "abx", 93) /\ Is("EOR", "aby", 89)
        /\ Is("EOR", "izx", 65) /\ Is("EOR", "izy", 81)
    BY SMTT(60) DEF Is, Byte, UINT8_MAX, instruction_table, Rows00To7F, E, Written
  <2>4. Sized("imm", 73) /\ Sized("zp", 69) /\ Sized("zpx", 85) /\ Sized("abs", 77)
    BY SMT DEF Sized, TwoBytes, NoBytes, OneByte
  <2>5. Sized("abx", 93) /\ Sized("aby", 89) /\ Sized("izx", 65) /\ Sized("izy", 81)
    BY SMT DEF Sized, TwoBytes, NoBytes, OneByte
  <2> QED BY <2>1, <2>2, <2>3, <2>4, <2>5, SMT DEF Sound
<1>5. DOMAIN instruction_mapper["LDA"] = T /\ Sound("LDA")
  <2>1. instruction_mapper["LDA"] = [imm |-> 169, zp |-> 165, zpx |-> 181, abs |-> 173, abx |-> 189,
                              aby |-> 185, izx |-> 161, izy |-> 177]
    BY DEF instruction_mapper
  <2>2. /\ Is("LDA", "imm", 169) /\ Is("LDA", "zp", 165)
        /\ Is("LDA", "zpx", 181) /\ Is("LDA", "abs", 173)
    BY SMTT(60) DEF Is, Byte, UINT8_MAX, instruction_table, Rows80ToFF, E, Written
  <2>3. /\ Is("LDA", "abx", 189) /\ Is("LDA", "aby", 185)
        /\ Is("LDA", "izx", 161) /\ Is("LDA", "izy", 177)
    BY SMTT(60) DEF Is, Byte, UINT8_MAX, instruction_table, Rows80ToFF, E, Written
  <2>4. Sized("imm", 169) /\ Sized("zp", 165) /\ Sized("zpx", 181) /\ Sized("abs", 173)
    BY SMT DEF Sized, TwoBytes, NoBytes, OneByte
  <2>5. Sized("abx", 189) /\ Sized("aby", 185) /\ Sized("izx", 161) /\ Sized("izy", 177)
    BY SMT DEF Sized, TwoBytes, NoBytes, OneByte
  <2> QED BY <2>1, <2>2, <2>3, <2>4, <2>5, SMT DEF Sound
<1>6. DOMAIN instruction_mapper["ORA"] = T /\ Sound("ORA")
  <2>1. instruction_mapper["ORA"] = [imm |-> 9, zp |-> 5, zpx |-> 21, abs |-> 13, abx |-> 29, aby |-> 25,
                              izx |-> 1, izy |-> 17]
    BY DEF instruction_mapper
  <2>2. /\ Is("ORA", "imm", 9) /\ Is("ORA", "zp", 5)
        /\ Is("ORA", "zpx", 21) /\ Is("ORA", "abs", 13)
    BY SMTT(60) DEF Is, Byte, UINT8_MAX, instruction_table, Rows00To7F, E, Written
  <2>3. /\ Is("ORA", "abx", 29) /\ Is("ORA", "aby", 25)
        /\ Is("ORA", "izx", 1) /\ Is("ORA", "izy", 17)
    BY SMTT(60) DEF Is, Byte, UINT8_MAX, instruction_table, Rows00To7F, E, Written
  <2>4. Sized("imm", 9) /\ Sized("zp", 5) /\ Sized("zpx", 21) /\ Sized("abs", 13)
    BY SMT DEF Sized, TwoBytes, NoBytes, OneByte
  <2>5. Sized("abx", 29) /\ Sized("aby", 25) /\ Sized("izx", 1) /\ Sized("izy", 17)
    BY SMT DEF Sized, TwoBytes, NoBytes, OneByte
  <2> QED BY <2>1, <2>2, <2>3, <2>4, <2>5, SMT DEF Sound
<1>7. DOMAIN instruction_mapper["SBC"] = T /\ Sound("SBC")
  <2>1. instruction_mapper["SBC"] = [imm |-> 233, zp |-> 229, zpx |-> 245, abs |-> 237, abx |-> 253,
                              aby |-> 249, izx |-> 225, izy |-> 241]
    BY DEF instruction_mapper
  <2>2. /\ Is("SBC", "imm", 233) /\ Is("SBC", "zp", 229)
        /\ Is("SBC", "zpx", 245) /\ Is("SBC", "abs", 237)
    BY SMTT(60) DEF Is, Byte, UINT8_MAX, instruction_table, Rows80ToFF, E, Written
  <2>3. /\ Is("SBC", "abx", 253) /\ Is("SBC", "aby", 249)
        /\ Is("SBC", "izx", 225) /\ Is("SBC", "izy", 241)
    BY SMTT(60) DEF Is, Byte, UINT8_MAX, instruction_table, Rows80ToFF, E, Written
  <2>4. Sized("imm", 233) /\ Sized("zp", 229) /\ Sized("zpx", 245) /\ Sized("abs", 237)
    BY SMT DEF Sized, TwoBytes, NoBytes, OneByte
  <2>5. Sized("abx", 253) /\ Sized("aby", 249) /\ Sized("izx", 225) /\ Sized("izy", 241)
    BY SMT DEF Sized, TwoBytes, NoBytes, OneByte
  <2> QED BY <2>1, <2>2, <2>3, <2>4, <2>5, SMT DEF Sound
<1> QED BY <1>1, <1>2, <1>3, <1>4, <1>5, <1>6, <1>7

(* The shifts and rotations.                                               *)
LEMMA ShiftCodes ==
  \A n \in {"ASL", "LSR", "ROL", "ROR"} :
    DOMAIN instruction_mapper[n] = {"acc", "zp", "zpx", "abs", "abx"} /\ Sound(n)
<1> DEFINE T == {"acc", "zp", "zpx", "abs", "abx"}
<1>1. DOMAIN instruction_mapper["ASL"] = T /\ Sound("ASL")
  <2>1. instruction_mapper["ASL"] = [acc |-> 10, zp |-> 6, zpx |-> 22, abs |-> 14, abx |-> 30]
    BY DEF instruction_mapper
  <2>2. /\ Is("ASL", "acc", 10) /\ Is("ASL", "zp", 6)
        /\ Is("ASL", "zpx", 22) /\ Is("ASL", "abs", 14)
    BY SMTT(60) DEF Is, Byte, UINT8_MAX, instruction_table, Rows00To7F, E, Written
  <2>3. Is("ASL", "abx", 30)
    BY SMTT(60) DEF Is, Byte, UINT8_MAX, instruction_table, Rows00To7F, E, Written
  <2>4. Sized("acc", 10) /\ Sized("zp", 6) /\ Sized("zpx", 22) /\ Sized("abs", 14)
    BY SMT DEF Sized, TwoBytes, NoBytes, OneByte
  <2>5. Sized("abx", 30)
    BY SMT DEF Sized, TwoBytes, NoBytes, OneByte
  <2> QED BY <2>1, <2>2, <2>3, <2>4, <2>5, SMT DEF Sound
<1>2. DOMAIN instruction_mapper["LSR"] = T /\ Sound("LSR")
  <2>1. instruction_mapper["LSR"] = [acc |-> 74, zp |-> 70, zpx |-> 86, abs |-> 78, abx |-> 94]
    BY DEF instruction_mapper
  <2>2. /\ Is("LSR", "acc", 74) /\ Is("LSR", "zp", 70)
        /\ Is("LSR", "zpx", 86) /\ Is("LSR", "abs", 78)
    BY SMTT(60) DEF Is, Byte, UINT8_MAX, instruction_table, Rows00To7F, E, Written
  <2>3. Is("LSR", "abx", 94)
    BY SMTT(60) DEF Is, Byte, UINT8_MAX, instruction_table, Rows00To7F, E, Written
  <2>4. Sized("acc", 74) /\ Sized("zp", 70) /\ Sized("zpx", 86) /\ Sized("abs", 78)
    BY SMT DEF Sized, TwoBytes, NoBytes, OneByte
  <2>5. Sized("abx", 94)
    BY SMT DEF Sized, TwoBytes, NoBytes, OneByte
  <2> QED BY <2>1, <2>2, <2>3, <2>4, <2>5, SMT DEF Sound
<1>3. DOMAIN instruction_mapper["ROL"] = T /\ Sound("ROL")
  <2>1. instruction_mapper["ROL"] = [acc |-> 42, zp |-> 38, zpx |-> 54, abs |-> 46, abx |-> 62]
    BY DEF instruction_mapper
  <2>2. /\ Is("ROL", "acc", 42) /\ Is("ROL", "zp", 38)
        /\ Is("ROL", "zpx", 54) /\ Is("ROL", "abs", 46)
    BY SMTT(60) DEF Is, Byte, UINT8_MAX, instruction_table, Rows00To7F, E, Written
  <2>3. Is("ROL", "abx", 62)
    BY SMTT(60) DEF Is, Byte, UINT8_MAX, instruction_table, Rows00To7F, E, Written
  <2>4. Sized("acc", 42) /\ Sized("zp", 38) /\ Sized("zpx", 54) /\ Sized("abs", 46)
    BY SMT DEF Sized, TwoBytes, NoBytes, OneByte
  <2>5. Sized("abx", 62)
    BY SMT DEF Sized, TwoBytes, NoBytes, OneByte
  <2> QED BY <2>1, <2>2, <2>3, <2>4, <2>5, SMT DEF Sound
<1>4. DOMAIN instruction_mapper["ROR"] = T /\ Sound("ROR")
  <2>1. instruction_mapper["ROR"] = [acc |-> 106, zp |-> 102, zpx |-> 118, abs |-> 110, abx |-> 126]
    BY DEF instruction_mapper
  <2>2. /\ Is("ROR", "acc", 106) /\ Is("ROR", "zp", 102)
        /\ Is("ROR", "zpx", 118) /\ Is("ROR", "abs", 110)
    BY SMTT(60) DEF Is, Byte, UINT8_MAX, instruction_table, Rows00To7F, E, Written
  <2>3. Is("ROR", "abx", 126)
    BY SMTT(60) DEF Is, Byte, UINT8_MAX, instruction_table, Rows00To7F, E, Written
  <2>4. Sized("acc", 106) /\ Sized("zp", 102) /\ Sized("zpx", 118) /\ Sized("abs", 110)
    BY SMT DEF Sized, TwoBytes, NoBytes, OneByte
  <2>5. Sized("abx", 126)
    BY SMT DEF Sized, TwoBytes, NoBytes, OneByte
  <2> QED BY <2>1, <2>2, <2>3, <2>4, <2>5, SMT DEF Sound
<1> QED BY <1>1, <1>2, <1>3, <1>4

(* BIT.                                                                    *)
LEMMA BitCodes ==
  \A n \in {"BIT"} :
    DOMAIN instruction_mapper[n] = {"zp", "abs"} /\ Sound(n)
<1> DEFINE T == {"zp", "abs"}
<1>1. DOMAIN instruction_mapper["BIT"] = T /\ Sound("BIT")
  <2>1. instruction_mapper["BIT"] = [zp |-> 36, abs |-> 44]
    BY DEF instruction_mapper
  <2>2. /\ Is("BIT", "zp", 36) /\ Is("BIT", "abs", 44)
    BY SMTT(60) DEF Is, Byte, UINT8_MAX, instruction_table, Rows00To7F, E, Written
  <2>3. Sized("zp", 36) /\ Sized("abs", 44)
    BY SMT DEF Sized, TwoBytes, NoBytes, OneByte
  <2> QED BY <2>1, <2>2, <2>3, SMT DEF Sound
<1> QED BY <1>1

(* CPX and CPY.                                                            *)
LEMMA IndexCompareCodes ==
  \A n \in {"CPX", "CPY"} :
    DOMAIN instruction_mapper[n] = {"imm", "zp", "abs"} /\ Sound(n)
<1> DEFINE T == {"imm", "zp", "abs"}
<1>1. DOMAIN instruction_mapper["CPX"] = T /\ Sound("CPX")
  <2>1. instruction_mapper["CPX"] = [imm |-> 224, zp |-> 228, abs |-> 236]
    BY DEF instruction_mapper
  <2>2. /\ Is("CPX", "imm", 224) /\ Is("CPX", "zp", 228)
        /\ Is("CPX", "abs", 236)
    BY SMTT(60) DEF Is, Byte, UINT8_MAX, instruction_table, Rows80ToFF, E, Written
  <2>3. Sized("imm", 224) /\ Sized("zp", 228) /\ Sized("abs", 236)
    BY SMT DEF Sized, TwoBytes, NoBytes, OneByte
  <2> QED BY <2>1, <2>2, <2>3, SMT DEF Sound
<1>2. DOMAIN instruction_mapper["CPY"] = T /\ Sound("CPY")
  <2>1. instruction_mapper["CPY"] = [imm |-> 192, zp |-> 196, abs |-> 204]
    BY DEF instruction_mapper
  <2>2. /\ Is("CPY", "imm", 192) /\ Is("CPY", "zp", 196)
        /\ Is("CPY", "abs", 204)
    BY SMTT(60) DEF Is, Byte, UINT8_MAX, instruction_table, Rows80ToFF, E, Written
  <2>3. Sized("imm", 192) /\ Sized("zp", 196) /\ Sized("abs", 204)
    BY SMT DEF Sized, TwoBytes, NoBytes, OneByte
  <2> QED BY <2>1, <2>2, <2>3, SMT DEF Sound
<1> QED BY <1>1, <1>2

(* DEC and INC.                                                            *)
LEMMA CountCodes ==
  \A n \in {"DEC", "INC"} :
    DOMAIN instruction_mapper[n] = {"zp", "zpx", "abs", "abx"} /\ Sound(n)
<1> DEFINE T == {"zp", "zpx", "abs", "abx"}
<1>1. DOMAIN instruction_mapper["DEC"] = T /\ Sound("DEC")
  <2>1. instruction_mapper["DEC"] = [zp |-> 198, zpx |-> 214, abs |-> 206, abx |-> 222]
    BY DEF instruction_mapper
  <2>2. /\ Is("DEC", "zp", 198) /\ Is("DEC", "zpx", 214)
        /\ Is("DEC", "abs", 206) /\ Is("DEC", "abx", 222)
    BY SMTT(60) DEF Is, Byte, UINT8_MAX, instruction_table, Rows80ToFF, E, Written
  <2>3. Sized("zp", 198) /\ Sized("zpx", 214) /\ Sized("abs", 206) /\ Sized("abx", 222)
    BY SMT DEF Sized, TwoBytes, NoBytes, OneByte
  <2> QED BY <2>1, <2>2, <2>3, SMT DEF Sound
<1>2. DOMAIN instruction_mapper["INC"] = T /\ Sound("INC")
  <2>1. instruction_mapper["INC"] = [zp |-> 230, zpx |-> 246, abs |-> 238, abx |-> 254]
    BY DEF instruction_mapper
  <2>2. /\ Is("INC", "zp", 230) /\ Is("INC", "zpx", 246)
        /\ Is("INC", "abs", 238) /\ Is("INC", "abx", 254)
    BY SMTT(60) DEF Is, Byte, UINT8_MAX, instruction_table, Rows80ToFF, E, Written
  <2>3. Sized("zp", 230) /\ Sized("zpx", 246) /\ Sized("abs", 238) /\ Sized("abx", 254)
    BY SMT DEF Sized, TwoBytes, NoBytes, OneByte
  <2> QED BY <2>1, <2>2, <2>3, SMT DEF Sound
<1> QED BY <1>1, <1>2

(* JMP.                                                                    *)
LEMMA JumpCodes ==
  \A n \in {"JMP"} :
    DOMAIN instruction_mapper[n] = {"abs", "ind"} /\ Sound(n)
<1> DEFINE T == {"abs", "ind"}
<1>1. DOMAIN instruction_mapper["JMP"] = T /\ Sound("JMP")
  <2>1. instruction_mapper["JMP"] = [abs |-> 76, ind |-> 108]
    BY DEF instruction_mapper
  <2>2. /\ Is("JMP", "abs", 76) /\ Is("JMP", "ind", 108)
    BY SMTT(60) DEF Is, Byte, UINT8_MAX, instruction_table, Rows00To7F, E, Written
  <2>3. Sized("abs", 76) /\ Sized("ind", 108)
    BY SMT DEF Sized, TwoBytes, NoBytes, OneByte
  <2> QED BY <2>1, <2>2, <2>3, SMT DEF Sound
<1> QED BY <1>1

(* LDX.                                                                    *)
LEMMA LdxCodes ==
  \A n \in {"LDX"} :
    DOMAIN instruction_mapper[n] = {"imm", "zp", "zpy", "abs", "aby"} /\ Sound(n)
<1> DEFINE T == {"imm", "zp", "zpy", "abs", "aby"}
<1>1. DOMAIN instruction_mapper["LDX"] = T /\ Sound("LDX")
  <2>1. instruction_mapper["LDX"] = [imm |-> 162, zp |-> 166, zpy |-> 182, abs |-> 174, aby |-> 190]
    BY DEF instruction_mapper
  <2>2. /\ Is("LDX", "imm", 162) /\ Is("LDX", "zp", 166)
        /\ Is("LDX", "zpy", 182) /\ Is("LDX", "abs", 174)
    BY SMTT(60) DEF Is, Byte, UINT8_MAX, instruction_table, Rows80ToFF, E, Written
  <2>3. Is("LDX", "aby", 190)
    BY SMTT(60) DEF Is, Byte, UINT8_MAX, instruction_table, Rows80ToFF, E, Written
  <2>4. Sized("imm", 162) /\ Sized("zp", 166) /\ Sized("zpy", 182) /\ Sized("abs", 174)
    BY SMT DEF Sized, TwoBytes, NoBytes, OneByte
  <2>5. Sized("aby", 190)
    BY SMT DEF Sized, TwoBytes, NoBytes, OneByte
  <2> QED BY <2>1, <2>2, <2>3, <2>4, <2>5, SMT DEF Sound
<1> QED BY <1>1

(* LDY.                                                                    *)
LEMMA LdyCodes ==
  \A n \in {"LDY"} :
    DOMAIN instruction_mapper[n] = {"imm", "zp", "zpx", "abs", "abx"} /\ Sound(n)
<1> DEFINE T == {"imm", "zp", "zpx", "abs", "abx"}
<1>1. DOMAIN instruction_mapper["LDY"] = T /\ Sound("LDY")
  <2>1. instruction_mapper["LDY"] = [imm |-> 160, zp |-> 164, zpx |-> 180, abs |-> 172, abx |-> 188]
    BY DEF instruction_mapper
  <2>2. /\ Is("LDY", "imm", 160) /\ Is("LDY", "zp", 164)
        /\ Is("LDY", "zpx", 180) /\ Is("LDY", "abs", 172)
    BY SMTT(60) DEF Is, Byte, UINT8_MAX, instruction_table, Rows80ToFF, E, Written
  <2>3. Is("LDY", "abx", 188)
    BY SMTT(60) DEF Is, Byte, UINT8_MAX, instruction_table, Rows80ToFF, E, Written
  <2>4. Sized("imm", 160) /\ Sized("zp", 164) /\ Sized("zpx", 180) /\ Sized("abs", 172)
    BY SMT DEF Sized, TwoBytes, NoBytes, OneByte
  <2>5. Sized("abx", 188)
    BY SMT DEF Sized, TwoBytes, NoBytes, OneByte
  <2> QED BY <2>1, <2>2, <2>3, <2>4, <2>5, SMT DEF Sound
<1> QED BY <1>1

(* STA.                                                                    *)
LEMMA StaCodes ==
  \A n \in {"STA"} :
    DOMAIN instruction_mapper[n] = {"zp", "zpx", "abs", "abx", "aby", "izx", "izy"} /\ Sound(n)
<1> DEFINE T == {"zp", "zpx", "abs", "abx", "aby", "izx", "izy"}
<1>1. DOMAIN instruction_mapper["STA"] = T /\ Sound("STA")
  <2>1. instruction_mapper["STA"] = [zp |-> 133, zpx |-> 149, abs |-> 141, abx |-> 157, aby |-> 153,
                              izx |-> 129, izy |-> 145]
    BY DEF instruction_mapper
  <2>2. /\ Is("STA", "zp", 133) /\ Is("STA", "zpx", 149)
        /\ Is("STA", "abs", 141) /\ Is("STA", "abx", 157)
    BY SMTT(60) DEF Is, Byte, UINT8_MAX, instruction_table, Rows80ToFF, E, Written
  <2>3. /\ Is("STA", "aby", 153) /\ Is("STA", "izx", 129)
        /\ Is("STA", "izy", 145)
    BY SMTT(60) DEF Is, Byte, UINT8_MAX, instruction_table, Rows80ToFF, E, Written
  <2>4. Sized("zp", 133) /\ Sized("zpx", 149) /\ Sized("abs", 141) /\ Sized("abx", 157)
    BY SMT DEF Sized, TwoBytes, NoBytes, OneByte
  <2>5. Sized("aby", 153) /\ Sized("izx", 129) /\ Sized("izy", 145)
    BY SMT DEF Sized, TwoBytes, NoBytes, OneByte
  <2> QED BY <2>1, <2>2, <2>3, <2>4, <2>5, SMT DEF Sound
<1> QED BY <1>1

(* STX.                                                                    *)
LEMMA StxCodes ==
  \A n \in {"STX"} :
    DOMAIN instruction_mapper[n] = {"zp", "zpy", "abs"} /\ Sound(n)
<1> DEFINE T == {"zp", "zpy", "abs"}
<1>1. DOMAIN instruction_mapper["STX"] = T /\ Sound("STX")
  <2>1. instruction_mapper["STX"] = [zp |-> 134, zpy |-> 150, abs |-> 142]
    BY DEF instruction_mapper
  <2>2. /\ Is("STX", "zp", 134) /\ Is("STX", "zpy", 150)
        /\ Is("STX", "abs", 142)
    BY SMTT(60) DEF Is, Byte, UINT8_MAX, instruction_table, Rows80ToFF, E, Written
  <2>3. Sized("zp", 134) /\ Sized("zpy", 150) /\ Sized("abs", 142)
    BY SMT DEF Sized, TwoBytes, NoBytes, OneByte
  <2> QED BY <2>1, <2>2, <2>3, SMT DEF Sound
<1> QED BY <1>1

(* STY.                                                                    *)
LEMMA StyCodes ==
  \A n \in {"STY"} :
    DOMAIN instruction_mapper[n] = {"zp", "zpx", "abs"} /\ Sound(n)
<1> DEFINE T == {"zp", "zpx", "abs"}
<1>1. DOMAIN instruction_mapper["STY"] = T /\ Sound("STY")
  <2>1. instruction_mapper["STY"] = [zp |-> 132, zpx |-> 148, abs |-> 140]
    BY DEF instruction_mapper
  <2>2. /\ Is("STY", "zp", 132) /\ Is("STY", "zpx", 148)
        /\ Is("STY", "abs", 140)
    BY SMTT(60) DEF Is, Byte, UINT8_MAX, instruction_table, Rows80ToFF, E, Written
  <2>3. Sized("zp", 132) /\ Sized("zpx", 148) /\ Sized("abs", 140)
    BY SMT DEF Sized, TwoBytes, NoBytes, OneByte
  <2> QED BY <2>1, <2>2, <2>3, SMT DEF Sound
<1> QED BY <1>1

(* The branches.                                                           *)
LEMMA BranchCodes ==
  \A n \in {"BCC", "BCS", "BEQ", "BMI", "BNE", "BPL", "BVC", "BVS"} :
    DOMAIN instruction_mapper[n] = {"rel"} /\ Sound(n)
<1> DEFINE T == {"rel"}
<1>1. DOMAIN instruction_mapper["BCC"] = T /\ Sound("BCC")
  <2>1. instruction_mapper["BCC"] = [rel |-> 144]
    BY DEF instruction_mapper
  <2>2. Is("BCC", "rel", 144)
    BY SMTT(60) DEF Is, Byte, UINT8_MAX, instruction_table, Rows80ToFF, E, Written
  <2>3. Sized("rel", 144)
    BY SMT DEF Sized, TwoBytes, NoBytes, OneByte
  <2> QED BY <2>1, <2>2, <2>3, SMT DEF Sound
<1>2. DOMAIN instruction_mapper["BCS"] = T /\ Sound("BCS")
  <2>1. instruction_mapper["BCS"] = [rel |-> 176]
    BY DEF instruction_mapper
  <2>2. Is("BCS", "rel", 176)
    BY SMTT(60) DEF Is, Byte, UINT8_MAX, instruction_table, Rows80ToFF, E, Written
  <2>3. Sized("rel", 176)
    BY SMT DEF Sized, TwoBytes, NoBytes, OneByte
  <2> QED BY <2>1, <2>2, <2>3, SMT DEF Sound
<1>3. DOMAIN instruction_mapper["BEQ"] = T /\ Sound("BEQ")
  <2>1. instruction_mapper["BEQ"] = [rel |-> 240]
    BY DEF instruction_mapper
  <2>2. Is("BEQ", "rel", 240)
    BY SMTT(60) DEF Is, Byte, UINT8_MAX, instruction_table, Rows80ToFF, E, Written
  <2>3. Sized("rel", 240)
    BY SMT DEF Sized, TwoBytes, NoBytes, OneByte
  <2> QED BY <2>1, <2>2, <2>3, SMT DEF Sound
<1>4. DOMAIN instruction_mapper["BMI"] = T /\ Sound("BMI")
  <2>1. instruction_mapper["BMI"] = [rel |-> 48]
    BY DEF instruction_mapper
  <2>2. Is("BMI", "rel", 48)
    BY SMTT(60) DEF Is, Byte, UINT8_MAX, instruction_table, Rows00To7F, E, Written
  <2>3. Sized("rel", 48)
    BY SMT DEF Sized, TwoBytes, NoBytes, OneByte
  <2> QED BY <2>1, <2>2, <2>3, SMT DEF Sound
<1>5. DOMAIN instruction_mapper["BNE"] = T /\ Sound("BNE")
  <2>1. instruction_mapper["BNE"] = [rel |-> 208]
    BY DEF instruction_mapper
  <2>2. Is("BNE", "rel", 208)
    BY SMTT(60) DEF Is, Byte, UINT8_MAX, instruction_table, Rows80ToFF, E, Written
  <2>3. Sized("rel", 208)
    BY SMT DEF Sized, TwoBytes, NoBytes, OneByte
  <2> QED BY <2>1, <2>2, <2>3, SMT DEF Sound
<1>6. DOMAIN instruction_mapper["BPL"] = T /\ Sound("BPL")
  <2>1. instruction_mapper["BPL"] = [rel |-> 16]
    BY DEF instruction_mapper
  <2>2. Is("BPL", "rel", 16)
    BY SMTT(60) DEF Is, Byte, UINT8_MAX, instruction_table, Rows00To7F, E, Written
  <2>3. Sized("rel", 16)
    BY SMT DEF Sized, TwoBytes, NoBytes, OneByte
  <2> QED BY <2>1, <2>2, <2>3, SMT DEF Sound
<1>7. DOMAIN instruction_mapper["BVC"] = T /\ Sound("BVC")
  <2>1. instruction_mapper["BVC"] = [rel |-> 80]
    BY DEF instruction_mapper
  <2>2. Is("BVC", "rel", 80)
    BY SMTT(60) DEF Is, Byte, UINT8_MAX, instruction_table, Rows00To7F, E, Written
  <2>3. Sized("rel", 80)
    BY SMT DEF Sized, TwoBytes, NoBytes, OneByte
  <2> QED BY <2>1, <2>2, <2>3, SMT DEF Sound
<1>8. DOMAIN instruction_mapper["BVS"] = T /\ Sound("BVS")
  <2>1. instruction_mapper["BVS"] = [rel |-> 112]
    BY DEF instruction_mapper
  <2>2. Is("BVS", "rel", 112)
    BY SMTT(60) DEF Is, Byte, UINT8_MAX, instruction_table, Rows00To7F, E, Written
  <2>3. Sized("rel", 112)
    BY SMT DEF Sized, TwoBytes, NoBytes, OneByte
  <2> QED BY <2>1, <2>2, <2>3, SMT DEF Sound
<1> QED BY <1>1, <1>2, <1>3, <1>4, <1>5, <1>6, <1>7, <1>8

(* The instructions without operand.                                       *)
LEMMA ImpliedCodes ==
  \A n \in {"BRK", "CLC", "CLD", "CLI", "CLV", "DEX", "DEY", "INX", "INY", "NOP", "PHA", "PHP", "PLA",
         "PLP", "RTI", "RTS", "SEC", "SED", "SEI", "TAX", "TAY", "TSX", "TXA", "TXS", "TYA"} :
    DOMAIN instruction_mapper[n] = {"nul"} /\ Sound(n)
<1> DEFINE T == {"nul"}
<1>1. DOMAIN instruction_mapper["BRK"] = T /\ Sound("BRK")
  <2>1. instruction_mapper["BRK"] = [nul |-> 0]
    BY DEF instruction_mapper
  <2>2. Is("BRK", "nul", 0)
    BY SMTT(60) DEF Is, Byte, UINT8_MAX, instruction_table, Rows00To7F, E, Written
  <2>3. Sized("nul", 0)
    BY SMT DEF Sized, TwoBytes, NoBytes, OneByte
  <2> QED BY <2>1, <2>2, <2>3, SMT DEF Sound
<1>2. DOMAIN instruction_mapper["CLC"] = T /\ Sound("CLC")
  <2>1. instruction_mapper["CLC"] = [nul |-> 24]
    BY DEF instruction_mapper
  <2>2. Is("CLC", "nul", 24)
    BY SMTT(60) DEF Is, Byte, UINT8_MAX, instruction_table, Rows00To7F, E, Written
  <2>3. Sized("nul", 24)
    BY SMT DEF Sized, TwoBytes, NoBytes, OneByte
  <2> QED BY <2>1, <2>2, <2>3, SMT DEF Sound
<1>3. DOMAIN instruction_mapper["CLD"] = T /\ Sound("CLD")
  <2>1. instruction_mapper["CLD"] = [nul |-> 216]
    BY DEF instruction_mapper
  <2>2. Is("CLD", "nul", 216)
    BY SMTT(60) DEF Is, Byte, UINT8_MAX, instruction_table, Rows80ToFF, E, Written
  <2>3. Sized("nul", 216)
    BY SMT DEF Sized, TwoBytes, NoBytes, OneByte
  <2> QED BY <2>1, <2>2, <2>3, SMT DEF Sound
<1>4. DOMAIN instruction_mapper["CLI"] = T /\ Sound("CLI")
  <2>1. instruction_mapper["CLI"] = [nul |-> 88]
    BY DEF instruction_mapper
  <2>2. Is("CLI", "nul", 88)
    BY SMTT(60) DEF Is, Byte, UINT8_MAX, instruction_table, Rows00To7F, E, Written
  <2>3. Sized("nul", 88)
    BY SMT DEF Sized, TwoBytes, NoBytes, OneByte
  <2> QED BY <2>1, <2>2, <2>3, SMT DEF Sound
<1>5. DOMAIN instruction_mapper["CLV"] = T /\ Sound("CLV")
  <2>1. instruction_mapper["CLV"] = [nul |-> 184]
    BY DEF instruction_mapper
  <2>2. Is("CLV", "nul", 184)
    BY SMTT(60) DEF Is, Byte, UINT8_MAX, instruction_table, Rows80ToFF, E, Written
  <2>3. Sized("nul", 184)
    BY SMT DEF Sized, TwoBytes, NoBytes, OneByte
  <2> QED BY <2>1, <2>2, <2>3, SMT DEF Sound
<1>6. DOMAIN instruction_mapper["DEX"] = T /\ Sound("DEX")
  <2>1. instruction_mapper["DEX"] = [nul |-> 202]
    BY DEF instruction_mapper
  <2>2. Is("DEX", "nul", 202)
    BY SMTT(60) DEF Is, Byte, UINT8_MAX, instruction_table, Rows80ToFF, E, Written
  <2>3. Sized("nul", 202)
    BY SMT DEF Sized, TwoBytes, NoBytes, OneByte
  <2> QED BY <2>1, <2>2, <2>3, SMT DEF Sound
<1>7. DOMAIN instruction_mapper["DEY"] = T /\ Sound("DEY")
  <2>1. instruction_mapper["DEY"] = [nul |-> 136]
    BY DEF instruction_mapper
  <2>2. Is("DEY", "nul", 136)
    BY SMTT(60) DEF Is, Byte, UINT8_MAX, instruction_table, Rows80ToFF, E, Written
  <2>3. Sized("nul", 136)
    BY SMT DEF Sized, TwoBytes, NoBytes, OneByte
  <2> QED BY <2>1, <2>2, <2>3, SMT DEF Sound
<1>8. DOMAIN instruction_mapper["INX"] = T /\ Sound("INX")
  <2>1. instruction_mapper["INX"] = [nul |-> 232]
    BY DEF instruction_mapper
  <2>2. Is("INX", "nul", 232)
    BY SMTT(60) DEF Is, Byte, UINT8_MAX, instruction_table, Rows80ToFF, E, Written
  <2>3. Sized("nul", 232)
    BY SMT DEF Sized, TwoBytes, NoBytes, OneByte
  <2> QED BY <2>1, <2>2, <2>3, SMT DEF Sound
<1>9. DOMAIN instruction_mapper["INY"] = T /\ Sound("INY")
  <2>1. instruction_mapper["INY"] = [nul |-> 200]
    BY DEF instruction_mapper
  <2>2. Is("INY", "nul", 200)
    BY SMTT(60) DEF Is, Byte, UINT8_MAX, instruction_table, Rows80ToFF, E, Written
  <2>3. Sized("nul", 200)
    BY SMT DEF Sized, TwoBytes, NoBytes, OneByte
  <2> QED BY <2>1, <2>2, <2>3, SMT DEF Sound
<1>10. DOMAIN instruction_mapper["NOP"] = T /\ Sound("NOP")
  <2>1. instruction_mapper["NOP"] = [nul |-> 234]
    BY DEF instruction_mapper
  <2>2. Is("NOP", "nul", 234)
    BY SMTT(60) DEF Is, Byte, UINT8_MAX, instruction_table, Rows80ToFF, E, Written
  <2>3. Sized("nul", 234)
    BY SMT DEF Sized, TwoBytes, NoBytes, OneByte
  <2> QED BY <2>1, <2>2, <2>3, SMT DEF Sound
<1>11. DOMAIN instruction_mapper["PHA"] = T /\ Sound("PHA")
  <2>1. instruction_mapper["PHA"] = [nul |-> 72]
    BY DEF instruction_mapper
  <2>2. Is("PHA", "nul", 72)
    BY SMTT(60) DEF Is, Byte, UINT8_MAX, instruction_table, Rows00To7F, E, Written
  <2>3. Sized("nul", 72)
    BY SMT DEF Sized, TwoBytes, NoBytes, OneByte
  <2> QED BY <2>1, <2>2, <2>3, SMT DEF Sound
<1>12. DOMAIN instruction_mapper["PHP"] = T /\ Sound("PHP")
  <2>1. instruction_mapper["PHP"] = [nul |-> 8]
    BY DEF instruction_mapper
  <2>2. Is("PHP", "nul", 8)
    BY SMTT(60) DEF Is, Byte, UINT8_MAX, instruction_table, Rows00To7F, E, Written
  <2>3. Sized("nul", 8)
    BY SMT DEF Sized, TwoBytes, NoBytes, OneByte
  <2> QED BY <2>1, <2>2, <2>3, SMT DEF Sound
<1>13. DOMAIN instruction_mapper["PLA"] = T /\ Sound("PLA")
  <2>1. instruction_mapper["PLA"] = [nul |-> 104]
    BY DEF instruction_mapper
  <2>2. Is("PLA", "nul", 104)
    BY SMTT(60) DEF Is, Byte, UINT8_MAX, instruction_table, Rows00To7F, E, Written
  <2>3. Sized("nul", 104)
    BY SMT DEF Sized, TwoBytes, NoBytes, OneByte
  <2> QED BY <2>1, <2>2, <2>3, SMT DEF Sound
<1>14. DOMAIN instruction_mapper["PLP"] = T /\ Sound("PLP")
  <2>1. instruction_mapper["PLP"] = [nul |-> 40]
    BY DEF instruction_mapper
  <2>2. Is("PLP", "nul", 40)
    BY SMTT(60) DEF Is, Byte, UINT8_MAX, instruction_table, Rows00To7F, E, Written
  <2>3. Sized("nul", 40)
    BY SMT DEF Sized, TwoBytes, NoBytes, OneByte
  <2> QED BY <2>1, <2>2, <2>3, SMT DEF Sound
<1>15. DOMAIN instruction_mapper["RTI"] = T /\ Sound("RTI")
  <2>1. instruction_mapper["RTI"] = [nul |-> 64]
    BY DEF instruction_mapper
  <2>2. Is("RTI", "nul", 64)
    BY SMTT(60) DEF Is, Byte, UINT8_MAX, instruction_table, Rows00To7F, E, Written
  <2>3. Sized("nul", 64)
    BY SMT DEF Sized, TwoBytes, NoBytes, OneByte
  <2> QED BY <2>1, <2>2, <2>3, SMT DEF Sound
<1>16. DOMAIN instruction_mapper["RTS"] = T /\ Sound("RTS")
  <2>1. instruction_mapper["RTS"] = [nul |-> 96]
    BY DEF instruction_mapper
  <2>2. Is("RTS", "nul", 96)
    BY SMTT(60) DEF Is, Byte, UINT8_MAX, instruction_table, Rows00To7F, E, Written
  <2>3. Sized("nul", 96)
    BY SMT DEF Sized, TwoBytes, NoBytes, OneByte
  <2> QED BY <2>1, <2>2, <2>3, SMT DEF Sound
<1>17. DOMAIN instruction_mapper["SEC"] = T /\ Sound("SEC")
  <2>1. instruction_mapper["SEC"] = [nul |-> 56]
    BY DEF instruction_mapper
  <2>2. Is("SEC", "nul", 56)
    BY SMTT(60) DEF Is, Byte, UINT8_MAX, instruction_table, Rows00To7F, E, Written
  <2>3. Sized("nul", 56)
    BY SMT DEF Sized, TwoBytes, NoBytes, OneByte
  <2> QED BY <2>1, <2>2, <2>3, SMT DEF Sound
<1>18. DOMAIN instruction_mapper["SED"] = T /\ Sound("SED")
  <2>1. instruction_mapper["SED"] = [nul |-> 248]
    BY DEF instruction_mapper
  <2>2. Is("SED", "nul", 248)
    BY SMTT(60) DEF Is, Byte, UINT8_MAX, instruction_table, Rows80ToFF, E, Written
  <2>3. Sized("nul", 248)
    BY SMT DEF Sized, TwoBytes, NoBytes, OneByte
  <2> QED BY <2>1, <2>2, <2>3, SMT DEF Sound
<1>19. DOMAIN instruction_mapper["SEI"] = T /\ Sound("SEI")
  <2>1. instruction_mapper["SEI"] = [nul |-> 120]
    BY DEF instruction_mapper
  <2>2. Is("SEI", "nul", 120)
    BY SMTT(60) DEF Is, Byte, UINT8_MAX, instruction_table, Rows00To7F, E, Written
  <2>3. Sized("nul", 120)
    BY SMT DEF Sized, TwoBytes, NoBytes, OneByte
  <2> QED BY <2>1, <2>2, <2>3, SMT DEF Sound
<1>20. DOMAIN instruction_mapper["TAX"] = T /\ Sound("TAX")
  <2>1. instruction_mapper["TAX"] = [nul |-> 170]
    BY DEF instruction_mapper
  <2>2. Is("TAX", "nul", 170)
    BY SMTT(60) DEF Is, Byte, UINT8_MAX, instruction_table, Rows80ToFF, E, Written
  <2>3. Sized("nul", 170)
    BY SMT DEF Sized, TwoBytes, NoBytes, OneByte
  <2> QED BY <2>1, <2>2, <2>3, SMT DEF Sound
<1>21. DOMAIN instruction_mapper["TAY"] = T /\ Sound("TAY")
  <2>1. instruction_mapper["TAY"] = [nul |-> 168]
    BY DEF instruction_mapper
  <2>2. Is("TAY", "nul", 168)
    BY SMTT(60) DEF Is, Byte, UINT8_MAX, instruction_table, Rows80ToFF, E, Written
  <2>3. Sized("nul", 168)
    BY SMT DEF Sized, TwoBytes, NoBytes, OneByte
  <2> QED BY <2>1, <2>2, <2>3, SMT DEF Sound
<1>22. DOMAIN instruction_mapper["TSX"] = T /\ Sound("TSX")
  <2>1. instruction_mapper["TSX"] = [nul |-> 186]
    BY DEF instruction_mapper
  <2>2. Is("TSX", "nul", 186)
    BY SMTT(60) DEF Is, Byte, UINT8_MAX, instruction_table, Rows80ToFF, E, Written
  <2>3. Sized("nul", 186)
    BY SMT DEF Sized, TwoBytes, NoBytes, OneByte
  <2> QED BY <2>1, <2>2, <2>3, SMT DEF Sound
<1>23. DOMAIN instruction_mapper["TXA"] = T /\ Sound("TXA")
  <2>1. instruction_mapper["TXA"] = [nul |-> 138]
    BY DEF instruction_mapper
  <2>2. Is("TXA", "nul", 138)
    BY SMTT(60) DEF Is, Byte, UINT8_MAX, instruction_table, Rows80ToFF, E, Written
  <2>3. Sized("nul", 138)
    BY SMT DEF Sized, TwoBytes, NoBytes, OneByte
  <2> QED BY <2>1, <2>2, <2>3, SMT DEF Sound
<1>24. DOMAIN instruction_mapper["TXS"] = T /\ Sound("TXS")
  <2>1. instruction_mapper["TXS"] = [nul |-> 154]
    BY DEF instruction_mapper
  <2>2. Is("TXS", "nul", 154)
    BY SMTT(60) DEF Is, Byte, UINT8_MAX, instruction_table, Rows80ToFF, E, Written
  <2>3. Sized("nul", 154)
    BY SMT DEF Sized, TwoBytes, NoBytes, OneByte
  <2> QED BY <2>1, <2>2, <2>3, SMT DEF Sound
<1>25. DOMAIN instruction_mapper["TYA"] = T /\ Sound("TYA")
  <2>1. instruction_mapper["TYA"] = [nul |-> 152]
    BY DEF instruction_mapper
  <2>2. Is("TYA", "nul", 152)
    BY SMTT(60) DEF Is, Byte, UINT8_MAX, instruction_table, Rows80ToFF, E, Written
  <2>3. Sized("nul", 152)
    BY SMT DEF Sized, TwoBytes, NoBytes, OneByte
  <2> QED BY <2>1, <2>2, <2>3, SMT DEF Sound
<1> QED BY <1>1, <1>2, <1>3, <1>4, <1>5, <1>6, <1>7, <1>8, <1>9, <1>10, <1>11, <1>12, <1>13,
           <1>14, <1>15, <1>16, <1>17, <1>18, <1>19, <1>20, <1>21, <1>22, <1>23, <1>24, <1>25

(* JSR.                                                                    *)
LEMMA JsrCodes ==
  \A n \in {"JSR"} :
    DOMAIN instruction_mapper[n] = {"abs"} /\ Sound(n)
<1> DEFINE T == {"abs"}
<1>1. DOMAIN instruction_mapper["JSR"] = T /\ Sound("JSR")
  <2>1. instruction_mapper["JSR"] = [abs |-> 32]
    BY DEF instruction_mapper
  <2>2. Is("JSR", "abs", 32)
    BY SMTT(60) DEF Is, Byte, UINT8_MAX, instruction_table, Rows00To7F, E, Written
  <2>3. Sized("abs", 32)
    BY SMT DEF Sized, TwoBytes, NoBytes, OneByte
  <2> QED BY <2>1, <2>2, <2>3, SMT DEF Sound
<1> QED BY <1>1
(* All of them together.                                                   *)
LEMMA MapperSound ==
  ASSUME NEW n \in DOMAIN instruction_mapper, NEW t \in DOMAIN instruction_mapper[n]
  PROVE  /\ Is(n, t, instruction_mapper[n][t]) /\ Sized(t, instruction_mapper[n][t])
         /\ MapperKeys(n, t)
<1>1. Sound(n) /\ MapperKeys(n, t)
  BY MapperNames, AccumulatorCodes, ShiftCodes, BitCodes, IndexCompareCodes, CountCodes, JumpCodes,
     LdxCodes, LdyCodes, StaCodes, StxCodes, StyCodes, BranchCodes, ImpliedCodes, JsrCodes
     DEF MapperKeys, AluKeys, ShiftKeys, CountKeys, CompareKeys, LoadKeys,
         StoreKeys, JumpKeys, BranchKeys, ImpliedKeys
<1> QED BY <1>1 DEF Sound

(* The assembler has an opcode for each of these.                          *)
LEMMA MapperComplete ==
  ASSUME NEW n, NEW t, MapperKeys(n, t)
  PROVE  n \in DOMAIN instruction_mapper /\ t \in DOMAIN instruction_mapper[n]
  BY MapperNames, AccumulatorCodes, ShiftCodes, BitCodes, IndexCompareCodes, CountCodes, JumpCodes,
     LdxCodes, LdyCodes, StaCodes, StxCodes, StyCodes, BranchCodes, ImpliedCodes, JsrCodes
     DEF MapperKeys, AluKeys, ShiftKeys, CountKeys, CompareKeys, LoadKeys,
         StoreKeys, JumpKeys, BranchKeys, ImpliedKeys

(* None of them is undocumented.                                           *)
LEMMA KeysDocumented ==
  ASSUME NEW n, NEW t, MapperKeys(n, t)
  PROVE  n \notin Undocumented /\ (n = "NOP" => t = "nul")
<1>1. n \notin Undocumented BY MapperNames, SMT DEF MapperKeys, Undocumented
<1> QED BY <1>1 DEF MapperKeys, ImpliedKeys

(* What a row of the instruction table must be for the assembler to know   *)
(* all it should: its NOP is the documented one only.                      *)
JumpRow(e) ==
  /\ e.op = "JMP" => e.mode \in {"abc", "ind"}
  /\ e.op = "JSR" <=> e.op # "JMP" /\ e.mode = "abc"
RowKeys(e) ==
  /\ e.op \in Undocumented \cup DOMAIN instruction_mapper
  /\ AluKeys(e.op, e.mode) /\ ShiftKeys(e.op, e.mode) /\ CountKeys(e.op, e.mode)
  /\ CompareKeys(e.op, e.mode) /\ LoadKeys(e.op, e.mode) /\ StoreKeys(e.op, e.mode)
  /\ BranchKeys(e.op, e.mode) /\ JumpRow(e)
  /\ e.op # "NOP" => ImpliedKeys(e.op, e.mode)

(* So are the rows of the lower half,                                     *)
LEMMA LowRowKeys == \A k \in 1..128 : RowKeys(Rows00To7F[k])
<1>1. \A k \in 1..128 : AluKeys(Rows00To7F[k].op, Rows00To7F[k].mode)
  BY SMTT(60) DEF Rows00To7F, E, AluKeys
<1>2. \A k \in 1..128 : ShiftKeys(Rows00To7F[k].op, Rows00To7F[k].mode)
  BY SMTT(60) DEF Rows00To7F, E, ShiftKeys
<1>3. \A k \in 1..128 : CountKeys(Rows00To7F[k].op, Rows00To7F[k].mode)
  BY SMTT(60) DEF Rows00To7F, E, CountKeys
<1>4. \A k \in 1..128 : CompareKeys(Rows00To7F[k].op, Rows00To7F[k].mode)
  BY SMTT(60) DEF Rows00To7F, E, CompareKeys
<1>5. \A k \in 1..128 : LoadKeys(Rows00To7F[k].op, Rows00To7F[k].mode)
  BY SMTT(60) DEF Rows00To7F, E, LoadKeys
<1>6. \A k \in 1..128 : StoreKeys(Rows00To7F[k].op, Rows00To7F[k].mode)
  BY SMTT(60) DEF Rows00To7F, E, StoreKeys
<1>7. \A k \in 1..128 : BranchKeys(Rows00To7F[k].op, Rows00To7F[k].mode)
  BY SMTT(60) DEF Rows00To7F, E, BranchKeys
<1>8. \A k \in 1..128 : Rows00To7F[k].op # "NOP" => ImpliedKeys(Rows00To7F[k].op, Rows00To7F[k].mode)
  BY SMTT(60) DEF Rows00To7F, E, ImpliedKeys
<1>9. \A k \in 1..128 : JumpRow(Rows00To7F[k])
  BY SMTT(60) DEF Rows00To7F, E, JumpRow
<1>10. \A k \in 1..128 : Rows00To7F[k].op \in Undocumented \cup DOMAIN instruction_mapper
  BY MapperNames, SMTT(60) DEF Rows00To7F, E, Undocumented
<1> QED BY <1>1, <1>2, <1>3, <1>4, <1>5, <1>6, <1>7, <1>8, <1>9, <1>10, Zenon DEF RowKeys

(* and those of the upper half.                                            *)
LEMMA HighRowKeys == \A k \in 1..128 : RowKeys(Rows80ToFF[k])
<1>1. \A k \in 1..128 : AluKeys(Rows80ToFF[k].op, Rows80ToFF[k].mode)
  BY SMTT(60) DEF Rows80ToFF, E, AluKeys
<1>2. \A k \in 1..128 : ShiftKeys(Rows80ToFF[k].op, Rows80ToFF[k].mode)
  BY SMTT(60) DEF Rows80ToFF, E, ShiftKeys
<1>3. \A k \in 1..128 : CountKeys(Rows80ToFF[k].op, Rows80ToFF[k].mode)
  BY SMTT(60) DEF Rows80ToFF, E, CountKeys
<1>4. \A k \in 1..128 : CompareKeys(Rows80ToFF[k].op, Rows80ToFF[k].mode)
  BY SMTT(60) DEF Rows80ToFF, E, CompareKeys
<1>5. \A k \in 1..128 : LoadKeys(Rows80ToFF[k].op, Rows80ToFF[k].mode)
  BY SMTT(60) DEF Rows80ToFF, E, LoadKeys
<1>6. \A k \in 1..128 : StoreKeys(Rows80ToFF[k].op, Rows80ToFF[k].mode)
  BY SMTT(60) DEF Rows80ToFF, E, StoreKeys
<1>7. \A k \in 1..128 : BranchKeys(Rows80ToFF[k].op, Rows80ToFF[k].mode)
  BY SMTT(60) DEF Rows80ToFF, E, BranchKeys
<1>8. \A k \in 1..128 : Rows80ToFF[k].op # "NOP" => ImpliedKeys(Rows80ToFF[k].op, Rows80ToFF[k].mode)
  BY SMTT(60) DEF Rows80ToFF, E, ImpliedKeys
<1>9. \A k \in 1..128 : JumpRow(Rows80ToFF[k])
  BY SMTT(60) DEF Rows80ToFF, E, JumpRow
<1>10. \A k \in 1..128 : Rows80ToFF[k].op \in Undocumented \cup DOMAIN instruction_mapper
  BY MapperNames, SMTT(60) DEF Rows80ToFF, E, Undocumented
<1> QED BY <1>1, <1>2, <1>3, <1>4, <1>5, <1>6, <1>7, <1>8, <1>9, <1>10, Zenon DEF RowKeys

(* Hence the assembler knows a documented row.                             *)
LEMMA KnownRow ==
  ASSUME NEW e, RowKeys(e), e.op \notin Undocumented, e.op = "NOP" => Written(e.mode) = "nul"
  PROVE  MapperKeys(e.op, Written(e.mode))
<1>1. e.op \in DOMAIN instruction_mapper BY DEF RowKeys
<1>2. CASE e.op \in {"JMP", "JSR"}
  <2>1. JumpKeys(e.op, Written(e.mode)) BY <1>2 DEF RowKeys, JumpRow, JumpKeys, Written
  <2> QED BY <1>1, <1>2, <2>1 DEF MapperKeys, AluKeys, ShiftKeys, CountKeys, CompareKeys, LoadKeys,
                                  StoreKeys, BranchKeys, ImpliedKeys
<1>3. CASE e.op \notin {"JMP", "JSR"}
  <2>1. Written(e.mode) = e.mode BY <1>3 DEF RowKeys, JumpRow, Written
  <2>2. JumpKeys(e.op, e.mode) BY <1>3 DEF JumpKeys
  <2>3. ImpliedKeys(e.op, e.mode)
    <3>1. CASE e.op = "NOP" BY <3>1, <2>1 DEF ImpliedKeys
    <3>2. CASE e.op # "NOP" BY <3>2 DEF RowKeys
    <3> QED BY <3>1, <3>2
  <2> QED BY <1>1, <2>1, <2>2, <2>3 DEF RowKeys, MapperKeys
<1> QED BY <1>2, <1>3

(* A byte is an integer between 0 and 255.                                 *)
LEMMA ByteRange == \A n : n \in Byte <=> n \in Int /\ 0 <= n /\ n <= 255
<1>1. UINT8_MAX \in Int BY SMT DEF UINT8_MAX
<1>2. \A n : n \in Byte <=> n \in Int /\ 0 <= n /\ n <= UINT8_MAX BY <1>1, SMT DEF Byte
<1> QED BY <1>2, SMT DEF UINT8_MAX

(* An address is an integer between 0 and 65535.                           *)
LEMMA WordRange == \A n : n \in Word <=> n \in Int /\ 0 <= n /\ n <= 65535
<1>1. UINT16_MAX \in Int BY SMT DEF UINT16_MAX
<1>2. \A n : n \in Word <=> n \in Int /\ 0 <= n /\ n <= UINT16_MAX BY <1>1, SMT DEF Word
<1> QED BY <1>2, SMT DEF UINT16_MAX

(* What is documented is what the assembler's table has.                   *)
LEMMA DocumentedKeys ==
  ASSUME NEW n, NEW t
  PROVE  Documented(n, t) <=> MapperKeys(n, t)
<1>1. ASSUME MapperKeys(n, t) PROVE Documented(n, t)
  BY <1>1, MapperComplete, MapperSound, KeysDocumented DEF Documented, Is
<1>2. ASSUME Documented(n, t) PROVE MapperKeys(n, t)
  <2>1. PICK code \in Byte : instruction_table[code].op = n /\ Written(instruction_table[code].mode) = t
    BY <1>2 DEF Documented
  <2>2. code \in Int /\ 0 <= code /\ code <= 255 BY ByteRange
  <2>3. RowKeys(instruction_table[code]) => MapperKeys(n, t) BY <1>2, <2>1, KnownRow DEF Documented
  <2>4. CASE code < 128
    <3> DEFINE k == code + 1
    <3>1. k \in 1..128 BY <2>2, <2>4
    <3>2. instruction_table[code] = Rows00To7F[k] BY <2>4 DEF instruction_table
    <3> HIDE DEF k
    <3> QED BY <2>3, <3>1, <3>2, LowRowKeys
  <2>5. CASE ~(code < 128)
    <3> DEFINE k == code - 127
    <3>1. k \in 1..128 BY <2>2, <2>5
    <3>2. instruction_table[code] = Rows80ToFF[k] BY <2>5 DEF instruction_table
    <3> HIDE DEF k
    <3> QED BY <2>3, <3>1, <3>2, HighRowKeys
  <2> QED BY <2>4, <2>5
<1> QED BY <1>1, <1>2

(* Unkown is no type of the assembler's table.                             *)
LEMMA EmptyUnknown ==
  ASSUME NEW n, NEW t, MapperKeys(n, t)
  PROVE  t # ""
<1>1. t \in {"imm", "zp", "zpx", "zpy", "abs", "abx", "aby", "izx", "izy", "ind", "acc", "rel", "nul"}
  BY MapperNames DEF MapperKeys, AluKeys, ShiftKeys, CountKeys, CompareKeys, LoadKeys,
         StoreKeys, JumpKeys, BranchKeys, ImpliedKeys
<1> QED BY <1>1, Zenon
-----------------------------------------------------------------------------
(* The operand forms.                                                      *)

(* What the regular expression captures, apart from the name.  The signed  *)
(* decimal is there or is not.                                             *)
Captures(g) ==
  /\ g.opar \in BOOLEAN /\ g.imm \in BOOLEAN /\ g.cpar \in BOOLEAN /\ g.rega \in BOOLEAN
  /\ g.digits \in {0, 2, 3, 4} /\ g.val \in Word /\ (g.digits = 2 => g.val \in Byte)
  /\ g.inner \in {"", "X", "Y"} /\ g.outer \in {"", "X", "Y"}
  /\ g.rel = <<>> \/ \E n \in Int : g.rel = <<n>>

(* g has these groups.                                                     *)
Shape(g, opar, imm, digits, inner, cpar, outer, signed, rega) ==
  /\ g.opar = opar /\ g.imm = imm /\ g.digits = digits /\ g.inner = inner
  /\ g.cpar = cpar /\ g.outer = outer /\ (g.rel # <<>> <=> signed) /\ g.rega = rega

(* Two operands written alike have the same groups.                        *)
LEMMA WritesShape ==
  ASSUME NEW g, NEW mode, NEW opar, NEW imm, NEW digits, NEW inner, NEW cpar, NEW outer,
         NEW signed, NEW rega,
         Shape(Forms[mode], opar, imm, digits, inner, cpar, outer, signed, rega)
  PROVE  Writes(g, mode) <=> Shape(g, opar, imm, digits, inner, cpar, outer, signed, rega)
<1>1. DOMAIN NoGroups \ {"name", "val", "rel"} =
        {"opar", "imm", "digits", "inner", "cpar", "outer", "rega"}
  BY DEF NoGroups
<1> QED BY <1>1 DEF Writes, Shape

(* The groups of the documented forms.                                     *)
LEMMA FormShapes ==
  /\ Shape(Forms["nul"], FALSE, FALSE, 0, "", FALSE, "", FALSE, FALSE)
  /\ Shape(Forms["acc"], FALSE, FALSE, 0, "", FALSE, "", FALSE, TRUE)
  /\ Shape(Forms["rel"], FALSE, FALSE, 0, "", FALSE, "", TRUE, FALSE)
  /\ Shape(Forms["imm"], FALSE, TRUE, 2, "", FALSE, "", FALSE, FALSE)
  /\ Shape(Forms["zp"], FALSE, FALSE, 2, "", FALSE, "", FALSE, FALSE)
  /\ Shape(Forms["zpx"], FALSE, FALSE, 2, "X", FALSE, "", FALSE, FALSE)
  /\ Shape(Forms["zpy"], FALSE, FALSE, 2, "Y", FALSE, "", FALSE, FALSE)
  /\ Shape(Forms["abs"], FALSE, FALSE, 4, "", FALSE, "", FALSE, FALSE)
  /\ Shape(Forms["abx"], FALSE, FALSE, 4, "X", FALSE, "", FALSE, FALSE)
  /\ Shape(Forms["aby"], FALSE, FALSE, 4, "Y", FALSE, "", FALSE, FALSE)
  /\ Shape(Forms["ind"], TRUE, FALSE, 4, "", TRUE, "", FALSE, FALSE)
  /\ Shape(Forms["izx"], TRUE, FALSE, 2, "X", TRUE, "", FALSE, FALSE)
  /\ Shape(Forms["izy"], TRUE, FALSE, 2, "", TRUE, "Y", FALSE, FALSE)
<1>0. PICK v : v = 4660 OBVIOUS
<1> DEFINE O2 == [NoGroups EXCEPT !.digits = 2, !.val = 18]
           O4 == [NoGroups EXCEPT !.digits = 4, !.val = v]
           I2 == [O2 EXCEPT !.opar = TRUE, !.cpar = TRUE]
           I4 == [O4 EXCEPT !.opar = TRUE, !.cpar = TRUE]
<1>1. Shape(Forms["nul"], FALSE, FALSE, 0, "", FALSE, "", FALSE, FALSE)
  <2> DEFINE f == NoGroups
  <2>1. Forms["nul"] = f BY <1>0, SMT DEF Forms
  <2>2. Shape(f, FALSE, FALSE, 0, "", FALSE, "", FALSE, FALSE) BY Zenon DEF Shape, NoGroups
  <2> HIDE DEF f
  <2> QED BY <2>1, <2>2
<1>2. Shape(Forms["acc"], FALSE, FALSE, 0, "", FALSE, "", FALSE, TRUE)
  <2> DEFINE f == [NoGroups EXCEPT !.rega = TRUE]
  <2>1. Forms["acc"] = f BY <1>0, SMT DEF Forms
  <2>2. Shape(f, FALSE, FALSE, 0, "", FALSE, "", FALSE, TRUE) BY Zenon DEF Shape, NoGroups
  <2> HIDE DEF f
  <2> QED BY <2>1, <2>2
<1>3. Shape(Forms["rel"], FALSE, FALSE, 0, "", FALSE, "", TRUE, FALSE)
  <2> DEFINE f == [NoGroups EXCEPT !.rel = <<-4>>]
  <2>1. Forms["rel"] = f BY <1>0, SMT DEF Forms
  <2>2. Shape(f, FALSE, FALSE, 0, "", FALSE, "", TRUE, FALSE) BY Zenon DEF Shape, NoGroups
  <2> HIDE DEF f
  <2> QED BY <2>1, <2>2
<1>4. Shape(Forms["imm"], FALSE, TRUE, 2, "", FALSE, "", FALSE, FALSE)
  <2> DEFINE f == [O2 EXCEPT !.imm = TRUE]
  <2>1. Forms["imm"] = f BY <1>0, SMT DEF Forms
  <2>2. Shape(f, FALSE, TRUE, 2, "", FALSE, "", FALSE, FALSE) BY Zenon DEF Shape, NoGroups
  <2> HIDE DEF f
  <2> QED BY <2>1, <2>2
<1>5. Shape(Forms["zp"], FALSE, FALSE, 2, "", FALSE, "", FALSE, FALSE)
  <2> DEFINE f == O2
  <2>1. Forms["zp"] = f BY <1>0, SMT DEF Forms
  <2>2. Shape(f, FALSE, FALSE, 2, "", FALSE, "", FALSE, FALSE) BY Zenon DEF Shape, NoGroups
  <2> HIDE DEF f
  <2> QED BY <2>1, <2>2
<1>6. Shape(Forms["zpx"], FALSE, FALSE, 2, "X", FALSE, "", FALSE, FALSE)
  <2> DEFINE f == [O2 EXCEPT !.inner = "X"]
  <2>1. Forms["zpx"] = f BY <1>0, SMT DEF Forms
  <2>2. Shape(f, FALSE, FALSE, 2, "X", FALSE, "", FALSE, FALSE) BY Zenon DEF Shape, NoGroups
  <2> HIDE DEF f
  <2> QED BY <2>1, <2>2
<1>7. Shape(Forms["zpy"], FALSE, FALSE, 2, "Y", FALSE, "", FALSE, FALSE)
  <2> DEFINE f == [O2 EXCEPT !.inner = "Y"]
  <2>1. Forms["zpy"] = f BY <1>0, SMT DEF Forms
  <2>2. Shape(f, FALSE, FALSE, 2, "Y", FALSE, "", FALSE, FALSE) BY Zenon DEF Shape, NoGroups
  <2> HIDE DEF f
  <2> QED BY <2>1, <2>2
<1>8. Shape(Forms["abs"], FALSE, FALSE, 4, "", FALSE, "", FALSE, FALSE)
  <2> DEFINE f == O4
  <2>1. Forms["abs"] = f BY <1>0, SMT DEF Forms
  <2>2. Shape(f, FALSE, FALSE, 4, "", FALSE, "", FALSE, FALSE) BY Zenon DEF Shape, NoGroups
  <2> HIDE DEF f
  <2> QED BY <2>1, <2>2
<1>9. Shape(Forms["abx"], FALSE, FALSE, 4, "X", FALSE, "", FALSE, FALSE)
  <2> DEFINE f == [O4 EXCEPT !.inner = "X"]
  <2>1. Forms["abx"] = f BY <1>0, SMT DEF Forms
  <2>2. Shape(f, FALSE, FALSE, 4, "X", FALSE, "", FALSE, FALSE) BY Zenon DEF Shape, NoGroups
  <2> HIDE DEF f
  <2> QED BY <2>1, <2>2
<1>10. Shape(Forms["aby"], FALSE, FALSE, 4, "Y", FALSE, "", FALSE, FALSE)
  <2> DEFINE f == [O4 EXCEPT !.inner = "Y"]
  <2>1. Forms["aby"] = f BY <1>0, SMT DEF Forms
  <2>2. Shape(f, FALSE, FALSE, 4, "Y", FALSE, "", FALSE, FALSE) BY Zenon DEF Shape, NoGroups
  <2> HIDE DEF f
  <2> QED BY <2>1, <2>2
<1>11. Shape(Forms["ind"], TRUE, FALSE, 4, "", TRUE, "", FALSE, FALSE)
  <2> DEFINE f == I4
  <2>1. Forms["ind"] = f BY <1>0, SMT DEF Forms
  <2>2. Shape(f, TRUE, FALSE, 4, "", TRUE, "", FALSE, FALSE) BY Zenon DEF Shape, NoGroups
  <2> HIDE DEF f
  <2> QED BY <2>1, <2>2
<1>12. Shape(Forms["izx"], TRUE, FALSE, 2, "X", TRUE, "", FALSE, FALSE)
  <2> DEFINE f == [I2 EXCEPT !.inner = "X"]
  <2>1. Forms["izx"] = f BY <1>0, SMT DEF Forms
  <2>2. Shape(f, TRUE, FALSE, 2, "X", TRUE, "", FALSE, FALSE) BY Zenon DEF Shape, NoGroups
  <2> HIDE DEF f
  <2> QED BY <2>1, <2>2
<1>13. Shape(Forms["izy"], TRUE, FALSE, 2, "", TRUE, "Y", FALSE, FALSE)
  <2> DEFINE f == [I2 EXCEPT !.outer = "Y"]
  <2>1. Forms["izy"] = f BY <1>0, SMT DEF Forms
  <2>2. Shape(f, TRUE, FALSE, 2, "", TRUE, "Y", FALSE, FALSE) BY Zenon DEF Shape, NoGroups
  <2> HIDE DEF f
  <2> QED BY <2>1, <2>2
<1> QED BY <1>1, <1>2, <1>3, <1>4, <1>5, <1>6, <1>7, <1>8, <1>9, <1>10, <1>11, <1>12, <1>13

(* The modes that the documentation lists.                                 *)
LEMMA FormModes ==
  DOMAIN Forms = {"nul", "acc", "rel", "imm", "zp", "zpx", "zpy", "abs", "abx", "aby", "ind",
                  "izx", "izy"}
  BY SMT DEF Forms

(* The groups that type() takes for mode t.                                *)
TypeShape(g, t) ==
  /\ t = "nul" => Shape(g, FALSE, FALSE, 0, "", FALSE, "", FALSE, FALSE)
  /\ t = "acc" => Shape(g, FALSE, FALSE, 0, "", FALSE, "", FALSE, TRUE)
  /\ t = "rel" => Shape(g, FALSE, FALSE, 0, "", FALSE, "", TRUE, FALSE)
  /\ t = "imm" => Shape(g, FALSE, TRUE, 2, "", FALSE, "", FALSE, FALSE)
  /\ t = "zp" => Shape(g, FALSE, FALSE, 2, "", FALSE, "", FALSE, FALSE)
  /\ t = "zpx" => Shape(g, FALSE, FALSE, 2, "X", FALSE, "", FALSE, FALSE)
  /\ t = "zpy" => Shape(g, FALSE, FALSE, 2, "Y", FALSE, "", FALSE, FALSE)
  /\ t = "abs" => Shape(g, FALSE, FALSE, 4, "", FALSE, "", FALSE, FALSE)
  /\ t = "abx" => Shape(g, FALSE, FALSE, 4, "X", FALSE, "", FALSE, FALSE)
  /\ t = "aby" => Shape(g, FALSE, FALSE, 4, "Y", FALSE, "", FALSE, FALSE)
  /\ t = "ind" => Shape(g, TRUE, FALSE, 4, "", TRUE, "", FALSE, FALSE)
  /\ t = "izx" => Shape(g, TRUE, FALSE, 2, "X", TRUE, "", FALSE, FALSE)
  /\ t = "izy" => Shape(g, TRUE, FALSE, 2, "", TRUE, "Y", FALSE, FALSE)

(* Each is what the documentation writes.                                  *)
LEMMA WritesType ==
  ASSUME NEW g, NEW t \in DOMAIN Forms
  PROVE  Writes(g, t) <=> TypeShape(g, t)
<1>1. CASE t = "nul"
  <2>1. Shape(Forms["nul"], FALSE, FALSE, 0, "", FALSE, "", FALSE, FALSE) BY FormShapes
  <2>2. Writes(g, "nul") <=> Shape(g, FALSE, FALSE, 0, "", FALSE, "", FALSE, FALSE)
    BY <2>1, WritesShape
  <2>3. TypeShape(g, "nul") <=> Shape(g, FALSE, FALSE, 0, "", FALSE, "", FALSE, FALSE)
    BY DEF TypeShape
  <2> QED BY <1>1, <2>2, <2>3
<1>2. CASE t = "acc"
  <2>1. Shape(Forms["acc"], FALSE, FALSE, 0, "", FALSE, "", FALSE, TRUE) BY FormShapes
  <2>2. Writes(g, "acc") <=> Shape(g, FALSE, FALSE, 0, "", FALSE, "", FALSE, TRUE)
    BY <2>1, WritesShape
  <2>3. TypeShape(g, "acc") <=> Shape(g, FALSE, FALSE, 0, "", FALSE, "", FALSE, TRUE)
    BY DEF TypeShape
  <2> QED BY <1>2, <2>2, <2>3
<1>3. CASE t = "rel"
  <2>1. Shape(Forms["rel"], FALSE, FALSE, 0, "", FALSE, "", TRUE, FALSE) BY FormShapes
  <2>2. Writes(g, "rel") <=> Shape(g, FALSE, FALSE, 0, "", FALSE, "", TRUE, FALSE)
    BY <2>1, WritesShape
  <2>3. TypeShape(g, "rel") <=> Shape(g, FALSE, FALSE, 0, "", FALSE, "", TRUE, FALSE)
    BY DEF TypeShape
  <2> QED BY <1>3, <2>2, <2>3
<1>4. CASE t = "imm"
  <2>1. Shape(Forms["imm"], FALSE, TRUE, 2, "", FALSE, "", FALSE, FALSE) BY FormShapes
  <2>2. Writes(g, "imm") <=> Shape(g, FALSE, TRUE, 2, "", FALSE, "", FALSE, FALSE)
    BY <2>1, WritesShape
  <2>3. TypeShape(g, "imm") <=> Shape(g, FALSE, TRUE, 2, "", FALSE, "", FALSE, FALSE)
    BY DEF TypeShape
  <2> QED BY <1>4, <2>2, <2>3
<1>5. CASE t = "zp"
  <2>1. Shape(Forms["zp"], FALSE, FALSE, 2, "", FALSE, "", FALSE, FALSE) BY FormShapes
  <2>2. Writes(g, "zp") <=> Shape(g, FALSE, FALSE, 2, "", FALSE, "", FALSE, FALSE)
    BY <2>1, WritesShape
  <2>3. TypeShape(g, "zp") <=> Shape(g, FALSE, FALSE, 2, "", FALSE, "", FALSE, FALSE)
    BY DEF TypeShape
  <2> QED BY <1>5, <2>2, <2>3
<1>6. CASE t = "zpx"
  <2>1. Shape(Forms["zpx"], FALSE, FALSE, 2, "X", FALSE, "", FALSE, FALSE) BY FormShapes
  <2>2. Writes(g, "zpx") <=> Shape(g, FALSE, FALSE, 2, "X", FALSE, "", FALSE, FALSE)
    BY <2>1, WritesShape
  <2>3. TypeShape(g, "zpx") <=> Shape(g, FALSE, FALSE, 2, "X", FALSE, "", FALSE, FALSE)
    BY DEF TypeShape
  <2> QED BY <1>6, <2>2, <2>3
<1>7. CASE t = "zpy"
  <2>1. Shape(Forms["zpy"], FALSE, FALSE, 2, "Y", FALSE, "", FALSE, FALSE) BY FormShapes
  <2>2. Writes(g, "zpy") <=> Shape(g, FALSE, FALSE, 2, "Y", FALSE, "", FALSE, FALSE)
    BY <2>1, WritesShape
  <2>3. TypeShape(g, "zpy") <=> Shape(g, FALSE, FALSE, 2, "Y", FALSE, "", FALSE, FALSE)
    BY DEF TypeShape
  <2> QED BY <1>7, <2>2, <2>3
<1>8. CASE t = "abs"
  <2>1. Shape(Forms["abs"], FALSE, FALSE, 4, "", FALSE, "", FALSE, FALSE) BY FormShapes
  <2>2. Writes(g, "abs") <=> Shape(g, FALSE, FALSE, 4, "", FALSE, "", FALSE, FALSE)
    BY <2>1, WritesShape
  <2>3. TypeShape(g, "abs") <=> Shape(g, FALSE, FALSE, 4, "", FALSE, "", FALSE, FALSE)
    BY DEF TypeShape
  <2> QED BY <1>8, <2>2, <2>3
<1>9. CASE t = "abx"
  <2>1. Shape(Forms["abx"], FALSE, FALSE, 4, "X", FALSE, "", FALSE, FALSE) BY FormShapes
  <2>2. Writes(g, "abx") <=> Shape(g, FALSE, FALSE, 4, "X", FALSE, "", FALSE, FALSE)
    BY <2>1, WritesShape
  <2>3. TypeShape(g, "abx") <=> Shape(g, FALSE, FALSE, 4, "X", FALSE, "", FALSE, FALSE)
    BY DEF TypeShape
  <2> QED BY <1>9, <2>2, <2>3
<1>10. CASE t = "aby"
  <2>1. Shape(Forms["aby"], FALSE, FALSE, 4, "Y", FALSE, "", FALSE, FALSE) BY FormShapes
  <2>2. Writes(g, "aby") <=> Shape(g, FALSE, FALSE, 4, "Y", FALSE, "", FALSE, FALSE)
    BY <2>1, WritesShape
  <2>3. TypeShape(g, "aby") <=> Shape(g, FALSE, FALSE, 4, "Y", FALSE, "", FALSE, FALSE)
    BY DEF TypeShape
  <2> QED BY <1>10, <2>2, <2>3
<1>11. CASE t = "ind"
  <2>1. Shape(Forms["ind"], TRUE, FALSE, 4, "", TRUE, "", FALSE, FALSE) BY FormShapes
  <2>2. Writes(g, "ind") <=> Shape(g, TRUE, FALSE, 4, "", TRUE, "", FALSE, FALSE)
    BY <2>1, WritesShape
  <2>3. TypeShape(g, "ind") <=> Shape(g, TRUE, FALSE, 4, "", TRUE, "", FALSE, FALSE)
    BY DEF TypeShape
  <2> QED BY <1>11, <2>2, <2>3
<1>12. CASE t = "izx"
  <2>1. Shape(Forms["izx"], TRUE, FALSE, 2, "X", TRUE, "", FALSE, FALSE) BY FormShapes
  <2>2. Writes(g, "izx") <=> Shape(g, TRUE, FALSE, 2, "X", TRUE, "", FALSE, FALSE)
    BY <2>1, WritesShape
  <2>3. TypeShape(g, "izx") <=> Shape(g, TRUE, FALSE, 2, "X", TRUE, "", FALSE, FALSE)
    BY DEF TypeShape
  <2> QED BY <1>12, <2>2, <2>3
<1>13. CASE t = "izy"
  <2>1. Shape(Forms["izy"], TRUE, FALSE, 2, "", TRUE, "Y", FALSE, FALSE) BY FormShapes
  <2>2. Writes(g, "izy") <=> Shape(g, TRUE, FALSE, 2, "", TRUE, "Y", FALSE, FALSE)
    BY <2>1, WritesShape
  <2>3. TypeShape(g, "izy") <=> Shape(g, TRUE, FALSE, 2, "", TRUE, "Y", FALSE, FALSE)
    BY DEF TypeShape
  <2> QED BY <1>13, <2>2, <2>3
<1> QED BY FormModes, <1>1, <1>2, <1>3, <1>4, <1>5, <1>6, <1>7, <1>8, <1>9, <1>10, <1>11, <1>12,
           <1>13

(* Numbers of digits that differ.                                          *)
LEMMA DigitCounts == 0 # 2 /\ 0 # 4 /\ 2 # 4 OBVIOUS

(* The cases of type() with an address in parentheses,                     *)
LEMMA IndirectTypeShape ==
  ASSUME NEW g, Captures(g), g.opar, g.cpar, IndirectType(g) # ""
  PROVE  IndirectType(g) \in DOMAIN Forms /\ TypeShape(g, IndirectType(g))
<1>0. IndirectType(g) \in {"ind", "izx", "izy", ""} BY DEF IndirectType
<1>1. ~g.imm /\ ~g.rega /\ g.rel = <<>> BY DEF IndirectType
<1>2. g.opar = TRUE /\ g.cpar = TRUE /\ g.imm = FALSE /\ g.rega = FALSE BY <1>1, Zenon DEF Captures
<1>3. CASE IndirectType(g) = "ind"
  <2>1. g.digits = 4 /\ g.inner = "" /\ g.outer = "" BY <1>3 DEF IndirectType
  <2> QED BY <1>1, <1>2, <1>3, <2>1, FormModes, Zenon DEF Shape, TypeShape
<1>4. CASE IndirectType(g) = "izx"
  <2>1. g.digits = 2 /\ g.inner = "X" /\ g.outer = "" BY <1>4 DEF IndirectType
  <2> QED BY <1>1, <1>2, <1>4, <2>1, FormModes, Zenon DEF Shape, TypeShape
<1>5. CASE IndirectType(g) = "izy"
  <2>1. g.digits = 2 /\ g.inner = "" /\ g.outer = "Y" BY <1>5 DEF IndirectType
  <2> QED BY <1>1, <1>2, <1>5, <2>1, FormModes, Zenon DEF Shape, TypeShape
<1> QED BY <1>0, <1>3, <1>4, <1>5

(* with an indexed address or a plain one,                                 *)
LEMMA IndexedTypeShape ==
  ASSUME NEW g, Captures(g), ~g.opar, ~g.cpar, ~g.imm, ~g.rega, g.rel = <<>>,
         IndexedType(g) # ""
  PROVE  IndexedType(g) \in DOMAIN Forms /\ TypeShape(g, IndexedType(g))
<1>1. g.opar = FALSE /\ g.cpar = FALSE /\ g.imm = FALSE /\ g.rega = FALSE BY Zenon DEF Captures
<1>2. g.outer = "" /\ g.digits \in {2, 4} BY DEF IndexedType
<1>3. g.inner \in {"", "X", "Y"} BY DEF Captures
<1>4. CASE g.digits = 4
  <2>1. CASE g.inner = ""
    <3>1. IndexedType(g) = "abs" BY <1>2, <1>4, <2>1, DigitCounts, Zenon DEF IndexedType
    <3> QED BY <1>1, <1>2, <1>4, <2>1, <3>1, FormModes, Zenon DEF Shape, TypeShape
  <2>2. CASE g.inner = "X"
    <3>1. IndexedType(g) = "abx" BY <1>2, <1>4, <2>2, DigitCounts, Zenon DEF IndexedType
    <3> QED BY <1>1, <1>2, <1>4, <2>2, <3>1, FormModes, Zenon DEF Shape, TypeShape
  <2>3. CASE g.inner = "Y"
    <3>1. IndexedType(g) = "aby" BY <1>2, <1>4, <2>3, DigitCounts, Zenon DEF IndexedType
    <3> QED BY <1>1, <1>2, <1>4, <2>3, <3>1, FormModes, Zenon DEF Shape, TypeShape
  <2> QED BY <1>3, <2>1, <2>2, <2>3
<1>5. CASE g.digits = 2
  <2>1. CASE g.inner = ""
    <3>1. IndexedType(g) = "zp" BY <1>2, <1>5, <2>1, DigitCounts, Zenon DEF IndexedType
    <3> QED BY <1>1, <1>2, <1>5, <2>1, <3>1, FormModes, Zenon DEF Shape, TypeShape
  <2>2. CASE g.inner = "X"
    <3>1. IndexedType(g) = "zpx" BY <1>2, <1>5, <2>2, DigitCounts, Zenon DEF IndexedType
    <3> QED BY <1>1, <1>2, <1>5, <2>2, <3>1, FormModes, Zenon DEF Shape, TypeShape
  <2>3. CASE g.inner = "Y"
    <3>1. IndexedType(g) = "zpy" BY <1>2, <1>5, <2>3, DigitCounts, Zenon DEF IndexedType
    <3> QED BY <1>1, <1>2, <1>5, <2>3, <3>1, FormModes, Zenon DEF Shape, TypeShape
  <2> QED BY <1>3, <2>1, <2>2, <2>3
<1> QED BY <1>2, <1>4, <1>5

(* and all of them.                                                        *)
LEMMA TypeHasShape ==
  ASSUME NEW g, Captures(g), type(g) # ""
  PROVE  type(g) \in DOMAIN Forms /\ TypeShape(g, type(g))
<1>1. g.opar = g.cpar BY DEF type
<1>2. CASE g.opar
  <2>1. type(g) = IndirectType(g) BY <1>1, <1>2 DEF type
  <2> QED BY <1>1, <1>2, <2>1, IndirectTypeShape
<1>3. CASE ~g.opar
  <2>0. g.opar = FALSE /\ g.cpar = FALSE BY <1>1, <1>3, Zenon DEF Captures
  <2>1. CASE g.imm
    <3>1. /\ type(g) = "imm" /\ g.digits = 2 /\ g.inner = "" /\ g.outer = ""
          /\ g.rel = <<>> /\ ~g.rega
      BY <1>1, <1>3, <2>1 DEF type
    <3>2. g.imm = TRUE /\ g.rega = FALSE BY <2>1, <3>1, Zenon DEF Captures
    <3> QED BY <2>0, <3>1, <3>2, FormModes, Zenon DEF Shape, TypeShape
  <2>2. CASE ~g.imm /\ g.rega
    <3>1. /\ type(g) = "acc" /\ g.digits = 0 /\ g.inner = "" /\ g.outer = "" /\ g.rel = <<>>
      BY <1>1, <1>3, <2>2 DEF type
    <3>2. g.imm = FALSE /\ g.rega = TRUE BY <2>2, Zenon DEF Captures
    <3> QED BY <2>0, <3>1, <3>2, FormModes, Zenon DEF Shape, TypeShape
  <2>3. CASE ~g.imm /\ ~g.rega /\ g.rel # <<>>
    <3>1. type(g) = "rel" /\ g.digits = 0 /\ g.inner = "" /\ g.outer = ""
      BY <1>1, <1>3, <2>3 DEF type
    <3>2. g.imm = FALSE /\ g.rega = FALSE BY <2>3, Zenon DEF Captures
    <3> QED BY <2>0, <2>3, <3>1, <3>2, FormModes, Zenon DEF Shape, TypeShape
  <2>4. CASE ~g.imm /\ ~g.rega /\ g.rel = <<>>
    <3>1. g.imm = FALSE /\ g.rega = FALSE BY <2>4, Zenon DEF Captures
    <3>2. CASE g.digits = 0 /\ g.inner = "" /\ g.outer = ""
      <4>1. type(g) = "nul" BY <1>1, <1>3, <2>4, <3>2 DEF type
      <4> QED BY <2>0, <2>4, <3>1, <3>2, <4>1, FormModes, Zenon DEF Shape, TypeShape
    <3>3. CASE ~(g.digits = 0 /\ g.inner = "" /\ g.outer = "")
      <4>1. type(g) = IndexedType(g) BY <1>1, <1>3, <2>4, <3>3 DEF type
      <4> QED BY <1>1, <1>3, <2>4, <4>1, IndexedTypeShape
    <3> QED BY <3>2, <3>3
  <2> QED BY <2>1, <2>2, <2>3, <2>4
<1> QED BY <1>2, <1>3

(* Conversely, an operand of the documented shape has that type.           *)
LEMMA ShapeHasType ==
  ASSUME NEW g, NEW t \in DOMAIN Forms, TypeShape(g, t)
  PROVE  type(g) = t
<1>1. CASE t = "nul"
  <2>1. Shape(g, FALSE, FALSE, 0, "", FALSE, "", FALSE, FALSE) BY <1>1 DEF TypeShape
  <2> QED BY <1>1, <2>1, DigitCounts, Zenon DEF Shape, type
<1>2. CASE t = "acc"
  <2>1. Shape(g, FALSE, FALSE, 0, "", FALSE, "", FALSE, TRUE) BY <1>2 DEF TypeShape
  <2> QED BY <1>2, <2>1, DigitCounts, Zenon DEF Shape, type
<1>3. CASE t = "rel"
  <2>1. Shape(g, FALSE, FALSE, 0, "", FALSE, "", TRUE, FALSE) BY <1>3 DEF TypeShape
  <2> QED BY <1>3, <2>1, DigitCounts, Zenon DEF Shape, type
<1>4. CASE t = "imm"
  <2>1. Shape(g, FALSE, TRUE, 2, "", FALSE, "", FALSE, FALSE) BY <1>4 DEF TypeShape
  <2> QED BY <1>4, <2>1, DigitCounts, Zenon DEF Shape, type
<1>5. CASE t = "zp"
  <2>1. Shape(g, FALSE, FALSE, 2, "", FALSE, "", FALSE, FALSE) BY <1>5 DEF TypeShape
  <2> QED BY <1>5, <2>1, DigitCounts, Zenon DEF Shape, type, IndexedType
<1>6. CASE t = "zpx"
  <2>1. Shape(g, FALSE, FALSE, 2, "X", FALSE, "", FALSE, FALSE) BY <1>6 DEF TypeShape
  <2> QED BY <1>6, <2>1, DigitCounts, Zenon DEF Shape, type, IndexedType
<1>7. CASE t = "zpy"
  <2>1. Shape(g, FALSE, FALSE, 2, "Y", FALSE, "", FALSE, FALSE) BY <1>7 DEF TypeShape
  <2> QED BY <1>7, <2>1, DigitCounts, Zenon DEF Shape, type, IndexedType
<1>8. CASE t = "abs"
  <2>1. Shape(g, FALSE, FALSE, 4, "", FALSE, "", FALSE, FALSE) BY <1>8 DEF TypeShape
  <2> QED BY <1>8, <2>1, DigitCounts, Zenon DEF Shape, type, IndexedType
<1>9. CASE t = "abx"
  <2>1. Shape(g, FALSE, FALSE, 4, "X", FALSE, "", FALSE, FALSE) BY <1>9 DEF TypeShape
  <2> QED BY <1>9, <2>1, DigitCounts, Zenon DEF Shape, type, IndexedType
<1>10. CASE t = "aby"
  <2>1. Shape(g, FALSE, FALSE, 4, "Y", FALSE, "", FALSE, FALSE) BY <1>10 DEF TypeShape
  <2> QED BY <1>10, <2>1, DigitCounts, Zenon DEF Shape, type, IndexedType
<1>11. CASE t = "ind"
  <2>1. Shape(g, TRUE, FALSE, 4, "", TRUE, "", FALSE, FALSE) BY <1>11 DEF TypeShape
  <2> QED BY <1>11, <2>1, DigitCounts, Zenon DEF Shape, type, IndirectType
<1>12. CASE t = "izx"
  <2>1. Shape(g, TRUE, FALSE, 2, "X", TRUE, "", FALSE, FALSE) BY <1>12 DEF TypeShape
  <2> QED BY <1>12, <2>1, DigitCounts, Zenon DEF Shape, type, IndirectType
<1>13. CASE t = "izy"
  <2>1. Shape(g, TRUE, FALSE, 2, "", TRUE, "Y", FALSE, FALSE) BY <1>13 DEF TypeShape
  <2> QED BY <1>13, <2>1, DigitCounts, Zenon DEF Shape, type, IndirectType
<1> QED BY FormModes, <1>1, <1>2, <1>3, <1>4, <1>5, <1>6, <1>7, <1>8, <1>9, <1>10, <1>11, <1>12,
           <1>13

(* So the operand of a mode is written as the documentation says exactly   *)
(* where type() returns that mode.                                         *)
LEMMA WritesIsType ==
  ASSUME NEW g, Captures(g), NEW t \in DOMAIN Forms
  PROVE  Writes(g, t) <=> type(g) = t
<1>1. t # "" BY FormModes, Zenon
<1>2. type(g) = t => TypeShape(g, t) BY <1>1, TypeHasShape
<1> QED BY <1>2, WritesType, ShapeHasType

(* An instruction line is accepted exactly if it is documented: the table  *)
(* that compile() searches and the one the processor executes agree.       *)
LEMMA AcceptedIsDocumented ==
  ASSUME NEW tok, tok.kind = "instruction" => Captures(tok.g)
  PROVE  Accepted(tok) <=> DocumentedLine(tok)
<1>1. ASSUME Accepted(tok) PROVE DocumentedLine(tok)
  <2>1. tok.kind = "instruction" /\ found(tok.g) BY <1>1 DEF Accepted
  <2>2. MapperKeys(tok.g.name, type(tok.g)) BY <2>1, MapperSound DEF found
  <2>3. Documented(tok.g.name, type(tok.g)) BY <2>2, DocumentedKeys
  <2>4. type(tok.g) # "" BY <2>2, EmptyUnknown
  <2>5. type(tok.g) \in DOMAIN Forms BY <2>1, <2>4, TypeHasShape
  <2> QED BY <2>1, <2>3, <2>5, WritesIsType DEF DocumentedLine
<1>2. ASSUME DocumentedLine(tok) PROVE Accepted(tok)
  <2>1. PICK mode \in DOMAIN Forms : Writes(tok.g, mode) /\ Documented(tok.g.name, mode)
    BY <1>2 DEF DocumentedLine
  <2>2. type(tok.g) = mode BY <1>2, <2>1, WritesIsType DEF DocumentedLine
  <2>3. MapperKeys(tok.g.name, mode) BY <2>1, DocumentedKeys
  <2> QED BY <1>2, <2>2, <2>3, MapperComplete DEF Accepted, found, DocumentedLine
<1> QED BY <1>1, <1>2

-----------------------------------------------------------------------------
(* The sources.                                                            *)

(* What stands between two terminators, or is one.                         *)
IsToken(t) ==
  \/ t \in {CR, LF, Token("blank"), Token("unmatched")}
  \/ t.kind = "instruction" /\ Captures(t.g)

(* At most one text between two terminators.                               *)
IsSource(src) ==
  /\ src \in Seq({src[k] : k \in 1..Len(src)})
  /\ \A k \in 1..Len(src) : IsToken(src[k])
  /\ \A k \in 1..(Len(src) - 1) : src[k] \in Terminators \/ src[k + 1] \in Terminators

(* Every source the assembler may be given, at every base address.         *)
AnyInit == IsSource(source) /\ m_base_code \in Word /\ CompileInit(source, m_base_code)
AnySpec == AnyInit /\ [][Next]_vars

(* The kinds of tokens.                                                    *)
LEMMA TokenKinds ==
  /\ CR.kind = "CR" /\ LF.kind = "LF" /\ CR # LF
  /\ Token("blank").kind = "blank" /\ Token("unmatched").kind = "unmatched"
<1>1. CR.kind = "CR" /\ LF.kind = "LF" BY Zenon DEF CR, LF, Token
<1>2. Token("blank").kind = "blank" /\ Token("unmatched").kind = "unmatched" BY Zenon DEF Token
<1> QED BY <1>1, <1>2

(* A text is wrong exactly if compile() does not pass over it and does not *)
(* accept it.                                                              *)
LEMMA WrongText ==
  ASSUME NEW k \in 1..Len(source), IsToken(source[k]), source[k] \notin Terminators
  PROVE  Wrong(k) <=> source[k].kind # "blank" /\ ~Accepted(source[k])
<1>1. source[k].kind = "instruction" => Captures(source[k].g)
  BY TokenKinds DEF IsToken, Terminators
<1>2. Accepted(source[k]) <=> DocumentedLine(source[k]) BY <1>1, AcceptedIsDocumented
<1>3. source[k].kind = "blank" <=> source[k] = Token("blank") BY TokenKinds DEF IsToken, Terminators
<1> QED BY <1>2, <1>3 DEF Wrong

-----------------------------------------------------------------------------
(* Line numbers.                                                           *)

IsText(k) == k \in 1..Len(source) /\ source[k] \notin Terminators

(* The number of terminators before k, if CR LF counts once.               *)
Ends(k) == Cardinality(EndsBefore(k))

(* k is a LF that getline() did not take for the end of a CR LF, because   *)
(* that CR already ended a LF CR.                                          *)
Resumed(k) == k > 1 /\ source[k] = LF /\ source[k - 1] = CR

(* The terminator at k counts.                                             *)
Counts(k) == source[k] = CR \/ (source[k] = LF /\ (k = 1 \/ source[k - 1] # CR))

(* getline()'s line i starts at k.  A LF CR made i smaller than the number *)
(* of the line, but at a resumed LF it has caught up when the LF is over.  *)
Numbered(i, k) ==
  k <= Len(source) =>
    /\ i <= Ends(k) + 1
    /\ i = Ends(k) + 1 \/ LoneCrAfterLf(k) \/ (Resumed(k) /\ i = Ends(k))
    /\ Resumed(k) => i <= Ends(k)

(* The terminators are counted one by one.                                 *)
LEMMA EndsStep ==
  ASSUME NEW k \in Nat \ {0}
  PROVE  /\ Ends(k) \in Nat
         /\ Ends(k + 1) = IF Counts(k) THEN Ends(k) + 1 ELSE Ends(k)
<1>1. IsFiniteSet(1..(k - 1)) BY FS_Interval
<1>2. EndsBefore(k) \subseteq 1..(k - 1) BY DEF EndsBefore
<1>3. IsFiniteSet(EndsBefore(k)) BY <1>1, <1>2, FS_Subset
<1>4. Ends(k) \in Nat BY <1>3, FS_CardinalityType DEF Ends
<1>5. CASE Counts(k)
  <2>1. EndsBefore(k + 1) = EndsBefore(k) \cup {k} BY <1>5, SMT DEF EndsBefore, Counts
  <2>2. k \notin EndsBefore(k) BY <1>2
  <2> QED BY <1>3, <1>4, <1>5, <2>1, <2>2, FS_AddElement DEF Ends
<1>6. CASE ~Counts(k)
  <2>1. EndsBefore(k + 1) = EndsBefore(k) BY <1>6, SMT DEF EndsBefore, Counts
  <2> QED BY <1>4, <1>6, <2>1 DEF Ends
<1> QED BY <1>5, <1>6

(* There is none before the first token.                                   *)
LEMMA EndsFirst == Ends(1) = 0
<1>1. EndsBefore(1) = {} BY DEF EndsBefore
<1> QED BY <1>1, FS_EmptySet DEF Ends

(* A lone CR stays behind.                                                 *)
LEMMA LoneStays ==
  ASSUME NEW k \in Nat \ {0}, NEW n \in Nat \ {0}, k <= n, LoneCrAfterLf(k)
  PROVE  LoneCrAfterLf(n)
  BY SMT DEF LoneCrAfterLf

(* A line's text does not change its number.                               *)
LEMMA NumberedText ==
  ASSUME NEW i \in Nat, NEW k \in Nat \ {0}, IsText(k), Numbered(i, k)
  PROVE  Numbered(i, k + 1) /\ ~Resumed(k + 1)
<1>1. ~Counts(k) /\ ~Resumed(k) /\ ~Resumed(k + 1)
  BY DEF IsText, Counts, Resumed, Terminators
<1>2. Ends(k + 1) = Ends(k) /\ Ends(k) \in Nat BY <1>1, EndsStep
<1>3. LoneCrAfterLf(k) => LoneCrAfterLf(k + 1) BY LoneStays
<1>4. k <= Len(source) BY DEF IsText
<1> QED BY <1>1, <1>2, <1>3, <1>4 DEF Numbered

(* Nor do terminators make it wrong: the next line starts behind the       *)
(* terminator at k, and behind its second character.                       *)
LEMMA NumberedEnd ==
  ASSUME IsSource(source), NEW i \in Nat, NEW k \in Nat \ {0}, IsEnd(k), Numbered(i, k)
  PROVE  Numbered(i + 1, IF Paired(k) THEN k + 2 ELSE k + 1)
<1>0. k <= Len(source) /\ source[k] \in {CR, LF} /\ CR # LF /\ Len(source) \in Nat
  BY TokenKinds DEF IsEnd, Terminators, IsSource
<1>1. Counts(k) <=> ~Resumed(k) BY <1>0 DEF Counts, Resumed
<1>2. /\ Ends(k) \in Nat
      /\ Ends(k + 1) = IF Counts(k) THEN Ends(k) + 1 ELSE Ends(k)
  BY EndsStep
<1>3. CASE ~Paired(k)
  <2>1. k + 1 <= Len(source) => ~Resumed(k + 1)
    BY <1>0, <1>3 DEF Paired, IsEnd, Resumed, Terminators
  <2>2. LoneCrAfterLf(k) => LoneCrAfterLf(k + 1) BY LoneStays
  <2> QED BY <1>0, <1>1, <1>2, <1>3, <2>1, <2>2, SMT DEF Numbered
<1>4. CASE Paired(k)
  <2>0. k + 1 <= Len(source) /\ source[k + 1] \in {CR, LF} /\ source[k + 1] # source[k]
    BY <1>4 DEF Paired, IsEnd, Terminators
  <2>1. Ends(k + 2) = IF Counts(k + 1) THEN Ends(k + 1) + 1 ELSE Ends(k + 1)
    <3>1. k + 1 \in Nat \ {0} /\ (k + 1) + 1 = k + 2 OBVIOUS
    <3> QED BY <3>1, EndsStep
  <2>2. LoneCrAfterLf(k) => LoneCrAfterLf(k + 2) BY LoneStays
  <2>3. CASE source[k] = CR
    <3>1. ~Counts(k + 1) BY <1>0, <2>0, <2>3 DEF Counts
    <3>2. ~Resumed(k) /\ ~Resumed(k + 2) BY <1>0, <2>0, <2>3 DEF Resumed
    <3> QED BY <1>0, <1>1, <1>2, <1>4, <2>1, <2>2, <3>1, <3>2, SMT DEF Numbered
  <2>4. CASE source[k] = LF
    <3>1. source[k + 1] = CR /\ Counts(k + 1) BY <2>0, <2>4 DEF Counts
    <3>2. k + 2 <= Len(source) => Resumed(k + 2) \/ LoneCrAfterLf(k + 2)
      BY <1>0, <2>4, <3>1 DEF Resumed, LoneCrAfterLf
    <3>3. Ends(k + 2) = IF Resumed(k) THEN Ends(k) + 1 ELSE Ends(k) + 2 BY <1>1, <1>2, <2>1, <3>1
    <3> QED BY <1>0, <1>2, <1>4, <2>2, <3>2, <3>3, SMT DEF Numbered
  <2> QED BY <1>0, <2>3, <2>4
<1> QED BY <1>3, <1>4

-----------------------------------------------------------------------------
(* What getline() returned.                                                *)

LineTexts == {<<>>} \cup {<<source[k]>> : k \in 1..Len(source)}

(* Line i starts at pos[i], behind the lines before it, with its number;   *)
(* no text before next is in none of the lines.                            *)
Starts(pos) ==
  /\ \A i, j \in 1..Len(lines) : i < j => pos[i] < pos[j]
  /\ \A i \in 1..Len(lines) :
       /\ lines[i] = IF IsText(pos[i]) THEN <<source[pos[i]]>> ELSE <<>>
       /\ Numbered(i, pos[i])
       /\ pos[i] < next \/ eofbit
  /\ \A k \in 1..(next - 1) : IsText(k) => \E i \in 1..Len(lines) : pos[i] = k

LinesInv ==
  /\ lines \in Seq(LineTexts)
  /\ \E pos \in [1..Len(lines) -> 1..(Len(source) + 1)] : Starts(pos)

SplitInv ==
  /\ IsSource(source) /\ LinesInv
  /\ next \in 1..(Len(source) + 1)
  /\ eofbit \in BOOLEAN /\ (eofbit => next = Len(source) + 1)
  /\ ~eofbit => Numbered(Len(lines) + 1, next)
  /\ phase # "split" => eofbit

(* The text that getline() returns: the line is empty or one token.        *)
LEMMA LineText ==
  ASSUME IsSource(source), next \in 1..(Len(source) + 1), NEW k \in next..(Len(source) + 1),
         \A j \in next..(k - 1) : ~IsEnd(j), k <= Len(source) => IsEnd(k)
  PROVE  /\ \/ k = next /\ ~IsText(next)
            \/ k = next + 1 /\ IsText(next)
         /\ SubSeq(source, next, k - 1) = IF IsText(next) THEN <<source[next]>> ELSE <<>>
<1> DEFINE T == {source[j] : j \in 1..Len(source)}
<1>0. source \in Seq(T) /\ Len(source) \in Nat BY DEF IsSource
<1>1. CASE k = next
  <2>1. ~IsText(next) BY <1>0, <1>1 DEF IsText, IsEnd
  <2>2. SubSeq(source, next, next - 1) = <<>>
    <3> HIDE DEF T
    <3> QED BY <1>0, SMT
  <2> QED BY <1>1, <2>1, <2>2
<1>2. CASE k > next
  <2>1. IsText(next) BY <1>0, <1>2 DEF IsText, IsEnd
  <2>2. k = next + 1
    <3>1. SUFFICES ASSUME k > next + 1 PROVE FALSE BY <1>0, <1>2
    <3>2. next \in 1..(Len(source) - 1) /\ next + 1 <= Len(source) BY <1>0, <3>1
    <3>3. ~IsEnd(next) /\ ~IsEnd(next + 1) BY <1>0, <3>1
    <3> QED BY <1>0, <3>2, <3>3 DEF IsSource, IsEnd
  <2>3. SubSeq(source, next, next) = <<source[next]>>
    <3>1. next \in 1..Len(source) BY <1>0, <2>1 DEF IsText
    <3> DEFINE q == SubSeq(source, next, next)
    <3> HIDE DEF T
    <3>2. q \in Seq(T) /\ Len(q) = 1 /\ q[1] = source[next] BY <1>0, <3>1, SMT
    <3> HIDE DEF q
    <3>3. q = <<q[1]>> BY <3>2
    <3> QED BY <3>2, <3>3 DEF q
  <2>4. k - 1 = next BY <1>0, <2>2
  <2> QED BY <2>1, <2>2, <2>3, <2>4
<1> QED BY <1>0, <1>1, <1>2

(* The source does not change, so neither does what is said about it.      *)
LEMMA NumberedStays ==
  ASSUME source' = source, NEW CONSTANT i, NEW CONSTANT k
  PROVE  Numbered(i, k)' <=> Numbered(i, k)
<1>1. EndsBefore(k)' = EndsBefore(k) BY DEF EndsBefore
<1>2. LoneCrAfterLf(k)' <=> LoneCrAfterLf(k) BY DEF LoneCrAfterLf
<1>3. Resumed(k)' <=> Resumed(k) BY DEF Resumed
<1> QED BY <1>1, <1>2, <1>3 DEF Numbered, Ends

(* A line that starts at next is appended.                                 *)
LEMMA AppendedLine ==
  ASSUME SplitInv, source' = source, ~eofbit, NEW m \in 1..(Len(source) + 1), next' = m,
         lines' = Append(lines, IF IsText(next) THEN <<source[next]>> ELSE <<>>),
         m > next \/ eofbit', m >= next, \A k \in (next + 1)..(m - 1) : ~IsText(k)
  PROVE  LinesInv'
<1>0. PICK n : n = Len(lines) OBVIOUS
<1> DEFINE text == IF IsText(next) THEN <<source[next]>> ELSE <<>>
<1>1. /\ lines \in Seq(LineTexts) /\ n \in Nat /\ Len(source) \in Nat
      /\ next \in 1..(Len(source) + 1) /\ Numbered(n + 1, next)
  BY <1>0 DEF SplitInv, LinesInv, IsSource
<1>2. PICK pos \in [1..n -> 1..(Len(source) + 1)] : Starts(pos) BY <1>0 DEF SplitInv, LinesInv
<1>3. text \in LineTexts BY DEF LineTexts, IsText
<1>4. /\ lines' \in Seq(LineTexts) /\ Len(lines') = n + 1 /\ lines'[n + 1] = text
      /\ \A i \in 1..n : lines'[i] = lines[i]
  <2>1. lines' = Append(lines, text) OBVIOUS
  <2> HIDE DEF text
  <2> QED BY <1>0, <1>1, <1>3, <2>1, SMT
<1>5. LineTexts' = LineTexts BY DEF LineTexts
<1>6. PICK new : new = [i \in 1..(n + 1) |-> IF i = n + 1 THEN next ELSE pos[i]] OBVIOUS
<1>7. /\ new \in [1..(n + 1) -> 1..(Len(source) + 1)]
      /\ new[n + 1] = next /\ \A i \in 1..n : new[i] = pos[i]
  BY <1>1, <1>2, <1>6
<1>8. \A i \in 1..n : pos[i] < next /\ pos[i] \in 1..(Len(source) + 1)
  BY <1>0, <1>1, <1>2 DEF Starts
<1>9. \A i, j \in 1..(n + 1) : i < j => new[i] < new[j]
  <2> SUFFICES ASSUME NEW i \in 1..(n + 1), NEW j \in 1..(n + 1), i < j PROVE new[i] < new[j]
    OBVIOUS
  <2>1. i \in 1..n /\ new[i] = pos[i] BY <1>1, <1>7
  <2>2. CASE j = n + 1 BY <1>7, <1>8, <2>1, <2>2
  <2>3. CASE j # n + 1
    <3>1. j \in 1..n BY <1>1, <2>3
    <3> QED BY <1>0, <1>2, <1>7, <2>1, <3>1 DEF Starts
  <2> QED BY <2>2, <2>3
<1>10. \A i \in 1..(n + 1) :
         /\ lines'[i] = IF IsText(new[i]) THEN <<source[new[i]]>> ELSE <<>>
         /\ Numbered(i, new[i]) /\ (new[i] < next' \/ eofbit')
  <2> SUFFICES ASSUME NEW i \in 1..(n + 1)
               PROVE  /\ lines'[i] = IF IsText(new[i]) THEN <<source[new[i]]>> ELSE <<>>
                      /\ Numbered(i, new[i]) /\ (new[i] < next' \/ eofbit')
    OBVIOUS
  <2>1. CASE i = n + 1 BY <1>1, <1>4, <1>7, <2>1
  <2>2. CASE i # n + 1
    <3>1. i \in 1..n BY <1>1, <2>2
    <3>2. new[i] < next' BY <1>1, <1>7, <1>8, <3>1
    <3> QED BY <1>0, <1>2, <1>4, <1>7, <3>1, <3>2 DEF Starts
  <2> QED BY <2>1, <2>2
<1>11. \A k \in 1..(m - 1) : IsText(k) => \E i \in 1..(n + 1) : new[i] = k
  <2> SUFFICES ASSUME NEW k \in 1..(m - 1), IsText(k) PROVE \E i \in 1..(n + 1) : new[i] = k
    OBVIOUS
  <2>1. CASE k < next
    <3>1. k \in 1..(next - 1) BY <1>1, <2>1
    <3>2. PICK i \in 1..n : pos[i] = k BY <1>0, <1>2, <3>1 DEF Starts
    <3>3. i \in 1..(n + 1) BY <1>1
    <3> QED BY <1>7, <3>2, <3>3
  <2>2. CASE k = next
    <3>1. n + 1 \in 1..(n + 1) BY <1>1
    <3> QED BY <1>7, <2>2, <3>1
  <2>3. CASE k > next
    <3>1. next \in Int /\ m \in Int BY <1>1
    <3>2. k \in (next + 1)..(m - 1) BY <2>3, <3>1
    <3> QED BY <3>2
  <2> QED BY <1>1, <2>1, <2>2, <2>3
<1>12. \A k : IsText(k)' <=> IsText(k) BY DEF IsText
<1>13. \A i \in 1..(n + 1) : Numbered(i, new[i])'
  <2> SUFFICES ASSUME NEW i \in 1..(n + 1) PROVE Numbered(i, new[i])' OBVIOUS
  <2> QED BY <1>10, NumberedStays
<1>14. Starts(new)'
  <2>1. (\A i, j \in 1..Len(lines) : i < j => new[i] < new[j])' BY <1>4, <1>9
  <2>2. (\A i \in 1..Len(lines) :
           /\ lines[i] = IF IsText(new[i]) THEN <<source[new[i]]>> ELSE <<>>
           /\ Numbered(i, new[i])
           /\ new[i] < next \/ eofbit)'
    BY <1>4, <1>10, <1>12, <1>13
  <2>3. (\A k \in 1..(next - 1) : IsText(k) => \E i \in 1..Len(lines) : new[i] = k)'
    BY <1>4, <1>11, <1>12
  <2> QED BY <2>1, <2>2, <2>3 DEF Starts
<1> QED BY <1>4, <1>5, <1>7, <1>14 DEF LinesInv

(* getline() up to a terminator.                                           *)
LEMMA GetlineSplit ==
  ASSUME SplitInv, getline
  PROVE  SplitInv'
<1>0. /\ IsSource(source) /\ Len(source) \in Nat /\ next \in 1..(Len(source) + 1) /\ ~eofbit
      /\ source' = source /\ phase' = phase /\ eofbit' = eofbit /\ phase = "split"
      /\ lines \in Seq(LineTexts) /\ Numbered(Len(lines) + 1, next) /\ Len(lines) \in Nat
  BY DEF SplitInv, LinesInv, getline, Split, IsSource
<1>1. PICK k \in next..Len(source) :
        /\ IsEnd(k) /\ \A j \in next..(k - 1) : ~IsEnd(j)
        /\ lines' = Append(lines, SubSeq(source, next, k - 1))
        /\ next' = IF Paired(k) THEN k + 2 ELSE k + 1
  BY DEF getline
<1>2. PICK m : m = IF Paired(k) THEN k + 2 ELSE k + 1 OBVIOUS
<1>3. k \in 1..Len(source) /\ k \in next..(Len(source) + 1) /\ k \in Nat \ {0} BY <1>0
<1>4. /\ \/ k = next /\ ~IsText(next)
         \/ k = next + 1 /\ IsText(next)
      /\ SubSeq(source, next, k - 1) = IF IsText(next) THEN <<source[next]>> ELSE <<>>
  BY <1>0, <1>1, <1>3, LineText
<1>5. m \in 1..(Len(source) + 1) /\ next' = m /\ m > next
  <2>1. Paired(k) => k + 1 <= Len(source) BY DEF Paired, IsEnd
  <2> QED BY <1>0, <1>1, <1>2, <1>3, <2>1
<1>6. \A j \in (next + 1)..(m - 1) : ~IsText(j)
  <2> SUFFICES ASSUME NEW j \in (next + 1)..(m - 1) PROVE ~IsText(j) OBVIOUS
  <2>1. j = k \/ (j = k + 1 /\ Paired(k)) BY <1>0, <1>2, <1>3, <1>4
  <2> QED BY <1>1, <2>1 DEF IsText, IsEnd, Paired
<1>7. LinesInv'
  <2>1. lines' = Append(lines, IF IsText(next) THEN <<source[next]>> ELSE <<>>) BY <1>1, <1>4
  <2>2. m >= next BY <1>0, <1>5
  <2> QED BY <1>0, <1>5, <1>6, <2>1, <2>2, AppendedLine
<1>8. Numbered(Len(lines) + 1, k)
  <2>1. CASE k = next BY <1>0, <2>1
  <2>2. CASE k = next + 1 /\ IsText(next)
    <3>1. Len(lines) + 1 \in Nat /\ next \in Nat \ {0} BY <1>0
    <3> QED BY <1>0, <2>2, <3>1, NumberedText
  <2> QED BY <1>4, <2>1, <2>2
<1>9. Numbered(Len(lines) + 2, m)
  <2>1. Len(lines) + 1 \in Nat /\ (Len(lines) + 1) + 1 = Len(lines) + 2 BY <1>0
  <2> QED BY <1>0, <1>1, <1>2, <1>3, <1>8, <2>1, NumberedEnd
<1>10. Len(lines') + 1 = Len(lines) + 2
  <2>1. SubSeq(source, next, k - 1) \in LineTexts BY <1>4 DEF LineTexts, IsText
  <2> QED BY <1>0, <1>1, <2>1
<1>11. PICK i : i = Len(lines) + 2 OBVIOUS
<1>12. Numbered(i, m)' BY <1>0, <1>9, <1>11, NumberedStays
<1> QED BY <1>0, <1>5, <1>7, <1>10, <1>11, <1>12 DEF SplitInv

(* getline() up to the end of the stream.                                  *)
LEMMA GetlineAtEndSplit ==
  ASSUME SplitInv, getlineAtEnd
  PROVE  SplitInv'
<1>0. /\ IsSource(source) /\ Len(source) \in Nat /\ next \in 1..(Len(source) + 1) /\ ~eofbit
      /\ source' = source /\ phase' = phase /\ phase = "split"
      /\ eofbit' = (next > Len(source)) /\ next' = Len(source) + 1
      /\ \A k \in next..Len(source) : ~IsEnd(k)
      /\ lines' = Append(lines, SubSeq(source, next, Len(source)))
  BY DEF SplitInv, getlineAtEnd, Split, IsSource
<1>1. PICK m : m = Len(source) + 1 OBVIOUS
<1>2. /\ m \in next..(Len(source) + 1) /\ m - 1 = Len(source) /\ ~(m <= Len(source))
      /\ m \in 1..(Len(source) + 1) /\ m >= next /\ next' = m
  BY <1>0, <1>1
<1>3. /\ \/ m = next /\ ~IsText(next)
         \/ m = next + 1 /\ IsText(next)
      /\ SubSeq(source, next, m - 1) = IF IsText(next) THEN <<source[next]>> ELSE <<>>
  BY <1>0, <1>2, LineText
<1>4. m > next \/ eofbit'
  <2>1. next > Len(source) => eofbit' BY <1>0, Zenon
  <2> QED BY <1>0, <1>1, <2>1
<1>5. \A k \in (next + 1)..(m - 1) : ~IsText(k) BY <1>0, <1>3
<1>6. LinesInv' BY <1>0, <1>2, <1>3, <1>4, <1>5, AppendedLine
<1>7. Numbered(Len(lines) + 1, next)' BY <1>0 DEF Numbered
<1> QED BY <1>0, <1>6, <1>7 DEF SplitInv

(* The other steps leave the lines alone.                                  *)
LEMMA SplitStays ==
  ASSUME SplitInv, UNCHANGED <<source, next, eofbit, lines>>, phase' # "split" => eofbit
  PROVE  SplitInv'
<1>1. \A k : IsText(k)' <=> IsText(k) BY DEF IsText
<1>2. LineTexts' = LineTexts BY DEF LineTexts
<1>3. PICK pos \in [1..Len(lines) -> 1..(Len(source) + 1)] : Starts(pos) BY DEF SplitInv, LinesInv
<1>4. \A i \in 1..Len(lines) : Numbered(i, pos[i])'
  <2> SUFFICES ASSUME NEW i \in 1..Len(lines) PROVE Numbered(i, pos[i])' OBVIOUS
  <2> QED BY <1>3, NumberedStays DEF Starts
<1>5. Starts(pos)' BY <1>1, <1>3, <1>4 DEF Starts
<1>6. LinesInv' BY <1>2, <1>3, <1>5 DEF SplitInv, LinesInv
<1>7. PICK i, k : i = Len(lines) + 1 /\ k = next OBVIOUS
<1>8. ~eofbit => Numbered(i, k)' BY <1>7, NumberedStays DEF SplitInv
<1> QED BY <1>6, <1>7, <1>8 DEF SplitInv

LoopInv ==
  /\ line \in Nat \ {0} /\ line <= Len(lines) + 1 /\ (phase = "split" => line = 1)
  /\ \A i \in 1..(line - 1) :
       lines[i] # <<>> /\ lines[i][1].kind # "blank" => Accepted(lines[i][1])
  /\ phase = "done" => line > Len(lines)
  /\ phase = "failed" => error = line /\ HasText /\ ~Accepted(lines[line][1])

(* The loop over the lines, once they are there.                           *)
LEMMA LoopStep ==
  ASSUME SplitInv, LoopInv, Next
  PROVE  LoopInv'
<1>0. Len(lines) \in Nat /\ line \in Nat \ {0} BY DEF SplitInv, LinesInv, LoopInv
<1>1. CASE getline \/ getlineAtEnd
  <2>1. Len(lines') \in Nat
    <3>1. (\E t : lines' = Append(lines, t)) BY <1>1 DEF getline, getlineAtEnd
    <3> QED BY <3>1, <1>0
  <2>2. phase' = phase /\ phase = "split" /\ line' = line BY <1>1 DEF getline, getlineAtEnd, Split
  <2> QED BY <2>1, <2>2 DEF LoopInv
<1>2. CASE getlineFails BY <1>0, <1>2 DEF getlineFails, LoopInv
<1>3. CASE Skip
  <2>1. /\ lines' = lines /\ line' = line + 1 /\ phase' = phase /\ phase = "assemble"
        /\ line <= Len(lines) /\ (lines[line] # <<>> => lines[line][1].kind = "blank")
    BY <1>3 DEF Skip, Assembling, HasText
  <2> QED BY <1>0, <2>1 DEF LoopInv, Accepted
<1>4. CASE Emit
  <2>1. /\ lines' = lines /\ line' = line + 1 /\ phase' = phase /\ phase = "assemble"
        /\ line <= Len(lines) /\ Accepted(lines[line][1])
    BY <1>4 DEF Emit, Assembling, HasText
  <2> QED BY <1>0, <2>1 DEF LoopInv, Accepted
<1>5. CASE Throw BY <1>0, <1>5 DEF Throw, Assembling, LoopInv, HasText, Accepted
<1>6. CASE Return BY <1>0, <1>6 DEF Return, Assembling, LoopInv
<1> QED BY <1>1, <1>2, <1>3, <1>4, <1>5, <1>6 DEF Next

-----------------------------------------------------------------------------
(* The sources of the model are sources.                                   *)

(* What a form has besides its shape.                                      *)
Complete(g) ==
  /\ DOMAIN g = DOMAIN NoGroups /\ (g.rel = <<>> \/ g.rel = <<-4>>)
  /\ g.val \in Word /\ (g.digits = 2 => g.val \in Byte)

(* The documented forms are complete.                                      *)
LEMMA FormsComplete ==
  \A mode \in DOMAIN Forms : Complete(Forms[mode])
<1>0. PICK u, v : u = 18 /\ v = 4660 OBVIOUS
<1> DEFINE O2 == [NoGroups EXCEPT !.digits = 2, !.val = u]
           O4 == [NoGroups EXCEPT !.digits = 4, !.val = v]
           I2 == [O2 EXCEPT !.opar = TRUE, !.cpar = TRUE]
           I4 == [O4 EXCEPT !.opar = TRUE, !.cpar = TRUE]
           Whole(f, d, n) == DOMAIN f = DOMAIN NoGroups /\ f.digits = d /\ f.val = n
                             /\ (f.rel = <<>> \/ f.rel = <<-4>>)
<1>1. /\ 0 \in Word /\ u \in Word /\ v \in Word /\ u \in Byte
      /\ 0 # 2 /\ 4 # 2
  BY <1>0, WordRange, ByteRange
<1>2. Complete(Forms["nul"])
  <2> DEFINE f == NoGroups
  <2>1. Forms["nul"] = f BY <1>0, SMT DEF Forms
  <2>2. Whole(f, 0, 0) BY Zenon DEF NoGroups
  <2> HIDE DEF f
  <2> QED BY <1>1, <2>1, <2>2 DEF Complete
<1>3. Complete(Forms["acc"])
  <2> DEFINE f == [NoGroups EXCEPT !.rega = TRUE]
  <2>1. Forms["acc"] = f BY <1>0, SMT DEF Forms
  <2>2. Whole(f, 0, 0) BY Zenon DEF NoGroups
  <2> HIDE DEF f
  <2> QED BY <1>1, <2>1, <2>2 DEF Complete
<1>4. Complete(Forms["rel"])
  <2> DEFINE f == [NoGroups EXCEPT !.rel = <<-4>>]
  <2>1. Forms["rel"] = f BY <1>0, SMT DEF Forms
  <2>2. Whole(f, 0, 0) BY Zenon DEF NoGroups
  <2> HIDE DEF f
  <2> QED BY <1>1, <2>1, <2>2 DEF Complete
<1>5. Complete(Forms["imm"])
  <2> DEFINE f == [O2 EXCEPT !.imm = TRUE]
  <2>1. Forms["imm"] = f BY <1>0, SMT DEF Forms
  <2>2. Whole(f, 2, u) BY Zenon DEF NoGroups
  <2> HIDE DEF f
  <2> QED BY <1>1, <2>1, <2>2 DEF Complete
<1>6. Complete(Forms["zp"])
  <2> DEFINE f == O2
  <2>1. Forms["zp"] = f BY <1>0, SMT DEF Forms
  <2>2. Whole(f, 2, u) BY Zenon DEF NoGroups
  <2> HIDE DEF f
  <2> QED BY <1>1, <2>1, <2>2 DEF Complete
<1>7. Complete(Forms["zpx"])
  <2> DEFINE f == [O2 EXCEPT !.inner = "X"]
  <2>1. Forms["zpx"] = f BY <1>0, SMT DEF Forms
  <2>2. Whole(f, 2, u) BY Zenon DEF NoGroups
  <2> HIDE DEF f
  <2> QED BY <1>1, <2>1, <2>2 DEF Complete
<1>8. Complete(Forms["zpy"])
  <2> DEFINE f == [O2 EXCEPT !.inner = "Y"]
  <2>1. Forms["zpy"] = f BY <1>0, SMT DEF Forms
  <2>2. Whole(f, 2, u) BY Zenon DEF NoGroups
  <2> HIDE DEF f
  <2> QED BY <1>1, <2>1, <2>2 DEF Complete
<1>9. Complete(Forms["abs"])
  <2> DEFINE f == O4
  <2>1. Forms["abs"] = f BY <1>0, SMT DEF Forms
  <2>2. Whole(f, 4, v) BY Zenon DEF NoGroups
  <2> HIDE DEF f
  <2> QED BY <1>1, <2>1, <2>2 DEF Complete
<1>10. Complete(Forms["abx"])
  <2> DEFINE f == [O4 EXCEPT !.inner = "X"]
  <2>1. Forms["abx"] = f BY <1>0, SMT DEF Forms
  <2>2. Whole(f, 4, v) BY Zenon DEF NoGroups
  <2> HIDE DEF f
  <2> QED BY <1>1, <2>1, <2>2 DEF Complete
<1>11. Complete(Forms["aby"])
  <2> DEFINE f == [O4 EXCEPT !.inner = "Y"]
  <2>1. Forms["aby"] = f BY <1>0, SMT DEF Forms
  <2>2. Whole(f, 4, v) BY Zenon DEF NoGroups
  <2> HIDE DEF f
  <2> QED BY <1>1, <2>1, <2>2 DEF Complete
<1>12. Complete(Forms["ind"])
  <2> DEFINE f == I4
  <2>1. Forms["ind"] = f BY <1>0, SMT DEF Forms
  <2>2. Whole(f, 4, v) BY Zenon DEF NoGroups
  <2> HIDE DEF f
  <2> QED BY <1>1, <2>1, <2>2 DEF Complete
<1>13. Complete(Forms["izx"])
  <2> DEFINE f == [I2 EXCEPT !.inner = "X"]
  <2>1. Forms["izx"] = f BY <1>0, SMT DEF Forms
  <2>2. Whole(f, 2, u) BY Zenon DEF NoGroups
  <2> HIDE DEF f
  <2> QED BY <1>1, <2>1, <2>2 DEF Complete
<1>14. Complete(Forms["izy"])
  <2> DEFINE f == [I2 EXCEPT !.outer = "Y"]
  <2>1. Forms["izy"] = f BY <1>0, SMT DEF Forms
  <2>2. Whole(f, 2, u) BY Zenon DEF NoGroups
  <2> HIDE DEF f
  <2> QED BY <1>1, <2>1, <2>2 DEF Complete
<1> QED BY FormModes, <1>2, <1>3, <1>4, <1>5, <1>6, <1>7, <1>8, <1>9, <1>10, <1>11, <1>12,
           <1>13, <1>14

(* The groups of the forms are captured.                                   *)
LEMMA FormsCaptured == \A mode \in DOMAIN Forms : Captures(Forms[mode])
<1> SUFFICES ASSUME NEW mode \in DOMAIN Forms PROVE Captures(Forms[mode]) OBVIOUS
<1> DEFINE Plain(g) ==
             /\ g.opar \in BOOLEAN /\ g.imm \in BOOLEAN /\ g.cpar \in BOOLEAN /\ g.rega \in BOOLEAN
             /\ g.digits \in {0, 2, 3, 4} /\ g.inner \in {"", "X", "Y"} /\ g.outer \in {"", "X", "Y"}
<1>1. Plain(Forms[mode])
  <2>1. Plain(Forms["nul"])
    <3>1. Shape(Forms["nul"], FALSE, FALSE, 0, "", FALSE, "", FALSE, FALSE) BY FormShapes
    <3> QED BY <3>1, Zenon DEF Shape
  <2>2. Plain(Forms["acc"])
    <3>1. Shape(Forms["acc"], FALSE, FALSE, 0, "", FALSE, "", FALSE, TRUE) BY FormShapes
    <3> QED BY <3>1, Zenon DEF Shape
  <2>3. Plain(Forms["rel"])
    <3>1. Shape(Forms["rel"], FALSE, FALSE, 0, "", FALSE, "", TRUE, FALSE) BY FormShapes
    <3> QED BY <3>1, Zenon DEF Shape
  <2>4. Plain(Forms["imm"])
    <3>1. Shape(Forms["imm"], FALSE, TRUE, 2, "", FALSE, "", FALSE, FALSE) BY FormShapes
    <3> QED BY <3>1, Zenon DEF Shape
  <2>5. Plain(Forms["zp"])
    <3>1. Shape(Forms["zp"], FALSE, FALSE, 2, "", FALSE, "", FALSE, FALSE) BY FormShapes
    <3> QED BY <3>1, Zenon DEF Shape
  <2>6. Plain(Forms["zpx"])
    <3>1. Shape(Forms["zpx"], FALSE, FALSE, 2, "X", FALSE, "", FALSE, FALSE) BY FormShapes
    <3> QED BY <3>1, Zenon DEF Shape
  <2>7. Plain(Forms["zpy"])
    <3>1. Shape(Forms["zpy"], FALSE, FALSE, 2, "Y", FALSE, "", FALSE, FALSE) BY FormShapes
    <3> QED BY <3>1, Zenon DEF Shape
  <2>8. Plain(Forms["abs"])
    <3>1. Shape(Forms["abs"], FALSE, FALSE, 4, "", FALSE, "", FALSE, FALSE) BY FormShapes
    <3> QED BY <3>1, Zenon DEF Shape
  <2>9. Plain(Forms["abx"])
    <3>1. Shape(Forms["abx"], FALSE, FALSE, 4, "X", FALSE, "", FALSE, FALSE) BY FormShapes
    <3> QED BY <3>1, Zenon DEF Shape
  <2>10. Plain(Forms["aby"])
    <3>1. Shape(Forms["aby"], FALSE, FALSE, 4, "Y", FALSE, "", FALSE, FALSE) BY FormShapes
    <3> QED BY <3>1, Zenon DEF Shape
  <2>11. Plain(Forms["ind"])
    <3>1. Shape(Forms["ind"], TRUE, FALSE, 4, "", TRUE, "", FALSE, FALSE) BY FormShapes
    <3> QED BY <3>1, Zenon DEF Shape
  <2>12. Plain(Forms["izx"])
    <3>1. Shape(Forms["izx"], TRUE, FALSE, 2, "X", TRUE, "", FALSE, FALSE) BY FormShapes
    <3> QED BY <3>1, Zenon DEF Shape
  <2>13. Plain(Forms["izy"])
    <3>1. Shape(Forms["izy"], TRUE, FALSE, 2, "", TRUE, "Y", FALSE, FALSE) BY FormShapes
    <3> QED BY <3>1, Zenon DEF Shape
  <2> QED BY FormModes, <2>1, <2>2, <2>3, <2>4, <2>5, <2>6, <2>7, <2>8, <2>9, <2>10, <2>11,
             <2>12, <2>13
<1>2. Complete(Forms[mode]) BY FormsComplete
<1>3. -4 \in Int OBVIOUS
<1> QED BY <1>1, <1>2, <1>3, Zenon DEF Captures, Complete

(* A name changes none of the other groups.                                *)
LEMMA NamedCaptured ==
  ASSUME NEW g, NEW n, DOMAIN g = DOMAIN NoGroups, Captures(g)
  PROVE  Captures([g EXCEPT !.name = n])
<1> DEFINE h == [g EXCEPT !.name = n]
<1>1. DOMAIN g = {"name", "opar", "imm", "digits", "val", "inner", "cpar", "outer", "rel", "rega"}
  BY Zenon DEF NoGroups
<1>2. /\ h.opar = g.opar /\ h.imm = g.imm /\ h.digits = g.digits /\ h.val = g.val /\ h.inner = g.inner
      /\ h.cpar = g.cpar /\ h.outer = g.outer /\ h.rel = g.rel /\ h.rega = g.rega
  BY <1>1, Zenon
<1> HIDE DEF h
<1>3. Captures(h) BY <1>2, Zenon DEF Captures
<1> QED BY <1>3 DEF h

(* So are the groups that the regular expression can match.                *)
LEMMA MatchableCaptured == \A g \in Matchable : Captures(g) /\ DOMAIN g = DOMAIN NoGroups
<1> SUFFICES ASSUME NEW g \in Matchable PROVE Captures(g) /\ DOMAIN g = DOMAIN NoGroups OBVIOUS
<1> DEFINE R == {<<>>, <<0>>, <<127>>, <<-128>>, <<200>>}
           V == {0, 291}
<1>1. \A t \in R : t = <<>> \/ \E n \in Int : t = <<n>> OBVIOUS
<1>2. V \subseteq Word /\ 0 \in Byte BY WordRange, ByteRange
<1> HIDE DEF R, V
<1>3. g \in [name : {""}, opar : BOOLEAN, imm : BOOLEAN, digits : {0, 2, 3, 4}, val : V,
             inner : {"", "X", "Y"}, cpar : BOOLEAN, outer : {"", "X", "Y"},
             rel : R, rega : BOOLEAN]
  BY DEF Matchable, R, V
<1>4. /\ g.opar \in BOOLEAN /\ g.imm \in BOOLEAN /\ g.cpar \in BOOLEAN /\ g.rega \in BOOLEAN
      /\ g.digits \in {0, 2, 3, 4} /\ g.val \in V
      /\ g.inner \in {"", "X", "Y"} /\ g.outer \in {"", "X", "Y"} /\ g.rel \in R
  BY <1>3, Zenon
<1>5. DOMAIN g = DOMAIN NoGroups BY <1>3, Zenon DEF NoGroups
<1>6. g.digits = 2 => g.val \in Byte
  <2>1. g.val = (IF g.digits > 2 THEN 291 ELSE 0) BY DEF Matchable
  <2>2. g.digits = 2 => g.val = 0 BY <2>1
  <2> QED BY <1>2, <2>2
<1> QED BY <1>1, <1>2, <1>4, <1>5, <1>6 DEF Captures

(* An instruction with captured groups is a token.                         *)
LEMMA InstructionIsToken ==
  ASSUME NEW g, Captures(g)
  PROVE  IsToken(Instruction(g))
<1>1. Instruction(g).kind = "instruction" /\ Instruction(g).g = g BY Zenon DEF Instruction
<1> QED BY <1>1 DEF IsToken

(* The sources of one line,                                                *)
LEMMA OneLineSource == \A src \in OneLine : IsSource(src)
<1> SUFFICES ASSUME NEW src \in OneLine PROVE IsSource(src) OBVIOUS
<1>1. PICK g : /\ g \in Named({Forms[mode] : mode \in DOMAIN Forms}, Names) \cup Named(Matchable, Shaped)
               /\ src = <<Instruction(g)>>
  BY DEF OneLine
<1>2. Captures(g)
  <2>1. CASE g \in Named({Forms[mode] : mode \in DOMAIN Forms}, Names)
    <3>1. PICK mode \in DOMAIN Forms, n \in Names : g = [Forms[mode] EXCEPT !.name = n]
      BY <2>1 DEF Named
    <3> QED BY <3>1, FormsCaptured, FormsComplete, NamedCaptured DEF Complete
  <2>2. CASE g \in Named(Matchable, Shaped)
    <3>1. PICK f \in Matchable, n \in Shaped : g = [f EXCEPT !.name = n] BY <2>2 DEF Named
    <3> QED BY <3>1, MatchableCaptured, NamedCaptured
  <2> QED BY <1>1, <2>1, <2>2
<1>3. PICK t : t = Instruction(g) OBVIOUS
<1>4. IsToken(t) BY <1>2, <1>3, InstructionIsToken
<1>5. src = <<t>> BY <1>1, <1>3
<1>6. Len(src) = 1 /\ src[1] = t BY <1>5
<1>7. src \in Seq({src[k] : k \in 1..Len(src)}) BY <1>5, <1>6
<1> QED BY <1>4, <1>6, <1>7 DEF IsSource

(* and those of several lines.                                             *)
LEMMA SeveralLinesSource == \A src \in SeveralLines : IsSource(src)
<1> SUFFICES ASSUME NEW src \in SeveralLines PROVE IsSource(src) OBVIOUS
<1> DEFINE S == Texts \cup Terminators
<1>1. PICK n \in 0..MaxTokens : src \in [1..n -> S] BY DEF SeveralLines
<1>2. n \in Nat BY AsmAssumption
<1>3. \A t \in S : IsToken(t)
  <2>1. IsToken(Good)
    <3>1. "abs" \in DOMAIN Forms BY FormModes
    <3> QED BY <3>1, FormsCaptured, FormsComplete, NamedCaptured, InstructionIsToken DEF Good,
               Complete
  <2>2. IsToken(Short)
    <3>1. "nul" \in DOMAIN Forms /\ Forms["nul"] = NoGroups BY FormModes DEF Forms
    <3> QED BY <3>1, FormsCaptured, NamedCaptured, InstructionIsToken DEF Short
  <2> QED BY <2>1, <2>2, Zenon DEF Texts, Terminators, Bad, IsToken
<1>4. \A k \in 1..(Len(src) - 1) : src[k] \in Terminators \/ src[k + 1] \in Terminators
  BY DEF SeveralLines
<1> HIDE DEF S
<1>5. src \in Seq(S) /\ Len(src) = n BY <1>1, <1>2
<1>6. \A k \in 1..Len(src) : src[k] \in S BY <1>5
<1>7. src \in Seq({src[k] : k \in 1..Len(src)}) BY <1>1, <1>2, <1>5
<1> QED BY <1>3, <1>4, <1>6, <1>7 DEF IsSource

(* Hence the model starts with a source.                                   *)
LEMMA InitIsAny == Init => AnyInit
<1> SUFFICES ASSUME Init PROVE AnyInit OBVIOUS
<1>1. PICK src \in OneLine \cup SeveralLines, b \in Bases : CompileInit(src, b) BY DEF Init
<1>2. source = src /\ m_base_code = b BY <1>1 DEF CompileInit
<1>3. IsSource(src) BY OneLineSource, SeveralLinesSource
<1>4. b \in Word BY AsmAssumption
<1> QED BY <1>1, <1>2, <1>3, <1>4 DEF AnyInit

-----------------------------------------------------------------------------
(* Errors.                                                                 *)

(* The lines and the loop, initially                                       *)
LEMMA SplitInit == AnyInit => SplitInv /\ LoopInv
<1> SUFFICES ASSUME AnyInit PROVE SplitInv /\ LoopInv OBVIOUS
<1>1. /\ IsSource(source) /\ Len(source) \in Nat /\ next = 1 /\ eofbit = FALSE /\ lines = <<>>
      /\ phase = "split" /\ line = 1
  BY DEF AnyInit, CompileInit, IsSource
<1>2. lines \in Seq(LineTexts) /\ Len(lines) = 0 BY <1>1
<1>3. LinesInv
  <2>1. PICK pos : pos = [i \in 1..0 |-> 1] OBVIOUS
  <2>2. pos \in [1..Len(lines) -> 1..(Len(source) + 1)] BY <1>2, <2>1
  <2>3. Starts(pos) BY <1>1, <1>2 DEF Starts
  <2> QED BY <1>2, <2>2, <2>3 DEF LinesInv
<1>4. Numbered(Len(lines) + 1, next)
  <2>1. Numbered(1, 1) BY EndsFirst DEF Numbered, Resumed
  <2> QED BY <1>1, <1>2, <2>1
<1>5. eofbit \in BOOLEAN /\ ~eofbit BY <1>1, Zenon
<1>6. SplitInv BY <1>1, <1>3, <1>4, <1>5 DEF SplitInv
<1>7. LoopInv BY <1>1, <1>2 DEF LoopInv
<1> QED BY <1>6, <1>7

(* and after every step.                                                   *)
LEMMA SplitStep ==
  ASSUME SplitInv, LoopInv, [Next]_vars
  PROVE  SplitInv' /\ LoopInv'
<1>1. CASE Next
  <2>1. CASE getline BY <1>1, <2>1, GetlineSplit, LoopStep
  <2>2. CASE getlineAtEnd BY <1>1, <2>2, GetlineAtEndSplit, LoopStep
  <2>3. CASE getlineFails \/ Skip \/ Emit \/ Throw \/ Return
    <3>1. UNCHANGED <<source, next, eofbit, lines>> /\ eofbit
      BY <2>3 DEF getlineFails, Skip, Emit, Throw, Return, Assembling, SplitInv
    <3> QED BY <1>1, <3>1, SplitStays, LoopStep
  <2> QED BY <1>1, <2>1, <2>2, <2>3 DEF Next
<1>2. CASE UNCHANGED vars
  <2>1. UNCHANGED <<source, next, eofbit, lines>> /\ phase' = phase /\ line' = line /\ error' = error
    BY <1>2 DEF vars
  <2>2. SplitInv' BY <2>1, SplitStays DEF SplitInv
  <2>3. LoopInv' BY <2>1 DEF LoopInv, HasText, Accepted
  <2> QED BY <2>2, <2>3
<1> QED BY <1>1, <1>2

(* They say that the errors are named.                                     *)
LEMMA InvErrorsNamed == SplitInv /\ LoopInv => ErrorsNamed
<1> SUFFICES ASSUME SplitInv, LoopInv PROVE ErrorsNamed OBVIOUS
<1>0. IsSource(source) /\ Len(source) \in Nat /\ Len(lines) \in Nat /\ line \in Nat \ {0}
  BY DEF SplitInv, LinesInv, IsSource, LoopInv
<1>1. PICK pos \in [1..Len(lines) -> 1..(Len(source) + 1)] : Starts(pos) BY DEF SplitInv, LinesInv
<1>2. \A k \in 1..Len(source) : Wrong(k) => IsText(k) BY DEF Wrong, IsText
<1>3. \A k \in 1..Len(source) : IsText(k) =>
        (Wrong(k) <=> source[k].kind # "blank" /\ ~Accepted(source[k]))
  BY <1>0, WrongText DEF IsText, IsSource
<1>4. phase # "split" => \A k \in 1..Len(source) : IsText(k) => \E i \in 1..Len(lines) : pos[i] = k
  BY <1>0, <1>1 DEF SplitInv, Starts
<1>5. \A i \in 1..Len(lines) : lines[i] = IF IsText(pos[i]) THEN <<source[pos[i]]>> ELSE <<>>
  BY <1>1 DEF Starts
<1>6. ASSUME NEW i \in 1..Len(lines), i < line, IsText(pos[i]) PROVE ~Wrong(pos[i])
  <2>1. lines[i] = <<source[pos[i]]>> BY <1>5, <1>6
  <2>2. lines[i] # <<>> /\ lines[i][1] = source[pos[i]] BY <2>1
  <2>3. i \in 1..(line - 1) BY <1>0, <1>6
  <2>4. source[pos[i]].kind # "blank" => Accepted(source[pos[i]]) BY <2>2, <2>3 DEF LoopInv
  <2> QED BY <1>3, <1>6, <2>4 DEF IsText
<1>7. ASSUME phase = "done" PROVE \A k \in 1..Len(source) : ~Wrong(k)
  <2> SUFFICES ASSUME NEW k \in 1..Len(source), IsText(k) PROVE ~Wrong(k) BY <1>2
  <2>1. PICK i \in 1..Len(lines) : pos[i] = k BY <1>4, <1>7
  <2>2. i < line BY <1>0, <1>7 DEF LoopInv
  <2> QED BY <1>6, <2>1, <2>2
<1>8. ASSUME phase = "failed"
      PROVE  \E k \in 1..Len(source) :
               /\ Wrong(k) /\ \A j \in 1..(k - 1) : ~Wrong(j)
               /\ error <= Cardinality(EndsBefore(k)) + 1
               /\ error = Cardinality(EndsBefore(k)) + 1 \/ LoneCrAfterLf(k)
  <2>1. /\ error = line /\ line \in 1..Len(lines) /\ lines[line] # <<>>
        /\ lines[line][1].kind # "blank" /\ ~Accepted(lines[line][1])
    BY <1>0, <1>8 DEF LoopInv, HasText
  <2>2. PICK k : k = pos[line] OBVIOUS
  <2>3. IsText(k) /\ lines[line] = <<source[k]>> BY <1>5, <2>1, <2>2
  <2>4. lines[line][1] = source[k] /\ k \in 1..Len(source) BY <2>3 DEF IsText
  <2>5. Wrong(k) BY <1>3, <2>1, <2>3, <2>4
  <2>6. \A j \in 1..(k - 1) : ~Wrong(j)
    <3> SUFFICES ASSUME NEW j \in 1..(k - 1), Wrong(j) PROVE FALSE OBVIOUS
    <3>1. j \in 1..Len(source) /\ j < k BY <1>0, <2>4
    <3>2. IsText(j) BY <1>2, <3>1
    <3>3. PICK i \in 1..Len(lines) : pos[i] = j BY <1>4, <1>8, <3>1, <3>2
    <3>4. i < line
      <4>1. SUFFICES ASSUME line <= i PROVE FALSE BY <1>0
      <4>2. pos[line] <= pos[i] BY <1>0, <1>1, <2>1, <4>1 DEF Starts
      <4> QED BY <2>2, <2>4, <3>1, <3>3, <4>2
    <3> QED BY <1>6, <3>2, <3>3, <3>4
  <2>7. Numbered(line, k) BY <1>1, <2>1, <2>2 DEF Starts
  <2>8. ~Resumed(k) BY <2>3 DEF IsText, Resumed, Terminators
  <2> QED BY <2>1, <2>4, <2>5, <2>6, <2>7, <2>8 DEF Numbered, Ends
<1> QED BY <1>7, <1>8 DEF ErrorsNamed

(* compile() fails exactly on a source with a line outside the documented  *)
(* grammar and names the first such line: for every source and base.       *)
THEOREM AnyErrorsNamed == AnySpec => []ErrorsNamed
<1>1. AnySpec => [](SplitInv /\ LoopInv)
  <2>1. AnyInit => SplitInv /\ LoopInv BY SplitInit
  <2>2. SplitInv /\ LoopInv /\ [Next]_vars => (SplitInv /\ LoopInv)' BY SplitStep
  <2> QED BY <2>1, <2>2, PTL DEF AnySpec
<1> QED BY <1>1, InvErrorsNamed, PTL

(* In particular for the model's own sources.                              *)
THEOREM SpecErrorsNamed == Spec => []ErrorsNamed
<1>1. Spec => AnySpec BY InitIsAny DEF Spec, AnySpec
<1> QED BY <1>1, AnyErrorsNamed

-----------------------------------------------------------------------------
(* What is emitted.                                                        *)

(* The disassembler takes an operand of two bytes for two bytes,           *)
LEMMA UnasmTwo ==
  ASSUME NEW code \in Byte, TwoBytes(code)
  PROVE  unasm_operand_bytes(unasm_mode(code)) = 2
<1> DEFINE b == (code \div 4) % 8
<1>1. code \in Int /\ 0 <= code /\ code <= 255 BY ByteRange
<1>2. CASE code % 4 = 1 /\ b \in {3, 6, 7}
  BY <1>1, <1>2, SMT DEF unasm_mode, Column13, unasm_operand_bytes
<1>3. CASE code % 4 = 0 /\ b \in {3, 7}
  BY <1>1, <1>3, SMT DEF unasm_mode, Column0, unasm_operand_bytes
<1>4. CASE code % 4 = 2 /\ b \in {3, 7}
  BY <1>1, <1>4, SMT DEF unasm_mode, Column2, unasm_operand_bytes
<1>5. CASE code = 32
  BY <1>1, <1>5, SMT DEF unasm_mode, Column0, unasm_operand_bytes
<1> QED BY <1>2, <1>3, <1>4, <1>5 DEF TwoBytes

(* none for none,                                                          *)
LEMMA UnasmNone ==
  ASSUME NEW code \in Byte, NoBytes(code)
  PROVE  unasm_operand_bytes(unasm_mode(code)) = 0
<1> DEFINE b == (code \div 4) % 8
<1>1. code \in Int /\ 0 <= code /\ code <= 255 BY ByteRange
<1>2. CASE code % 4 = 0 /\ b \in {2, 6}
  BY <1>1, <1>2, SMT DEF unasm_mode, Column0, unasm_operand_bytes
<1>3. CASE code % 4 = 2 /\ b \in {2, 6}
  BY <1>1, <1>3, SMT DEF unasm_mode, Column2, unasm_operand_bytes
<1>4. CASE code \in {0, 64, 96}
  BY <1>1, <1>4, SMT DEF unasm_mode, Column0, unasm_operand_bytes
<1> QED BY <1>2, <1>3, <1>4 DEF NoBytes

(* and one for one.                                                        *)
LEMMA UnasmOne ==
  ASSUME NEW code \in Byte, OneByte(code)
  PROVE  unasm_operand_bytes(unasm_mode(code)) = 1
<1> DEFINE b == (code \div 4) % 8
<1>1. code \in Int /\ 0 <= code /\ code <= 255 BY ByteRange
<1>2. CASE code % 4 = 1 /\ b \in {0, 1, 2, 4, 5}
  BY <1>1, <1>2, SMT DEF unasm_mode, Column13, unasm_operand_bytes
<1>3. CASE code % 4 = 2 /\ b \in {1, 5}
  BY <1>1, <1>3, SMT DEF unasm_mode, Column2, unasm_operand_bytes
<1>4. CASE code % 4 = 0 /\ b \in {1, 4, 5}
  BY <1>1, <1>4, SMT DEF unasm_mode, Column0, unasm_operand_bytes
<1>5. CASE code % 4 = 0 /\ b = 0 /\ code >= 128
  BY <1>1, <1>5, SMT DEF unasm_mode, Column0, unasm_operand_bytes
<1>6. CASE code % 4 = 2 /\ b = 0 /\ code >= 128
  BY <1>1, <1>6, SMT DEF unasm_mode, Column2, unasm_operand_bytes
<1> QED BY <1>2, <1>3, <1>4, <1>5, <1>6 DEF OneByte

(* The address a uint16 keeps.                                             *)
LEMMA WrapCases ==
  \A n \in Int :
    /\ 0 <= n /\ n < 65536 => Wrap16(n) = n
    /\ 65536 <= n /\ n < 131072 => Wrap16(n) = n - 65536
    /\ -65536 <= n /\ n < 0 => Wrap16(n) = n + 65536
  BY SMT DEF Wrap16

(* How far address a is behind org.                                        *)
Off(org, a) == Wrap16(a - org)

(* Addresses and distances correspond.                                     *)
LEMMA OffRange ==
  ASSUME NEW org \in Word, NEW a \in Word
  PROVE  Off(org, a) \in Int /\ 0 <= Off(org, a) /\ Off(org, a) <= 65535
         /\ Wrap16(org + Off(org, a)) = a
  BY WordRange, WrapCases, SMT DEF Off

(* Two addresses at the same distance are the same.                        *)
LEMMA OffInjective ==
  ASSUME NEW org \in Word, NEW a \in Word, NEW c \in Word, Off(org, a) = Off(org, c)
  PROVE  a = c
  BY OffRange

(* i bytes further, as long as the distance is one of a uint16.            *)
LEMMA OffAdd ==
  ASSUME NEW org \in Word, NEW a \in Word, NEW i \in Nat, Off(org, a) + i <= 65535
  PROVE  Wrap16(a + i) \in Word /\ Off(org, Wrap16(a + i)) = Off(org, a) + i
<1>1. org \in Int /\ 0 <= org /\ org <= 65535 /\ a \in Int /\ 0 <= a /\ a <= 65535 BY WordRange
<1>2. Off(org, a) = IF a >= org THEN a - org ELSE (a - org) + 65536 BY <1>1, WrapCases DEF Off
<1>3. i <= 65535 BY <1>1, <1>2
<1>4. Wrap16(a + i) = IF a + i < 65536 THEN a + i ELSE a + i - 65536 BY <1>1, <1>3, WrapCases
<1>5. Wrap16(a + i) \in Int /\ 0 <= Wrap16(a + i) /\ Wrap16(a + i) <= 65535 BY <1>1, <1>3, <1>4
<1>6. Off(org, Wrap16(a + i)) = IF Wrap16(a + i) >= org THEN Wrap16(a + i) - org
                                 ELSE (Wrap16(a + i) - org) + 65536
  BY <1>1, <1>5, WrapCases DEF Off
<1> QED BY <1>1, <1>2, <1>3, <1>4, <1>5, <1>6, WordRange

(* What Asm2Code emits for a line, read back: the opcode is that of the    *)
(* line, and the bytes behind it are its operand.                          *)
OperandReadsBack(g, bytes) ==
  LET t == type(g) IN
  /\ unasm_operand_bytes(t) = 2 => g.val = Join(bytes[2], bytes[3])
  /\ unasm_operand_bytes(t) = 1 /\ t # "rel" => g.val = bytes[2]
  /\ t = "rel" /\ Head(g.rel) \in -128..127
       => Head(g.rel) = (IF bytes[2] > 127 THEN bytes[2] - 256 ELSE bytes[2])
LineReadsBack(g, bytes) ==
  /\ Len(bytes) = 1 + unasm_operand_bytes(type(g))
  /\ bytes[1] \in Byte /\ instruction_table[bytes[1]].op = g.name
  /\ Written(instruction_table[bytes[1]].mode) = type(g) /\ Writes(g, type(g))
  /\ unasm_operand_bytes(unasm_mode(bytes[1])) = unasm_operand_bytes(type(g))
  /\ OperandReadsBack(g, bytes)

(* The operand has the bytes that the disassembler expects.                *)
LEMMA UnasmBytes ==
  ASSUME NEW code \in Byte, NEW t \in DOMAIN Forms, Sized(t, code)
  PROVE  unasm_operand_bytes(unasm_mode(code)) = unasm_operand_bytes(t)
<1>1. CASE t \in {"abs", "abx", "aby", "ind"}
  <2>1. unasm_operand_bytes(t) = 2 BY <1>1 DEF unasm_operand_bytes
  <2>2. TwoBytes(code) BY <1>1 DEF Sized
  <2> QED BY <2>1, <2>2, UnasmTwo
<1>2. CASE t \in {"nul", "acc"}
  <2>1. unasm_operand_bytes(t) = 0 BY <1>2 DEF unasm_operand_bytes
  <2>2. NoBytes(code) BY <1>2 DEF Sized
  <2> QED BY <2>1, <2>2, UnasmNone
<1>3. CASE t \in {"imm", "zp", "zpx", "zpy", "izx", "izy", "rel"}
  <2>1. unasm_operand_bytes(t) = 1 BY <1>3 DEF unasm_operand_bytes
  <2>2. OneByte(code) BY <1>3 DEF Sized
  <2> QED BY <2>1, <2>2, UnasmOne
<1> QED BY FormModes, <1>1, <1>2, <1>3

(* The digits of a form that has a value.                                  *)
LEMMA TypeDigits ==
  ASSUME NEW g, NEW t, TypeShape(g, t)
  PROVE  /\ t \in {"abs", "abx", "aby", "ind"} => g.digits = 4
         /\ t \in {"imm", "zp", "zpx", "zpy", "izx", "izy"} => g.digits = 2
         /\ t = "rel" => g.digits = 0 /\ g.rel # <<>>
  BY Zenon DEF TypeShape, Shape

(* An opcode in front of its operand.                                      *)
LEMMA OpcodeFirst ==
  ASSUME NEW x, NEW y, NEW z
  PROVE  /\ Len(<<x>> \o <<y>>) = 2 /\ (<<x>> \o <<y>>)[1] = x /\ (<<x>> \o <<y>>)[2] = y
         /\ Len(<<x>> \o <<y, z>>) = 3 /\ (<<x>> \o <<y, z>>)[1] = x
         /\ (<<x>> \o <<y, z>>)[2] = y /\ (<<x>> \o <<y, z>>)[3] = z
<1>1. Len(<<x>> \o <<y>>) = 2 /\ (<<x>> \o <<y>>)[1] = x /\ (<<x>> \o <<y>>)[2] = y OBVIOUS
<1>2. Len(<<x>> \o <<y, z>>) = 3 /\ (<<x>> \o <<y, z>>)[1] = x OBVIOUS
<1>3. (<<x>> \o <<y, z>>)[2] = y /\ (<<x>> \o <<y, z>>)[3] = z OBVIOUS
<1> QED BY <1>1, <1>2, <1>3

(* So every accepted line is read back from what is emitted for it.        *)
LEMMA EmittedReadsBack ==
  ASSUME NEW g, Captures(g), found(g)
  PROVE  LineReadsBack(g, Asm2Code(g))
<1> DEFINE t == type(g)
           code == instruction_mapper[g.name][t]
           v == parsedVal(g)
<1>1. Is(g.name, t, code) /\ Sized(t, code) /\ MapperKeys(g.name, t) BY MapperSound DEF found
<1>2. t # "" BY <1>1, EmptyUnknown
<1>3. t \in DOMAIN Forms /\ TypeShape(g, t) BY <1>2, TypeHasShape
<1>4. Writes(g, t) BY <1>3, WritesIsType
<1>5. code \in Byte BY <1>1 DEF Is
<1>6. unasm_operand_bytes(unasm_mode(code)) = unasm_operand_bytes(t) BY <1>1, <1>3, <1>5, UnasmBytes
<1>7. g.val \in Word /\ (g.digits = 2 => g.val \in Byte) /\ (g.rel # <<>> => \E n \in Int : g.rel = <<n>>)
  BY DEF Captures
<1>8. Asm2Code(g) = <<code>> \o AddrT(t, v) BY DEF Asm2Code
<1>9. instruction_table[code].op = g.name /\ Written(instruction_table[code].mode) = t
  BY <1>1 DEF Is
<1> HIDE DEF t, code, v
<1>10. CASE t \in {"abs", "abx", "aby", "ind"}
  <2>1. g.digits = 4 BY <1>3, <1>10, TypeDigits
  <2>2. v = g.val BY <2>1 DEF v, parsedVal
  <2>3. AddrT(t, v) = <<g.val % 256, (g.val \div 256) % 256>> BY <1>10, <2>2 DEF AddrT, addr_2Param
  <2>4. /\ Len(Asm2Code(g)) = 3 /\ Asm2Code(g)[1] = code
        /\ Asm2Code(g)[2] = g.val % 256 /\ Asm2Code(g)[3] = (g.val \div 256) % 256
    <3>1. PICK lo, hi : lo = g.val % 256 /\ hi = (g.val \div 256) % 256 OBVIOUS
    <3>2. Asm2Code(g) = <<code>> \o <<lo, hi>> BY <1>8, <2>3, <3>1
    <3> QED BY <3>1, <3>2, OpcodeFirst
  <2>5. unasm_operand_bytes(t) = 2 /\ t # "rel" BY <1>10 DEF unasm_operand_bytes
  <2>6. g.val = Join(g.val % 256, (g.val \div 256) % 256) BY <1>7, WordRange DEF Join
  <2>7. OperandReadsBack(g, Asm2Code(g)) BY <2>4, <2>5, <2>6 DEF OperandReadsBack, t
  <2> QED BY <1>4, <1>5, <1>6, <1>9, <2>4, <2>5, <2>7 DEF LineReadsBack, t
<1>11. CASE t \in {"nul", "acc"}
  <2>1. AddrT(t, v) = <<>> BY <1>11 DEF AddrT, addr_NoParams
  <2>2. Asm2Code(g) = <<code>> BY <1>8, <2>1
  <2>3. unasm_operand_bytes(t) = 0 /\ t # "rel" BY <1>11 DEF unasm_operand_bytes
  <2>4. OperandReadsBack(g, Asm2Code(g)) BY <2>3 DEF OperandReadsBack, t
  <2> QED BY <1>4, <1>5, <1>6, <1>9, <2>2, <2>3, <2>4 DEF LineReadsBack, t
<1>12. CASE t \in {"imm", "zp", "zpx", "zpy", "izx", "izy"}
  <2>1. g.digits = 2 BY <1>3, <1>12, TypeDigits
  <2>2. v = g.val /\ g.val \in Byte BY <1>7, <2>1 DEF v, parsedVal
  <2>3. AddrT(t, v) = <<g.val % 256>> BY <1>12, <2>2 DEF AddrT, addr_1Param
  <2>4. g.val % 256 = g.val BY <2>2, ByteRange
  <2>5. Len(Asm2Code(g)) = 2 /\ Asm2Code(g)[1] = code /\ Asm2Code(g)[2] = g.val
    <3>1. Asm2Code(g) = <<code>> \o <<g.val>> BY <1>8, <2>3, <2>4
    <3> QED BY <3>1, OpcodeFirst
  <2>6. unasm_operand_bytes(t) = 1 /\ t # "rel" BY <1>12 DEF unasm_operand_bytes
  <2>7. OperandReadsBack(g, Asm2Code(g)) BY <2>5, <2>6 DEF OperandReadsBack, t
  <2> QED BY <1>4, <1>5, <1>6, <1>9, <2>5, <2>6, <2>7 DEF LineReadsBack, t
<1>13. CASE t = "rel"
  <2>1. g.digits = 0 /\ g.rel # <<>> BY <1>3, <1>13, TypeDigits
  <2>2. PICK n \in Int : g.rel = <<n>> BY <1>7, <2>1
  <2>3. v = n /\ Head(g.rel) = n BY <2>1, <2>2 DEF v, parsedVal
  <2>4. AddrT(t, v) = <<n % 256>> BY <1>13, <2>3 DEF AddrT, addr_1Param
  <2>5. Len(Asm2Code(g)) = 2 /\ Asm2Code(g)[1] = code /\ Asm2Code(g)[2] = n % 256
    <3>1. PICK lo : lo = n % 256 OBVIOUS
    <3>2. Asm2Code(g) = <<code>> \o <<lo>> BY <1>8, <2>4, <3>1
    <3> QED BY <3>1, <3>2, OpcodeFirst
  <2>6. unasm_operand_bytes(t) = 1 BY <1>13 DEF unasm_operand_bytes
  <2>7. n \in -128..127 => n = (IF n % 256 > 127 THEN (n % 256) - 256 ELSE n % 256) OBVIOUS
  <2>8. OperandReadsBack(g, Asm2Code(g)) BY <1>13, <2>3, <2>5, <2>6, <2>7 DEF OperandReadsBack, t
  <2> QED BY <1>4, <1>5, <1>6, <1>9, <2>5, <2>6, <2>8 DEF LineReadsBack, t
<1> QED BY <1>3, <1>10, <1>11, <1>12, <1>13, FormModes

-----------------------------------------------------------------------------
(* The image.                                                              *)

Distance(a) == Off(m_base_code, a)

(* The lines that can be placed.                                           *)
PlacedLines == {[g |-> source[k].g, at |-> a] : k \in 1..Len(source), a \in Word}

(* The address behind line i.                                              *)
After(i) == IF i < Len(placed) THEN placed[i + 1].at ELSE pc

(* The image still holds what was emitted for line i, before pc.           *)
Holds(i) ==
  LET at == placed[i].at
      bytes == Asm2Code(placed[i].g)
  IN  /\ Distance(at) + Len(bytes) <= Distance(pc) /\ After(i) = Wrap16(at + Len(bytes))
      /\ \A b \in 0..(Len(bytes) - 1) :
           Wrap16(at + b) \in DOMAIN r /\ r[Wrap16(at + b)] = bytes[b + 1]

(* The code is one run of bytes from the base address to pc.               *)
ImageFits ==
  /\ Distance(pc) <= 3 * Len(placed)
  /\ \A i \in 1..Len(placed) : Holds(i)
  /\ DOMAIN r = {65532, 65533} \cup {a \in Word : Distance(a) < Distance(pc)}
  /\ \A a \in {65532, 65533} : Distance(pc) <= Distance(a) => r[a] = FreshImage(m_base_code)[a]

(* A line emits at most three bytes: so many lines fit into the image.     *)
Fits == 3 * Len(placed) <= 65535

ImageInv ==
  /\ m_base_code \in Word /\ pc \in Word /\ placed \in Seq(PlacedLines)
  /\ \A i \in 1..Len(placed) : found(placed[i].g) /\ Captures(placed[i].g)
  /\ Fits => ImageFits
  /\ Len(placed) < line /\ (IF eofbit THEN Len(lines) <= next ELSE Len(lines) < next)

(* n addresses from at on are those at a distance of d to d + n - 1.       *)
LEMMA CellsBetween ==
  ASSUME NEW org \in Word, NEW at \in Word, NEW n \in Nat, NEW d, d = Off(org, at), d + n <= 65535
  PROVE  /\ {Wrap16(at + i) : i \in 0..(n - 1)} =
              {a \in Word : d <= Off(org, a) /\ Off(org, a) < d + n}
         /\ \A b \in 0..(n - 1) : Wrap16(Wrap16(at + b) - at) = b
<1> DEFINE cells == {Wrap16(at + i) : i \in 0..(n - 1)}
           C == {a \in Word : d <= Off(org, a) /\ Off(org, a) < d + n}
<1>1. d \in Int /\ 0 <= d BY OffRange
<1>2. \A i \in 0..(n - 1) : Wrap16(at + i) \in Word /\ Off(org, Wrap16(at + i)) = d + i
  BY <1>1, OffAdd
<1>3. ASSUME NEW a \in C PROVE a \in cells
  <2>1. /\ a \in Word /\ Off(org, a) \in Int
        /\ d <= Off(org, a) /\ Off(org, a) < d + n
    BY <1>3, OffRange
  <2>2. PICK i : i = Off(org, a) - d OBVIOUS
  <2>3. i \in 0..(n - 1) BY <1>1, <2>1, <2>2, SMT
  <2>4. Off(org, Wrap16(at + i)) = Off(org, a) BY <1>1, <1>2, <2>1, <2>2, <2>3
  <2>5. a = Wrap16(at + i) BY <1>2, <2>1, <2>3, <2>4, OffInjective
  <2> QED BY <2>3, <2>5
<1>4. ASSUME NEW i \in 0..(n - 1) PROVE Wrap16(at + i) \in C BY <1>1, <1>2
<1>5. ASSUME NEW b \in 0..(n - 1) PROVE Wrap16(Wrap16(at + b) - at) = b
  <2>1. Off(at, at) = 0 BY WordRange, WrapCases DEF Off
  <2>2. b \in Nat /\ Off(at, at) + b <= 65535 BY <1>1, <2>1
  <2>3. Off(at, Wrap16(at + b)) = b BY <2>1, <2>2, OffAdd
  <2> QED BY <2>3 DEF Off
<1> QED BY <1>3, <1>4, <1>5

(* The n addresses from at on, all different.                              *)
Cells(at, n) == {Wrap16(at + i) : i \in 0..(n - 1)}
Apart(at, n) == \A b \in 0..(n - 1) : Wrap16(Wrap16(at + b) - at) = b

(* new is image with n bytes stored in C, from address at on.              *)
IsStored(new, image, at, bytes, n, C) ==
  /\ DOMAIN new = DOMAIN image \cup C
  /\ \A b \in 0..(n - 1) : new[Wrap16(at + b)] = bytes[b + 1]
  /\ \A a \in DOMAIN image \ C : new[a] = image[a]

(* Storing n bytes from address at on.                                     *)
LEMMA StoredCells ==
  ASSUME NEW image, NEW at, NEW bytes, NEW n, n = Len(bytes), NEW C, C = Cells(at, n), Apart(at, n)
  PROVE  IsStored(Stored(image, at, bytes), image, at, bytes, n, C)
<1>1. PICK new : new = Stored(image, at, bytes) OBVIOUS
<1>2. new = [k \in DOMAIN image \cup C |->
               IF k \in C THEN bytes[Wrap16(k - at) + 1] ELSE image[k]]
  BY <1>1 DEF Stored, Cells
<1>3. ASSUME NEW b \in 0..(n - 1) PROVE new[Wrap16(at + b)] = bytes[b + 1]
  <2>1. Wrap16(at + b) \in C BY DEF Cells
  <2>2. new[Wrap16(at + b)] = bytes[Wrap16(Wrap16(at + b) - at) + 1] BY <1>2, <2>1
  <2> QED BY <2>2 DEF Apart
<1>4. DOMAIN new = DOMAIN image \cup C /\ \A a \in DOMAIN image \ C : new[a] = image[a] BY <1>2
<1> QED BY <1>1, <1>3, <1>4 DEF IsStored

(* The image is right before the first line.                               *)
LEMMA ImageInit == AnyInit => ImageInv
<1> SUFFICES ASSUME AnyInit PROVE ImageInv OBVIOUS
<1>1. /\ m_base_code \in Word /\ pc = m_base_code /\ placed = <<>> /\ r = FreshImage(m_base_code)
      /\ line = 1 /\ lines = <<>> /\ next = 1 /\ eofbit = FALSE
  BY DEF AnyInit, CompileInit
<1>2. placed \in Seq(PlacedLines) /\ Len(placed) = 0 BY <1>1
<1>3. Distance(pc) = 0 BY <1>1, WordRange, WrapCases DEF Distance, Off
<1>4. \A a \in Word : ~(Distance(a) < 0)
  <2> SUFFICES ASSUME NEW a \in Word PROVE ~(Distance(a) < 0) OBVIOUS
  <2>1. Distance(a) \in Int /\ 0 <= Distance(a) BY <1>1, OffRange DEF Distance
  <2> QED BY <2>1
<1>5. DOMAIN r = {65532, 65533} BY <1>1 DEF FreshImage
<1>6. ImageFits
  <2>1. \A i \in 1..Len(placed) : Holds(i) BY <1>2
  <2>2. DOMAIN r = {65532, 65533} \cup {a \in Word : Distance(a) < Distance(pc)} BY <1>3, <1>4, <1>5
  <2> QED BY <1>1, <1>2, <1>3, <2>1, <2>2 DEF ImageFits
<1> QED BY <1>1, <1>2, <1>6 DEF ImageInv

(* A line with text is one token of the source.                            *)
LEMMA TextLine ==
  ASSUME SplitInv, HasText, line \in Nat \ {0}
  PROVE  \E k \in 1..Len(source) : lines[line] = <<source[k]>> /\ IsToken(source[k])
<1>1. line \in 1..Len(lines) /\ lines[line] # <<>> BY DEF HasText, SplitInv, LinesInv
<1>2. lines[line] \in LineTexts BY <1>1 DEF SplitInv, LinesInv
<1> QED BY <1>1, <1>2 DEF LineTexts, SplitInv, IsSource

(* A line emits one to three bytes.                                        *)
LEMMA EmittedLength ==
  ASSUME NEW g, found(g), Captures(g)
  PROVE  Len(Asm2Code(g)) \in 1..3
<1>1. Len(Asm2Code(g)) = 1 + unasm_operand_bytes(type(g)) BY EmittedReadsBack DEF LineReadsBack
<1>2. unasm_operand_bytes(type(g)) \in {0, 1, 2} BY DEF unasm_operand_bytes
<1> QED BY <1>1, <1>2

(* Emitting a line leaves what was emitted before, and puts its bytes      *)
(* behind it.                                                              *)
LEMMA EmitImage ==
  ASSUME SplitInv, LoopInv, ImageInv, Emit
  PROVE  ImageInv'
<1>0. /\ m_base_code \in Word /\ pc \in Word /\ placed \in Seq(PlacedLines) /\ Len(placed) \in Nat
      /\ line \in Nat \ {0} /\ Len(placed) < line
  BY DEF ImageInv, LoopInv
<1>1. /\ HasText /\ Accepted(lines[line][1])
      /\ r' = Stored(r, pc, Asm2Code(lines[line][1].g))
      /\ pc' = Wrap16(pc + Len(Asm2Code(lines[line][1].g)))
      /\ placed' = Append(placed, [g |-> lines[line][1].g, at |-> pc])
      /\ line' = line + 1
      /\ UNCHANGED <<source, m_base_code, next, eofbit, lines>>
  BY DEF Emit, Assembling
<1>2. PICK k \in 1..Len(source) : lines[line] = <<source[k]>> /\ IsToken(source[k])
  BY <1>0, <1>1, TextLine
<1>3. PICK g : g = source[k].g OBVIOUS
<1>4. lines[line][1].g = g BY <1>2, <1>3
<1>5. found(g) /\ Captures(g)
  <2>1. source[k].kind = "instruction" /\ found(g) BY <1>1, <1>2, <1>3 DEF Accepted
  <2> QED BY <1>2, <1>3, <2>1, TokenKinds DEF IsToken
<1>6. PICK bytes, n, len : bytes = Asm2Code(g) /\ n = Len(bytes) /\ len = Len(placed) OBVIOUS
<1>7. n \in 1..3 BY <1>5, <1>6, EmittedLength
<1>8. [g |-> g, at |-> pc] \in PlacedLines BY <1>0, <1>3 DEF PlacedLines
<1>9. /\ placed' \in Seq(PlacedLines) /\ Len(placed') = len + 1
      /\ placed'[len + 1] = [g |-> g, at |-> pc] /\ \A i \in 1..len : placed'[i] = placed[i]
  BY <1>0, <1>1, <1>4, <1>6, <1>8
<1>10. PlacedLines' = PlacedLines BY <1>1 DEF PlacedLines
<1>11. pc' = Wrap16(pc + n) /\ r' = Stored(r, pc, bytes) BY <1>1, <1>4, <1>6
<1>12. pc' \in Word BY <1>0, <1>7, <1>11, WordRange, WrapCases
<1>13. \A i \in 1..(len + 1) : found(placed'[i].g) /\ Captures(placed'[i].g)
  <2> SUFFICES ASSUME NEW i \in 1..(len + 1) PROVE found(placed'[i].g) /\ Captures(placed'[i].g)
    OBVIOUS
  <2>1. CASE i = len + 1
    <3>1. placed'[i].g = g BY <1>9, <2>1
    <3> QED BY <1>5, <3>1
  <2>2. CASE i # len + 1
    <3>1. i \in 1..len BY <1>0, <1>6, <2>2
    <3> QED BY <1>6, <1>9, <3>1 DEF ImageInv
  <2> QED BY <2>1, <2>2
<1>14. ASSUME Fits' PROVE ImageFits'
  <2>1. 3 * (len + 1) <= 65535 /\ len \in Nat BY <1>0, <1>6, <1>9, <1>14 DEF Fits
  <2>2. ImageFits BY <1>6, <2>1 DEF ImageInv, Fits
  <2>3. PICK d : d = Distance(pc) OBVIOUS
  <2>4. d \in Int /\ 0 <= d /\ d <= 3 * len
    BY <1>0, <1>6, <2>2, <2>3, OffRange DEF ImageFits, Distance
  <2>5. d + n <= 65535 /\ n \in Nat BY <1>7, <2>1, <2>4
  <2>6. Off(m_base_code, pc) = d BY <2>3 DEF Distance
  <2>7. Off(m_base_code, pc') = d + n BY <1>0, <1>11, <2>5, <2>6, OffAdd
  <2> DEFINE C == {a \in Word : d <= Off(m_base_code, a) /\ Off(m_base_code, a) < d + n}
  <2>8. /\ DOMAIN r' = DOMAIN r \cup C
        /\ \A b \in 0..(n - 1) : r'[Wrap16(pc + b)] = bytes[b + 1]
        /\ \A a \in DOMAIN r \ C : r'[a] = r[a]
    <3>1. /\ C = {Wrap16(pc + i) : i \in 0..(n - 1)}
          /\ \A b \in 0..(n - 1) : Wrap16(Wrap16(pc + b) - pc) = b
      BY <1>0, <2>5, <2>6, CellsBetween
    <3> HIDE DEF C
    <3>2. C = Cells(pc, n) /\ Apart(pc, n) BY <3>1 DEF Cells, Apart
    <3>3. IsStored(Stored(r, pc, bytes), r, pc, bytes, n, C) BY <1>6, <3>2, StoredCells
    <3>4. IsStored(r', r, pc, bytes, n, C) BY <1>11, <3>3
    <3> QED BY <3>4 DEF IsStored
  <2> HIDE DEF C
  <2>9. Distance(pc)' = d + n BY <1>1, <2>7 DEF Distance
  <2>10. Holds(len + 1)'
    <3>1. placed'[len + 1].at = pc /\ placed'[len + 1].g = g BY <1>9
    <3>2. After(len + 1)' = pc' BY <1>9, <2>1 DEF After
    <3>3. Distance(placed[len + 1].at)' = d BY <1>1, <2>6, <3>1 DEF Distance
    <3>4. ASSUME NEW b \in 0..(n - 1)
          PROVE  Wrap16(pc + b) \in DOMAIN r' /\ r'[Wrap16(pc + b)] = bytes[b + 1]
      <4>1. b \in Nat /\ d + b <= 65535 BY <1>7, <2>4, <2>5
      <4>2. Wrap16(pc + b) \in Word /\ Off(m_base_code, Wrap16(pc + b)) = d + b
        BY <1>0, <2>6, <4>1, OffAdd
      <4>3. Wrap16(pc + b) \in C BY <1>7, <2>4, <4>1, <4>2 DEF C
      <4> QED BY <2>8, <4>3
    <3>5. Asm2Code(placed'[len + 1].g) = bytes BY <1>6, <3>1
    <3>6. After(len + 1)' = Wrap16(pc + n) BY <1>11, <3>2
    <3> QED BY <1>6, <1>7, <2>4, <2>9, <3>1, <3>3, <3>4, <3>5, <3>6 DEF Holds
  <2>11. ASSUME NEW i \in 1..len PROVE Holds(i)'
    <3>1. /\ placed'[i] = placed[i] /\ Holds(i) /\ placed[i] \in PlacedLines
          /\ found(placed[i].g) /\ Captures(placed[i].g)
      BY <1>0, <1>6, <1>9, <2>2 DEF ImageFits, ImageInv
    <3>2. PICK at, code, m : at = placed[i].at /\ code = Asm2Code(placed[i].g) /\ m = Len(code)
      OBVIOUS
    <3>3. at \in Word /\ m \in 1..3 BY <3>1, <3>2, EmittedLength DEF PlacedLines
    <3>4. PICK e : e = Off(m_base_code, at) OBVIOUS
    <3>5. e \in Int /\ 0 <= e /\ e + m <= d
      BY <1>0, <2>3, <3>1, <3>2, <3>3, <3>4, OffRange DEF Holds, Distance
    <3>6. After(i)' = Wrap16(at + m)
      <4>1. After(i) = Wrap16(at + m) BY <3>1, <3>2 DEF Holds
      <4>2. CASE i < len
        <5>1. i + 1 \in 1..len BY <2>1, <4>2
        <5>2. placed'[i + 1] = placed[i + 1] BY <1>9, <5>1
        <5>3. After(i) = placed[i + 1].at BY <1>6, <4>2 DEF After
        <5>4. i < Len(placed') BY <1>9, <2>1
        <5> QED BY <4>1, <5>2, <5>3, <5>4 DEF After
      <4>3. CASE i = len
        <5>1. After(i) = pc BY <1>6, <2>1, <4>3 DEF After
        <5>2. i < Len(placed') BY <1>9, <2>1, <4>3
        <5>3. placed'[i + 1].at = pc BY <1>9, <4>3
        <5> QED BY <4>1, <5>1, <5>2, <5>3 DEF After
      <4> QED BY <2>1, <4>2, <4>3
    <3>7. ASSUME NEW b \in 0..(m - 1)
          PROVE  Wrap16(at + b) \in DOMAIN r' /\ r'[Wrap16(at + b)] = code[b + 1]
      <4>1. Wrap16(at + b) \in DOMAIN r /\ r[Wrap16(at + b)] = code[b + 1] BY <3>1, <3>2 DEF Holds
      <4>2. b \in Nat /\ e + b <= 65535 /\ e + b < d BY <2>4, <2>5, <3>3, <3>5
      <4>3. Wrap16(at + b) \in Word /\ Off(m_base_code, Wrap16(at + b)) = e + b
        BY <1>0, <3>3, <3>4, <4>2, OffAdd
      <4>4. Wrap16(at + b) \notin C BY <2>4, <3>5, <4>2, <4>3 DEF C
      <4>5. r'[Wrap16(at + b)] = r[Wrap16(at + b)] BY <2>8, <4>1, <4>4
      <4> QED BY <2>8, <4>1, <4>5
    <3>8. Distance(placed[i].at)' + m <= Distance(pc)'
      <4>1. Distance(placed[i].at)' = e BY <1>1, <3>1, <3>2, <3>4 DEF Distance
      <4> QED BY <1>7, <2>4, <2>9, <3>3, <3>5, <4>1
    <3> QED BY <3>1, <3>2, <3>6, <3>7, <3>8 DEF Holds
  <2>12. \A i \in 1..(len + 1) : Holds(i)'
    <3> SUFFICES ASSUME NEW i \in 1..(len + 1) PROVE Holds(i)' OBVIOUS
    <3>1. i = len + 1 \/ i \in 1..len BY <2>1
    <3> QED BY <2>10, <2>11, <3>1
  <2>13. DOMAIN r' = {65532, 65533} \cup {a \in Word : Off(m_base_code, a) < d + n}
    <3>1. DOMAIN r = {65532, 65533} \cup {a \in Word : Off(m_base_code, a) < d}
      BY <2>2, <2>3 DEF ImageFits, Distance
    <3>2. \A a \in Word : Off(m_base_code, a) \in Int BY <1>0, OffRange
    <3>3. C \cup {a \in Word : Off(m_base_code, a) < d} = {a \in Word : Off(m_base_code, a) < d + n}
      BY <1>7, <2>4, <3>2 DEF C
    <3> QED BY <2>8, <3>1, <3>3
  <2>14. \A a \in {65532, 65533} : d + n <= Off(m_base_code, a) => r'[a] = FreshImage(m_base_code)[a]
    <3> SUFFICES ASSUME NEW a \in {65532, 65533}, d + n <= Off(m_base_code, a)
                 PROVE  r'[a] = FreshImage(m_base_code)[a]
      OBVIOUS
    <3>1. a \in Word BY WordRange
    <3>2. a \in DOMAIN r BY <2>2 DEF ImageFits
    <3>3. Off(m_base_code, a) \in Int BY <1>0, <3>1, OffRange
    <3>4. d <= Off(m_base_code, a) BY <1>7, <2>4, <3>3, SMT
    <3>5. a \notin C BY <1>7, <2>4, <3>3 DEF C
    <3>6. r'[a] = r[a] BY <2>8, <3>2, <3>5
    <3> QED BY <2>2, <2>3, <3>4, <3>6 DEF ImageFits, Distance
  <2>15. d + n <= 3 * (len + 1) BY <1>7, <2>1, <2>4
  <2>16. (DOMAIN r = {65532, 65533} \cup {a \in Word : Distance(a) < Distance(pc)})'
    BY <1>1, <2>7, <2>13 DEF Distance
  <2>17. (\A a \in {65532, 65533} :
            Distance(pc) <= Distance(a) => r[a] = FreshImage(m_base_code)[a])'
    BY <1>1, <2>7, <2>14 DEF Distance
  <2> QED BY <1>9, <2>9, <2>12, <2>15, <2>16, <2>17 DEF ImageFits
<1>15. Len(placed') < line' BY <1>0, <1>1, <1>6, <1>9
<1>16. (IF eofbit THEN Len(lines) <= next ELSE Len(lines) < next)' BY <1>1 DEF ImageInv
<1> QED BY <1>0, <1>1, <1>9, <1>10, <1>12, <1>13, <1>14, <1>15, <1>16 DEF ImageInv

(* A step that emits nothing leaves the image.                             *)
LEMMA ImageStays ==
  ASSUME ImageInv, UNCHANGED <<source, m_base_code, pc, r, placed>>, Len(placed) < line',
         IF eofbit' THEN Len(lines') <= next' ELSE Len(lines') < next'
  PROVE  ImageInv'
<1>1. Distance(pc)' = Distance(pc) /\ \A a : Distance(a)' = Distance(a) BY DEF Distance
<1>2. \A i : Holds(i)' <=> Holds(i) BY <1>1 DEF Holds, Distance, After
<1>3. ImageFits' <=> ImageFits BY <1>1, <1>2 DEF ImageFits, Distance
<1>4. PlacedLines' = PlacedLines /\ (Fits' <=> Fits) BY DEF PlacedLines, Fits
<1> QED BY <1>3, <1>4 DEF ImageInv

(* No step of the assembler damages the image.                             *)
LEMMA ImageStep ==
  ASSUME SplitInv, LoopInv, ImageInv, [Next]_vars
  PROVE  ImageInv'
<1>0. /\ Len(lines) \in Nat /\ Len(placed) \in Nat /\ line \in Nat /\ Len(source) \in Nat
      /\ next \in 1..(Len(source) + 1) /\ Len(placed) < line
      /\ IF eofbit THEN Len(lines) <= next ELSE Len(lines) < next
  BY DEF SplitInv, LinesInv, IsSource, LoopInv, ImageInv
<1>1. CASE getline
  <2>1. /\ \E k \in next .. Len(source) : next' = IF Paired(k) THEN k + 2 ELSE k + 1
        /\ (\E t : lines' = Append(lines, t)) /\ eofbit' = eofbit /\ ~eofbit
        /\ UNCHANGED <<source, m_base_code, line, pc, r, placed>>
    BY <1>1 DEF getline, Split
  <2>2. Len(lines') = Len(lines) + 1 BY <1>0, <2>1
  <2>3. Len(lines') < next' BY <1>0, <2>1, <2>2
  <2> QED BY <1>0, <2>1, <2>3, ImageStays
<1>2. CASE getlineAtEnd
  <2>1. /\ (\E t : lines' = Append(lines, t)) /\ next' = Len(source) + 1
        /\ eofbit' = (next > Len(source)) /\ ~eofbit
        /\ UNCHANGED <<source, m_base_code, line, pc, r, placed>>
    BY <1>2 DEF getlineAtEnd, Split
  <2>2. Len(lines') = Len(lines) + 1 /\ Len(lines) < next BY <1>0, <2>1
  <2>3. IF eofbit' THEN Len(lines') <= next' ELSE Len(lines') < next'
    <3>1. CASE next > Len(source)
      <4>1. eofbit' BY <2>1, <3>1, Zenon
      <4>2. Len(lines') <= next' BY <1>0, <2>1, <2>2, <3>1
      <4> QED BY <4>1, <4>2
    <3>2. CASE ~(next > Len(source))
      <4>1. Len(lines') < next' BY <1>0, <2>1, <2>2, <3>2
      <4>2. Len(lines') <= next' BY <1>0, <2>1, <2>2, <4>1
      <4> QED BY <4>1, <4>2
    <3> QED BY <3>1, <3>2
  <2> QED BY <1>0, <2>1, <2>3, ImageStays
<1>3. CASE getlineFails \/ Throw \/ Return \/ UNCHANGED vars
  <2>1. UNCHANGED <<source, m_base_code, next, eofbit, lines, line, pc, r, placed>>
    BY <1>3 DEF getlineFails, Throw, Return, Assembling, vars
  <2> QED BY <1>0, <2>1, ImageStays
<1>4. CASE Skip
  <2>1. UNCHANGED <<source, m_base_code, next, eofbit, lines, pc, r, placed>> /\ line' = line + 1
    BY <1>4 DEF Skip, Assembling
  <2>2. Len(placed) < line' BY <1>0, <2>1
  <2> QED BY <1>0, <2>1, <2>2, ImageStays
<1>5. CASE Emit BY <1>5, EmitImage
<1> QED BY <1>1, <1>2, <1>3, <1>4, <1>5 DEF Next

(* Together the three invariants are inductive.                            *)
LEMMA AnyInv == AnySpec => [](SplitInv /\ LoopInv /\ ImageInv)
<1>1. AnyInit => SplitInv /\ LoopInv /\ ImageInv BY SplitInit, ImageInit
<1>2. SplitInv /\ LoopInv /\ ImageInv /\ [Next]_vars => (SplitInv /\ LoopInv /\ ImageInv)'
  BY SplitStep, ImageStep
<1> QED BY <1>1, <1>2, PTL DEF AnySpec

(* What the image holds for line i is what the disassembler reads.         *)
LEMMA InvCodeReadsBack ==
  ASSUME ImageInv, Fits
  PROVE  CodeReadsBack
<1> SUFFICES ASSUME NEW i \in 1..Len(placed)
             PROVE  LET g     == placed[i].g
                        at    == placed[i].at
                        code  == Image[at]
                        mode  == Written(instruction_table[code].mode)
                        lo    == Image[Wrap16(at + 1)]
                        after == IF i < Len(placed) THEN placed[i + 1].at ELSE pc
                    IN  /\ instruction_table[code].op = g.name /\ Writes(g, mode)
                        /\ unasm_operand_bytes(mode) = 2
                             => g.val = Join(lo, Image[Wrap16(at + 2)])
                        /\ unasm_operand_bytes(mode) = 1 /\ mode # "rel" => g.val = lo
                        /\ mode = "rel" /\ Head(g.rel) \in -128..127
                             => Head(g.rel) = (IF lo > 127 THEN lo - 256 ELSE lo)
                        /\ unasm_next(at, code) = after
  BY DEF CodeReadsBack
<1>1. PICK g, at, bytes : g = placed[i].g /\ at = placed[i].at /\ bytes = Asm2Code(g) OBVIOUS
<1>2. Holds(i) /\ at \in Word /\ found(g) /\ Captures(g)
  BY <1>1 DEF ImageInv, ImageFits, PlacedLines
<1>3. LineReadsBack(g, bytes) BY <1>1, <1>2, EmittedReadsBack
<1>4. PICK t, len : t = type(g) /\ len = unasm_operand_bytes(t) OBVIOUS
<1>5. len \in {0, 1, 2} /\ Len(bytes) = 1 + len BY <1>3, <1>4 DEF unasm_operand_bytes, LineReadsBack
<1>6. ASSUME NEW b \in 0..len PROVE Image[Wrap16(at + b)] = bytes[b + 1]
  <2>1. b \in 0..(Len(bytes) - 1) /\ b \in Nat /\ b <= 2 BY <1>5
  <2>2. Wrap16(at + b) \in DOMAIN r /\ r[Wrap16(at + b)] = bytes[b + 1]
    BY <1>1, <1>2, <2>1 DEF Holds
  <2>3. Wrap16(at + b) \in Word BY <1>2, <2>1, WordRange, WrapCases
  <2> QED BY <2>2, <2>3 DEF Image
<1>7. Image[at] = bytes[1]
  <2>1. Wrap16(at + 0) = at BY <1>2, WordRange, WrapCases
  <2>2. 0 \in 0..len BY <1>5
  <2> QED BY <1>6, <2>1, <2>2
<1>8. After(i) = unasm_next(at, bytes[1])
  <2>1. After(i) = Wrap16(at + Len(bytes)) BY <1>1, <1>2 DEF Holds
  <2>2. unasm_operand_bytes(unasm_mode(bytes[1])) = len BY <1>3, <1>4 DEF LineReadsBack
  <2>3. at + 1 + len = at + Len(bytes) BY <1>2, <1>5, WordRange
  <2> QED BY <2>1, <2>2, <2>3 DEF unasm_next
<1>9. Written(instruction_table[bytes[1]].mode) = t /\ instruction_table[bytes[1]].op = g.name
      /\ Writes(g, t) /\ OperandReadsBack(g, bytes)
  BY <1>3, <1>4 DEF LineReadsBack
<1>10. len = 2 => g.val = Join(Image[Wrap16(at + 1)], Image[Wrap16(at + 2)])
  <2> SUFFICES ASSUME len = 2 PROVE g.val = Join(Image[Wrap16(at + 1)], Image[Wrap16(at + 2)])
    OBVIOUS
  <2>1. Image[Wrap16(at + 1)] = bytes[2] /\ Image[Wrap16(at + 2)] = bytes[3] BY <1>6
  <2> QED BY <1>4, <1>9, <2>1 DEF OperandReadsBack
<1>11. len = 1 => Image[Wrap16(at + 1)] = bytes[2] BY <1>6
<1>12. len = 1 /\ t # "rel" => g.val = Image[Wrap16(at + 1)]
  BY <1>4, <1>9, <1>11 DEF OperandReadsBack
<1>13. t = "rel" => len = 1 BY <1>4 DEF unasm_operand_bytes
<1>14. t = "rel" /\ Head(g.rel) \in -128..127 =>
         Head(g.rel) = (IF Image[Wrap16(at + 1)] > 127 THEN Image[Wrap16(at + 1)] - 256
                        ELSE Image[Wrap16(at + 1)])
  BY <1>4, <1>9, <1>11, <1>13 DEF OperandReadsBack
<1>15. unasm_next(at, Image[at]) = IF i < Len(placed) THEN placed[i + 1].at ELSE pc
  BY <1>7, <1>8 DEF After
<1> QED BY <1>1, <1>4, <1>7, <1>9, <1>10, <1>12, <1>14, <1>15

(* The addresses from the base address to pc, as BootsAtBase lists them.   *)
LEMMA CodeDistance ==
  ASSUME m_base_code \in Word, pc \in Word, Distance(pc) <= 65535
  PROVE  CodeCells = {a \in Word : Distance(a) < Distance(pc)}
<1>1. PICK org, n : org = m_base_code /\ n = Distance(pc) OBVIOUS
<1>2. org \in Word /\ n \in Int /\ 0 <= n BY <1>1, OffRange DEF Distance
<1>3. n \in Nat /\ n <= 65535 BY <1>1, <1>2
<1>4. Off(org, org) = 0 BY <1>2, WordRange, WrapCases DEF Off
<1>5. {Wrap16(org + i) : i \in 0..(n - 1)}
        = {a \in Word : 0 <= Off(org, a) /\ Off(org, a) < 0 + n}
  <2>1. PICK d : d = 0 OBVIOUS
  <2>2. d = Off(org, org) /\ d + n <= 65535 BY <1>3, <1>4, <2>1
  <2>3. {Wrap16(org + i) : i \in 0..(n - 1)}
          = {a \in Word : d <= Off(org, a) /\ Off(org, a) < d + n}
    BY <1>2, <1>3, <2>2, CellsBetween
  <2> QED BY <2>1, <2>3
<1>6. \A a \in Word : Off(org, a) \in Int /\ 0 <= Off(org, a) BY <1>2, OffRange
<1>7. {a \in Word : 0 <= Off(org, a) /\ Off(org, a) < 0 + n} = {a \in Word : Off(org, a) < n}
  BY <1>2, <1>6
<1>8. {a \in Word : Off(org, a) < n} = {a \in Word : Distance(a) < Distance(pc)}
  BY <1>1 DEF Distance
<1>9. n = Wrap16(pc - m_base_code) BY <1>1 DEF Distance, Off
<1>10. CodeCells = {Wrap16(org + i) : i \in 0..(n - 1)} BY <1>1, <1>9 DEF CodeCells
<1> QED BY <1>5, <1>7, <1>8, <1>10

(* A byte of the image, read from a full memory it was written into.       *)
LEMMA WrittenByte ==
  ASSUME MemSize = 65536, NEW a \in {65532, 65533}
  PROVE  ImageInMemory[checkAddress(a)] = Image[a]
<1>1. PICK size, image, empty : size = MemSize /\ image = Image /\ empty = [k \in {} |-> 0]
  OBVIOUS
<1>2. size \in Nat /\ a \in Nat /\ a < size BY <1>1, SMT
<1>3. checkAddress(a) = a BY <1>1, <1>2 DEF checkAddress
<1>4. PICK cells : cells = 0..(size - 1) OBVIOUS
<1>5. writeBlock(empty, image, size, 0)
        = [k \in DOMAIN empty \cup cells |-> IF k \in cells THEN image[k - 0] ELSE empty[k]]
  <2>1. (IF size > MemSize - 0 THEN MemSize - 1 ELSE 0 + size - 1) = size - 1 BY <1>1, <1>2
  <2> QED BY <1>4, <2>1 DEF writeBlock
<1>6. a \in cells /\ a - 0 = a BY <1>2, <1>4
<1>7. writeBlock(empty, image, size, 0)[a] = image[a] BY <1>5, <1>6
<1>8. ImageInMemory = writeBlock(empty, image, size, 0) BY <1>1 DEF ImageInMemory
<1> QED BY <1>1, <1>3, <1>7, <1>8

(* The image boots at the base address.                                    *)
LEMMA InvBootsAtBase ==
  ASSUME MemSize = 65536, ImageInv, Fits
  PROVE  BootsAtBase
<1>1. ImageFits /\ m_base_code \in Word /\ pc \in Word BY DEF ImageInv
<1>2. Distance(pc) \in Int /\ Distance(pc) <= 65535 BY <1>1, OffRange DEF Distance
<1>3. CodeCells = {a \in Word : Distance(a) < Distance(pc)} BY <1>1, <1>2, CodeDistance
<1>4. DOMAIN r = CodeCells \cup {65532, 65533} BY <1>1, <1>3 DEF ImageFits
<1>5. /\ ImageInMemory[checkAddress(65532)] = Image[65532]
      /\ ImageInMemory[checkAddress(65533)] = Image[65533]
  BY WrittenByte
<1>6. ASSUME CodeCells \cap {65532, 65533} = {}
      PROVE  Join(Image[65532], Image[65533]) = m_base_code
  <2>1. ASSUME NEW a \in {65532, 65533} PROVE Image[a] = FreshImage(m_base_code)[a]
    <3>1. a \in Word BY WordRange, SMT
    <3>2. Distance(a) \in Int BY <1>1, <3>1, OffRange DEF Distance
    <3>3. ~(Distance(a) < Distance(pc)) BY <1>3, <1>6, <3>1
    <3>4. r[a] = FreshImage(m_base_code)[a] BY <1>1, <1>2, <3>2, <3>3 DEF ImageFits
    <3>5. a \in DOMAIN r BY <1>4
    <3> QED BY <3>1, <3>4, <3>5 DEF Image
  <2>2. Image[65532] = Lo(m_base_code) /\ Image[65533] = Hi(m_base_code)
    <3>1. /\ FreshImage(m_base_code)[65532] = Lo(m_base_code)
          /\ FreshImage(m_base_code)[65533] = Hi(m_base_code)
      BY SMT DEF FreshImage
    <3>2. Image[65532] = FreshImage(m_base_code)[65532] BY <2>1
    <3>3. Image[65533] = FreshImage(m_base_code)[65533] BY <2>1
    <3> QED BY <3>1, <3>2, <3>3
  <2>3. Join(Lo(m_base_code), Hi(m_base_code)) = m_base_code BY <1>1, WordRange DEF Join, Lo, Hi
  <2> QED BY <2>2, <2>3
<1> QED BY <1>4, <1>5, <1>6, SMT DEF BootsAtBase

(* For every source and base, as long as the code fits into the 64 KB that *)
(* an address reaches: every emitted line is executed and listed as it was *)
(* written.                                                                *)
THEOREM AnyCodeReadsBack == AnySpec => [](Fits => CodeReadsBack)
<1>1. SplitInv /\ LoopInv /\ ImageInv => (Fits => CodeReadsBack) BY InvCodeReadsBack
<1> QED BY <1>1, AnyInv, PTL

(* A processor with 64 KB starts the image at its base address.            *)
THEOREM AnyBootsAtBase == ASSUME MemSize = 65536 PROVE AnySpec => [](Fits => BootsAtBase)
<1>1. SplitInv /\ LoopInv /\ ImageInv => (Fits => BootsAtBase) BY InvBootsAtBase
<1> QED BY <1>1, AnyInv, PTL

-----------------------------------------------------------------------------
(* The model's own sources.                                                *)

(* compile() never writes to its argument.                                 *)
ShortSource == Len(source) <= MaxTokens + 1

(* Sources of up to 21843 tokens fit: their code cannot wrap onto itself.  *)
SourcesFit == 3 * (MaxTokens + 2) <= 65535

(* The sources that the model starts with are short.                       *)
LEMMA InitShort == Init => ShortSource
<1> SUFFICES ASSUME Init PROVE ShortSource OBVIOUS
<1>0. MaxTokens \in Nat BY AsmAssumption
<1>1. PICK src \in OneLine \cup SeveralLines, b \in Bases : CompileInit(src, b) BY DEF Init
<1>2. source = src BY <1>1 DEF CompileInit
<1>3. CASE src \in OneLine
  <2>1. PICK g : src = <<Instruction(g)>> BY <1>3 DEF OneLine
  <2>2. Len(src) = 1 BY <2>1
  <2> QED BY <1>0, <1>2, <2>2 DEF ShortSource
<1>4. CASE src \in SeveralLines
  <2>1. PICK n \in 0..MaxTokens : src \in [1..n -> Texts \cup Terminators]
    BY <1>4 DEF SeveralLines
  <2>2. src \in Seq(Texts \cup Terminators) /\ Len(src) = n
    <3>1. PICK T : T = Texts \cup Terminators OBVIOUS
    <3>2. n \in Nat BY <1>0, <2>1
    <3> QED BY <2>1, <3>1, <3>2
  <2> QED BY <1>0, <1>2, <2>1, <2>2 DEF ShortSource
<1> QED BY <1>1, <1>3, <1>4

(* So their code fits.                                                     *)
LEMMA ShortFits ==
  ASSUME SplitInv, LoopInv, ImageInv, ShortSource, SourcesFit
  PROVE  Fits
<1>0. MaxTokens \in Nat BY AsmAssumption
<1>1. /\ Len(lines) \in Nat /\ Len(placed) \in Nat /\ line \in Nat /\ Len(source) \in Nat
      /\ next \in 1..(Len(source) + 1) /\ Len(placed) < line /\ line <= Len(lines) + 1
      /\ IF eofbit THEN Len(lines) <= next ELSE Len(lines) < next
  BY DEF SplitInv, LinesInv, IsSource, LoopInv, ImageInv
<1>2. Len(lines) <= next BY <1>1
<1>3. Len(placed) <= Len(source) + 1 BY <1>1, <1>2
<1>4. Len(placed) <= MaxTokens + 2 BY <1>0, <1>1, <1>3 DEF ShortSource
<1> QED BY <1>0, <1>1, <1>4 DEF Fits, SourcesFit

(* In every state of the model the three invariants hold and the source is *)
(* short.                                                                  *)
LEMMA SpecInv == Spec => [](SplitInv /\ LoopInv /\ ImageInv /\ ShortSource)
<1>1. Spec => AnySpec BY InitIsAny DEF Spec, AnySpec
<1>2. ShortSource /\ [Next]_vars => ShortSource'
  <2> SUFFICES ASSUME ShortSource, [Next]_vars PROVE ShortSource' OBVIOUS
  <2>1. source' = source
    BY DEF Next, getline, getlineAtEnd, Split, getlineFails, Skip, Emit, Throw, Return,
           Assembling, vars
  <2> QED BY <2>1 DEF ShortSource
<1>3. Spec => []ShortSource BY <1>2, InitShort, PTL DEF Spec
<1> QED BY <1>1, <1>3, AnyInv, PTL

(* The run's invariants, for every set of bases and every bound on the     *)
(* sources whose code fits: the code reads back                            *)
THEOREM SpecCodeReadsBack == ASSUME SourcesFit PROVE Spec => []CodeReadsBack
<1>1. SplitInv /\ LoopInv /\ ImageInv /\ ShortSource => CodeReadsBack
  BY InvCodeReadsBack, ShortFits
<1> QED BY <1>1, SpecInv, PTL

(* and the image boots at its base address.                                *)
THEOREM SpecBootsAtBase == ASSUME SourcesFit, MemSize = 65536 PROVE Spec => []BootsAtBase
<1>1. SplitInv /\ LoopInv /\ ImageInv /\ ShortSource => BootsAtBase
  BY InvBootsAtBase, ShortFits
<1> QED BY <1>1, SpecInv, PTL
=============================================================================
