-------------------------------- MODULE Asm --------------------------------
(***************************************************************************)
(* The assembler, Asm::compile().  A source is a sequence of tokens: the   *)
(* line terminators, and between two of them at most one token that stands *)
(* for the line's text.  A line's text is blank (white space or a comment, *)
(* never empty), a text that the operand grammar does not match, or one    *)
(* that it matches, with the capture groups.  Letters are upper case, the  *)
(* code converts them.                                                     *)
(***************************************************************************)
EXTENDS Bits, Sequences

(* The capture groups of the regular expression.  digits is how many hex   *)
(* digits the value has, 0 without one; rel holds the signed decimal, if   *)
(* there is one; inner and outer are the registers of the two indexes.     *)
NoGroups ==
  [name |-> "", opar |-> FALSE, imm |-> FALSE, digits |-> 0, val |-> 0, inner |-> "",
   cpar |-> FALSE, outer |-> "", rel |-> <<>>, rega |-> FALSE]

Token(kind) == [kind |-> kind, g |-> NoGroups]
Instruction(g) == [kind |-> "instruction", g |-> g]
CR == Token("CR")
LF == Token("LF")
Terminators == {CR, LF}

VARIABLES
  source,         \* the argument of compile()
  m_base_code,
  next,           \* position of the stream in source
  eofbit,
  lines,          \* what getline() returned so far
  phase,          \* "split", "assemble", then "done" or "failed"
  line,           \* index of the loop over lines
  pc, r,          \* r is kept sparse: a byte nobody stored is $FF
  error,          \* the line number of the exception, 0 without one
  placed          \* history: which line was emitted where

vars ==
  <<source, m_base_code, next, eofbit, lines, phase, line, pc, r, error, placed>>

-----------------------------------------------------------------------------
(* getline(), called until the stream fails.                               *)
IsEnd(k) == k <= Len(source) /\ source[k] \in Terminators

(* A second character that belongs to the terminator at k.                 *)
PairedAlways(k) == IsEnd(k + 1)
Paired(k) == IsEnd(k + 1) /\ source[k + 1] # source[k]

Split ==
  /\ phase = "split" /\ ~eofbit
  /\ UNCHANGED <<source, m_base_code, phase, line, pc, r, error, placed>>

getline ==
  /\ Split
  /\ \E k \in next .. Len(source) :
       /\ IsEnd(k) /\ \A j \in next .. (k - 1) : ~IsEnd(j)
       /\ lines' = Append(lines, SubSeq(source, next, k - 1))
       /\ next' = IF Paired(k) THEN k + 2 ELSE k + 1
  /\ UNCHANGED eofbit

(* The end of the stream is not a failure yet: an empty line is returned.  *)
getlineAtEnd ==
  /\ Split
  /\ \A k \in next .. Len(source) : ~IsEnd(k)
  /\ lines' = Append(lines, SubSeq(source, next, Len(source)))
  /\ next' = Len(source) + 1
  /\ eofbit' = (next > Len(source))

getlineFails ==
  /\ phase = "split" /\ eofbit /\ phase' = "assemble"
  /\ UNCHANGED <<source, m_base_code, next, eofbit, lines, line, pc, r, error, placed>>

-----------------------------------------------------------------------------
(* The addressing type of a line, with the names of module Addressing; ""  *)
(* is Unkown.                                                              *)
IndirectType(g) ==
  LET plain == ~g.imm /\ ~g.rega /\ g.rel = <<>> IN
  CASE plain /\ g.digits = 4 /\ g.inner = "" /\ g.outer = "" -> "ind"
    [] plain /\ g.digits = 2 /\ g.inner = "X" /\ g.outer = "" -> "izx"
    [] plain /\ g.digits = 2 /\ g.inner = "" /\ g.outer = "Y" -> "izy"
    [] OTHER -> ""

IndexedType(g) ==
  LET indexed(plain, x, y) ==
        IF g.inner = "" THEN plain ELSE IF g.inner = "X" THEN x ELSE y
  IN  IF g.outer # "" THEN ""
      ELSE IF g.digits = 4 THEN indexed("abs", "abx", "aby")
      ELSE IF g.digits = 2 THEN indexed("zp", "zpx", "zpy")
      ELSE ""

type(g) ==
  LET noVal == g.digits = 0
      noIdx == g.inner = "" /\ g.outer = ""
      noRel == g.rel = <<>>
      only(cond, t) == IF cond THEN t ELSE ""
  IN  IF g.opar # g.cpar THEN ""
      ELSE IF g.opar THEN IndirectType(g)
      ELSE IF g.imm THEN only(g.digits = 2 /\ noIdx /\ noRel /\ ~g.rega, "imm")
      ELSE IF g.rega THEN only(noVal /\ noIdx /\ noRel, "acc")
      ELSE IF ~noRel THEN only(noVal /\ noIdx, "rel")
      ELSE IF noVal /\ noIdx THEN "nul"
      ELSE IndexedType(g)

parsedVal(g) ==
  IF g.digits > 0 THEN g.val ELSE IF g.rel # <<>> THEN Head(g.rel) ELSE 0

(* The opcode of each instruction and type.                                *)
instruction_mapper ==
  [ADC |-> [imm |-> 105, zp |-> 101, zpx |-> 117, abs |-> 109, abx |-> 125,
           aby |-> 121, izx |-> 97, izy |-> 113],
   AND |-> [imm |-> 41, zp |-> 37, zpx |-> 53, abs |-> 45, abx |-> 61,
           aby |-> 57, izx |-> 33, izy |-> 49],
   ASL |-> [acc |-> 10, zp |-> 6, zpx |-> 22, abs |-> 14, abx |-> 30],
   BIT |-> [zp |-> 36, abs |-> 44],
   CMP |-> [imm |-> 201, zp |-> 197, zpx |-> 213, abs |-> 205, abx |-> 221,
           aby |-> 217, izx |-> 193, izy |-> 209],
   CPX |-> [imm |-> 224, zp |-> 228, abs |-> 236],
   CPY |-> [imm |-> 192, zp |-> 196, abs |-> 204],
   DEC |-> [zp |-> 198, zpx |-> 214, abs |-> 206, abx |-> 222],
   EOR |-> [imm |-> 73, zp |-> 69, zpx |-> 85, abs |-> 77, abx |-> 93,
           aby |-> 89, izx |-> 65, izy |-> 81],
   INC |-> [zp |-> 230, zpx |-> 246, abs |-> 238, abx |-> 254],
   JMP |-> [abs |-> 76, ind |-> 108],
   LDA |-> [imm |-> 169, zp |-> 165, zpx |-> 181, abs |-> 173, abx |-> 189,
           aby |-> 185, izx |-> 161, izy |-> 177],
   LDX |-> [imm |-> 162, zp |-> 166, zpy |-> 182, abs |-> 174, aby |-> 190],
   LDY |-> [imm |-> 160, zp |-> 164, zpx |-> 180, abs |-> 172, abx |-> 188],
   LSR |-> [acc |-> 74, zp |-> 70, zpx |-> 86, abs |-> 78, abx |-> 94],
   ORA |-> [imm |-> 9, zp |-> 5, zpx |-> 21, abs |-> 13, abx |-> 29,
           aby |-> 25, izx |-> 1, izy |-> 17],
   ROL |-> [acc |-> 42, zp |-> 38, zpx |-> 54, abs |-> 46, abx |-> 62],
   ROR |-> [acc |-> 106, zp |-> 102, zpx |-> 118, abs |-> 110, abx |-> 126],
   SBC |-> [imm |-> 233, zp |-> 229, zpx |-> 245, abs |-> 237, abx |-> 253,
           aby |-> 249, izx |-> 225, izy |-> 241],
   STA |-> [zp |-> 133, zpx |-> 149, abs |-> 141, abx |-> 157, aby |-> 153,
           izx |-> 129, izy |-> 145],
   STX |-> [zp |-> 134, zpy |-> 150, abs |-> 142],
   STY |-> [zp |-> 132, zpx |-> 148, abs |-> 140], BCC |-> [rel |-> 144],
   BCS |-> [rel |-> 176], BEQ |-> [rel |-> 240], BMI |-> [rel |-> 48],
   BNE |-> [rel |-> 208], BPL |-> [rel |-> 16], BVC |-> [rel |-> 80],
   BVS |-> [rel |-> 112], BRK |-> [nul |-> 0], CLC |-> [nul |-> 24],
   CLD |-> [nul |-> 216], CLI |-> [nul |-> 88], CLV |-> [nul |-> 184],
   DEX |-> [nul |-> 202], DEY |-> [nul |-> 136], INX |-> [nul |-> 232],
   INY |-> [nul |-> 200], NOP |-> [nul |-> 234], PHA |-> [nul |-> 72],
   PHP |-> [nul |-> 8], PLA |-> [nul |-> 104], PLP |-> [nul |-> 40],
   RTI |-> [nul |-> 64], RTS |-> [nul |-> 96], SEC |-> [nul |-> 56],
   SED |-> [nul |-> 248], SEI |-> [nul |-> 120], TAX |-> [nul |-> 170],
   TAY |-> [nul |-> 168], TSX |-> [nul |-> 186], TXA |-> [nul |-> 138],
   TXS |-> [nul |-> 154], TYA |-> [nul |-> 152], JSR |-> [abs |-> 32]]

found(g) ==
  /\ g.name \in DOMAIN instruction_mapper
  /\ type(g) \in DOMAIN instruction_mapper[g.name]

(* The functors Asm2Code is instantiated with, by type.                    *)
addr_2ParamSwapped(val) == <<(val \div 256) % 256, val % 256>>
addr_2Param(val) == <<val % 256, (val \div 256) % 256>>
addr_1Param(val) == <<val % 256>>
addr_NoParams == <<>>

AddrT(t, val) ==
  CASE t \in {"abs", "abx", "aby", "ind"} -> addr_2Param(val)
    [] t \in {"nul", "acc"} -> addr_NoParams
    [] OTHER -> addr_1Param(val)

Asm2Code(g) == <<instruction_mapper[g.name][type(g)]>> \o AddrT(type(g), parsedVal(g))

(* bytes stored from address at on; the address is a uint16.               *)
Stored(image, at, bytes) ==
  LET cells == {Wrap16(at + i) : i \in 0 .. (Len(bytes) - 1)}
  IN  [k \in DOMAIN image \cup cells |->
         IF k \in cells THEN bytes[Wrap16(k - at) + 1] ELSE image[k]]

-----------------------------------------------------------------------------
(* The loop over the lines.                                                *)
Assembling == phase = "assemble" /\ UNCHANGED <<source, m_base_code, next, eofbit, lines>>
HasText == line <= Len(lines) /\ lines[line] # <<>> /\ lines[line][1].kind # "blank"

Accepted(tok) == tok.kind = "instruction" /\ found(tok.g)

Skip ==
  /\ Assembling /\ line <= Len(lines) /\ ~HasText
  /\ line' = line + 1
  /\ UNCHANGED <<phase, pc, r, error, placed>>

Emit ==
  /\ Assembling /\ HasText /\ Accepted(lines[line][1])
  /\ LET bytes == Asm2Code(lines[line][1].g) IN
       /\ r' = Stored(r, pc, bytes)
       /\ pc' = Wrap16(pc + Len(bytes))
  /\ placed' = Append(placed, [g |-> lines[line][1].g, at |-> pc])
  /\ line' = line + 1
  /\ UNCHANGED <<phase, error>>

Throw ==
  /\ Assembling /\ HasText /\ ~Accepted(lines[line][1])
  /\ error' = line /\ phase' = "failed"
  /\ UNCHANGED <<line, pc, r, placed>>

Return ==
  /\ Assembling /\ line > Len(lines)
  /\ phase' = "done"
  /\ UNCHANGED <<line, pc, r, error, placed>>

(* What compile() puts into the image before the first line.               *)
FreshImageSwapped(b) == [k \in {65532, 65533} |-> IF k = 65532 THEN Hi(b) ELSE Lo(b)]
FreshImage(b) == [k \in {65532, 65533} |-> IF k = 65532 THEN Lo(b) ELSE Hi(b)]

CompileInit(src, b) ==
  /\ source = src /\ m_base_code = b
  /\ next = 1 /\ eofbit = FALSE /\ lines = <<>> /\ phase = "split"
  /\ line = 1 /\ pc = b /\ r = FreshImage(b) /\ error = 0
  /\ placed = <<>>

Next == getline \/ getlineAtEnd \/ getlineFails \/ Skip \/ Emit \/ Throw \/ Return

(* The vector that compile() returns.                                      *)
Image == [k \in Word |-> IF k \in DOMAIN r THEN r[k] ELSE UINT8_MAX]
=============================================================================
