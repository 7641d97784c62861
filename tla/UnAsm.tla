------------------------------- MODULE UnAsm -------------------------------
(***************************************************************************)
(* UnAsm::unasm_line: how the disassembler decodes an opcode.  It never    *)
(* looks at the instruction table; it splits the code into aaa bbb cc.     *)
(* What it prints is abstracted to the mode whose operand it prints, with  *)
(* the names of module Addressing; "abc" and "abs" print alike, and a line *)
(* without operand is "nul" ("acc" when it prints an A).                   *)
(***************************************************************************)
EXTENDS Bits, Sequences

(* The columns cc = 1 and cc = 3; x and zx are the indexed modes of the    *)
(* row, by Y in the rows $8x to $Bx of cc = 2 and cc = 3.                  *)
Column13(b, x, zx) ==
  <<"izx", "zp", "imm", "abs", "izy", zx, "aby", x>>[b + 1]

(* The columns cc = 0 and cc = 2.                                          *)
Column0(a, b) ==
  CASE b = 0 -> (IF a = 1 THEN "abs" ELSE IF a < 4 THEN "nul" ELSE "imm")
    [] b = 1 -> "zp"
    [] b = 3 -> (IF a = 3 THEN "ind" ELSE "abs")
    [] b = 4 -> "rel"
    [] b = 5 -> "zpx"
    [] b = 7 -> "abx"
    [] b \in {2, 6} -> "nul"

Column2(a, b, x, zx) ==
  CASE b = 0 -> (IF a < 4 THEN "nul" ELSE "imm")
    [] b = 1 -> "zp"
    [] b = 2 -> (IF a < 4 THEN "acc" ELSE "nul")
    [] b = 3 -> "abs"
    [] b = 5 -> zx
    [] b = 7 -> x
    [] b \in {4, 6} -> "nul"

unasm_mode(instr) ==
  LET a  == instr \div 32
      b  == (instr \div 4) % 8
      x  == IF a \in {4, 5} THEN "aby" ELSE "abx"
      zx == IF a \in {4, 5} THEN "zpy" ELSE "zpx"
  IN  CASE instr % 4 = 0 -> Column0(a, b)
        [] instr % 4 = 1 -> Column13(b, "abx", "zpx")
        [] instr % 4 = 2 -> Column2(a, b, x, zx)
        [] instr % 4 = 3 -> Column13(b, x, zx)

(* How far the operand printers advance pc beyond the opcode.              *)
unasm_operand_bytes(mode) ==
  CASE mode \in {"nul", "acc"} -> 0
    [] mode \in {"abs", "abx", "aby", "ind"} -> 2
    [] OTHER -> 1

(* The address of the listing's next line: registers hold pc, a uint16.    *)
unasm_next(pc, instr) == Wrap16(pc + 1 + unasm_operand_bytes(unasm_mode(instr)))
=============================================================================
