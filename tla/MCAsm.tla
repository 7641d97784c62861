------------------------------- MODULE MCAsm -------------------------------
(***************************************************************************)
(* The assembler on small sources, checked against the processor's         *)
(* instruction table, the disassembler and the memory that the image is    *)
(* written into.  What the assembler should accept is stated here from the *)
(* grammar its documentation gives, mode by mode.                          *)
(***************************************************************************)
EXTENDS Asm, Opcodes, UnAsm, FiniteSets

CONSTANTS
  Bases,      \* addresses the code is assembled for
  Shaped,     \* names that are tried with every operand the grammar matches
  MaxTokens   \* bound: tokens of a source of several lines

ASSUME AsmAssumption == Bases \subseteq Word /\ MaxTokens \in Nat

(* The undocumented instructions, which the assembler does not know.       *)
Undocumented ==
  {"KIL", "SLO", "RLA", "SRE", "RRA", "SAX", "LAX", "DCP", "ISC", "ANC", "ALR", "ARR",
   "XAA", "SBX", "SHA", "SHX", "SHY", "TAS", "LAS", "NOPR"}

Names == {instruction_table[code].op : code \in Byte}

(* The ways to write an operand that the documentation lists.              *)
Forms ==
  LET o(digits) == [NoGroups EXCEPT !.digits = digits, !.val = IF digits = 4 THEN 4660 ELSE 18]
      i(digits) == [o(digits) EXCEPT !.opar = TRUE, !.cpar = TRUE]
  IN  [nul |-> NoGroups,
       acc |-> [NoGroups EXCEPT !.rega = TRUE],
       rel |-> [NoGroups EXCEPT !.rel = <<-4>>],
       imm |-> [o(2) EXCEPT !.imm = TRUE],
       zp  |-> o(2), zpx |-> [o(2) EXCEPT !.inner = "X"], zpy |-> [o(2) EXCEPT !.inner = "Y"],
       abs |-> o(4), abx |-> [o(4) EXCEPT !.inner = "X"], aby |-> [o(4) EXCEPT !.inner = "Y"],
       ind |-> i(4), izx |-> [i(2) EXCEPT !.inner = "X"], izy |-> [i(2) EXCEPT !.outer = "Y"]]

(* g is written as the documentation writes mode; any value will do.       *)
Writes(g, mode) ==
  /\ \A group \in DOMAIN NoGroups \ {"name", "val", "rel"} : g[group] = Forms[mode][group]
  /\ g.rel = <<>> <=> Forms[mode].rel = <<>>

(* The table's "abc" is "abs" for an instruction that uses the address.    *)
Written(mode) == IF mode = "abc" THEN "abs" ELSE mode

Documented(op, mode) ==
  /\ op \notin Undocumented
  /\ op = "NOP" => mode = "nul"
  /\ \E code \in Byte : /\ instruction_table[code].op = op
                         /\ Written(instruction_table[code].mode) = mode

DocumentedLine(tok) ==
  /\ tok.kind = "instruction"
  /\ \E mode \in DOMAIN Forms : Writes(tok.g, mode) /\ Documented(tok.g.name, mode)

-----------------------------------------------------------------------------
(* Sources of one line: every name with every documented form, some names  *)
(* with everything that the regular expression can match.  After a value   *)
(* an "a" is one more digit, and without a parenthesis the first index is  *)
(* the inner one.                                                          *)
Named(forms, names) == {[g EXCEPT !.name = n] : g \in forms, n \in names}

Matchable ==
  {g \in [name : {""}, opar : BOOLEAN, imm : BOOLEAN, digits : {0, 2, 3, 4}, val : {0, 291},
          inner : {"", "X", "Y"}, cpar : BOOLEAN, outer : {"", "X", "Y"},
          rel : {<<>>, <<0>>, <<127>>, <<-128>>, <<200>>}, rega : BOOLEAN] :
     /\ g.val = (IF g.digits > 2 THEN 291 ELSE 0)
     /\ g.outer # "" => g.inner # "" \/ g.cpar
     /\ g.digits > 0 /\ g.rega => g.inner # "" \/ g.cpar \/ g.rel # <<>>}

OneLine ==
  {<<Instruction(g)>> : g \in Named({Forms[mode] : mode \in DOMAIN Forms}, Names)
                              \cup Named(Matchable, Shaped)}

(* Sources of several lines, without two texts on a line.                  *)
Good == Instruction([Forms["abs"] EXCEPT !.name = "LDA"])
Short == Instruction([NoGroups EXCEPT !.name = "NOP"])
Bad == Token("unmatched")
Texts == {Good, Short, Bad, Token("blank")}

SeveralLines ==
  {src \in UNION {[1..n -> Texts \cup Terminators] : n \in 0..MaxTokens} :
     \A k \in 1..(Len(src) - 1) : src[k] \in Terminators \/ src[k + 1] \in Terminators}

Init == \E src \in OneLine \cup SeveralLines, b \in Bases : CompileInit(src, b)

Spec == Init /\ [][Next]_vars

-----------------------------------------------------------------------------
(* Every line that compile() emitted is executed and disassembled as it    *)
(* was written: the table's instruction and mode for the opcode, the value *)
(* as its operand, a displacement in range with its sign, and the listing  *)
(* reaches the next line's address.                                        *)
CodeReadsBack ==
  \A i \in 1..Len(placed) :
    LET g     == placed[i].g
        at    == placed[i].at
        code  == Image[at]
        mode  == Written(instruction_table[code].mode)
        lo    == Image[Wrap16(at + 1)]
        after == IF i < Len(placed) THEN placed[i + 1].at ELSE pc
    IN  /\ instruction_table[code].op = g.name /\ Writes(g, mode)
        /\ unasm_operand_bytes(mode) = 2 => g.val = Join(lo, Image[Wrap16(at + 2)])
        /\ unasm_operand_bytes(mode) = 1 /\ mode # "rel" => g.val = lo
        /\ mode = "rel" /\ Head(g.rel) \in -128..127
             => Head(g.rel) = (IF lo > 127 THEN lo - 256 ELSE lo)
        /\ unasm_next(at, code) = after

(* compile() fails exactly on a source with a line outside the documented  *)
(* grammar, and the exception names the first such line, with lines that   *)
(* end in CR, LF or CR LF.  A LF followed by a lone CR is one terminator   *)
(* to getline(), so that only there the number may be smaller.             *)
Wrong(k) == source[k] \notin Terminators \cup {Token("blank")} /\ ~DocumentedLine(source[k])
EndsBefore(k) ==
  {j \in 1..(k - 1) : source[j] = CR \/ (source[j] = LF /\ (j = 1 \/ source[j - 1] # CR))}
LoneCrAfterLf(k) ==
  \E j \in 2..(k - 1) : source[j - 1] = LF /\ source[j] = CR /\ source[j + 1] # LF

ErrorsNamed ==
  /\ phase = "done" => \A k \in 1..Len(source) : ~Wrong(k)
  /\ phase = "failed" =>
       \E k \in 1..Len(source) :
         LET number == Cardinality(EndsBefore(k)) + 1
         IN  /\ Wrong(k) /\ \A j \in 1..(k - 1) : ~Wrong(j)
             /\ error <= number
             /\ error = number \/ LoneCrAfterLf(k)

(* The addresses of the code, and the memory of 64 KB that the image was   *)
(* written into.                                                           *)
CodeCells == {Wrap16(m_base_code + i) : i \in 0..(Wrap16(pc - m_base_code) - 1)}
ImageInMemory == writeBlock([k \in {} |-> 0], Image, 65536, 0)

(* The image that compile() returns holds one run of code from the base    *)
(* address and $FF elsewhere, and a processor that is reset after the      *)
(* image was written into its memory starts at the base address, unless    *)
(* the code ran over the reset vector.                                     *)
BootsAtBase ==
  phase = "done" =>
    /\ DOMAIN r = CodeCells \cup {65532, 65533}
    /\ \/ Join(ImageInMemory[checkAddress(65532)], ImageInMemory[checkAddress(65533)]) = m_base_code
       \/ CodeCells \cap {65532, 65533} # {}
=============================================================================
