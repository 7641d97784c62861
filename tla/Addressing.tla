----------------------------- MODULE Addressing -----------------------------
(***************************************************************************)
(* The addressing modes of parameters.h.  A mode is one of the params      *)
(* structs:                                                                *)
(*   nul Null     acc Accumulator  imm Immediate   rel Relative            *)
(*   abc AbsConst ind Indirect     zp ZeroPage     zpx/zpy ZeroPageX/Y     *)
(*   abs Absolute abx/aby AbsoluteX/Y   izx/izy IndirectX/Y                *)
(* m.p is the params object of the instruction under way.  The 16-bit      *)
(* accessors exist for every mode but only JMP and JSR call one, on abc    *)
(* and ind.                                                                *)
(***************************************************************************)
EXTENDS Memory

Mode == {"nul", "acc", "imm", "rel", "abc", "ind", "zp", "zpx", "zpy",
         "abs", "abx", "aby", "izx", "izy"}

ZeroPageModes == {"zp", "zpx", "zpy"}
PointerModes  == {"izx", "izy"}
CarryModes    == {"abx", "aby", "izy"}              \* the ones that set m_crossed
DummyModes    == CarryModes \cup {"zpx", "zpy"}     \* the ones that shadow dummyRead
MemoryModes   == ZeroPageModes \cup CarryModes \cup {"abs", "izx"}

Params == [data : Word, m_crossed : BOOLEAN, m_dummyDone : BOOLEAN,
           m_resolved : BOOLEAN, m_addr : Word]

(* A params object is constructed afresh inside every execute().           *)
NewParams == [data |-> 0, m_crossed |-> FALSE, m_dummyDone |-> FALSE,
              m_resolved |-> FALSE, m_addr |-> 0]

OperandBytes(mode) ==
  CASE mode \in {"nul", "acc"} -> 0
    [] mode \in {"abc", "ind", "abs", "abx", "aby"} -> 2
    [] OTHER -> 1

(* init: consume the operand bytes.                                        *)
Consume(got, size) ==
  [got EXCEPT !.r.pc = Wrap16(@ + size), !.p = [NewParams EXCEPT !.data = got.v]]

init(m, mode) ==
  LET pc   == m.r.pc
      size == OperandBytes(mode)
  IN  Consume(CASE size = 0 -> [m EXCEPT !.v = 0]
                [] size = 1 -> read(m, pc)
                [] OTHER    -> read16(m, pc, pc + 1), size)

(* The register added to an address; (zp,X) adds X to its pointer instead. *)
IndexOf(m, mode) ==
  CASE mode \in {"zpx", "abx"} -> m.r.x
    [] mode \in {"zpy", "aby", "izy"} -> m.r.y
    [] OTHER -> 0

(* The pointer of IndirectX and IndirectY: two zero-page bytes, wrapping   *)
(* inside the page.                                                        *)
Resolved(got) == [got EXCEPT !.p.m_resolved = TRUE, !.p.m_addr = got.v]

fetchPointer(m, mode) ==
  LET zp == Wrap8(m.p.data + (IF mode = "izx" THEN m.r.x ELSE 0))
  IN  Resolved(read16(m, zp, Wrap8(zp + 1)))

(* It is fetched at most once per instruction, however often the address   *)
(* is asked for.                                                           *)
resolveAgain(m, mode) == IF mode \notin PointerModes THEN m ELSE fetchPointer(m, mode)
resolve(m, mode) ==
  IF mode \notin PointerModes \/ m.p.m_resolved THEN m ELSE fetchPointer(m, mode)

(* The address before indexing, once resolved.                             *)
base(m, mode) == IF mode \in PointerModes THEN m.p.m_addr ELSE m.p.data

(* The effective address; zero-page indexing wraps in the page.            *)
Effective(m, mode) ==
  IF mode \in ZeroPageModes THEN Wrap8(m.p.data + IndexOf(m, mode))
  ELSE Wrap16(base(m, mode) + IndexOf(m, mode))

(* addr(): resolve, and note whether the index carried into another page.  *)
NoteCrossing(got, mode) ==
  IF mode \notin CarryModes THEN got
  ELSE [got EXCEPT !.p.m_crossed = Hi(Effective(got, mode)) # Hi(base(got, mode))]

addr(m, mode) == NoteCrossing(resolve(m, mode), mode)

(* The address on the bus while the index is being added.                  *)
Unfinished(m, mode) ==
  IF mode \in ZeroPageModes THEN m.p.data
  ELSE Join(Lo(base(m, mode) + IndexOf(m, mode)), Hi(base(m, mode)))

ReadAtUnfinished(got, mode) == read(got, Unfinished(got, mode))

readUnfinished(m, mode) ==
  ReadAtUnfinished(resolve([m EXCEPT !.p.m_dummyDone = TRUE], mode), mode)

dummyReadRepeated(m, mode) == IF mode \notin DummyModes THEN m ELSE readUnfinished(m, mode)
dummyRead(m, mode) ==
  IF mode \notin DummyModes \/ m.p.m_dummyDone THEN m ELSE readUnfinished(m, mode)

(* get8bit: m.v is the value.  A read makes the dummy access only when the *)
(* index carried; the zero-page modes make it every time.                  *)
DummyOnCrossing(at, mode) ==
  IF mode \in {"zpx", "zpy"} \/ at.p.m_crossed THEN dummyRead(at, mode) ELSE at

ReadAtEffective(m, mode) == read(m, Effective(m, mode))
WriteAtEffective(m, mode, val) == write(m, Effective(m, mode), val)

get8bit(m, mode) ==
  CASE mode = "nul" -> [m EXCEPT !.v = 0]
    [] mode = "acc" -> [m EXCEPT !.v = m.r.a]
    [] mode \in {"imm", "rel", "abc"} -> [m EXCEPT !.v = Lo(m.p.data)]
    [] mode = "ind" -> read(m, m.p.data)
    [] OTHER -> ReadAtEffective(DummyOnCrossing(addr(m, mode), mode), mode)

(* get16bit of AbsConst and of Indirect, whose high byte comes from the    *)
(* start of the same page: JMP ($xxFF).                                    *)
get16bit(m, mode) ==
  IF mode = "ind"
  THEN read16(m, m.p.data, Join(Lo(m.p.data + 1), Hi(m.p.data)))
  ELSE [m EXCEPT !.v = m.p.data]

set8bit(m, mode, val) ==
  CASE mode = "acc" -> [m EXCEPT !.r.a = val]
    [] mode \in MemoryModes -> WriteAtEffective(addr(m, mode), mode, val)
    [] OTHER -> m

extraCycles(m) == IfBit(m.p.m_crossed, 1)
=============================================================================
