--------------------------- MODULE MCInstructions ---------------------------
(***************************************************************************)
(* Every opcode, executed once from register and operand values chosen to  *)
(* cross pages, wrap the zero page, the stack and the program counter, and *)
(* to hit every flag: what an instruction does on the bus, what it charges *)
(* for it, and what it leaves behind.  The host has loaded registers and   *)
(* memory, as a debugger or a test does.                                   *)
(***************************************************************************)
EXTENDS Processor, UnAsm

CONSTANTS
  PCs,        \* where the instruction lies
  Operands,   \* pairs of operand bytes
  Indexes,    \* values of X, and of Y
  SPs,
  Statuses    \* sets of flags

MCOperands == {<<0, 2>>, <<127, 127>>, <<255, 255>>}
MCStatuses == {{"U", "I", "D"}, {"U", "C", "V", "N", "Z"}}

VARIABLE ran   \* has the loaded instruction been executed?

(* Bytes the addressing modes find: zero page pointers and operands; and   *)
(* the status bytes that PLP and RTI pull, at 257 and 510, with B set and  *)
(* with U set in the one, clear in the other.                              *)
Background == [k \in {0, 1, 127, 128, 254, 255, 256, 257, 510, 511} |->
                 CASE k = 1 -> 2 [] k = 0 -> 255 [] k = 255 -> 128 [] k = 127 -> 127
                   [] k = 128 -> 64 [] k = 257 -> 48 [] k = 510 -> 20 [] OTHER -> 4]

Loaded(code, pc, op) ==
  Poke(Poke(Poke(Background, pc, code), Wrap16(pc + 1), op[1]), Wrap16(pc + 2), op[2])

InitLoaded ==
  /\ \E code \in Byte, pc \in PCs, op \in Operands : mem = Loaded(code, pc, op) /\
       \E i \in Indexes, j \in Indexes, sp \in SPs, sr \in Statuses :
         regs = [a |-> 129, x |-> i, y |-> j, sp |-> sp, pc |-> pc, sr |-> sr,
                 decimalDisabled |-> FALSE]
  /\ m_nmi_pending = FALSE /\ m_irq_line = FALSE
  /\ m_i_flag_delayed = FALSE /\ m_i_flag_before = TRUE /\ noNmi = TRUE
  /\ last = Did("start", 0, 7)
  /\ ran = FALSE

StepOnce == ~ran /\ StepExecute /\ ran' = TRUE
Halt == ran /\ UNCHANGED <<vars, ran>>

SpecLoaded == InitLoaded /\ [][StepOnce \/ Halt]_<<vars, ran>>

-----------------------------------------------------------------------------
(* The effective address of the operand of the instruction at pc.          *)
Target == LET m == addr(init(fetched, Entry.mode), Entry.mode) IN Effective(m, Entry.mode)
Indexable == Entry.mode \in MemoryModes /\ Entry.op \in ReadOps \cup RmwOps \cup StoreOps

(* An instruction never makes more bus accesses than it has cycles, nor    *)
(* does an interrupt sequence: a host that charges a cycle per access and  *)
(* settles the rest at the end of the step never owes a negative balance   *)
(* (accuracy.md; the memoised pointers and the single dummy read).         *)
AccessesWithinCycles ==
  /\ Len(After.log) <= After.cycles
  /\ LET m == serviceInterrupt(Machine(regs, mem), NmiVector) IN Len(m.log) <= m.cycles

(* Loads, stores and read-modify-writes have no idle cycle: each cycle     *)
(* they charge, the page-crossing penalty included, is one access, except  *)
(* for the one (zp,X) spends adding X.                                     *)
EveryCycleOnTheBus ==
  Indexable => After.cycles = Len(After.log) + IfBit(Entry.mode = "izx", 1)

(* The bus accesses of a finished load, store or read-modify-write of ad,  *)
(* as a device there sees them.                                            *)
Writes(log) == {k \in DOMAIN log : log[k].kind = "W"}
SeesLoad(log, ad) ==
  Writes(log) = {} /\ log[Len(log)] = Access("R", ad, Peek(mem, ad))
SeesStore(log, ad) ==
  Writes(log) = {Len(log)} /\ log[Len(log)].ad = ad
SeesRmw(log, ad) ==
  LET n == Len(log) IN
  /\ Writes(log) = {n - 1, n} /\ log[n].ad = ad
  /\ log[n - 2] = Access("R", ad, Peek(mem, ad))
  /\ log[n - 1] = Access("W", ad, Peek(mem, ad))

Sees(done, ad) ==
  /\ CASE Entry.op \in ReadOps  -> SeesLoad(done.log, ad)
       [] Entry.op \in StoreOps -> SeesStore(done.log, ad)
       [] Entry.op \in RmwOps   -> SeesRmw(done.log, ad)
  /\ Entry.op \notin ReadOps =>
       done.mem = Poke(mem, ad, done.log[Len(done.log)].val)

(* What a device at the operand's address sees: a load writes nothing and  *)
(* reads it last; a store writes it once, last; a read-modify-write reads  *)
(* it, writes the unmodified byte back and then the result, in that order. *)
DeviceSees == Indexable => Sees(After, Target)

(* The listing stays in step with execution: whatever is not a jump goes   *)
(* on at the disassembler's next line, a branch not taken too, and what    *)
(* JSR pushes is what RTS needs to come back to that line.                 *)
ListingInSync ==
  LET next == unasm_next(regs.pc, Code)
      mode == unasm_mode(Code)
  IN  /\ mode = IF Entry.mode = "abc" THEN "abs" ELSE Entry.mode
      /\ CASE Entry.op \in {"JMP", "RTI", "RTS", "BRK", "KIL"} -> TRUE
           [] Entry.op = "JSR" -> RTS(After).r.pc = next
           [] Entry.op \in BranchOps -> ~BranchTaken(Entry.op, regs) => After.r.pc = next
           [] OTHER -> After.r.pc = next
=============================================================================
