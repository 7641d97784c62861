----------------------------- MODULE Processor -----------------------------
(***************************************************************************)
(* Processor (Processor.cpp) and the reset sequence of I6502Emulator: one  *)
(* step() at a time, with the interrupt lines driven by other threads.     *)
(*                                                                         *)
(* The lines are atomics that other threads write (nmi(), irq()).  step()  *)
(* looks at the NMI latch first and at the IRQ line later, and a device    *)
(* may act in between, so a step that finds no NMI is two actions; all     *)
(* else it touches belongs to its own thread.                              *)
(***************************************************************************)
EXTENDS Instructions

CONSTANT Image    \* what the host loaded: a function from some cells to bytes

ASSUME ImageAssumption == MemType(Image)

VARIABLES
  regs,               \* *p_regs
  mem,                \* the Memory behind p_bus
  m_nmi_pending,
  m_irq_line,
  m_i_flag_delayed,
  m_i_flag_before,
  noNmi,              \* step() is past its test of the latch and found no NMI
  last                \* what the last step did, and the cycles it charged

lines == <<m_nmi_pending, m_irq_line>>
delay == <<m_i_flag_delayed, m_i_flag_before>>
vars == <<regs, mem, lines, delay, noNmi, last>>

Did(what, code, charged) == [did |-> what, code |-> code, charged |-> charged]

-----------------------------------------------------------------------------
(* serviceInterrupt: push pc and the status byte without B, disable        *)
(* interrupts, jump through the vector; 7 cycles.                          *)
serviceInterruptPushesB(m, ad) ==
  LET pushed == push8(push16(m, m.r.pc), PushedSr(m.r))
  IN  [vector([pushed EXCEPT !.r.sr = @ \cup {"I"}], ad) EXCEPT !.cycles = 7]
serviceInterrupt(m, ad) ==
  LET pushed == push8(push16(m, m.r.pc), SrByte((m.r.sr \ {"B"}) \cup {"U"}))
  IN  [vector([pushed EXCEPT !.r.sr = @ \cup {"I"}], ad) EXCEPT !.cycles = 7]

(* The vectors step() passes to serviceInterrupt.                          *)
NmiVector == 65530
IrqVector == 65534

(* The opcode fetch and the instruction.                                   *)
Code == Peek(mem, regs.pc)
Entry == instruction_table[Code]
fetched == LET m == read(Machine(regs, mem), regs.pc)
           IN  [m EXCEPT !.r.pc = Wrap16(@ + 1)]

(* The gate step() puts before an IRQ.                                     *)
maskedEither == "I" \in regs.sr \/ (m_i_flag_delayed /\ m_i_flag_before)
masked == IF m_i_flag_delayed THEN m_i_flag_before ELSE "I" \in regs.sr

(* CLI, SEI and PLP write I too late to be polled.                         *)
DelayedCodesNoPLP == {88, 120}
DelayedCodes == {88, 120, 40}

(* What a step leaves behind.                                              *)
Apply(m, what, code) ==
  /\ regs' = m.r /\ mem' = m.mem
  /\ last' = Did(what, code, m.cycles)

(* m_nmi_pending.exchange(false), and what follows if it was set.          *)
StepNmi ==
  /\ ~noNmi /\ m_nmi_pending
  /\ m_nmi_pending' = FALSE
  /\ Apply(serviceInterrupt(Machine(regs, mem), NmiVector), "nmi", 0)
  /\ m_i_flag_delayed' = FALSE
  /\ UNCHANGED <<m_irq_line, m_i_flag_before, noNmi>>

FindNoNmiDrops ==
  /\ ~noNmi
  /\ m_nmi_pending' = FALSE /\ noNmi' = TRUE
  /\ UNCHANGED <<regs, mem, m_irq_line, delay, last>>
FindNoNmi ==
  /\ ~noNmi /\ ~m_nmi_pending
  /\ noNmi' = TRUE
  /\ UNCHANGED <<regs, mem, lines, delay, last>>

(* m_irq_line.load(): the rest of the step.                                *)
StepIrq ==
  /\ noNmi /\ m_irq_line /\ ~masked
  /\ Apply(serviceInterrupt(Machine(regs, mem), IrqVector), "irq", 0)
  /\ m_i_flag_delayed' = FALSE
  /\ noNmi' = FALSE
  /\ UNCHANGED <<lines, m_i_flag_before>>

StepExecute ==
  /\ noNmi /\ (m_irq_line => masked)
  /\ Apply(execute(fetched, Entry), "exec", Code)
  /\ m_i_flag_delayed' = (Code \in DelayedCodes)
  /\ m_i_flag_before' = ("I" \in regs.sr)
  /\ noNmi' = FALSE
  /\ UNCHANGED lines

step == StepNmi \/ FindNoNmi \/ StepIrq \/ StepExecute

-----------------------------------------------------------------------------
(* The lines, from any thread.                                             *)
nmi == /\ m_nmi_pending' = TRUE
       /\ UNCHANGED <<regs, mem, m_irq_line, delay, noNmi, last>>

irq(asserted) ==
  /\ m_irq_line' = asserted
  /\ UNCHANGED <<regs, mem, m_nmi_pending, delay, noNmi, last>>

(* I6502Emulator::start(false), which is what reset() does once stop() has *)
(* returned, so between two steps: the memset clears decimalDisabled with  *)
(* the rest.  The writes of clearInterrupts() are one action: no step()    *)
(* runs between them, and a device that drives a line between them leaves  *)
(* what it would by driving that line before them all or after them all.   *)
ResetRegisters ==
  [a |-> 0, x |-> 0, y |-> 0, sp |-> 253, sr |-> {"U", "I"}, decimalDisabled |-> FALSE,
   pc |-> Join(Peek(mem, 65532), Peek(mem, 65533))]

startLeavesDelay ==
  /\ ~noNmi
  /\ regs' = ResetRegisters
  /\ m_nmi_pending' = FALSE /\ m_irq_line' = FALSE
  /\ last' = Did("start", 0, 7)
  /\ UNCHANGED <<mem, delay, noNmi>>
start ==
  /\ ~noNmi
  /\ regs' = ResetRegisters
  /\ m_nmi_pending' = FALSE /\ m_irq_line' = FALSE /\ m_i_flag_delayed' = FALSE
  /\ last' = Did("start", 0, 7)
  /\ UNCHANGED <<mem, m_i_flag_before, noNmi>>

(* Registers is a plain struct the host may write between two steps: a     *)
(* debugger changing I, and a 2A03 host switching decimal arithmetic off.  *)
HostWriteI(v) ==
  /\ regs' = SetFlag(regs, "I", v)
  /\ ~noNmi
  /\ UNCHANGED <<mem, lines, delay, noNmi, last>>

HostDisableDecimal ==
  /\ regs' = [regs EXCEPT !.decimalDisabled = TRUE]
  /\ ~noNmi
  /\ UNCHANGED <<mem, lines, delay, noNmi, last>>

-----------------------------------------------------------------------------
(* A constructed Processor, its memory loaded and its emulator started.    *)
Init ==
  /\ mem = Image
  /\ regs = ResetRegisters
  /\ m_nmi_pending = FALSE /\ m_irq_line = FALSE
  /\ m_i_flag_delayed = FALSE /\ m_i_flag_before = TRUE /\ noNmi = FALSE
  /\ last = Did("start", 0, 7)

Next ==
  \/ step
  \/ nmi
  \/ \E b \in BOOLEAN : irq(b)
  \/ start
  \/ HostDisableDecimal

Spec == Init /\ [][Next]_vars

-----------------------------------------------------------------------------
(* Type invariant.                                                         *)
TypeOK ==
  /\ regs \in Registers
  /\ MemType(mem)
  /\ m_nmi_pending \in BOOLEAN /\ m_irq_line \in BOOLEAN
  /\ m_i_flag_delayed \in BOOLEAN /\ m_i_flag_before \in BOOLEAN /\ noNmi \in BOOLEAN
  /\ last \in [did : {"start", "nmi", "irq", "exec"}, code : Byte, charged : Nat]

(* B is not a bit of the status register and bit 5 is always on in it      *)
(* (emu_base.h), whatever status bytes a program leaves on its stack for   *)
(* PLP and RTI to pull.                                                    *)
StatusBits == "B" \notin regs.sr /\ "U" \in regs.sr

(* The machine as the instruction at pc would leave it.                    *)
After == execute(fetched, Entry)

(* Only CLI, SEI, PLP, RTI and BRK ever write I, so the three codes that   *)
(* step() delays and the two it does not are all there are; no instruction *)
(* turns decimal wiring off or on.                                         *)
OnlyTheseWriteI ==
  /\ After.r.decimalDisabled = regs.decimalDisabled
  /\ ("I" \in After.r.sr) # ("I" \in regs.sr) =>
       Code \in DelayedCodes \/ Entry.op \in {"RTI", "BRK"}
=============================================================================
