# A TLA+ model of emu6502cc

emu6502cc is a library that emulates a MOS 6502 (documented and undocumented
opcodes, decimal mode, 2A03 wiring) together with an assembler, a disassembler,
pacing clocks and two debuggers. This directory models all of them: the arithmetic,
the memory and bus, the addressing modes, all 256 opcodes, the interrupt logic of
`Processor::step()`, the start-up and reset of `I6502Emulator`, the control of a
running processor from another thread, the two debuggers that do so, the clocks,
the assembler and the disassembler's decoding. TLC checks the models on small
instances; TLAPS proves the safety results on the arithmetic, the instructions and
their bus accesses, interrupts, run control, both debuggers and the clocks for every
value of the constants.

`PROJECT.json` maps every definition that models code to its lines and lists the
runs, hazards, findings, mutants and theorems.

## 1. Inventory

| Component | State | Operations | Talks to |
|---|---|---|---|
| Registers, arithmetic (`emu_base.h`, `InstructionImpl.h`) | `Registers`: A, X, Y, SP, PC, SR, `decimalDisabled` | `adcCore`, `sbcCore`, `cmpCore`, flag setters | every instruction |
| Memory, bus, stack (`Memory.cpp`, `emu_bus.cpp`) | byte array of whole pages, mirrored over 64 K | `read`, `write`, push and pop at page one | addressing modes, instructions, interrupt sequence |
| Addressing modes (`parameters.h`) | a `params` object per instruction: memoised pointer and index penalty | `init`, `get8bit`, `set8bit`, `get16bit` | bus |
| Instructions (`InstructionImpl.h`, table in `Processor.cpp`) | none | one `execute` per entry | registers, bus, stack, addressing |
| Processor (`Processor.cpp`) | NMI latch and IRQ line (atomics), `m_i_flag_delayed`, `m_i_flag_before` | `step`, `nmi`, `irq`, `clearInterrupts` | called by the run thread; lines driven by any thread |
| Run control (`Processor.cpp`) | atomics `m_running`, `m_stopping`; breakpoint set | `run` (two versions), `pause`, `resume`, `isRunning`, breakpoint edits | run thread, host thread |
| I6502Emulator | pointers to the four objects of a system | `start`, `stop`, `reset` | host thread |
| Disassembler (`unasm.cpp`) | the address reached | decode one instruction | debuggers |
| Assembler (`Asm.cpp`, `Opcode.h`) | output image, position | one pass: classify the operand, look the key up, emit | host |
| Clocks (`emuclock.cpp`) | cycle time, deadline, cycle counter | `beginCycle`, `waitCycles`, `reset` | called by `run()`, after each instruction, and by `start()` |
| Linux debugger | `running`, `emuMutex`, history, run thread | keys: step, run, pause, reset, breakpoint, quit; render | run control; instruction and breakpoint callbacks on the run thread |
| Win32 debugger | buttons, views, history, detached threads | button handlers, breakpoint dialog, `WM_CLOSE` | run control; callbacks send messages to the window |

What is hard in it:

- **Threads.** The library starts none, but `run()` belongs on one thread and
  `pause()`, `stop()`, `nmi()`, `irq()` on others. Two atomic flags carry the whole
  conversation between `run()` and `stop()`, and `step()` reads the two interrupt
  lines at different moments.
- **Interrupt timing.** The I flag that counts at an instruction boundary is
  spread over the status register and two private flags, and must be right for
  every order of CLI, SEI, PLP, RTI, BRK, NMI, IRQ and reset.
- **Cycle and bus accuracy.** Hosts that advance devices on each bus access depend
  on the number and the order of accesses, which are spread over fourteen
  addressing modes and every instruction.
- **Widths.** The zero page, the stack, PC and the `uint16_t` intermediates of
  decimal arithmetic wrap at different widths.
- **Three tables.** The processor decodes with a table, the disassembler with
  arithmetic on the bits of the opcode, and the assembler has a table of its own.
- **Host threads.** Both debuggers add flags, a mutex or window messages to the two
  flags of run control, and their callbacks run on the thread they supervise.
- **Time.** The clocks sleep towards a deadline; a sleep ends early, late, or after
  a stall that must not be made up.

## 2. Modules

| Module | Models | Notes |
|---|---|---|
| `Bits` | bytes, words, flags, the status byte | the status register is the *set* of flags that are on; `SrByte` and `SrFlags` convert |
| `Alu` | `adcCore`, `sbcCore`, `cmpCore` | arithmetic modulo 2^16 where the code's `uint16_t` wraps |
| `Memory` | `Memory`, the default `Bus`, push and pop | memory is a sparse function, absent cells read 0; a machine `m` holds registers, memory and the log of accesses |
| `Addressing` | the `params` structs | pointers, dummy reads and page-crossing penalties in the order of the code |
| `Opcodes` | `_instruction_table` | 256 entries of operation, mode and cycles |
| `Instructions` | `execute` of every entry | grouped as in the code: loads, stores, read-modify-write, branches, jumps, stack, undocumented |
| `UnAsm` | `unasm` | the mode it decodes and where the next line starts |
| `Processor` | `step`, the lines, `start(false)`, host writes of registers | composes all of the above |
| `InterruptGate` | abstract specification of interrupts | from `docs/accuracy.md`, "Interrupts are polled at instruction boundaries" |
| `ProcessorGate` | the refinement mapping | `ImplementsGate` |
| `RunControl` | `run`, `pause`, `resume`, `stop`, `reset`, breakpoints | one action per access to a shared flag |
| `LinuxDebugger` | the ncurses debugger | extends `RunControl`, whose host it replaces by the interface thread |
| `WinDebugger` | the Win32 debugger | extends `RunControl`, whose host it replaces by the window's thread |
| `Clock` | `precision_clock`, `chrono_clock` | the cycle time is a fraction, time an integer number of nanoseconds |
| `Asm` | both overloads of `Asm::compile` | a source is a sequence of tokens; a line that the regular expression matches is the record of its capture groups |
| `MCAlu`, `MCInstructions`, `MCInterrupts`, `MCHost`, `MCAsm` | instances for TLC | programs, loaded registers, sources, history variables |
| `AluProofs` | theorems on the arithmetic of `MCAlu` | |
| `ProcessorProofs`, `BusProofs` | theorems on the processor | `BusProofs` extends `ProcessorProofs` and has the properties of `MCInstructions` and `MCInterrupts` |
| `AsmProofs` | theorems on the assembler | extends `MCAsm`, whose properties it proves |
| `RunControlProofs`, `LinuxDebuggerProofs`, `WinDebuggerProofs`, `ClockProofs` | theorems on the module each is named after | |

Operators named after a plausible slip (`FindNoNmiDrops`, `ClearForgotten`,
`LaunchNotJoined`, ...) stand just before the definition they vary. No
specification uses them: they exist so that each property can be shown to
fail when the code is wrong in that way (`PROJECT.json`, "mutants").

### How actions follow the code

**`Processor`.** `step()` first does `m_nmi_pending.exchange(false)` and only later
loads `m_irq_line`, and another thread may drive either line in between. A step is
therefore either `StepNmi`, or `FindNoNmi` followed by one of `StepIrq` and
`StepExecute`; `noNmi` records that the step is between the two. Everything else
`step()` touches belongs to its own thread, so the rest is atomic. An instruction is
executed whole: fetch, addressing with its dummy reads, effect, write-back, cycles.
`start` is `I6502Emulator::start(false)`, with the `memset` of the registers, the
reset vector and `clearInterrupts()`; it and the host's direct writes to the
registers happen between steps (what happens when `stop()` has not really stopped is
the subject of `RunControl`). `HostWriteI` (a debugger or a test writing I) is part
of `MCHost` only.

**`RunControl`.** A runner moves through `enter`, `clear`, `first` (the step that
`DebugProcessor::run()` takes before it looks at breakpoints), the loop
`breakpoint` / `running` / `stopping` / `step` in the order the `while` condition
tests them, `report`, `tail`, `end`. The host is `ready`, or inside `stop` or
`reset` spinning on `isRunning()`, or about to rewrite the registers (`start`). A
step is reduced to where it leaves the program counter. `Debug` chooses between
`DebugProcessor::run()` and `Processor::run()`.

The constant `Joins` describes the host: it joins the last run thread before it
launches another, which is what the Linux debugger does. Otherwise the host is free:
it pauses, stops and resets at any moment, also between the launch of a thread and
the first write of `run()`. There the code goes wrong in two ways (finding 1),
and the properties are stated so that these are named and nothing else is excused. The
history variable `overtaken` records that the last `reset()` found `m_running` not yet
set by a run that had been called; `Erased` is a run in its loop with no pause left to
see. `start` is `start(false)`.

**`InterruptGate`.** One boundary at a time: a flag `polled` holds the I flag by
which the next boundary goes; CLI, SEI and PLP are `late`, RTI and BRK `early`,
everything else `plain`. No register, memory or program is left. `ProcessorGate`
maps `polled` to `masked`, the expression that `step()` computes.

**`LinuxDebugger`.** RunControl's run thread with its callbacks spliced in: after
each instruction `Compare` (outside the lock) and `Insert` (under `emuMutex`), at a
breakpoint `stopCallback`, after `run()` has returned `ThreadEnd`. RunControl's host
actions are not used; `host` is where the interface thread is, one label per point
at which another thread's step matters: before each lock, between `running = true`
and the join, before each join, while `addBreakpoint` inserts. `RunJoin` is enabled
only when the old thread has ended, because the code joins it; `ResetStart` waits for
`isRunning()` as `stop()` does. `step()` holds the mutex and calls
`processor->step()`, whose callback locks it again when the program counter moved:
`StepCallback` then leads to `relock`, from which there is no way on. The only
instructions F6 executes without hanging are those that leave the program counter
where it was.

**`WinDebugger`.** Run detaches its thread, so there may be several. A callback on a
run thread updates the window with `SendMessage`, which returns only when the
window's thread is in its message loop (`host = "ready"`); `SendViews` and
`SendEnable` are guarded by that. Reset and `WM_CLOSE` spin in `stop()` on that same
thread. `pause()` is followed by no join (`joinable()` is false after `detach()`). The
accelerators F6, F7 and F8 do nothing: they send `WM_COMMAND` with a high word of 1,
and the handler compares the whole `wParam`, so the model has button clicks only. The
history array is reduced to its first entry, on which the trap test depends.

Both debuggers edit the breakpoint set while `run()` searches it on another thread.
That is a data race, and a search that overlaps the insertion (`host = "insert"`) may
find anything (`TestBreakpointRacing`).

In both, the history variable `hasty` records that the user acted while a run was
starting or had not ended, which is when the request that the code makes can be
erased at `Processor.cpp:409` or by the end of the older run. Properties that the code
keeps only without haste say so.

**`Clock`.** `waitCycles` advances the deadline by the charge, truncated, and then
sleeps, catches up or resynchronises. The sleep ends at its own action: on time or
late (`Wake`), or early because a signal arrived (`WakeEarly`, Linux only: the remainder
is ignored). `Elapse` is the time the caller spends between calls. `origin`, `charged`
and `calls` are history: the cycles charged since the deadline was last set to the
present. `default_clock` is the counter alone.

**`Asm`.** `getline` is one call each: it takes CR LF and LF CR for one terminator, and
at the end of the stream returns an empty line before it fails. Then one action per
line of the loop. `type` follows the nested conditions of `compile()`. The image is
sparse, absent bytes are $FF. The overload that takes a vector of lines is the model
from phase `assemble` on.

A note on style: where a value is used several times, the definitions pass it to an
operator of its own (`Consume`, `NoteCrossing`, `UseOperand`, ...) instead of naming
it in a LET. TLC's coverage statistics expand every use of a LET definition, and the
chains of an instruction would otherwise multiply beyond its memory.

## 3. Runs

| Run | States | Shows |
|---|---|---|
| `alu` | about 2 000 | ADC and SBC are nine-bit binary and two-digit decimal arithmetic with the right C, V, N, Z; SBC undoes ADC; compare is unsigned order |
| `instructions` | 48 032 | for each opcode: bus accesses never exceed the cycles charged, loads, stores and read-modify-writes have an access in each cycle, a device at the operand's address sees the right accesses in the right order, the disassembler agrees on mode and length, and only five instructions write I |
| `interrupts` | 134 118 | the two private flags implement the polled I flag; RTI restores the interrupted PC, flags and SP at every depth; no push or store overwrites a frame that is open; B tells BRK from IRQ; no NMI is lost; a held IRQ line is not starved |
| `run_control` | 4 812 | every interleaving of two runners and the host: reset rewrites registers under a run only if it overtook the start of that run, `run()` returns only for its own pause or a breakpoint, breakpoints are respected unless such a reset moved PC, `stop()` returns unless its pause was erased, a pause in force is obeyed |
| `linux_debugger` | 172 580 | without haste, PAUSED means that no further instruction is executed; the history is bounded, current, and not raced although it is compared outside the lock; the invariant `DebuggerInv` from which all this is proved; the interface comes back from every key, except when `step()` has locked itself out or a join waits for a run whose stop request was erased |
| `win_debugger` | 211 644 | enabled buttons mean that the run is leaving its loop, a trap stops it and the views show where (all without haste); Reset and closing come back, except when the run thread waits for the window's thread or its stop request was erased |
| `clock` | 481 207 | the emulated CPU never outruns the requested speed by more than the truncation, and no stall longer than `RESYNC_NS` is made up |
| `asm` | 260 067 | emitted code reads back through the instruction table and the disassembler; exactly the lines outside the documented grammar are refused, by their number; a processor reset into the image starts at the base address unless the code ran over the vector |
| `stop_fails` | violation | finding 1 below |
| `host_i_write` | violation | finding 2 |
| `host_kil` | violation | finding 3 |
| `linux_mutex` | violation | finding 4 |

### Bounds, and why they are enough

- `alu`: the walk's operands `{1, 153}` exist only to move the accumulator; every
  accumulator value is reached with both carries, both modes and both wirings, and
  the invariants quantify over all 256 operands. The comparison with the reference
  definitions is exhaustive.
- `instructions`: all 256 opcodes at `PCs = {$0200, $FFFE}` (PC wrapping inside the
  instruction), operand bytes `$0200`, `$7F7F` and `$FFFF`, `Indexes = {0, 255}`
  (with and without page crossing, zero-page wrap), `SPs = {0, 253}` (stack wrap;
  the status bytes that PLP and RTI pull there have B set, and U set in one and clear
  in the other), two complementary sets of flags (both outcomes of each branch, both arithmetic
  modes). An instruction is a function of the state it starts in, so one step from
  each loaded state suffices. A is fixed at 129; the arithmetic is `alu`'s subject.
- `interrupts`: a program containing the sequences the gate is about (CLI; SEI,
  PHP; CLI; PLP, BRK, an NMI handler that starts with CLI) with the stack pointer at
  1, so that pushes wrap. `MaxNest = 1`: no NMI is *raised* with a frame open, but one
  latched after its boundary has looked is taken inside the handler entered there,
  and the NMI handler is open to IRQs, so three frames nest. Without that bound the
  stack of the toy program would overwrite its own frames.
- `run_control`: two runners, because the host joins one before it launches the
  next and a third would be like the first; three addresses, so that a breakpoint
  can be at the current instruction, at the next one, or elsewhere. The theorems
  remove both bounds. `stop_fails` has the same
  instance.
- `linux_debugger`: one run thread, which is joined before it is replaced; three
  addresses; a history of two to three entries for the six to ten of the code, so
  that it is full, not full and just reset. Keys in any order, without bound.
  `linux_mutex` has the same instance.
- `win_debugger`: two run threads, enough for Run to be clicked while one is still
  there; two addresses (a trap is a step to the same one). The same run with three
  addresses, about a million states, passes as well.
- `clock`: 5/3 ns per cycle, so that charges are truncated; delays and oversleeps
  below and above `RESYNC_NS`; a clock constructed at time 0 and one constructed
  long after the epoch and never given an origin. `MaxTime` and `MaxCycles` bound the
  behaviour; the theorems remove all these bounds.
- `asm`: all names of the instruction table with all thirteen documented operand
  forms, `LDA`, `JMP`, `BNE`, `ASL` and `NOP` with every combination of capture
  groups, and sources of up to five tokens: LF, CR, text that assembles to one and
  three bytes, text that does not match, blank text. Bases `$0400`, `$FFFB` (the
  second byte falls on the vector) and `$FFFE` (a three-byte instruction wraps around
  and misses it).

Deadlock is checked in every run but those of the debuggers, `clock` and `asm`: both
debuggers may have quit, hang in the ways their liveness properties name, or wait for
the user; the bounds of `clock` end its behaviours; `compile()` returns.

### Fairness

- `run_control`: weak fairness of each runner and of the host while it is inside
  `stop()` or `reset()`. They are threads that the system schedules, and none of
  their steps blocks. Nothing obliges the host to launch, pause or stop.
- `linux_debugger`, `win_debugger`: weak fairness of each run thread and of the
  interface thread inside a handler. They are scheduled, and what they wait for (a
  mutex, a join, a message) is in the guards. Nobody has to press a key or click.
- `interrupts`: `step()` is called again and again, because that is what `run()`
  does. It is stated as `[]<><<GStep>>_gvars`; since a step is always enabled and
  in this program always changes the state, this is its weak fairness. Devices have
  no fairness. `IrqNotStarved` assumes, in its own formula, that NMIs and resets
  eventually stop and the line is held.

## 4. Findings

1. **`stop()` fails while `run()` is starting** (`stop_fails`), in two ways. `run()` sets
   `m_running` and then clears `m_stopping`. A `stop()` before the first finds the
   processor not running and returns at once, and in `reset()` the registers are then
   rewritten beside a thread that begins to step. A `pause()` that lands before the
   second is erased, `run()` goes on and `stop()` waits for a thread that nobody has
   asked to stop. `I6502Emulator.h:56` says "Ask the processor to pause and spin until
   it has actually stopped." Either behaviour violates `StopHasStopped`, and TLC reports
   one; `run_control` shows that these are the only two: without the second `stop()`
   returns (`StopReturnsUnlessErased`), without the first it has then stopped
   (`ResetExcludesSteps`).
2. **A direct write of I may be ignored for one boundary** (`host_i_write`). After
   CLI, SEI or PLP the gate is `m_i_flag_before`, whatever the host writes;
   `emu_processor.h:68-70` says that such a write "is obeyed at once rather than an
   instruction later".
3. **KIL is left by an interrupt** (`host_kil`). `step()` services the lines before it
   fetches KIL again; `InstructionImpl.h:1026` says that KIL "locks the processor up
   until reset".
4. **The Linux debugger's mutex does not protect the emulator's state** (`linux_mutex`).
   Drawing holds `emuMutex`, "to read consistent state" (`test_6502_linux.cpp:334`), and
   the mutex is to "Protect access to emulator state during rendering/updates" (line
   50). The run thread takes it for the history only, not for an instruction: while
   RUNNING, registers and memory on one screen may belong to different instructions.

Where else the debuggers go wrong is named as an exception in the properties of their
passing runs. Each of these situations is reached: without the exception TLC reports the
property violated.

- F6 in the Linux debugger hangs on any instruction that moves the program counter:
  `step()` holds the mutex that its callback locks (`SelfLocked`).
- F8 pressed twice while the run thread starts, or F10 or q in place of the second,
  hangs in the join: the pause was erased (`WaitsForRunaway`).
- F8 right after a breakpoint was hit: the old thread clears the flag `running` that the
  new run has set. The screen says PAUSED while the new thread runs, and F6 may execute
  beside it (`hasty` in `PausedMeansStill`).
- Pause and then Run in the Win32 debugger, before the first run has seen the pause: the
  second `run()` clears it, and both run (`hasty`, and `Runaway` in `SpinEnds`).
- Closing the Win32 window while the run thread reports a trap or a breakpoint waits for
  ever: `stop()` spins on the thread that has to take the report (`MutualWait`).
- After Pause the Win32 views may show a state one instruction old; `ViewsCurrent` speaks
  of runs that end by themselves.

A reset turns a 2A03 back into an NMOS 6502: `start()` clears the whole `Registers`
struct, `decimalDisabled` included, and `docs/accuracy.md:162` says "A 2A03 host sets
that once and forgets it." `ResetRegisters` has this; one assignment shows it, so it
has no run.

Comments that no longer describe the code, noticed while reading and not worth a
run: `I6502Emulator.h:46` and `:52` (a reset charges 8 cycles and leaves I alone; it
charges 7 and sets I), `asm.h:21` (indexed indirect is written `($nn),x`; it is
`($nn,X)`), `asm.h:24` (branch operands always emitted as $00), `asm.h:46` (LF CR is
one terminator too), `docs/assembler.md` (`bcc 0` shown with the opcode of BNE;
nothing is said of displacements beyond a byte, which are truncated),
`emu_clock.h:83` (the last millisecond is spun out on Windows only),
`emu_processor.h:19-22` (instructions hold their operand in a member),
`unasm.h:13` (unassigned opcodes render as a bare byte) and
`docs/nes-roadmap.md:90` (no dummy read on a page crossing).

## 5. Proofs

| Theorem | States |
|---|---|
| `ProcessorProofs!TypeCorrect` | `Spec => []TypeOK`: all registers, memory cells, lines and charges keep their types |
| `ProcessorProofs!StatusBitsHold` | B never enters the status register and bit 5 never leaves it, whatever PLP and RTI pull |
| `ProcessorProofs!IWritersAreKnown` | the instruction at PC moves I only if it is CLI, SEI, PLP, RTI or BRK, and none touches the decimal wiring |
| `ProcessorProofs!GateImplemented` | `Spec => ImplementsGate`: the processor implements `InterruptGate` |
| `RunControlProofs!RunInvariant` | under `Joins`, `SafeSpec => []RunInv`, without the fairness of `Spec` |
| `ClockProofs!PacingHolds` | `Spec => []SpeedLimit`, for every cycle time, cost, delay, oversleep and early wake-up |
| `ClockProofs!CatchUpIsBounded` | `Spec => []CatchUpBounded` |
| `RunControlProofs!ResetIsExclusive`, `ReturnsForAReason`, `BreakpointsHold` | the three safety properties of run control under `Joins`, with `overtaken` the one exception of the first and the last |
| `LinuxDebuggerProofs!DebuggerInvariant` | `DebuggerSpec => []DebuggerInv` |
| `LinuxDebuggerProofs!PausedIsStill` | without haste, PAUSED means that the run thread executes nothing more |
| `LinuxDebuggerProofs!HistoryIsCurrent` | drawn with no run thread about, the newest history entry is the program counter |
| `LinuxDebuggerProofs!HistoryIsNotRaced` | an action property: the history is never changed by one thread while the other reads or changes it, after hasty keys too |
| `WinDebuggerProofs!WindowInvariant` | `WindowSpec => []WindowInv`, for any number of detached run threads |
| `WinDebuggerProofs!ButtonsAreTrue`, `TrapsStop`, `ViewsAreCurrent` | the three safety properties of the window |
| `BusProofs!BusWithinCycles` | no instruction and no interrupt sequence makes more bus accesses than it charges cycles |
| `BusProofs!NoIdleCycle` | loads, stores and read-modify-writes have an access in every cycle, but for the one in which (zp,X) adds X |
| `BusProofs!DevicesSeeTheOperand` | a device at the operand's address sees the right accesses in the right order, and memory changes nowhere else |
| `BusProofs!ListingFollowsExecution` | the disassembler agrees with the table on all 256 codes, and execution goes on where the listing does |
| `BusProofs!InterruptsSave` | an action property: NMI, IRQ and BRK leave PC, SP and the flags of what they interrupt in a frame, with B set exactly by BRK |
| `BusProofs!RtiGoesBack` | an action property: an RTI that finds such a frame restores PC, SP and the flags |
| `BusProofs!BrkCanBeTold`, `HandlersReturn` | `GSpec /\ TidyHandlers` implies `[]HandlerCanTellBrk` and `ReturnsToInterrupted`: for every program that is tidy with its frames, at every depth |
| `AsmProofs!AnyErrorsNamed`, `SpecErrorsNamed` | for every source and base, `compile()` refuses exactly the sources with a line outside the documented grammar, and names the first such line (by a smaller number only behind a LF with a lone CR, which `getline` takes for one terminator) |
| `AsmProofs!AnyCodeReadsBack`, `SpecCodeReadsBack` | what is emitted reads back, line by line, through the instruction table and the disassembler |
| `AsmProofs!AnyBootsAtBase`, `SpecBootsAtBase` | a processor reset into the image starts at the base address, unless the code ran over the vector |
| `AluProofs!AdditionIsRight`, `SubtractionIsRight` | ADC and SBC against their reference, binary and decimal |
| `AluProofs!SubtractionUndoesAddition` | SBC undoes ADC, on BCD digits too |
| `AluProofs!ComparisonIsOrder` | compare is unsigned order |

Assumptions. `MemSizeAssumption` (the size of a `Memory`), `ImageAssumption` (the
image maps cells to bytes), `RunControlAssumption` (the reset vector is an address,
the switches are Booleans), `ClockAssumption` (the cycle time is a positive fraction;
costs, delays and oversleeps are natural numbers), `OperandsAssumption` (operands are
bytes), `AsmAssumption` (bases are
addresses, `MaxTokens` is a natural number), `DebuggerAssumption` (the debugger has a
`DebugProcessor` and one run thread, the object at `test_6502_linux.cpp:47`; the history keeps at least one entry and at
most its maximum), `WindowAssumption` (a `DebugProcessor`). The results on run control further assume `Joins`,
in their statements. The results on nested handlers assume
`TidyHandlers`. Those on emitted code assume that it fits into the address space: `Fits`
(a line emits at most three bytes) for any source, `SourcesFit` (`MaxTokens` is at most
21 843) for those of `MCAsm`; `BootsAtBase` further that the memory has 64 KB, which is
what the image is made for. Otherwise nothing is assumed of the program in memory, the
order of interrupts, the number of addresses, of keys or of run threads (one in the
Linux debugger), or their interleaving. The debuggers' theorems do not assume
`Joins`: where the code needs the user's patience, `hasty` is in the
statement of the property.

**Argument for the processor.** The invariant `ProcInv == TypeOK /\ StatusBits` is
inductive: RTI and PLP keep the register well-formed for *any* byte on the stack, so
nothing about the contents of memory is needed beyond its type. `ProcessorProofs` first
shows that the arithmetic cores return registers, keep B and bit 5 and leave I and the
wiring alone, then the same, under a common notion of a well-formed machine, for bus
accesses, the stack, each addressing mode and each group of
instructions, then for `execute` on any of the 256 table entries. Then comes
one lemma per action. The refinement maps each action of `Processor` to one of
`InterruptGate` or to a stutter; the only hard case is `StepExecute`, where
`IWritersAreKnown` says that an instruction which is neither `late` nor `early`
leaves I alone, and so is `plain`.

**Argument for the bus and the listing.** These are properties of one instruction
from any state of `ProcInv`, and need no further invariant. `init()` fixes the
operand's address (`OperandAt`). As long as the instruction has only read, the machine
`Follows` that start: same memory, the pointer memoised or still to be fetched, and a
log that is `Calm` (all reads) of a length known from the mode and from whether the
index carries. One lemma per operation of a `params` object says how it extends such a
log, one per group of instructions adds the writes. `Priced` states what the table must
charge for a mode and kind of instruction; it is proved for the 256 rows one by one.
Length plus writes against price gives `AccessesWithinCycles` and
`EveryCycleOnTheBus`, the shape of the log `DeviceSees`. For the listing, the bits
`aaabbbcc` that `unasm()` decodes are compared with the table column by column; the
`pc` that `init()` leaves is `unasm_next`; and RTS undoes JSR because the two stack
cells differ even where the stack pointer wraps or the memory is one mirrored page.

**Argument for interrupts.** Two cells of page one are different however small and
mirrored the memory is (`StackApart`), so three pushes leave three bytes (`ThreePokes`);
and `SrFlags` undoes `SrByte` (`SrRoundTrip`). Hence every entry leaves a frame
(`Saved`) and RTI takes one back, from any state of `ProcInv`. Whether a handler's RTI
finds *its* frame depends on the program. `TidyHandlers` is what the program has to do:
no step overwrites a byte of an open frame, and RTI is executed with the stack as deep
as the interrupt left it. Under it `FramesInv`, that every open frame is still in
memory, is inductive, and both properties of `MCInterrupts` follow for any image, any
depth and any interleaving of the lines. The run `interrupts` checks that its own
program is tidy, so the premise is one that programs meet.

**Argument for the assembler.** `AnySpec` is `Asm` on every source: any number of tokens,
at most one text between two terminators, any capture groups that the grammar allows,
any base; `Spec` of `MCAsm` has the sources up to `MaxTokens`. The tables come first:
mapper against instruction table row by row, and `type` against the documented operand
forms, so a line is accepted exactly if it is documented (`AcceptedIsDocumented`). Then
`getline`: `SplitInv` says that the lines taken so far start where the terminators
before them end, CR LF and LF CR counted once, and `LoopInv` that every line
before the current one was accepted; together they give `ErrorsNamed`. One emitted
line reads back through table and `unasm` (`EmittedReadsBack`). `ImageInv` says that the
address of each line is its distance from the base and that its bytes are still there,
as long as all the code fits into 64 KB; from it follow `CodeReadsBack` and
`BootsAtBase`. TLC has checked the three invariants on the sources of `MCAsm`.

**Argument for the arithmetic.** For any registers and operand, not only those of
`MCAlu`: the intermediate values of `adcCore` and `sbcCore` are named, and a byte of
valid digits is replaced by its pair of digits. There a digit sum is a digit and the
carry that `DigitCarry` tests, a difference a digit and the borrow, and the corrections
by 6 and 96, with the wrap of the `uint16_t`, are linear.

**Argument for run control.** `ResetExcludesSteps` is not inductive: whether `stop()`
may return depends on `m_running` telling the truth. `RunInv` adds that at most one
runner is out of `idle` (`OneRun`, which needs `Joins`), that `m_running` is true
exactly between its first and last write (`RunningFlag`), so that a `stop()` which
returns found every runner idle, at its end, or not begun, and the last is what
`overtaken` records; that a host inside `stop()` or `reset()` has asked for a pause
(`AskedWhileBusy`), that a pause seen in the loop was asked for in this run
(`OwnPause`), because `run()` clears an older one, and that the loop is past a
breakpoint only if `overtaken` (`PastBreakpoint`, `NoBreakpoints`). TLC checks `RunInv` in `run_control`.

**Argument for the Linux debugger.** `PausedMeansStill` needs to know where the run
thread can be. `DebuggerInv` adds that a thread that has ended is nowhere in `run()`
(`EndedIsIdle`), that a callback stands between a step and the search for its breakpoint
(`HookAfterStep`), that `emuMutex` is held exactly where the code has a `lock_guard`
(`MutexHeld`), that `run()` sets `running` before it joins and without haste joins only
a thread that has ended (`RunFlagFirst`), and that the history lags behind the program
counter only until a callback has seen the step (`HistoryKept`), and that `reset()` has
joined before it locks (`ResetAlone`). `HistoryRaceFree` follows from these, with no
exception for haste: the run thread inserts under the mutex that `step()` and `reset()`
hold, and the comparison outside the lock is safe because only `reset()` writes the
history on the other thread, with no run thread left. TLC checks `DebuggerInv` in `linux_debugger`.

**Argument for the Win32 debugger.** The parts that hold in any case are the types, the
place of each callback (`CallbackPlace`) and that a busy window's thread has asked for a
pause (`BusyMeansAsked`). The rest holds until a hasty click: one run at a time
(`OneRun`), whose own flags `m_running` and `m_stopping` are (`OwnFlags`); the window's
thread is in a handler only when no run is starting or about (`StoppedByPause`); a run
that ends unasked, by a trap or a breakpoint, leaves the views at the program counter
(`EndShown`); and a trap is never followed by a step (`TrapSeen`). A click that is not
hasty restores all of them, and a hasty one has only to keep the first part. TLC has
checked `WindowInv` on the instance of `win_debugger`.

**Argument for the clock.** `SpeedLimit` compares cycles with the time on the clock,
which a sleep moves in one leap; the invariant compares them with the deadline
instead. `DeadlinePaced` says that the deadline is at most one nanosecond per call
behind the cycles charged, because `Ns` rounds down by less than one
(`NsRoundsDown`); `SleepsToDeadline` says that a sleep ends at the deadline and that a
call which was not cut short returns at it or later. Together they give both
theorems; resynchronising and `beginCycle` start the comparison anew.

**Only model-checked.**

- Liveness (`StopReturnsUnlessErased`, `PauseObeyed`, `NmiDelivered`, `IrqNotStarved`,
  `UiResponds`, `SpinEnds`) is beyond this prover, as is ENABLED.
- That a program is tidy with its frames (`TidyHandlers`) is a property of the program,
  checked for the one of `MCInterrupts`.
- Of the assembler on sources whose code may exceed 64 KB, nothing is claimed but
  `ErrorsNamed`: such code overwrites itself.

No module that is proved about declares a RECURSIVE operator.

## 6. Not modelled

- **Text**: the disassembler's mnemonics and formatting, what the debuggers draw.
  Of the assembler's regular expression only the capture groups it can produce.
- **`start(true)` and `reset(true)`**, which go on to `run()` on the calling thread: the
  debuggers pass false.
- **`removeBreakpoint` of the debuggers**: nothing calls it.
- **Windows performance counter**: its conversion to nanoseconds (`emuclock.cpp:60`).
- **Custom buses**: a host may replace `Bus`; the model has the default one with a
  memory connected. A bus without a memory reads 0 and ignores writes.
- **Bulk `Memory::read`**: nothing calls it. The bulk write is `writeBlock`; in the
  processor's modules it stands behind the constant `Image`.
- **Callbacks of other hosts**: the two debuggers' callbacks are modelled; in
  `RunControl` itself `Report` marks the place of the stop callback.
- **Breakpoints edited during a run** are a data race on `std::unordered_set`:
  `RunControl` has hosts that edit the set while no run is under way, the debuggers
  search with an arbitrary result. Memory corruption is not modelled.
- **Exceptions, tests**: no state of the system.

## 7. Plan

Done: all components of the inventory, their runs, and theorems about the
arithmetic, the instructions and their bus accesses, the processor and its interrupts,
run control, both debuggers, the clock and the assembler. Every invariant and every
safety property of a passing run is stated by a theorem, but for `TidyHandlers`, which is
a premise; what is left to TLC alone is liveness.
