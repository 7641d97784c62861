---------------------------- MODULE MCInterrupts ----------------------------
(***************************************************************************)
(* A program that plays every trick with I that the gate is about, its two *)
(* handlers, and devices that drive the lines at any time:                 *)
(*                                                                         *)
(*   0200  LDX #1 / TXS            the stack is about to wrap in page one  *)
(*   0203  CLI / SEI / PHP / CLI / PLP / BRK pad / JMP $0203               *)
(*   0300  RTI                     IRQ and BRK handler                     *)
(*   0400  CLI / NOP / RTI         NMI handler, itself open to IRQs        *)
(***************************************************************************)
EXTENDS ProcessorGate

CONSTANT MaxNest    \* bound: no NMI is raised with this many frames open

VARIABLE frames     \* history: the contexts interrupted and not returned to

MCImage ==
  LET main == <<162, 1, 154, 88, 120, 8, 88, 40, 0, 234, 76, 3, 2>>
      nmiH == <<88, 234, 64>>
  IN  [k \in (512..524) \cup {768} \cup (1024..1026) \cup (65530..65535) |->
         CASE k \in 512..524   -> main[k - 511]
           [] k = 768           -> 64
           [] k \in 1024..1026 -> nmiH[k - 1023]
           [] k \in 65530..65535 -> <<0, 4, 0, 2, 0, 3>>[k - 65529]]

(* The context a service or BRK leaves and RTI must restore.               *)
Frame(kind) ==
  [kind |-> kind, sr |-> regs.sr, sp |-> regs.sp,
   pc |-> IF kind = "brk" THEN Wrap16(regs.pc + 2) ELSE regs.pc]

Frames ==
  IF noNmi' THEN frames
  ELSE CASE last'.did \in {"nmi", "irq"} -> <<Frame(last'.did)>> \o frames
         [] last'.did = "exec" /\ Entry.op = "BRK" -> <<Frame("brk")>> \o frames
         [] last'.did = "exec" /\ Entry.op = "RTI" /\ frames # <<>> -> Tail(frames)
         [] OTHER -> frames

GInit == Init /\ frames = <<>>

GStep  == step /\ frames' = Frames
GNmi   == Len(frames) < MaxNest /\ nmi /\ UNCHANGED frames
GIrq   == \E b \in BOOLEAN : irq(b) /\ UNCHANGED frames
GStart == start /\ frames' = <<>>

GNext == GStep \/ GNmi \/ GIrq \/ GStart
gvars == <<vars, frames>>

(* run() calls step() for ever; nothing makes a device act.  Step() is     *)
(* always possible, and of this program it always changes the state, so    *)
(* its weak fairness is that it happens again and again.                   *)
GSpec == GInit /\ [][GNext]_gvars /\ []<><<GStep>>_gvars

-----------------------------------------------------------------------------
(* An RTI ends the innermost handler.                                      *)
Returning ==
  last'.did = "exec" /\ Entry.op = "RTI" /\ frames # <<>> /\ frames' = Tail(frames)

(* An RTI that ends a handler restores the program counter, the flags and  *)
(* the stack pointer of the context it interrupted, however deep NMIs,     *)
(* IRQs and BRKs are nested and wherever the stack wraps.                  *)
ReturnsToInterrupted ==
  [][Returning => /\ regs'.pc = Head(frames).pc
                  /\ regs'.sr = Head(frames).sr
                  /\ regs'.sp = Head(frames).sp]_gvars

(* What the two properties of this module need of a program: no step       *)
(* overwrites one of the three bytes of an open frame, neither by a push   *)
(* that wrapped around page one nor by a store, and a handler executes RTI *)
(* with the stack as deep as the interrupt left it.                        *)
TidyStep ==
  /\ \A k \in 1..Len(frames), d \in 0..2 :
       LET ad == 256 + Wrap8(frames[k].sp - d) IN Peek(mem', ad) = Peek(mem, ad)
  /\ Returning => regs.sp = Wrap8(Head(frames).sp - 3)
TidyHandlers == [][TidyStep]_gvars

(* The status byte a handler finds on the stack has B set exactly if BRK   *)
(* got it there: the only way a handler can tell BRK from an IRQ, which    *)
(* share a vector.                                                         *)
HandlerCanTellBrk ==
  \A k \in 1..Len(frames) :
    Has(Peek(mem, 256 + Wrap8(frames[k].sp - 2)), 16) <=> frames[k].kind = "brk"

(* A latched NMI is always delivered unless a reset drops it.              *)
NmiDelivered == m_nmi_pending ~> (last.did = "nmi" \/ last.did = "start")

(* A device that holds the IRQ line for good keeps being served, as long   *)
(* as NMIs and resets stop: neither the one-instruction windows CLI; SEI   *)
(* and CLI; PLP nor BRK can hide the line from the program above.          *)
IrqNotStarved ==
  <>[](m_irq_line /\ ~m_nmi_pending) => []<>(last.did = "irq")
=============================================================================
