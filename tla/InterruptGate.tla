--------------------------- MODULE InterruptGate ---------------------------
(***************************************************************************)
(* What the processor promises about interrupts, without registers, memory *)
(* or programs (accuracy.md, "Interrupts are polled at instruction         *)
(* boundaries").                                                           *)
(*                                                                         *)
(* At each boundary the CPU acts on the I flag as it polled it a cycle     *)
(* before the instruction ended.  An instruction of kind "late" (CLI, SEI, *)
(* PLP) writes I after the poll, one of kind "early" (RTI, BRK) before it, *)
(* and a "plain" one leaves I alone.  A boundary that finds an NMI latched *)
(* takes it; otherwise it takes an IRQ exactly when its line is held and   *)
(* the polled flag is clear.  An NMI that is latched after the boundary    *)
(* has looked waits for that one instruction or IRQ, and for no other.     *)
(***************************************************************************)
VARIABLES
  nmiLatched, irqLine,
  iFlag,       \* the I flag
  polled,      \* the I flag the next boundary goes by
  looked,      \* the boundary has looked for an NMI and found none
  boundary     \* what the last boundary did

gateVars == <<nmiLatched, irqLine, iFlag, polled, looked, boundary>>

Kinds == {"late", "early", "plain"}

GateInit ==
  /\ nmiLatched = FALSE /\ irqLine = FALSE
  /\ iFlag = TRUE /\ polled = TRUE /\ looked = FALSE /\ boundary = "start"

RaiseNmi == nmiLatched' = TRUE /\ UNCHANGED <<irqLine, iFlag, polled, looked, boundary>>
DriveIrq == irqLine' \in BOOLEAN /\ 
            UNCHANGED <<nmiLatched, iFlag, polled, looked, boundary>>

Enter == iFlag' = TRUE /\ polled' = TRUE /\ looked' = FALSE

TakeNmi ==
  /\ ~looked /\ nmiLatched /\ nmiLatched' = FALSE
  /\ boundary' = "nmi" /\ Enter /\ UNCHANGED irqLine

Look ==
  /\ ~looked /\ ~nmiLatched /\ looked' = TRUE
  /\ UNCHANGED <<nmiLatched, irqLine, iFlag, polled, boundary>>

TakeIrq ==
  /\ looked /\ irqLine /\ ~polled
  /\ boundary' = "irq" /\ Enter /\ UNCHANGED <<nmiLatched, irqLine>>

Instruction ==
  /\ looked /\ (irqLine => polled) /\ looked' = FALSE
  /\ boundary' \in Kinds
  /\ iFlag' \in BOOLEAN
  /\ boundary' = "plain" => iFlag' = iFlag
  /\ polled' = IF boundary' = "late" THEN iFlag ELSE iFlag'
  /\ UNCHANGED <<nmiLatched, irqLine>>

Reset ==
  /\ ~looked
  /\ nmiLatched' = FALSE /\ irqLine' = FALSE
  /\ boundary' = "start" /\ Enter

GateNext == RaiseNmi \/ DriveIrq \/ TakeNmi \/ Look \/ TakeIrq \/ Instruction \/ Reset

GateSpec == GateInit /\ [][GateNext]_gateVars
=============================================================================
