--------------------------- MODULE ProcessorGate ---------------------------
(***************************************************************************)
(* The refinement mapping from Processor to InterruptGate.                 *)
(***************************************************************************)
EXTENDS Processor

(* The kind of boundary the last step was, for the gate.                   *)
Boundary ==
  IF last.did # "exec" THEN last.did
  ELSE LET op == instruction_table[last.code].op
       IN  CASE op \in {"CLI", "SEI", "PLP"} -> "late"
             [] op \in {"RTI", "BRK"} -> "early"
             [] OTHER -> "plain"

Gate == INSTANCE InterruptGate WITH
          nmiLatched <- m_nmi_pending, irqLine <- m_irq_line,
          iFlag <- "I" \in regs.sr, polled <- masked,
          looked <- noNmi, boundary <- Boundary

(* The processor implements the gate: m_i_flag_delayed and m_i_flag_before *)
(* make up exactly the polled flag, through nested handlers, PLP, RTI, BRK *)
(* and a reset between CLI and the instruction after it.                   *)
ImplementsGate == Gate!GateSpec
=============================================================================
