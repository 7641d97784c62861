------------------------------- MODULE MCHost -------------------------------
(***************************************************************************)
(* A host that writes the registers directly, as a debugger, a test or an  *)
(* NES front end does, while a small program runs:                         *)
(*   0200  CLI / CLI / KIL             0300  RTI, every handler            *)
(***************************************************************************)
EXTENDS Processor

VARIABLE wrote    \* history: the host wrote I and no step has begun since

MCImage ==
  [k \in (512..514) \cup {768} \cup (65530..65535) |->
     CASE k \in 512..513 -> 88 [] k = 514 -> 2 [] k = 768 -> 64
       [] OTHER -> <<0, 3, 0, 2, 0, 3>>[k - 65529]]

HostInit == Init /\ wrote = FALSE
HostNext ==
  \/ Next /\ wrote' = FALSE
  \/ \E v \in BOOLEAN : HostWriteI(v) /\ wrote' = TRUE

HostSpec == HostInit /\ [][HostNext]_<<vars, wrote>>

-----------------------------------------------------------------------------
(* emu_processor.h says that a debugger or a test writing I directly is    *)
(* obeyed at once, not an instruction later: the gate that the next step() *)
(* goes by is the flag just written.                                       *)
DirectWriteObeyed == wrote => (masked <=> "I" \in regs.sr)

(* InstructionImpl.h says that KIL locks the processor up until reset:     *)
(* after one, only start() moves the program counter.                      *)
KilLocks ==
  [][(last.did = "exec" /\ instruction_table[last.code].op = "KIL" /\ last'.did # "start")
       => regs'.pc = regs.pc]_<<vars, wrote>>
=============================================================================
