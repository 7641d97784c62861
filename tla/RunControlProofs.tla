-------------------------- MODULE RunControlProofs --------------------------
(***************************************************************************)
(* Safety of RunControl for any number of threads, addresses and           *)
(* breakpoints, for Processor and DebugProcessor alike, under a host that  *)
(* joins one run thread before it launches the next, and may pause, stop   *)
(* and reset at any moment, the start-up of run() included.                *)
(***************************************************************************)
EXTENDS RunControl, TLAPS

(* The constructed processor satisfies the inductive invariant.            *)
LEMMA InitRunInv == Init => RunInv
  BY RunControlAssumption
     DEF Init, RunInv, TypeOK, OneRun, RunningFlag, AskedWhileBusy, OwnPause,
         PastBreakpoint, NoBreakpoints, ResetExcludesSteps, Stopped, NoSpuriousReturn, InLoop,
         Ending, Label

(* While a runner is active no other one is: what an action of runner r    *)
(* does to at concerns r alone, and everyone else is idle.                 *)
LEMMA OthersIdle ==
  ASSUME RunInv, NEW r \in Runners, at[r] # "idle", NEW s \in Runners, s # r
  PROVE  at[s] = "idle"
  BY DEF RunInv, OneRun

(* Every action of run() preserves the invariant.                          *)
LEMMA RunPreserves ==
  ASSUME RunInv, NEW r \in Runners, run(r)
  PROVE  RunInv'
<1> USE DEF Goto, InLoop, Ending, Label, flags, shared
<1>1. at[r] # "idle"
  BY DEF run, Enter, Clear, Step, TestBreakpoint, TestRunning, TestStopping, Report,
         LeaveRunning, Leave
<1>2. \A s \in Runners : s # r => at[s] = "idle"
  BY <1>1, OthersIdle
<1> USE <1>1, <1>2 DEF RunInv, TypeOK, OneRun, RunningFlag, AskedWhileBusy, OwnPause,
         PastBreakpoint, NoBreakpoints, ResetExcludesSteps, Stopped, NoSpuriousReturn
<1>3. CASE Enter(r) BY <1>3 DEF Enter
<1>4. CASE Clear(r) BY <1>4, RunControlAssumption DEF Clear
<1>5. CASE Step(r) BY <1>5, RunControlAssumption DEF Step, LoopTest
<1>6. CASE TestBreakpoint(r) BY <1>6 DEF TestBreakpoint
<1>7. CASE TestRunning(r) BY <1>7, RunControlAssumption DEF TestRunning, AfterLoop
<1>8. CASE TestStopping(r) BY <1>8, RunControlAssumption DEF TestStopping, AfterLoop
<1>9. CASE Report(r) BY <1>9 DEF Report
<1>10. CASE LeaveRunning(r) BY <1>10 DEF LeaveRunning
<1>11. CASE Leave(r) BY <1>11 DEF Leave
<1> QED
  BY <1>3, <1>4, <1>5, <1>6, <1>7, <1>8, <1>9, <1>10, <1>11 DEF run

(* So does every action of a host that joins a runner before it launches   *)
(* another.                                                                *)
LEMMA HostPreserves ==
  ASSUME RunInv, Joins,
         \/ \E r \in Runners : Launch(r)
         \/ pause \/ stop \/ StopReturn \/ start
         \/ \E ad \in Addresses : addBreakpoint(ad) \/ removeBreakpoint(ad)
         \/ clearBreakpoints
  PROVE  RunInv'
<1> USE DEF Goto, InLoop, Ending, Label, flags, shared, Idle,
        RunInv, TypeOK, OneRun, RunningFlag, AskedWhileBusy, OwnPause,
        PastBreakpoint, NoBreakpoints, ResetExcludesSteps, Stopped, NoSpuriousReturn
<1>1. ASSUME NEW r \in Runners, Launch(r) PROVE RunInv'
  <2>1. \A s \in Runners : at[s] = "idle"
    BY <1>1, Zenon DEF Launch
  <2>2. ~m_running
    BY <2>1
  <2>3. host # "start" /\ host = "ready"
    BY <1>1 DEF Launch
  <2>4. at' = [at EXCEPT ![r] = "enter"]
    BY <1>1 DEF Launch
  <2>5. UNCHANGED <<m_running, m_stopping, m_breakpoints, pc, host>> /\ asked' = FALSE /\ overtaken' = FALSE
    BY <1>1 DEF Launch
  <2>6. \A s \in Runners : at'[s] = IF s = r THEN "enter" ELSE "idle"
    BY <2>1, <2>4
  <2>7. TypeOK' BY <2>4, <2>5
  <2>8. OneRun' /\ RunningFlag' BY <2>2, <2>5, <2>6
  <2>9. AskedWhileBusy' BY <2>3, <2>5
  <2>10. OwnPause' /\ PastBreakpoint' BY <2>5, <2>6
  <2>11. NoBreakpoints' BY <2>5, <2>6
  <2>12. ResetExcludesSteps' /\ NoSpuriousReturn' BY <2>3, <2>5, <2>6
  <2> QED BY <2>7, <2>8, <2>9, <2>10, <2>11, <2>12
<1>2. CASE pause BY <1>2 DEF pause
<1>3. CASE stop BY <1>3 DEF stop
<1>4. CASE StopReturn BY <1>4 DEF StopReturn
<1>5. CASE start BY <1>5, RunControlAssumption DEF start
<1>6. ASSUME NEW ad \in Addresses, addBreakpoint(ad) PROVE RunInv'
  BY <1>6 DEF addBreakpoint
<1>7. ASSUME NEW ad \in Addresses, removeBreakpoint(ad) PROVE RunInv'
  BY <1>7 DEF removeBreakpoint
<1>8. CASE clearBreakpoints BY <1>8 DEF clearBreakpoints
<1> QED BY <1>1, <1>2, <1>3, <1>4, <1>5, <1>6, <1>7, <1>8

(* A stuttering step keeps the invariant.                                  *)
LEMMA StutterPreserves ==
  ASSUME RunInv, UNCHANGED vars
  PROVE  RunInv'
  BY DEF vars, RunInv, TypeOK, OneRun, RunningFlag, AskedWhileBusy, OwnPause,
         PastBreakpoint, NoBreakpoints, ResetExcludesSteps, Stopped, NoSpuriousReturn

(* The inductive invariant holds in every state, of any host that joins.   *)
THEOREM RunInvariant ==
  ASSUME Joins
  PROVE  SafeSpec => []RunInv
<1>1. Init => RunInv BY InitRunInv
<1>2. ASSUME RunInv, [Next]_vars PROVE RunInv'
  BY <1>2, RunPreserves, HostPreserves, StutterPreserves DEF Next
<1> QED BY <1>1, <1>2, PTL DEF SafeSpec

(* The only way for reset() to rewrite the registers under a run() is that *)
(* run() had been called and not begun when its stop() looked: whoever     *)
(* joins, and else pauses, stops and resets at any moment.                 *)
THEOREM ResetIsExclusive ==
  ASSUME Joins
  PROVE  SafeSpec => []ResetExcludesSteps
<1>1. RunInv => ResetExcludesSteps BY DEF RunInv
<1> QED BY <1>1, RunInvariant, PTL

(* run() never returns on account of a pause older than the run, of a host *)
(* that joins.                                                             *)
THEOREM ReturnsForAReason ==
  ASSUME Joins
  PROVE  SafeSpec => []NoSpuriousReturn
<1>1. RunInv => NoSpuriousReturn BY DEF RunInv
<1> QED BY <1>1, RunInvariant, PTL

(* No step but the first of a run executes the instruction at a            *)
(* breakpoint, of a host that joins, unless a reset() overtook the run.    *)
THEOREM BreakpointsHold ==
  ASSUME Joins
  PROVE  SafeSpec => BreakpointRespected
<1>1. RunInv /\ [Next]_vars =>
        [\A r \in Runners :
           (at[r] = "step" /\ at'[r] # "step") => pc \notin m_breakpoints \/ overtaken]_vars
  BY DEF RunInv, PastBreakpoint
<1> QED BY <1>1, RunInvariant, PTL DEF SafeSpec, BreakpointRespected
=============================================================================
