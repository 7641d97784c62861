------------------------- MODULE WinDebuggerProofs -------------------------
(***************************************************************************)
(* Safety of the Win32 debugger for any number of detached run threads and *)
(* any set of addresses, whatever is clicked and however the threads are   *)
(* scheduled.                                                              *)
(***************************************************************************)
EXTENDS WinDebugger, TLAPS

(* What holds whether or not a click was hasty, and what holds until one   *)
(* is.                                                                     *)
Always == WindowTypeOK /\ CallbackPlace /\ BusyMeansAsked
Calm ==
  OneRun /\ OwnFlags /\ StoppedByPause /\ EndShown /\ TrapSeen /\ ButtonsTellTheTruth

(* The invariant is made of these two parts.                               *)
LEMMA InvParts == WindowInv <=> Always /\ (~hasty => Calm)
  BY DEF WindowInv, Always, Calm, ButtonsTellTheTruth

(* A window that has just been created satisfies the invariant.            *)
LEMMA InitWindowInv == WindowInit => WindowInv
  BY RunControlAssumption
     DEF WindowInit, Init, WindowInv, WindowTypeOK, CallbackPlace, BusyMeansAsked, OneRun,
         OwnFlags, StoppedByPause, EndShown, TrapSeen, ButtonsTellTheTruth, Starting, InLoop,
         Ending, Label, Quiet, NoneStarting

-----------------------------------------------------------------------------
(* A run thread keeps the part that does not depend on hasty.              *)
LEMMA ThreadAlways ==
  ASSUME Always, NEW r \in Runners, thread(r)
  PROVE  Always' /\ hasty' = hasty
<1> USE WindowAssumption
    DEF Always, WindowTypeOK, CallbackPlace, BusyMeansAsked, InLoop, Ending, Label, Goto, At,
        flags, shared, vars, own, window
<1>1. CASE Loop(r)
  <2>1. hook[r] = "none" /\ UNCHANGED own
    BY <1>1 DEF Loop
  <2>2. CASE Enter(r) BY <2>1, <2>2 DEF Enter
  <2>3. CASE Clear(r) BY <2>1, <2>3 DEF Clear
  <2>4. CASE TestRunning(r) BY <2>1, <2>4 DEF TestRunning, AfterLoop
  <2>5. CASE TestStopping(r) BY <2>1, <2>5 DEF TestStopping, AfterLoop
  <2>6. CASE LeaveRunning(r) BY <2>1, <2>6 DEF LeaveRunning
  <2>7. CASE Leave(r) BY <2>1, <2>7 DEF Leave
  <2>8. CASE TestBreakpoint(r) BY <2>1, <2>8 DEF TestBreakpoint
  <2>9. CASE TestBreakpointRacing(r) BY <2>1, <2>9 DEF TestBreakpointRacing
  <2> QED BY <1>1, <2>2, <2>3, <2>4, <2>5, <2>6, <2>7, <2>8, <2>9 DEF Loop
<1>2. CASE Execute(r) BY <1>2 DEF Execute, Step, LoopTest
<1>3. CASE RecordPc(r) BY <1>3 DEF RecordPc
<1>4. CASE Trap(r) BY <1>4 DEF Trap
<1>5. CASE Breakpoint(r) BY <1>5 DEF Breakpoint
<1>6. CASE SendViews(r) BY <1>6 DEF SendViews
<1>7. CASE SendEnable(r) BY <1>7 DEF SendEnable
<1> QED BY <1>1, <1>2, <1>3, <1>4, <1>5, <1>6, <1>7 DEF thread

(* Until a hasty click, the run thread that makes a step is the only one.  *)
LEMMA Alone ==
  ASSUME Always, Calm, NEW r \in Runners, at[r] # "idle", NEW s \in Runners, s # r
  PROVE  at[s] = "idle" /\ hook[s] = "none"
  BY DEF Always, Calm, WindowTypeOK, OneRun, CallbackPlace

(* A run thread between its callbacks keeps the part that holds until a    *)
(* hasty click.                                                            *)
LEMMA LoopCalm ==
  ASSUME Always, Calm, NEW r \in Runners, Loop(r)
  PROVE  Calm'
<1> USE WindowAssumption
    DEF Always, Calm, WindowTypeOK, OneRun, OwnFlags, StoppedByPause, EndShown, TrapSeen,
        ButtonsTellTheTruth, CallbackPlace, BusyMeansAsked, Starting, InLoop, Ending, Label,
        Quiet, NoneStarting, Goto, flags, shared, own, window
<1>1. at[r] # "idle" /\ hook[r] = "none" /\ UNCHANGED own /\ UNCHANGED <<pc, m_breakpoints, host, asked>>
  BY DEF Loop, Enter, Clear, TestRunning, TestStopping, LeaveRunning, Leave, TestBreakpoint,
         TestBreakpointRacing
<1>2. \A s \in Runners : s # r => at[s] = "idle" /\ hook[s] = "none"
  BY <1>1, Alone
<1>3. host \notin {"insert", "resetSpin"}
  BY <1>1
<1> USE <1>1, <1>2, <1>3
<1>4. CASE Enter(r) BY <1>4 DEF Enter
<1>5. CASE Clear(r) BY <1>5 DEF Clear
<1>6. CASE TestRunning(r) BY <1>6 DEF TestRunning, AfterLoop
<1>7. CASE TestStopping(r) BY <1>7 DEF TestStopping, AfterLoop
<1>8. CASE LeaveRunning(r) BY <1>8 DEF LeaveRunning
<1>9. CASE Leave(r) BY <1>9 DEF Leave
<1>10. CASE TestBreakpoint(r) BY <1>10 DEF TestBreakpoint
<1> QED BY <1>4, <1>5, <1>6, <1>7, <1>8, <1>9, <1>10 DEF Loop

(* So do its step and its callbacks.                                       *)
LEMMA CallbackCalm ==
  ASSUME Always, Calm, NEW r \in Runners,
         \/ Execute(r) \/ RecordPc(r) \/ Trap(r) \/ Breakpoint(r) \/ SendViews(r) \/ SendEnable(r)
  PROVE  Calm'
<1> USE WindowAssumption
    DEF Always, Calm, WindowTypeOK, OneRun, OwnFlags, StoppedByPause, EndShown, TrapSeen,
        ButtonsTellTheTruth, CallbackPlace, BusyMeansAsked, Starting, InLoop, Ending, Label,
        Quiet, NoneStarting, Goto, At, flags, shared, window, vars
<1>1. at[r] # "idle" /\ UNCHANGED <<m_breakpoints, host, asked, hasty>>
  BY DEF Execute, Step, RecordPc, Trap, Breakpoint, SendViews, SendEnable
<1>2. \A s \in Runners : s # r => at[s] = "idle" /\ hook[s] = "none"
  BY <1>1, Alone
<1>3. host \notin {"insert", "resetSpin"}
  BY <1>1
<1> USE <1>1, <1>2, <1>3
<1>4. CASE Execute(r) BY <1>4 DEF Execute, Step, LoopTest
<1>5. CASE RecordPc(r) BY <1>5 DEF RecordPc
<1>6. CASE Trap(r) BY <1>6 DEF Trap
<1>7. CASE Breakpoint(r) BY <1>7 DEF Breakpoint
<1>8. CASE SendViews(r) BY <1>8 DEF SendViews
<1>9. CASE SendEnable(r) BY <1>9 DEF SendEnable
<1> QED BY <1>4, <1>5, <1>6, <1>7, <1>8, <1>9

-----------------------------------------------------------------------------
(* A click keeps the part that does not depend on hasty, and never takes   *)
(* hasty back.                                                             *)
LEMMA ClickAlways ==
  ASSUME Always, Click
  PROVE  Always' /\ (hasty => hasty')
<1> USE DEF Always, WindowTypeOK, CallbackPlace, BusyMeansAsked, InLoop, Ending, Label, Goto,
        UiGoto, flags, shared, window
<1>1. ASSUME NEW r \in Runners, ClickRun(r) PROVE Always' /\ (hasty => hasty')
  BY <1>1 DEF ClickRun
<1>2. ASSUME NEW p \in Addresses, ClickStep(p) PROVE Always' /\ (hasty => hasty')
  BY <1>2 DEF ClickStep
<1>3. ASSUME NEW p \in Addresses, DialogAdd(p) PROVE Always' /\ (hasty => hasty')
  BY <1>3 DEF DialogAdd
<1>4. CASE ClickPause BY <1>4 DEF ClickPause
<1>5. CASE ClickReset BY <1>5 DEF ClickReset
<1>6. CASE Close BY <1>6 DEF Close
<1> QED BY <1>1, <1>2, <1>3, <1>4, <1>5, <1>6 DEF Click

(* A click that is not hasty keeps the rest.                               *)
LEMMA ClickCalm ==
  ASSUME Always, Calm, Click, ~hasty'
  PROVE  Calm'
<1> USE WindowAssumption
    DEF Always, Calm, WindowTypeOK, OneRun, OwnFlags, StoppedByPause, EndShown, TrapSeen,
        ButtonsTellTheTruth, CallbackPlace, BusyMeansAsked, Starting, InLoop, Ending, Label,
        Quiet, NoneStarting, Goto, UiGoto, flags, shared, window
<1>1. ASSUME NEW r \in Runners, ClickRun(r) PROVE Calm'
  <2>1. \A s \in Runners : at[s] = "idle"
    BY <1>1 DEF ClickRun
  <2>2. \A s \in Runners : hook'[s] = "none"
    BY <1>1, <2>1 DEF ClickRun
  <2>3. \A s \in Runners : at'[s] = IF s = r THEN "enter" ELSE "idle"
    BY <1>1, <2>1 DEF ClickRun
  <2>4. host' = "ready" /\ buttons' = "running" /\ asked' = FALSE
    BY <1>1 DEF ClickRun
  <2>5. trapped'[r] = FALSE
    BY <1>1 DEF ClickRun
  <2>6. OneRun' /\ OwnFlags'
    BY <2>3, <2>4, <2>5
  <2>7. StoppedByPause' /\ ButtonsTellTheTruth'
    BY <2>4
  <2>8. EndShown' /\ TrapSeen'
    BY <2>2, <2>3, <2>5
  <2> QED BY <2>6, <2>7, <2>8
<1>2. ASSUME NEW p \in Addresses, ClickStep(p) PROVE Calm'
  BY <1>2 DEF ClickStep
<1>3. ASSUME NEW p \in Addresses, DialogAdd(p) PROVE Calm'
  BY <1>3 DEF DialogAdd
<1>4. CASE ClickPause BY <1>4 DEF ClickPause
<1>5. CASE ClickReset BY <1>5 DEF ClickReset
<1>6. CASE Close BY <1>6 DEF Close
<1> QED BY <1>1, <1>2, <1>3, <1>4, <1>5, <1>6 DEF Click

(* The rest of a handler on the window's thread keeps everything.          *)
LEMMA HandlerPreserves ==
  ASSUME Always, ~hasty => Calm, Handler
  PROVE  Always' /\ (~hasty' => Calm')
<1> USE RunControlAssumption
    DEF Always, Calm, WindowTypeOK, OneRun, OwnFlags, StoppedByPause, EndShown, TrapSeen,
        ButtonsTellTheTruth, CallbackPlace, BusyMeansAsked, Quiet, NoneStarting, UiGoto, flags,
        shared, own, window
<1>1. CASE PauseShow BY <1>1 DEF PauseShow
<1>2. CASE ResetStart BY <1>2 DEF ResetStart
<1>3. CASE CloseStopped BY <1>3 DEF CloseStopped
<1>4. CASE DialogDone BY <1>4 DEF DialogDone
<1> QED BY <1>1, <1>2, <1>3, <1>4 DEF Handler

(* A stuttering step.                                                      *)
LEMMA StutterPreserves ==
  ASSUME WindowInv, UNCHANGED allVars
  PROVE  WindowInv'
  BY DEF allVars, vars, own, window, WindowInv, WindowTypeOK, OneRun, OwnFlags, StoppedByPause,
         EndShown, TrapSeen, ButtonsTellTheTruth, CallbackPlace, BusyMeansAsked, Quiet, NoneStarting

(* The inductive invariant holds in every state of the Win32 debugger.     *)
THEOREM WindowInvariant == WindowSpec => []WindowInv
<1>1. WindowInit => WindowInv BY InitWindowInv
<1>2. ASSUME WindowInv, [WindowNext]_allVars PROVE WindowInv'
  <2>1. Always /\ (~hasty => Calm)
    BY <1>2, InvParts
  <2>2. CASE Click
    <3>1. Always' /\ (hasty => hasty') BY <2>1, <2>2, ClickAlways
    <3>2. ~hasty' => Calm' BY <2>1, <2>2, <3>1, ClickCalm
    <3> QED BY <3>1, <3>2, InvParts, PTL
  <2>3. CASE Handler
    <3>1. Always' /\ (~hasty' => Calm') BY <2>1, <2>3, HandlerPreserves
    <3> QED BY <3>1, InvParts, PTL
  <2>4. ASSUME NEW r \in Runners, thread(r) PROVE WindowInv'
    <3>1. Always' /\ hasty' = hasty BY <2>1, <2>4, ThreadAlways
    <3>2. ~hasty' => Calm' BY <2>1, <2>4, <3>1, LoopCalm, CallbackCalm DEF thread
    <3> QED BY <3>1, <3>2, InvParts, PTL
  <2> QED BY <1>2, <2>2, <2>3, <2>4, StutterPreserves DEF WindowNext
<1> QED BY <1>1, <1>2, PTL DEF WindowSpec

(* Enabled Run, Step and Reset buttons mean that the run there was is      *)
(* leaving its loop.                                                       *)
THEOREM ButtonsAreTrue == WindowSpec => []ButtonsTellTheTruth
<1>1. WindowInv => ButtonsTellTheTruth BY DEF WindowInv
<1> QED BY <1>1, WindowInvariant, PTL

(* A run whose callback has seen a trap executes no further instruction.   *)
THEOREM TrapsStop == WindowSpec => []TrapStops
<1>1. WindowInv => TrapStops BY DEF WindowInv, TrapStops, TrapSeen
<1> QED BY <1>1, WindowInvariant, PTL

(* After a run that ended by itself the views show the registers it ended  *)
(* with.                                                                   *)
THEOREM ViewsAreCurrent == WindowSpec => []ViewsCurrent
<1>1. WindowInv => ViewsCurrent BY DEF WindowInv, ViewsCurrent, EndShown
<1> QED BY <1>1, WindowInvariant, PTL
=============================================================================
