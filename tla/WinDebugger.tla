----------------------------- MODULE WinDebugger -----------------------------
(***************************************************************************)
(* The Win32 debugger: the window's thread handles one message at a time,  *)
(* each click on Run detaches a thread that executes DebugProcessor::run() *)
(* (RunControl), and the callbacks on that thread update the window with   *)
(* SendMessage, which returns only after the window's thread has taken the *)
(* message.  RunControl's host is the window's thread; "ready" is its      *)
(* message loop, that of the breakpoint dialog included.                   *)
(***************************************************************************)
EXTENDS RunControl

ASSUME WindowAssumption == Debug

VARIABLES
  buttons,     \* "stopped": Run, Step, Reset enabled; "running": Pause enabled
  shown,       \* the program counter that the views show
  previousPc,  \* previousPcs[0]; nothing but the listing depends on the others
  hook,        \* where each runner is in a callback, "none" outside
  trapped,     \* history: the runner's callback has seen a trap
  hasty        \* history: a click that a run still under way, or starting, can spoil

window == <<buttons, shown, previousPc>>
own == <<window, hook, trapped, hasty>>
allVars == <<vars, own>>

Starting == {"enter", "clear"}
At(r, from, to) == hook[r] = from /\ hook' = [hook EXCEPT ![r] = to]

-----------------------------------------------------------------------------
(* A run thread.                                                           *)
Loop(r) ==
  /\ hook[r] = "none"
  /\ \/ Enter(r) \/ Clear(r) \/ TestRunning(r) \/ TestStopping(r)
     \/ LeaveRunning(r) \/ Leave(r)
     \/ host # "insert" /\ TestBreakpoint(r)
     \/ host = "insert" /\ TestBreakpointRacing(r)
  /\ UNCHANGED own

Execute(r) ==
  /\ At(r, "none", "compare") /\ Step(r)
  /\ UNCHANGED <<window, trapped, hasty>>

(* runCallback(): an instruction that left pc alone is a trap, which       *)
(* pauses the processor and then updates the window.                       *)
RecordPc(r) ==
  /\ At(r, "compare", "none") /\ previousPc # pc
  /\ previousPc' = pc
  /\ UNCHANGED <<vars, buttons, shown, trapped, hasty>>

TrapShowsOnly(r) ==
  /\ At(r, "compare", "views") /\ previousPc = pc
  /\ trapped' = [trapped EXCEPT ![r] = TRUE]
  /\ UNCHANGED <<vars, window, hasty>>
Trap(r) ==
  /\ At(r, "compare", "views") /\ previousPc = pc
  /\ m_stopping' = TRUE
  /\ trapped' = [trapped EXCEPT ![r] = TRUE]
  /\ UNCHANGED <<m_running, shared, at, host, asked, overtaken, window, hasty>>

(* The breakpoint callback is setupStop().                                 *)
BreakpointSilent(r) ==
  /\ hook[r] = "none" /\ Goto(r, "report", "tail")
  /\ UNCHANGED <<flags, shared, host, asked, overtaken, own>>
Breakpoint(r) ==
  /\ Goto(r, "report", "tail")
  /\ \E found \in IF host = "insert" THEN BOOLEAN ELSE {pc \in m_breakpoints} :
       At(r, "none", IF found THEN "views" ELSE "none")
  /\ UNCHANGED <<flags, shared, host, asked, overtaken, window, trapped, hasty>>

(* setupStop() on a run thread: the views, then the buttons, each taken by *)
(* the window's thread when it is back in its message loop.                *)
SendViews(r) ==
  /\ host = "ready" /\ At(r, "views", "enable")
  /\ shown' = pc
  /\ UNCHANGED <<vars, buttons, previousPc, trapped, hasty>>
SendEnable(r) ==
  /\ host = "ready" /\ At(r, "enable", "none")
  /\ buttons' = "stopped"
  /\ UNCHANGED <<vars, shown, previousPc, trapped, hasty>>

thread(r) ==
  \/ Loop(r) \/ Execute(r) \/ RecordPc(r) \/ Trap(r) \/ Breakpoint(r)
  \/ SendViews(r) \/ SendEnable(r)

-----------------------------------------------------------------------------
(* The window's thread.                                                    *)
Quiet == \A r \in Runners : at[r] = "idle"
NoneStarting == \A r \in Runners : at[r] \notin Starting
UiGoto(from, to) == host = from /\ host' = to

(* Run: runToBreakpoint().                                                 *)
ClickRunLeavesButtons(r) ==
  /\ host = "ready" /\ buttons = "stopped" /\ Goto(r, "idle", "enter")
  /\ asked' = FALSE
  /\ trapped' = [trapped EXCEPT ![r] = FALSE]
  /\ hasty' = (hasty \/ ~Quiet)
  /\ UNCHANGED <<flags, shared, host, overtaken, window, hook>>
ClickRun(r) ==
  /\ host = "ready" /\ buttons = "stopped" /\ Goto(r, "idle", "enter")
  /\ buttons' = "running"
  /\ asked' = FALSE
  /\ trapped' = [trapped EXCEPT ![r] = FALSE]
  /\ hasty' = (hasty \/ ~Quiet)
  /\ UNCHANGED <<flags, shared, host, overtaken, shown, previousPc, hook>>

(* Step: an instruction and runCallback() on this thread, setupStop().     *)
ClickStep(p) ==
  /\ host = "ready" /\ buttons = "stopped"
  /\ pc' = p /\ previousPc' = p /\ shown' = p
  /\ m_stopping' = (m_stopping \/ previousPc = p)
  /\ hasty' = (hasty \/ ~Quiet)
  /\ UNCHANGED <<m_running, m_breakpoints, at, host, asked, overtaken, buttons, hook, trapped>>

(* Pause: pause(), no join, for the thread is detached, and setupStop().   *)
ClickPause ==
  /\ UiGoto("ready", "pauseShow") /\ buttons = "running"
  /\ m_stopping' = TRUE /\ asked' = TRUE
  /\ hasty' = (hasty \/ ~NoneStarting)
  /\ UNCHANGED <<m_running, shared, at, overtaken, window, hook, trapped>>
PauseShow ==
  /\ UiGoto("pauseShow", "ready")
  /\ shown' = pc /\ buttons' = "stopped"
  /\ UNCHANGED <<flags, shared, at, asked, overtaken, previousPc, hook, trapped, hasty>>

(* Reset, and WM_CLOSE: stop() spins on this thread.                       *)
ClickReset ==
  /\ UiGoto("ready", "resetSpin") /\ buttons = "stopped"
  /\ m_stopping' = TRUE /\ asked' = TRUE
  /\ hasty' = (hasty \/ ~Quiet)
  /\ UNCHANGED <<m_running, shared, at, overtaken, window, hook, trapped>>
ResetStart ==
  /\ UiGoto("resetSpin", "ready") /\ ~m_running
  /\ pc' = ResetPc /\ previousPc' = ResetPc
  /\ shown' = ResetPc /\ buttons' = "stopped"
  /\ UNCHANGED <<flags, m_breakpoints, at, asked, overtaken, hook, trapped, hasty>>

Close ==
  /\ UiGoto("ready", "closeSpin")
  /\ m_stopping' = TRUE /\ asked' = TRUE
  /\ hasty' = (hasty \/ ~NoneStarting)
  /\ UNCHANGED <<m_running, shared, at, overtaken, window, hook, trapped>>
CloseStopped ==
  /\ UiGoto("closeSpin", "gone") /\ ~m_running
  /\ UNCHANGED <<flags, shared, at, asked, overtaken, own>>

(* OK in the breakpoint dialog, at any time.                               *)
DialogAdd(ad) ==
  /\ UiGoto("ready", "insert")
  /\ m_breakpoints' = m_breakpoints \cup {ad}
  /\ hasty' = (hasty \/ ~Quiet)
  /\ UNCHANGED <<flags, pc, at, asked, overtaken, window, hook, trapped>>
DialogDone ==
  /\ UiGoto("insert", "ready")
  /\ UNCHANGED <<flags, shared, at, asked, overtaken, own>>

Click ==
  \/ \E r \in Runners : ClickRun(r)
  \/ \E p \in Addresses : ClickStep(p) \/ DialogAdd(p)
  \/ ClickPause \/ ClickReset \/ Close
Handler == PauseShow \/ ResetStart \/ CloseStopped \/ DialogDone

-----------------------------------------------------------------------------
(* WM_CREATE ends with setupStop().                                        *)
WindowInit ==
  /\ Init
  /\ buttons = "stopped" /\ shown = ResetPc /\ previousPc = ResetPc
  /\ hook = [r \in Runners |-> "none"]
  /\ trapped = [r \in Runners |-> FALSE] /\ hasty = FALSE

WindowNext == Click \/ Handler \/ \E r \in Runners : host # "gone" /\ thread(r)

(* All threads are scheduled again and again; nobody has to click.         *)
WindowSpec ==
  /\ WindowInit /\ [][WindowNext]_allVars
  /\ WF_allVars(Handler)
  /\ \A r \in Runners : WF_allVars(host # "gone" /\ thread(r))

-----------------------------------------------------------------------------
(* Until a click has come while a run was starting or under way: when Run, *)
(* Step and Reset are enabled, the run there was is leaving its loop.      *)
ButtonsTellTheTruth ==
  ~hasty /\ buttons = "stopped" =>
    \A r \in Runners : at[r] \notin Starting /\ (at[r] \in InLoop => m_stopping)

(* Trap detection works: a run whose callback has seen pc stand still      *)
(* executes no further instruction.                                        *)
TrapStops == \A r \in Runners : ~hasty /\ trapped[r] => at[r] # "step"

(* When a run has ended by itself, at a breakpoint or a trap, the views    *)
(* show the registers it ended with.                                       *)
ViewsCurrent == ~hasty /\ ~asked /\ Quiet /\ host = "ready" => shown = pc

(* Why they hold, as an inductive invariant.  Always: a callback belongs   *)
(* to the end of a step or to the report of a breakpoint, and the window's *)
(* thread is busy with a pause or a stop only when one was asked for.      *)
WindowTypeOK ==
  /\ m_running \in BOOLEAN /\ m_stopping \in BOOLEAN /\ asked \in BOOLEAN
  /\ m_breakpoints \subseteq Addresses /\ pc \in Addresses
  /\ at \in [Runners -> Label] /\ overtaken \in BOOLEAN
  /\ host \in {"ready", "pauseShow", "resetSpin", "closeSpin", "insert", "gone"}
  /\ buttons \in {"stopped", "running"} /\ shown \in Addresses /\ previousPc \in Addresses
  /\ hook \in [Runners -> {"none", "compare", "views", "enable"}]
  /\ trapped \in [Runners -> BOOLEAN] /\ hasty \in BOOLEAN

CallbackPlace ==
  \A r \in Runners :
    /\ hook[r] = "compare" => at[r] = "breakpoint"
    /\ hook[r] \in {"views", "enable"} => at[r] = "tail" \/ (at[r] = "breakpoint" /\ trapped[r])
BusyMeansAsked == host \notin {"ready", "insert"} => asked

(* Until a hasty click: there is one run, m_running and m_stopping are its *)
(* own, the window's thread is in the way of none, and whatever ends the   *)
(* run leaves the views at pc before it ends.                              *)
OwnFlags ==
  \A r \in Runners :
    /\ at[r] \notin {"idle", "enter", "end"} => m_running
    /\ at[r] \in Starting => ~asked
    /\ at[r] \in Starting \cup {"first"} => ~trapped[r]
    /\ at[r] \in InLoop => (m_stopping <=> asked \/ trapped[r])
StoppedByPause ==
  /\ host = "pauseShow" => NoneStarting
  /\ host \in {"insert", "resetSpin"} => Quiet
EndShown ==
  ~asked =>
    /\ Quiet => shown = pc
    /\ \A r \in Runners :
         /\ at[r] = "report" => trapped[r] \/ pc \in m_breakpoints
         /\ at[r] \in {"tail", "end"} \/ (at[r] # "idle" /\ trapped[r])
              => hook[r] = "views" \/ shown = pc
TrapSeen == \A r \in Runners : trapped[r] => at[r] # "step" /\ hook[r] # "compare"

WindowInv ==
  /\ WindowTypeOK /\ CallbackPlace /\ BusyMeansAsked
  /\ ~hasty => OneRun /\ OwnFlags /\ StoppedByPause /\ EndShown /\ TrapSeen
  /\ ButtonsTellTheTruth

(* Reset and closing come back from stop(), unless the run thread is       *)
(* itself waiting for this thread to take a message, or nobody asks it to  *)
(* stop any more, which takes a hasty click.                               *)
MutualWait ==
  host \in {"resetSpin", "closeSpin"} /\ \E r \in Runners : hook[r] \in {"views", "enable"}
Runaway == hasty /\ ~m_stopping /\ m_running
SpinEnds ==
  (host \in {"resetSpin", "closeSpin"}) ~> (host \in {"ready", "gone"} \/ MutualWait \/ Runaway)
=============================================================================
