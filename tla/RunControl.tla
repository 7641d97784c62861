----------------------------- MODULE RunControl -----------------------------
(***************************************************************************)
(* Running and stopping a processor from another thread: DebugProcessor's  *)
(* and Processor's run(), pause() and resume(), and the stop(), reset()    *)
(* and start() of I6502Emulator.  The flags m_running and m_stopping are   *)
(* atomics; each action makes at most one access to one of them.           *)
(*                                                                         *)
(* Threads are the host's (architecture.md, "Threading"): runners execute  *)
(* run(), one host thread controls them.  What step() does is abstracted   *)
(* to where it leaves the program counter.  start() is start(false), as    *)
(* the debuggers call it; start(true), which goes on to run() on the       *)
(* caller's own thread, is left out.                                       *)
(***************************************************************************)
EXTENDS Naturals

CONSTANTS
  Runners,     \* threads that may execute run()
  Addresses,   \* values of the program counter
  ResetPc,     \* the reset vector
  Debug,       \* is the processor a DebugProcessor?
  Joins        \* the host joins the last runner before it launches a run

ASSUME RunControlAssumption ==
  /\ ResetPc \in Addresses
  /\ Debug \in BOOLEAN /\ Joins \in BOOLEAN

VARIABLES
  m_running, m_stopping, m_breakpoints, pc,
  at,          \* where each runner is in run(), "idle" outside
  host,        \* where the host thread is
  asked,       \* history: a pause was asked for since run() was last called
  overtaken    \* history: the last reset() got past stop() ahead of run()

vars == <<m_running, m_stopping, m_breakpoints, pc, at, host, asked, overtaken>>
flags == <<m_running, m_stopping>>
shared == <<m_breakpoints, pc>>

InLoop == {"first", "breakpoint", "running", "stopping", "step"}
Ending == {"report", "tail", "end"}
Label == {"idle", "enter", "clear"} \cup InLoop \cup Ending

-----------------------------------------------------------------------------
(* run(), one action per access to shared state.                           *)
Goto(r, from, to) == at[r] = from /\ at' = [at EXCEPT ![r] = to]
LoopTest == IF Debug THEN "breakpoint" ELSE "running"

Enter(r) ==
  /\ Goto(r, "enter", "clear")
  /\ m_running' = TRUE
  /\ UNCHANGED <<m_stopping, shared, host, asked, overtaken>>

ClearForgotten(r) ==
  /\ Goto(r, "clear", IF Debug THEN "first" ELSE "running")
  /\ UNCHANGED <<flags, shared, host, asked, overtaken>>
Clear(r) ==
  /\ Goto(r, "clear", IF Debug THEN "first" ELSE "running")
  /\ m_stopping' = FALSE
  /\ UNCHANGED <<m_running, shared, host, asked, overtaken>>

(* DebugProcessor::run() steps once before it looks at the breakpoints.    *)
Step(r) ==
  /\ at[r] \in {"first", "step"}
  /\ at' = [at EXCEPT ![r] = LoopTest]
  /\ pc' \in Addresses
  /\ UNCHANGED <<flags, m_breakpoints, host, asked, overtaken>>

TestBreakpointNever(r) ==
  /\ Goto(r, "breakpoint", "running")
  /\ UNCHANGED <<flags, shared, host, asked, overtaken>>
TestBreakpoint(r) ==
  /\ Goto(r, "breakpoint", IF pc \in m_breakpoints THEN "report" ELSE "running")
  /\ UNCHANGED <<flags, shared, host, asked, overtaken>>

(* The search of m_breakpoints while another thread inserts into it is a   *)
(* data race that may find anything.  Both debuggers can get there.        *)
TestBreakpointRacing(r) ==
  /\ at[r] = "breakpoint"
  /\ \E to \in {"report", "running"} : at' = [at EXCEPT ![r] = to]
  /\ UNCHANGED <<flags, shared, host, asked, overtaken>>

AfterLoop == IF Debug THEN "report" ELSE "tail"

TestRunning(r) ==
  /\ Goto(r, "running", IF m_running THEN "stopping" ELSE AfterLoop)
  /\ UNCHANGED <<flags, shared, host, asked, overtaken>>

TestStoppingNever(r) ==
  /\ Goto(r, "stopping", "step")
  /\ UNCHANGED <<flags, shared, host, asked, overtaken>>
TestStopping(r) ==
  /\ Goto(r, "stopping", IF m_stopping THEN AfterLoop ELSE "step")
  /\ UNCHANGED <<flags, shared, host, asked, overtaken>>

(* The second look at the breakpoints and the callback, which only tells   *)
(* the host.                                                               *)
Report(r) ==
  /\ Goto(r, "report", "tail")
  /\ UNCHANGED <<flags, shared, host, asked, overtaken>>

LeaveRunningForgotten(r) ==
  /\ Goto(r, "tail", "end")
  /\ UNCHANGED <<flags, shared, host, asked, overtaken>>
LeaveRunning(r) ==
  /\ Goto(r, "tail", "end")
  /\ m_running' = FALSE
  /\ UNCHANGED <<m_stopping, shared, host, asked, overtaken>>

Leave(r) ==
  /\ Goto(r, "end", "idle")
  /\ m_stopping' = FALSE
  /\ UNCHANGED <<m_running, shared, host, asked, overtaken>>

run(r) ==
  \/ Enter(r) \/ Clear(r) \/ Step(r)
  \/ TestBreakpoint(r) \/ TestRunning(r) \/ TestStopping(r)
  \/ Report(r) \/ LeaveRunning(r) \/ Leave(r)

-----------------------------------------------------------------------------
(* The host thread.                                                        *)
Idle == \A r \in Runners : at[r] = "idle"

(* A thread that calls run() or resume(), which is the same.               *)
LaunchNotJoined(r) ==
  /\ host = "ready" /\ Goto(r, "idle", "enter")
  /\ asked' = FALSE /\ overtaken' = FALSE
  /\ UNCHANGED <<flags, shared, host>>
Launch(r) ==
  /\ host = "ready" /\ Goto(r, "idle", "enter")
  /\ Joins => Idle
  /\ asked' = FALSE /\ overtaken' = FALSE
  /\ UNCHANGED <<flags, shared, host>>

pause ==
  /\ host = "ready"
  /\ m_stopping' = TRUE /\ asked' = TRUE
  /\ UNCHANGED <<m_running, shared, at, host, overtaken>>

(* stop(), and the stop() that reset() begins with: pause(), then spin on  *)
(* isRunning(), which is still false for a run() that has been called and  *)
(* has not set m_running yet.                                              *)
stopDoesNotWait ==
  /\ host = "ready"
  /\ m_stopping' = TRUE /\ asked' = TRUE
  /\ host' \in {"ready", "start"}
  /\ UNCHANGED <<m_running, shared, at, overtaken>>
stop ==
  /\ host = "ready"
  /\ m_stopping' = TRUE /\ asked' = TRUE
  /\ host' \in {"stop", "reset"}
  /\ UNCHANGED <<m_running, shared, at, overtaken>>

StopReturn ==
  /\ host \in {"stop", "reset"} /\ ~m_running
  /\ host' = IF host = "stop" THEN "ready" ELSE "start"
  /\ overtaken' = (host = "reset" /\ \E r \in Runners : at[r] = "enter")
  /\ UNCHANGED <<flags, shared, at, asked>>

(* start(false): the registers are rewritten.                              *)
start ==
  /\ host = "start" /\ host' = "ready"
  /\ pc' = ResetPc
  /\ UNCHANGED <<flags, m_breakpoints, at, asked, overtaken>>

(* The set of breakpoints is not thread-safe: a host edits it only while   *)
(* no runner is in run().                                                  *)
addBreakpoint(ad) ==
  /\ Debug /\ host = "ready" /\ Idle
  /\ m_breakpoints' = m_breakpoints \cup {ad}
  /\ UNCHANGED <<flags, pc, at, host, asked, overtaken>>

removeBreakpoint(ad) ==
  /\ Debug /\ host = "ready" /\ Idle /\ ad \in m_breakpoints
  /\ m_breakpoints' = m_breakpoints \ {ad}
  /\ UNCHANGED <<flags, pc, at, host, asked, overtaken>>

clearBreakpoints ==
  /\ Debug /\ host = "ready" /\ Idle
  /\ m_breakpoints' = {}
  /\ UNCHANGED <<flags, pc, at, host, asked, overtaken>>

-----------------------------------------------------------------------------
Init ==
  /\ m_running = FALSE /\ m_stopping = FALSE
  /\ m_breakpoints = {} /\ pc = ResetPc
  /\ at = [r \in Runners |-> "idle"]
  /\ host = "ready" /\ asked = FALSE /\ overtaken = FALSE

Next ==
  \/ \E r \in Runners : run(r) \/ Launch(r)
  \/ pause \/ stop \/ StopReturn \/ start
  \/ \E ad \in Addresses : addBreakpoint(ad) \/ removeBreakpoint(ad)
  \/ clearBreakpoints

(* Each runner is a thread that the system schedules again and again, and  *)
(* so is the host while it is inside stop() or reset().                    *)
Fairness ==
  /\ \A r \in Runners : WF_vars(run(r))
  /\ WF_vars(StopReturn) /\ WF_vars(start)

SafeSpec == Init /\ [][Next]_vars
Spec == SafeSpec /\ Fairness

-----------------------------------------------------------------------------
TypeOK ==
  /\ m_running \in BOOLEAN /\ m_stopping \in BOOLEAN
  /\ asked \in BOOLEAN /\ overtaken \in BOOLEAN
  /\ m_breakpoints \subseteq Addresses /\ pc \in Addresses
  /\ at \in [Runners -> Label]
  /\ host \in {"ready", "stop", "reset", "start"}

(* reset() rewrites the registers while some run() could still touch them  *)
(* only if that run() had been called and not begun when the stop() in     *)
(* reset() looked at m_running: in all other interleavings stop() has      *)
(* really stopped it.                                                      *)
Stopped == \A r \in Runners : at[r] \in {"idle", "end"}
ResetExcludesSteps == host = "start" /\ ~overtaken => Stopped

(* run() returns for a reason: a pause asked for during this very run, not *)
(* one left over from before it, or a breakpoint.                          *)
NoSpuriousReturn ==
  \A r \in Runners : at[r] \in {"report", "tail"} => asked \/ pc \in m_breakpoints

(* Only the first step of a run may execute the instruction at a           *)
(* breakpoint, unless a reset() that overtook the run moved pc between the *)
(* search of m_breakpoints and the step.                                   *)
BreakpointRespected ==
  [][\A r \in Runners :
       (at[r] = "step" /\ at'[r] # "step") => pc \notin m_breakpoints \/ overtaken]_vars

(* Why they hold, as an inductive invariant of a host that joins: one run  *)
(* at a time, m_running says whether it is between its first and its last  *)
(* write, a host inside stop() or reset() has asked for a pause,           *)
(* m_stopping seen inside the loop is this run's, and the loop is never    *)
(* past a breakpoint.                                                      *)
OneRun == \A r, s \in Runners : at[r] # "idle" /\ at[s] # "idle" => r = s
RunningFlag ==
  m_running <=> \E r \in Runners : at[r] \notin {"idle", "enter", "end"}
AskedWhileBusy == host # "ready" => asked
OwnPause == \A r \in Runners : m_stopping /\ at[r] \in InLoop => asked
PastBreakpoint ==
  \A r \in Runners :
    at[r] \in {"running", "stopping", "step"} => pc \notin m_breakpoints \/ overtaken
NoBreakpoints == ~Debug => m_breakpoints = {} /\ \A r \in Runners : at[r] # "report"

RunInv ==
  /\ TypeOK /\ OneRun /\ RunningFlag /\ AskedWhileBusy
  /\ OwnPause /\ PastBreakpoint /\ NoBreakpoints
  /\ ResetExcludesSteps /\ NoSpuriousReturn

(* "Ask the processor to pause and spin until it has actually stopped"     *)
(* (I6502Emulator.h): stop() returns, and then no thread is anywhere in    *)
(* run() from which it could still touch the registers.  It fails while    *)
(* run() is starting: before m_running is set stop() returns at once, and  *)
(* a pause asked for before m_stopping is cleared is erased.               *)
StopHasStopped == (host \in {"stop", "reset"}) ~> (host \in {"ready", "start"} /\ Stopped)

(* The erasure is the only way for stop() not to return: it does, or a     *)
(* thread is in the loop of run() with nothing left that asks it to leave. *)
Erased == ~m_stopping /\ \E r \in Runners : at[r] \in InLoop
StopReturnsUnlessErased ==
  (host \in {"stop", "reset"}) ~> (host \in {"ready", "start"} \/ Erased)

(* A pause that is set while run() is in its loop makes run() return.      *)
PauseObeyed == \A r \in Runners : (m_stopping /\ at[r] \in InLoop) ~> (at[r] = "idle")
=============================================================================
