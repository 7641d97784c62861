--------------------------- MODULE LinuxDebugger ---------------------------
(***************************************************************************)
(* The ncurses debugger: one interface thread that reads keys and draws,   *)
(* one run thread at a time, joined before the next is created.  The run   *)
(* thread executes DebugProcessor::run() as RunControl describes it, with  *)
(* the debugger's two callbacks; RunControl's host is the interface        *)
(* thread.  The debugger adds a flag of its own, running, and a mutex,     *)
(* emuMutex, which is not recursive.                                       *)
(***************************************************************************)
EXTENDS RunControl, Sequences

CONSTANTS
  HistInit,    \* entries of the history after a reset (6 in the code)
  HistMax      \* the most entries it may have (10 in the code)

ASSUME DebuggerAssumption ==
  /\ Debug
  /\ \E t \in Runners : Runners = {t}    \* runThread, the one thread object
  /\ HistInit \in Nat \ {0} /\ HistMax \in Nat /\ HistInit <= HistMax

VARIABLES
  running, emuMutex,
  previousPcs, \* history of the program counter, newest first
  hook,        \* where the run thread is in runCallback(), "none" outside
  alive,       \* the run thread exists and has not ended
  quit,        \* q was pressed
  hasty        \* history: a key came while the run thread was starting or ending

own == <<running, emuMutex, previousPcs, hook, alive, quit, hasty>>
allVars == <<vars, own>>
engine == <<flags, shared, at, asked, overtaken>>    \* RunControl's, but for host

Starting == {"enter", "clear"}
NewHistory(p) == [i \in 1 .. HistInit |-> p]

-----------------------------------------------------------------------------
(* The run thread.  Between its callbacks it is RunControl's runner.       *)
Loop(r) ==
  /\ hook = "none"
  /\ \/ Enter(r) \/ Clear(r) \/ TestRunning(r) \/ TestStopping(r)
     \/ LeaveRunning(r) \/ Leave(r)
     \/ host # "insert" /\ TestBreakpoint(r)
     \/ host = "insert" /\ TestBreakpointRacing(r)
  /\ UNCHANGED own

Execute(r) ==
  /\ hook = "none" /\ Step(r)
  /\ hook' = "compare"
  /\ UNCHANGED <<running, emuMutex, previousPcs, alive, quit, hasty>>

(* runCallback(): the comparison is outside the lock.                      *)
Compare ==
  /\ hook = "compare"
  /\ hook' = IF previousPcs[1] # pc THEN "insert" ELSE "none"
  /\ UNCHANGED <<vars, running, emuMutex, previousPcs, alive, quit, hasty>>

CappedLate(s) == SubSeq(s, 1, IF Len(s) > HistMax + 1 THEN HistMax ELSE Len(s))
Capped(s) == SubSeq(s, 1, IF Len(s) > HistMax THEN HistMax ELSE Len(s))

InsertMayAlways == TRUE
InsertMay == emuMutex = "free"
Insert ==
  /\ hook = "insert" /\ InsertMay
  /\ previousPcs' = Capped(<<pc>> \o previousPcs) /\ hook' = "none"
  /\ UNCHANGED <<vars, running, emuMutex, alive, quit, hasty>>

(* The second search, which may race too, and stopCallback().              *)
stopCallback(r) ==
  /\ hook = "none" /\ Goto(r, "report", "tail")
  /\ \E found \in IF host = "insert" THEN BOOLEAN ELSE {pc \in m_breakpoints} :
       running' = (running /\ ~found)
  /\ UNCHANGED <<flags, shared, host, asked, overtaken, emuMutex, previousPcs, hook, alive,
                 quit, hasty>>

(* processor->run() has returned: running = false and the thread ends.     *)
ThreadEnd(r) ==
  /\ alive /\ at[r] = "idle"
  /\ running' = FALSE /\ alive' = FALSE
  /\ UNCHANGED <<vars, emuMutex, previousPcs, hook, quit, hasty>>

thread(r) ==
  \/ Loop(r) \/ Execute(r) \/ Compare \/ Insert
  \/ stopCallback(r) \/ ThreadEnd(r)

-----------------------------------------------------------------------------
(* The interface thread: a key, what its handler does, and the drawing.    *)
UiGoto(from, to) == host = from /\ host' = to

KeyNone == UiGoto("ready", "render") /\ UNCHANGED <<engine, own>>
KeyStep ==
  UiGoto("ready", IF running THEN "render" ELSE "stepLock") /\ UNCHANGED <<engine, own>>
KeyRunPause ==
  UiGoto("ready", IF running THEN "pause" ELSE "run") /\ UNCHANGED <<engine, own>>
KeyReset == UiGoto("ready", "resetPause") /\ UNCHANGED <<engine, own>>
KeyQuit ==
  /\ UiGoto("ready", "render") /\ quit' = TRUE
  /\ UNCHANGED <<engine, running, emuMutex, previousPcs, hook, alive, hasty>>

KeyBreakpoint(ad) ==
  /\ UiGoto("ready", "insert")
  /\ m_breakpoints' = m_breakpoints \cup {ad}
  /\ UNCHANGED <<flags, pc, at, asked, overtaken, own>>

InsertDone == UiGoto("insert", "render") /\ UNCHANGED <<engine, own>>

Lock(from, to) ==
  /\ UiGoto(from, to)
  /\ emuMutex = "free" /\ emuMutex' = "ui"
  /\ UNCHANGED <<running, previousPcs, hook, alive, quit, hasty>>
Unlock(from, to) ==
  /\ UiGoto(from, to)
  /\ emuMutex' = "free"
  /\ UNCHANGED <<engine, running, previousPcs, hook, alive, quit, hasty>>

(* step(): the mutex is held around processor->step(), which calls         *)
(* runCallback() on this thread, and around another runCallback().  From   *)
(* "relock" there is no way on: the thread waits for a mutex it holds.     *)
StepLock == Lock("stepLock", "stepExecute") /\ UNCHANGED engine
StepExecute ==
  /\ UiGoto("stepExecute", "stepHook")
  /\ pc' \in Addresses
  /\ UNCHANGED <<flags, m_breakpoints, at, asked, overtaken, own>>

StepCallback ==
  /\ \E hop \in {<<"stepHook", "stepUpdate">>, <<"stepUpdate", "stepUnlock">>} :
       UiGoto(hop[1], IF previousPcs[1] # pc THEN "relock" ELSE hop[2])
  /\ UNCHANGED <<engine, own>>

StepUnlock == Unlock("stepUnlock", "render")

(* run(): the flag is set before the old thread is joined.                 *)
Run ==
  /\ UiGoto("run", "runJoin")
  /\ running' = TRUE
  /\ hasty' = (hasty \/ alive)
  /\ UNCHANGED <<engine, emuMutex, previousPcs, hook, alive, quit>>

RunJoin(r) ==
  /\ UiGoto("runJoin", "render")
  /\ ~alive /\ alive' = TRUE
  /\ Goto(r, "idle", "enter")
  /\ asked' = FALSE
  /\ UNCHANGED <<flags, shared, overtaken, running, emuMutex, previousPcs, hook, quit, hasty>>

(* pause() of the debugger, alone or at the start of reset(), and the      *)
(* stop() of its destructor: processor->pause(), then a join.              *)
PauseThenJoin ==
  {<<"pause", "pauseJoin">>, <<"resetPause", "resetJoin">>, <<"quitPause", "quitJoin">>}
Pause ==
  /\ \E hop \in PauseThenJoin : UiGoto(hop[1], hop[2])
  /\ m_stopping' = TRUE /\ asked' = TRUE
  /\ hasty' = (hasty \/ \E r \in Runners : at[r] \in Starting)
  /\ UNCHANGED <<m_running, shared, at, overtaken, running, emuMutex, previousPcs, hook, alive,
                 quit>>

JoinedAlways == TRUE
Joined == ~alive
JoinThen == {<<"pauseJoin", "render">>, <<"resetJoin", "resetLock">>}
Join ==
  /\ \E hop \in JoinThen : UiGoto(hop[1], hop[2])
  /\ Joined /\ running' = FALSE
  /\ UNCHANGED <<engine, emuMutex, previousPcs, hook, alive, quit, hasty>>

QuitJoin == UiGoto("quitJoin", "gone") /\ Joined /\ UNCHANGED <<engine, own>>

(* reset(), once paused: the lock, stop(), start(false), a new history.    *)
ResetLock ==
  /\ Lock("resetLock", "resetSpin")
  /\ m_stopping' = TRUE
  /\ UNCHANGED <<m_running, shared, at, asked, overtaken>>

ResetHistoryKept == previousPcs
ResetHistory == NewHistory(ResetPc)
ResetStart ==
  /\ UiGoto("resetSpin", "render") /\ ~m_running
  /\ pc' = ResetPc /\ previousPcs' = ResetHistory
  /\ emuMutex' = "free"
  /\ UNCHANGED <<flags, m_breakpoints, at, asked, overtaken, running, hook, alive, quit, hasty>>

RenderLock == Lock("render", "draw") /\ UNCHANGED engine
RenderDone == Unlock("draw", IF quit THEN "quitPause" ELSE "ready")

Key ==
  \/ KeyNone \/ KeyStep \/ KeyRunPause \/ KeyReset \/ KeyQuit
  \/ \E ad \in Addresses : KeyBreakpoint(ad)

Handler(r) ==
  \/ InsertDone \/ StepLock \/ StepExecute \/ StepCallback \/ StepUnlock
  \/ Run \/ RunJoin(r) \/ Pause \/ Join \/ QuitJoin
  \/ ResetLock \/ ResetStart \/ RenderLock \/ RenderDone

-----------------------------------------------------------------------------
DebuggerInit ==
  /\ Init
  /\ running = FALSE /\ emuMutex = "free"
  /\ previousPcs = NewHistory(ResetPc) /\ hook = "none"
  /\ alive = FALSE /\ quit = FALSE /\ hasty = FALSE

DebuggerNext == Key \/ \E r \in Runners : thread(r) \/ Handler(r)

(* Both threads are scheduled again and again; nobody has to press a key.  *)
DebuggerSpec ==
  /\ DebuggerInit /\ [][DebuggerNext]_allVars
  /\ \A r \in Runners : WF_allVars(thread(r)) /\ WF_allVars(Handler(r))

-----------------------------------------------------------------------------
UiLabel == {"ready", "render", "draw", "insert", "stepLock", "stepExecute", "stepHook",
            "stepUpdate", "stepUnlock", "relock", "run", "runJoin", "pause", "pauseJoin",
            "resetPause", "resetJoin", "resetLock", "resetSpin", "quitPause", "quitJoin", "gone"}
Holding == {"draw", "stepExecute", "stepHook", "stepUpdate", "stepUnlock", "relock", "resetSpin"}
Driving(r) == at[r] \in Starting \cup InLoop \/ hook # "none"

Histories == UNION {[1 .. n -> Addresses] : n \in HistInit .. HistMax}

DebuggerTypeOK ==
  /\ m_running \in BOOLEAN /\ m_stopping \in BOOLEAN /\ asked \in BOOLEAN
  /\ overtaken \in BOOLEAN
  /\ m_breakpoints \subseteq Addresses /\ pc \in Addresses
  /\ at \in [Runners -> Label]
  /\ host \in UiLabel /\ emuMutex \in {"free", "ui"}
  /\ running \in BOOLEAN /\ alive \in BOOLEAN /\ quit \in BOOLEAN /\ hasty \in BOOLEAN
  /\ hook \in {"none", "compare", "insert"}
  /\ previousPcs \in Histories

(* Until a key has come while the run thread was starting or ending,       *)
(* running = false means that the run thread will execute no further       *)
(* instruction: what the word PAUSED, step() and the breakpoint dialog     *)
(* rely on.                                                                *)
PausedMeansStill == ~hasty /\ ~running => \A r \in Runners : ~Driving(r)

(* previousPcs, which runCallback() compares outside the lock, is never    *)
(* changed by one thread while the other reads or changes it: the run      *)
(* thread inserts only while step() and reset() are not at the history,    *)
(* and reset() replaces it only while no callback is under way on the run  *)
(* thread.                                                                 *)
HistoryRaceFree ==
  [][/\ (hook = "insert" /\ hook' = "none")
          => host \notin {"stepHook", "stepUpdate", "resetSpin"}
     /\ (host = "resetSpin" /\ host' # host) => hook = "none"]_allVars

(* Whenever the screen is drawn with no run thread about, the newest entry *)
(* of the history is the program counter shown: the next runCallback()     *)
(* compares with where the program is, after a run, a step and a reset     *)
(* alike.                                                                  *)
HistoryCurrent == host = "draw" /\ ~alive => previousPcs[1] = pc

(* Why they hold, as an inductive invariant: a run thread that has ended   *)
(* is nowhere in run(), a callback comes between a step and the search for *)
(* its breakpoint, emuMutex is held where the code holds a lock_guard,     *)
(* run() joins a thread that is still there only after a hasty key,        *)
(* reset() has joined before it locks, and the history is behind pc only   *)
(* until a callback has seen the step, or for ever once step() has locked  *)
(* itself out.                                                             *)
EndedIsIdle == ~alive => \A r \in Runners : at[r] = "idle"
HookAfterStep == hook # "none" => \A r \in Runners : at[r] = "breakpoint"
MutexHeld == emuMutex = "ui" <=> host \in Holding
ResetAlone == host \in {"resetLock", "resetSpin"} => ~alive
RunFlagFirst == ~hasty /\ host = "runJoin" => running /\ ~alive
HistoryKept == hook = "none" /\ host \notin {"stepHook", "relock"} => previousPcs[1] = pc

DebuggerInv ==
  /\ DebuggerTypeOK /\ EndedIsIdle /\ HookAfterStep /\ MutexHeld
  /\ ResetAlone /\ RunFlagFirst /\ HistoryKept /\ PausedMeansStill

(* The interface comes back from every key, unless step() has locked       *)
(* itself out with the mutex it holds, or a join waits for a run that      *)
(* nobody asks to stop, which takes a hasty key.                           *)
SelfLocked == host = "relock" /\ emuMutex = "ui"
WaitsForRunaway ==
  /\ host \in {"runJoin", "pauseJoin", "resetJoin", "quitJoin"}
  /\ hasty /\ ~m_stopping /\ \E r \in Runners : at[r] \in InLoop
UiResponds == (host # "ready") ~> (host \in {"ready", "gone"} \/ SelfLocked \/ WaitsForRunaway)

(* emuMutex is to "protect access to emulator state during                 *)
(* rendering/updates", and the drawing locks it "to read consistent        *)
(* state": while the interface holds it, to draw or to step, the run       *)
(* thread executes no instruction.  It fails: the run thread takes the     *)
(* mutex for the history only.                                             *)
MutexProtectsState ==
  [][emuMutex = "ui" => \A r \in Runners : at[r] \in {"first", "step"} => at'[r] = at[r]]_allVars
=============================================================================
