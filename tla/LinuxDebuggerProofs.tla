------------------------ MODULE LinuxDebuggerProofs ------------------------
(***************************************************************************)
(* Safety of the ncurses debugger for every set of addresses and every     *)
(* length of the history: the interface and the run thread in any          *)
(* interleaving, any keys.                                                 *)
(***************************************************************************)
EXTENDS LinuxDebugger, SequenceTheorems, TLAPS

(* There is one run thread.                                                *)
LEMMA OneThread == \A r, s \in Runners : r = s
  BY DebuggerAssumption

(* The history is a non-empty sequence of addresses.                       *)
LEMMA HistoryIsSeq ==
  ASSUME NEW h \in Histories
  PROVE  h \in Seq(Addresses) /\ Len(h) \in HistInit .. HistMax
<1>1. PICK n \in HistInit .. HistMax : h \in [1 .. n -> Addresses]
  BY DEF Histories
<1>2. n \in Nat
  BY DebuggerAssumption
<1>3. h \in Seq(Addresses) /\ Len(h) = n
  BY <1>1, <1>2
<1> QED BY <1>3

(* A reset leaves a history of the reset vector alone.                     *)
LEMMA NewHistoryType ==
  NewHistory(ResetPc) \in Histories /\ NewHistory(ResetPc)[1] = ResetPc
<1>1. NewHistory(ResetPc) \in [1 .. HistInit -> Addresses]
  BY RunControlAssumption DEF NewHistory
<1>2. HistInit \in HistInit .. HistMax /\ 1 \in 1 .. HistInit
  BY DebuggerAssumption
<1> QED BY <1>1, <1>2 DEF Histories, NewHistory

(* insert() at the front and resize() keep the history within its bounds   *)
(* and put the new entry first.                                            *)
LEMMA CappedType ==
  ASSUME NEW h \in Histories, NEW p \in Addresses
  PROVE  Capped(<<p>> \o h) \in Histories /\ Capped(<<p>> \o h)[1] = p
<1> DEFINE s == <<p>> \o h
           n == IF Len(s) > HistMax THEN HistMax ELSE Len(s)
<1>1. h \in Seq(Addresses) /\ Len(h) \in HistInit .. HistMax
  BY HistoryIsSeq
<1>2. <<p>> \in Seq(Addresses) /\ Len(<<p>>) = 1 /\ <<p>>[1] = p
  OBVIOUS
<1>3. s \in Seq(Addresses) /\ Len(s) = Len(h) + 1 /\ s[1] = p
  BY <1>1, <1>2, DebuggerAssumption
<1>4. n \in HistInit .. HistMax /\ n \in Nat /\ 1 <= n /\ n <= Len(s)
  BY <1>1, <1>3, DebuggerAssumption
<1> HIDE DEF s, n
<1>5. \A i \in 1 .. n : s[i] \in Addresses
  BY <1>3, <1>4
<1>6. SubSeq(s, 1, n) = [i \in 1 .. n |-> s[i]]
  BY <1>3, <1>4
<1>7. SubSeq(s, 1, n) \in [1 .. n -> Addresses] /\ SubSeq(s, 1, n)[1] = p
  <2>1. [i \in 1 .. n |-> s[i]] \in [1 .. n -> Addresses]
    BY <1>5, Zenon
  <2>2. 1 \in 1 .. n
    BY <1>4
  <2>3. [i \in 1 .. n |-> s[i]][1] = p
    BY <2>2, <1>3, Zenon
  <2> QED BY <2>1, <2>3, <1>6, Zenon
<1>8. Capped(s) = SubSeq(s, 1, n)
  BY DEF Capped, n
<1> QED BY <1>4, <1>7, <1>8 DEF Histories, s

-----------------------------------------------------------------------------
(* The debugger starts in the invariant.                                   *)
LEMMA InitDebuggerInv == DebuggerInit => DebuggerInv
  BY NewHistoryType, RunControlAssumption
     DEF DebuggerInit, Init, DebuggerInv, DebuggerTypeOK, EndedIsIdle, HookAfterStep, MutexHeld,
         ResetAlone, RunFlagFirst, HistoryKept, PausedMeansStill, Driving, Starting, InLoop, Ending, Label,
         UiLabel, Holding

(* The run thread between its callbacks.                                   *)
LEMMA LoopPreserves ==
  ASSUME DebuggerInv, NEW r \in Runners, Loop(r)
  PROVE  DebuggerInv'
<1> USE OneThread, DebuggerAssumption
    DEF DebuggerInv, DebuggerTypeOK, EndedIsIdle, HookAfterStep, MutexHeld, ResetAlone, RunFlagFirst,
        HistoryKept, PausedMeansStill, Driving, Starting, InLoop, Ending, Label, Holding,
        Goto, flags, shared, own
<1>1. hook = "none" /\ UNCHANGED own
  BY DEF Loop
<1>2. CASE Enter(r) BY <1>1, <1>2 DEF Enter
<1>3. CASE Clear(r) BY <1>1, <1>3 DEF Clear
<1>4. CASE TestRunning(r) BY <1>1, <1>4 DEF TestRunning, AfterLoop
<1>5. CASE TestStopping(r) BY <1>1, <1>5 DEF TestStopping, AfterLoop
<1>6. CASE LeaveRunning(r) BY <1>1, <1>6 DEF LeaveRunning
<1>7. CASE Leave(r) BY <1>1, <1>7 DEF Leave
<1>8. CASE TestBreakpoint(r) BY <1>1, <1>8 DEF TestBreakpoint
<1>9. CASE TestBreakpointRacing(r) BY <1>1, <1>9 DEF TestBreakpointRacing
<1> QED BY <1>2, <1>3, <1>4, <1>5, <1>6, <1>7, <1>8, <1>9 DEF Loop

(* The run thread.                                                         *)
LEMMA ThreadPreserves ==
  ASSUME DebuggerInv, NEW r \in Runners, thread(r)
  PROVE  DebuggerInv'
<1> USE OneThread, DebuggerAssumption
    DEF DebuggerInv, DebuggerTypeOK, EndedIsIdle, HookAfterStep, MutexHeld, ResetAlone, RunFlagFirst,
        HistoryKept, PausedMeansStill, Driving, Starting, InLoop, Ending, Label, Holding,
        Goto, flags, shared, vars
<1>1. CASE Loop(r) BY <1>1, LoopPreserves
<1>2. CASE Execute(r) BY <1>2 DEF Execute, Step, LoopTest
<1>3. CASE Compare BY <1>3 DEF Compare
<1>4. CASE Insert
  <2>1. previousPcs' \in Histories /\ previousPcs'[1] = pc
    BY <1>4, CappedType DEF Insert
  <2> QED BY <1>4, <2>1 DEF Insert, InsertMay
<1>5. CASE stopCallback(r) BY <1>5 DEF stopCallback
<1>6. CASE ThreadEnd(r) BY <1>6 DEF ThreadEnd
<1> QED BY <1>1, <1>2, <1>3, <1>4, <1>5, <1>6 DEF thread

(* The interface thread, when it takes a key.                              *)
LEMMA KeyPreserves ==
  ASSUME DebuggerInv, Key
  PROVE  DebuggerInv'
<1> USE DEF DebuggerInv, DebuggerTypeOK, EndedIsIdle, HookAfterStep, MutexHeld, ResetAlone, RunFlagFirst,
        HistoryKept, PausedMeansStill, Driving, Holding, UiLabel, UiGoto, engine, own, flags,
        shared
<1>1. CASE KeyNone BY <1>1 DEF KeyNone
<1>2. CASE KeyStep BY <1>2 DEF KeyStep
<1>3. CASE KeyRunPause BY <1>3 DEF KeyRunPause
<1>4. CASE KeyReset BY <1>4 DEF KeyReset
<1>5. CASE KeyQuit BY <1>5 DEF KeyQuit
<1>6. ASSUME NEW ad \in Addresses, KeyBreakpoint(ad) PROVE DebuggerInv'
  BY <1>6 DEF KeyBreakpoint
<1> QED BY <1>1, <1>2, <1>3, <1>4, <1>5, <1>6 DEF Key

(* The interface thread, in step() and in the drawing.                     *)
LEMMA StepAndDrawPreserve ==
  ASSUME DebuggerInv,
         \/ InsertDone \/ StepLock \/ StepExecute \/ StepCallback \/ StepUnlock
         \/ RenderLock \/ RenderDone
  PROVE  DebuggerInv'
<1> USE DEF DebuggerInv, DebuggerTypeOK, EndedIsIdle, HookAfterStep, MutexHeld, ResetAlone, RunFlagFirst,
        HistoryKept, PausedMeansStill, Driving, Holding, UiLabel, UiGoto, Lock, Unlock,
        engine, own, flags, shared
<1>1. CASE InsertDone BY <1>1 DEF InsertDone
<1>2. CASE StepLock BY <1>2 DEF StepLock
<1>3. CASE StepExecute BY <1>3 DEF StepExecute
<1>4. CASE StepCallback BY <1>4 DEF StepCallback
<1>5. CASE StepUnlock BY <1>5 DEF StepUnlock
<1>6. CASE RenderLock BY <1>6 DEF RenderLock
<1>7. CASE RenderDone BY <1>7 DEF RenderDone
<1> QED BY <1>1, <1>2, <1>3, <1>4, <1>5, <1>6, <1>7

(* The interface thread, in run(), pause(), reset() and the destructor.    *)
LEMMA ControlPreserves ==
  ASSUME DebuggerInv, NEW r \in Runners,
         Run \/ RunJoin(r) \/ Pause \/ Join \/ QuitJoin \/ ResetLock \/ ResetStart
  PROVE  DebuggerInv'
<1> USE OneThread
    DEF DebuggerInv, DebuggerTypeOK, EndedIsIdle, HookAfterStep, MutexHeld, ResetAlone, RunFlagFirst,
        HistoryKept, PausedMeansStill, Driving, Holding, UiLabel, UiGoto, Lock, engine, own,
        flags, shared
<1>1. CASE Run BY <1>1 DEF Run
<1>2. CASE RunJoin(r) BY <1>2 DEF RunJoin, Goto, Starting, InLoop, Ending, Label
<1>3. CASE Pause
  <2>1. /\ host' \in UiLabel \ {"runJoin", "stepHook", "relock", "resetLock", "resetSpin"}
        /\ host \notin Holding \cup {"stepHook", "relock"} /\ host' \notin Holding
    BY <1>3 DEF Pause, PauseThenJoin
  <2>2. m_stopping' = TRUE /\ asked' = TRUE
    BY <1>3 DEF Pause
  <2>3. hasty' = (hasty \/ \E t \in Runners : at[t] \in Starting)
    BY <1>3 DEF Pause
  <2>4. UNCHANGED <<m_running, m_breakpoints, pc, at, overtaken, running, emuMutex, previousPcs,
                    hook, alive, quit>>
    BY <1>3 DEF Pause
  <2>5. hasty' \in BOOLEAN /\ (~hasty' => ~hasty)
    BY <2>3, Zenon
  <2> QED BY <2>1, <2>2, <2>4, <2>5
<1>4. CASE Join
  <2>1. /\ host' \in UiLabel \ {"runJoin", "stepHook", "relock"}
        /\ host \notin Holding \cup {"stepHook", "relock"} /\ host' \notin Holding
    BY <1>4 DEF Join, JoinThen
  <2>2. ~alive /\ running' = FALSE
    BY <1>4 DEF Join, Joined
  <2>3. UNCHANGED <<engine, emuMutex, previousPcs, hook, alive, quit, hasty>>
    BY <1>4 DEF Join
  <2>4. hook = "none" /\ \A t \in Runners : at[t] = "idle"
    BY <2>2
  <2>5. PausedMeansStill'
    BY <2>3, <2>4 DEF Starting, InLoop
  <2> QED BY <2>1, <2>2, <2>3, <2>5
<1>5. CASE QuitJoin BY <1>5 DEF QuitJoin
<1>6. CASE ResetLock BY <1>6 DEF ResetLock
<1>7. CASE ResetStart
  BY <1>7, NewHistoryType, RunControlAssumption DEF ResetStart, ResetHistory
<1> QED BY <1>1, <1>2, <1>3, <1>4, <1>5, <1>6, <1>7

(* A stuttering step.                                                      *)
LEMMA StutterPreserves ==
  ASSUME DebuggerInv, UNCHANGED allVars
  PROVE  DebuggerInv'
  BY DEF allVars, vars, own, DebuggerInv, DebuggerTypeOK, EndedIsIdle, HookAfterStep, MutexHeld,
         ResetAlone, RunFlagFirst, HistoryKept, PausedMeansStill, Driving

(* The inductive invariant holds in every state of the debugger, whatever  *)
(* keys come and however the two threads are scheduled.                    *)
THEOREM DebuggerInvariant == DebuggerSpec => []DebuggerInv
<1>1. DebuggerInit => DebuggerInv BY InitDebuggerInv
<1>2. ASSUME DebuggerInv, [DebuggerNext]_allVars PROVE DebuggerInv'
  BY <1>2, ThreadPreserves, KeyPreserves, StepAndDrawPreserve, ControlPreserves, StutterPreserves
     DEF DebuggerNext, Handler
<1> QED BY <1>1, <1>2, PTL DEF DebuggerSpec

(* The word PAUSED tells the truth: without a hasty key, running = false   *)
(* means that no further instruction of the run will be executed.          *)
THEOREM PausedIsStill == DebuggerSpec => []PausedMeansStill
<1>1. DebuggerInv => PausedMeansStill BY DEF DebuggerInv
<1> QED BY <1>1, DebuggerInvariant, PTL

(* A screen drawn with no run thread about shows the program counter as    *)
(* the newest entry of the history.                                        *)
THEOREM HistoryIsCurrent == DebuggerSpec => []HistoryCurrent
<1>1. DebuggerInv => HistoryCurrent
  BY DebuggerAssumption
     DEF DebuggerInv, DebuggerTypeOK, EndedIsIdle, HookAfterStep, HistoryKept, HistoryCurrent
<1> QED BY <1>1, DebuggerInvariant, PTL

(* The history, compared outside the lock, is not raced: the mutex keeps   *)
(* the run thread's insert() away from step() and reset(), and the join in *)
(* reset() keeps its callbacks away from the new history, whatever keys    *)
(* come.                                                                   *)
THEOREM HistoryIsNotRaced == DebuggerSpec => HistoryRaceFree
<1> DEFINE Inserts ==
             (hook = "insert" /\ hook' = "none")
               => host \notin {"stepHook", "stepUpdate", "resetSpin"}
           Replaces == (host = "resetSpin" /\ host' # host) => hook = "none"
<1>1. ASSUME DebuggerInv, DebuggerNext PROVE Inserts
  <2> SUFFICES ASSUME hook = "insert", hook' = "none"
               PROVE  host \notin {"stepHook", "stepUpdate", "resetSpin"}
    OBVIOUS
  <2>1. Insert
    <3>1. ~Key
      BY DEF Key, KeyNone, KeyStep, KeyRunPause, KeyReset, KeyQuit, KeyBreakpoint, own
    <3>2. ASSUME NEW r \in Runners, Handler(r) PROVE FALSE
      BY <3>2 DEF Handler, InsertDone, StepLock, StepExecute, StepCallback, StepUnlock, Run,
                  RunJoin, Pause, Join, QuitJoin, ResetLock, ResetStart, RenderLock,
                  RenderDone, Lock, Unlock, own
    <3>3. PICK r \in Runners : thread(r)
      BY <1>1, <3>1, <3>2 DEF DebuggerNext
    <3> QED BY <3>3 DEF thread, Loop, Execute, Compare, stopCallback, ThreadEnd, own
  <2>2. emuMutex # "ui"
    BY <2>1 DEF Insert, InsertMay
  <2> QED BY <1>1, <2>2 DEF DebuggerInv, MutexHeld, Holding
<1>2. ASSUME DebuggerInv PROVE Replaces
  <2> SUFFICES ASSUME host = "resetSpin" PROVE hook = "none"
    OBVIOUS
  <2>1. \A r \in Runners : at[r] = "idle"
    BY <1>2 DEF DebuggerInv, ResetAlone, EndedIsIdle
  <2> QED BY <1>2, <2>1, DebuggerAssumption DEF DebuggerInv, HookAfterStep
<1>3. DebuggerInv /\ [DebuggerNext]_allVars => [Inserts /\ Replaces]_allVars
  BY <1>1, <1>2
<1> QED BY <1>3, DebuggerInvariant, PTL DEF DebuggerSpec, HistoryRaceFree
=============================================================================
