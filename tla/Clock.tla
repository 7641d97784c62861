-------------------------------- MODULE Clock --------------------------------
(***************************************************************************)
(* The pacing clocks, precision_clock and chrono_clock, which differ only  *)
(* in the functions that read the time and sleep.  A run loop calls        *)
(* waitCycles() with the cost of each instruction; the clock keeps the     *)
(* absolute time that the emulated CPU should have reached and sleeps when *)
(* it is ahead.  Time is in nanoseconds.  The duration of one cycle, a     *)
(* double in the code, is the fraction CycleNum / CycleDen.                *)
(***************************************************************************)
EXTENDS Integers

CONSTANTS
  CycleNum, CycleDen,
  RESYNC_NS,
  Costs,       \* cycles an instruction may cost
  Delays,      \* time the host may spend between two calls
  Oversleeps,  \* time by which a sleep may last too long
  Uptimes,     \* values of nanoTime() when the clock is constructed
  MaxTime,     \* bound: no call is made after this time
  MaxCycles    \* bound: no call is made with more cycles on the counter

ASSUME ClockAssumption ==
  /\ CycleNum \in Nat \ {0} /\ CycleDen \in Nat \ {0} /\ RESYNC_NS \in Nat
  /\ Costs \subseteq Nat /\ Delays \subseteq Nat /\ Oversleeps \subseteq Nat
  /\ Uptimes \subseteq Nat /\ MaxTime \in Nat /\ MaxCycles \in Nat

VARIABLES
  now,                \* what nanoTime() returns
  m_deadline, m_current_cycles,
  phase,              \* "away": between calls; "asleep"; "returned"; in start()
                      \* "begun" after beginCycle(), "reset" before waitCycles()
  until,              \* when the sleep should end, 0 while awake
  cut,                \* history: the last sleep ended before that
  origin,             \* history: when the deadline was last set to the present
  charged, calls      \* history: cycles charged since the origin, in how many calls

vars == <<now, m_deadline, m_current_cycles, phase, until, cut, origin, charged, calls>>

-----------------------------------------------------------------------------
(* What a charge adds to the deadline: truncated to whole nanoseconds.     *)
Ns(cycles) == (cycles * CycleNum) \div CycleDen

(* The end of waitCycles(), with the deadline advanced to d.               *)
SleepForCharge(d, ns) == ns
SleepFor(d, ns) == d - now
Sleep(d, ns) ==
  /\ d > now
  /\ m_deadline' = d /\ until' = now + SleepFor(d, ns)
  /\ phase' = "asleep"
  /\ UNCHANGED <<origin, cut>>

CatchUp(d) ==
  /\ d <= now /\ now - d <= RESYNC_NS
  /\ m_deadline' = d /\ phase' = "returned" /\ cut' = FALSE
  /\ UNCHANGED <<origin, until>>

ResyncDeadlineKept(d) == d
ResyncDeadline(d) == now
Resync(d) ==
  /\ d <= now /\ now - d > RESYNC_NS
  /\ m_deadline' = ResyncDeadline(d) /\ origin' = now
  /\ phase' = "returned" /\ cut' = FALSE
  /\ UNCHANGED until

waitCycles(cycles) ==
  /\ now <= MaxTime /\ m_current_cycles <= MaxCycles
  /\ m_current_cycles' = m_current_cycles + cycles
  /\ LET d == m_deadline + Ns(cycles) IN
     \/ /\ Sleep(d, Ns(cycles)) \/ CatchUp(d)
        /\ charged' = charged + cycles /\ calls' = calls + 1
     \/ Resync(d) /\ charged' = 0 /\ calls' = 0
  /\ UNCHANGED now

(* The sleep ends late, or on time; nanosleep() also returns when a signal *)
(* arrives, and is not called again for what is left.                      *)
Wake(over) ==
  /\ phase = "asleep"
  /\ now' = until + over /\ cut' = FALSE
  /\ phase' = "returned" /\ until' = 0
  /\ UNCHANGED <<m_deadline, m_current_cycles, origin, charged, calls>>
WakeEarly(t) ==
  /\ phase = "asleep" /\ t < until
  /\ now' = t /\ cut' = TRUE
  /\ phase' = "returned" /\ until' = 0
  /\ UNCHANGED <<m_deadline, m_current_cycles, origin, charged, calls>>

(* The caller executes an instruction, is descheduled, sits in a debugger. *)
Elapse(delay) ==
  /\ \/ phase = "returned" /\ phase' = "away"
     \/ phase = "begun" /\ phase' = "reset"
  /\ now' = now + delay
  /\ UNCHANGED <<m_deadline, m_current_cycles, until, cut, origin, charged, calls>>

(* beginCycle(), which run() calls first.                                  *)
beginCycle ==
  /\ phase = "away" /\ now <= MaxTime
  /\ m_deadline' = now /\ origin' = now
  /\ charged' = 0 /\ calls' = 0 /\ cut' = FALSE
  /\ UNCHANGED <<now, m_current_cycles, phase, until>>

(* The clock's part of I6502Emulator::start(): reset(), beginCycle() and,  *)
(* a little later, waitCycles() for the reset sequence.                    *)
start ==
  /\ phase = "away" /\ phase' = "begun"
  /\ m_current_cycles' = 0
  /\ m_deadline' = now /\ origin' = now
  /\ charged' = 0 /\ calls' = 0 /\ cut' = FALSE
  /\ UNCHANGED <<now, until>>

ResetCycles == 7
-----------------------------------------------------------------------------
Init ==
  /\ now \in Uptimes
  /\ m_deadline = 0 /\ m_current_cycles = 0
  /\ phase = "away" /\ until = 0 /\ cut = FALSE
  /\ origin = 0 /\ charged = 0 /\ calls = 0

Next ==
  \/ beginCycle \/ start
  \/ \E c \in Costs : phase = "away" /\ waitCycles(c)
  \/ phase = "reset" /\ waitCycles(ResetCycles)
  \/ \E over \in Oversleeps : Wake(over)
  \/ \E t \in now .. until : WakeEarly(t)
  \/ \E delay \in Delays : Elapse(delay)

Spec == Init /\ [][Next]_vars

-----------------------------------------------------------------------------
(* Pacing: since its origin, the emulated CPU has not run faster than the  *)
(* requested speed by more than the nanosecond that each call may truncate *)
(* away.  A call whose sleep was cut short is excepted, the next one makes *)
(* up for it.                                                              *)
SpeedLimit ==
  phase = "returned" /\ ~cut => charged * CycleNum <= (now - origin + calls) * CycleDen

(* After any stall, no more than RESYNC_NS, or the last oversleep, is made *)
(* up by running flat out.                                                 *)
CatchUpBounded ==
  phase = "returned" => \/ now - m_deadline <= RESYNC_NS
                        \/ now - m_deadline \in Oversleeps
=============================================================================
