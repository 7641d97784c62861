----------------------------- MODULE ClockProofs -----------------------------
(***************************************************************************)
(* The pacing guarantees of Clock for every speed, every cost of an        *)
(* instruction and every delay, early wake-up and oversleep.               *)
(***************************************************************************)
EXTENDS Clock, TLAPS

Phase == {"away", "asleep", "returned", "begun", "reset"}

ClockTypeOK ==
  /\ now \in Int /\ m_deadline \in Int /\ m_current_cycles \in Int
  /\ phase \in Phase /\ until \in Int /\ cut \in BOOLEAN
  /\ origin \in Int /\ charged \in Nat /\ calls \in Nat

(* Each charge moved the deadline by all but a fraction of a nanosecond.   *)
DeadlinePaced == charged * CycleNum <= (m_deadline - origin + calls) * CycleDen

(* A sleep ends at the deadline, and a call that was not cut short returns *)
(* at the deadline or later.                                               *)
SleepsToDeadline ==
  /\ phase = "asleep" => until = m_deadline
  /\ phase = "returned" /\ ~cut => m_deadline <= now

ClockInv == ClockTypeOK /\ DeadlinePaced /\ SleepsToDeadline /\ CatchUpBounded

-----------------------------------------------------------------------------
(* Ns() rounds down by less than one nanosecond.                           *)
LEMMA NsRoundsDown ==
  ASSUME NEW c \in Nat
  PROVE  Ns(c) \in Nat /\ c * CycleNum <= (Ns(c) + 1) * CycleDen
<1> DEFINE x == c * CycleNum
<1>1. CycleNum \in Nat /\ CycleDen \in Nat \ {0} BY ClockAssumption
<1>2. x \in Nat BY <1>1
<1> HIDE DEF x
<1>3. x \div CycleDen \in Nat BY <1>1, <1>2
<1>4. x = CycleDen * (x \div CycleDen) + (x % CycleDen) BY <1>1, <1>2
<1>5. x % CycleDen < CycleDen BY <1>1, <1>2
<1>6. (x \div CycleDen + 1) * CycleDen = CycleDen * (x \div CycleDen) + CycleDen BY <1>1, <1>3
<1> QED BY <1>1, <1>2, <1>3, <1>4, <1>5, <1>6 DEF Ns, x

(* A charge keeps the deadline paced: the products are compared term by    *)
(* term, q being what the deadline gains.                                  *)
LEMMA ChargePaced ==
  ASSUME NEW c \in Nat, ClockTypeOK, DeadlinePaced
  PROVE  (charged + c) * CycleNum
           <= ((m_deadline + Ns(c)) - origin + (calls + 1)) * CycleDen
<1> DEFINE ahead == m_deadline - origin + calls
<1> DEFINE q == Ns(c)
<1>1. CycleNum \in Nat /\ CycleDen \in Nat BY ClockAssumption
<1>2. q \in Nat /\ c * CycleNum <= (q + 1) * CycleDen BY NsRoundsDown
<1>3. ahead \in Int /\ charged \in Nat BY DEF ClockTypeOK
<1>4. charged * CycleNum <= ahead * CycleDen BY DEF DeadlinePaced
<1>5. (m_deadline + Ns(c)) - origin + (calls + 1) = ahead + (q + 1) BY <1>2 DEF ClockTypeOK
<1> HIDE DEF ahead, q
<1>6. (charged + c) * CycleNum = charged * CycleNum + c * CycleNum BY <1>1, <1>3
<1>7. (ahead + (q + 1)) * CycleDen = ahead * CycleDen + (q + 1) * CycleDen
  BY <1>1, <1>2, <1>3
<1>8. /\ charged * CycleNum \in Int /\ c * CycleNum \in Int
      /\ ahead * CycleDen \in Int /\ (q + 1) * CycleDen \in Int
  BY <1>1, <1>2, <1>3
<1>9. charged * CycleNum + c * CycleNum <= ahead * CycleDen + (q + 1) * CycleDen
  BY <1>2, <1>4, <1>8
<1> QED BY <1>5, <1>6, <1>7, <1>9

LEMMA InitInv == Init => ClockInv
<1> SUFFICES ASSUME Init PROVE ClockInv OBVIOUS
<1>1. CycleNum \in Nat /\ CycleDen \in Nat /\ Uptimes \subseteq Nat BY ClockAssumption
<1>2. cut \in BOOLEAN BY DEF Init
<1>3. /\ now \in Int /\ m_deadline = 0 /\ m_current_cycles = 0 /\ phase = "away" /\ until = 0
      /\ origin = 0 /\ charged = 0 /\ calls = 0
  BY <1>1 DEF Init
<1>4. ClockTypeOK BY <1>2, <1>3 DEF ClockTypeOK, Phase
<1>5. DeadlinePaced BY <1>1, <1>3 DEF DeadlinePaced
<1>6. SleepsToDeadline /\ CatchUpBounded BY <1>3 DEF SleepsToDeadline, CatchUpBounded
<1> QED BY <1>4, <1>5, <1>6 DEF ClockInv

LEMMA WaitInv ==
  ASSUME ClockInv, NEW c \in Nat, waitCycles(c)
  PROVE  ClockInv'
<1> DEFINE d == m_deadline + Ns(c)
<1>1. /\ CycleNum \in Nat /\ CycleDen \in Nat /\ RESYNC_NS \in Nat
      /\ Ns(c) \in Nat /\ d \in Int
      /\ now \in Int /\ m_current_cycles \in Int /\ cut \in BOOLEAN /\ origin \in Int
      /\ charged \in Nat /\ calls \in Nat /\ until \in Int
  BY ClockAssumption, NsRoundsDown DEF ClockInv, ClockTypeOK
<1>2. (charged + c) * CycleNum <= (d - origin + (calls + 1)) * CycleDen
  <2>1. ClockTypeOK /\ DeadlinePaced BY DEF ClockInv
  <2>2. (charged + c) * CycleNum
          <= ((m_deadline + Ns(c)) - origin + (calls + 1)) * CycleDen
    BY <2>1, ChargePaced
  <2> QED BY <2>2
<1>3. now' = now /\ m_current_cycles' = m_current_cycles + c BY DEF waitCycles
<1> HIDE DEF d
<1>4. CASE Sleep(d, Ns(c)) /\ charged' = charged + c /\ calls' = calls + 1
  <2>1. until' = d /\ m_deadline' = d /\ phase' = "asleep" /\ origin' = origin /\ cut' = cut
    BY <1>1, <1>4 DEF Sleep, SleepFor
  <2>2. ClockTypeOK' BY <1>1, <1>3, <1>4, <2>1 DEF ClockTypeOK, Phase
  <2>3. DeadlinePaced' BY <1>2, <1>4, <2>1 DEF DeadlinePaced
  <2>4. SleepsToDeadline' /\ CatchUpBounded' BY <2>1 DEF SleepsToDeadline, CatchUpBounded
  <2> QED BY <2>2, <2>3, <2>4 DEF ClockInv
<1>5. CASE CatchUp(d) /\ charged' = charged + c /\ calls' = calls + 1
  <2>1. /\ d <= now /\ now - d <= RESYNC_NS /\ m_deadline' = d /\ phase' = "returned"
        /\ cut' = FALSE /\ origin' = origin /\ until' = until
    BY <1>5 DEF CatchUp
  <2>2. ClockTypeOK'
    <3>1. cut' \in BOOLEAN BY <2>1
    <3>2. phase' = "returned" /\ m_deadline' \in Int /\ origin' \in Int /\ until' = until
      BY <1>1, <2>1
    <3> QED BY <1>1, <1>3, <1>5, <3>1, <3>2 DEF ClockTypeOK, Phase
  <2>3. DeadlinePaced' BY <1>2, <1>5, <2>1 DEF DeadlinePaced
  <2>4. SleepsToDeadline' /\ CatchUpBounded'
    BY <1>1, <1>3, <2>1 DEF SleepsToDeadline, CatchUpBounded
  <2> QED BY <2>2, <2>3, <2>4 DEF ClockInv
<1>6. CASE Resync(d) /\ charged' = 0 /\ calls' = 0
  <2>1. /\ m_deadline' = now /\ origin' = now /\ phase' = "returned"
        /\ cut' = FALSE /\ until' = until
    BY <1>6 DEF Resync, ResyncDeadline
  <2>2. ClockTypeOK'
    <3>1. cut' \in BOOLEAN BY <2>1
    <3>2. phase' = "returned" /\ m_deadline' \in Int /\ origin' \in Int /\ until' = until
      BY <1>1, <2>1
    <3> QED BY <1>1, <1>3, <1>6, <3>1, <3>2 DEF ClockTypeOK, Phase
  <2>3. DeadlinePaced' BY <1>1, <1>6, <2>1 DEF DeadlinePaced
  <2>4. SleepsToDeadline' /\ CatchUpBounded'
    BY <1>1, <1>3, <2>1 DEF SleepsToDeadline, CatchUpBounded
  <2> QED BY <2>2, <2>3, <2>4 DEF ClockInv
<1> QED BY <1>4, <1>5, <1>6 DEF waitCycles, d

LEMMA WakeInv ==
  ASSUME ClockInv,
         \/ \E over \in Oversleeps : Wake(over)
         \/ \E t \in now .. until : WakeEarly(t)
  PROVE  ClockInv'
<1>1. /\ Oversleeps \subseteq Nat /\ RESYNC_NS \in Nat
      /\ now \in Int /\ until \in Int /\ m_deadline \in Int
  BY ClockAssumption DEF ClockInv, ClockTypeOK
<1>2. until = m_deadline BY DEF ClockInv, SleepsToDeadline, Wake, WakeEarly
<1>3. /\ phase' = "returned" /\ until' = 0
      /\ UNCHANGED <<m_deadline, m_current_cycles, origin, charged, calls>>
  BY DEF Wake, WakeEarly
<1>4. now' \in Int BY <1>1 DEF Wake, WakeEarly
<1>5. cut' \in BOOLEAN BY DEF Wake, WakeEarly
<1>6. ClockTypeOK' BY <1>3, <1>4, <1>5 DEF ClockInv, ClockTypeOK, Phase
<1>7. DeadlinePaced' BY <1>3 DEF ClockInv, DeadlinePaced
<1>8. SleepsToDeadline' /\ CatchUpBounded'
  <2>1. CASE \E over \in Oversleeps : Wake(over)
    <3>1. PICK over \in Oversleeps : now' = until + over BY <2>1 DEF Wake
    <3>2. now' - m_deadline' = over /\ m_deadline' <= now' BY <1>1, <1>2, <1>3, <3>1
    <3> QED BY <1>3, <3>1, <3>2 DEF SleepsToDeadline, CatchUpBounded
  <2>2. CASE \E t \in now .. until : WakeEarly(t)
    <3>1. now' < m_deadline' BY <1>1, <1>2, <1>3, <2>2 DEF WakeEarly
    <3>2. cut' BY <2>2 DEF WakeEarly
    <3>3. SleepsToDeadline' BY <1>3, <3>2 DEF SleepsToDeadline
    <3>4. now' - m_deadline' <= RESYNC_NS
      <4>1. m_deadline' \in Int /\ RESYNC_NS \in Nat BY <1>1, <1>3
      <4>2. \A a, b \in Int, n \in Nat : a < b => a - b <= n OBVIOUS
      <4> QED BY <1>4, <3>1, <4>1, <4>2
    <3>5. CatchUpBounded' BY <3>4 DEF CatchUpBounded
    <3> QED BY <3>3, <3>5
  <2> QED BY <2>1, <2>2
<1> QED BY <1>6, <1>7, <1>8 DEF ClockInv

LEMMA ElapseInv ==
  ASSUME ClockInv, NEW delay \in Delays, Elapse(delay)
  PROVE  ClockInv'
<1>1. Delays \subseteq Nat BY ClockAssumption
<1>2. ClockTypeOK' BY <1>1 DEF ClockInv, ClockTypeOK, Phase, Elapse
<1>3. DeadlinePaced' BY DEF ClockInv, DeadlinePaced, Elapse
<1>4. SleepsToDeadline' /\ CatchUpBounded' BY DEF SleepsToDeadline, CatchUpBounded, Elapse
<1> QED BY <1>2, <1>3, <1>4 DEF ClockInv

LEMMA OriginInv ==
  ASSUME ClockInv, beginCycle \/ start
  PROVE  ClockInv'
<1>1. CycleNum \in Nat /\ CycleDen \in Nat BY ClockAssumption
<1>2. /\ m_deadline' = now /\ origin' = now /\ charged' = 0 /\ calls' = 0
      /\ cut' = FALSE /\ now' = now /\ until' = until
      /\ phase' \in {"away", "begun"} /\ m_current_cycles' \in Int
  BY DEF beginCycle, start, ClockInv, ClockTypeOK
<1>3. ClockTypeOK' BY <1>2 DEF ClockInv, ClockTypeOK, Phase
<1>4. DeadlinePaced' BY <1>1, <1>2 DEF ClockInv, ClockTypeOK, DeadlinePaced
<1>5. SleepsToDeadline' /\ CatchUpBounded' BY <1>2 DEF SleepsToDeadline, CatchUpBounded
<1> QED BY <1>3, <1>4, <1>5 DEF ClockInv

LEMMA StepInv == ClockInv /\ [Next]_vars => ClockInv'
<1> SUFFICES ASSUME ClockInv, [Next]_vars PROVE ClockInv' OBVIOUS
<1>1. CASE beginCycle \/ start BY <1>1, OriginInv
<1>2. ASSUME NEW c \in Costs, waitCycles(c) PROVE ClockInv'
  <2>1. c \in Nat BY <1>2, ClockAssumption
  <2> QED BY <1>2, <2>1, WaitInv
<1>3. CASE waitCycles(ResetCycles)
  <2>1. ResetCycles \in Nat BY DEF ResetCycles
  <2> QED BY <1>3, <2>1, WaitInv
<1>4. CASE \/ \E over \in Oversleeps : Wake(over)
           \/ \E t \in now .. until : WakeEarly(t)
  BY <1>4, WakeInv
<1>5. CASE \E delay \in Delays : Elapse(delay) BY <1>5, ElapseInv
<1>6. CASE UNCHANGED vars
  BY <1>6 DEF vars, ClockInv, ClockTypeOK, DeadlinePaced, SleepsToDeadline, CatchUpBounded
<1> QED BY <1>1, <1>2, <1>3, <1>4, <1>5, <1>6 DEF Next

-----------------------------------------------------------------------------
(* A call that returns after a full sleep, or without one, is at or after  *)
(* the deadline, and the deadline is paced.                                *)
LEMMA InvImpliesSpeedLimit == ClockInv => SpeedLimit
<1> SUFFICES ASSUME ClockInv, phase = "returned", ~cut
             PROVE  charged * CycleNum <= (now - origin + calls) * CycleDen
  BY DEF SpeedLimit
<1> DEFINE due == m_deadline - origin + calls
<1> DEFINE gone == now - origin + calls
<1>1. CycleNum \in Nat /\ CycleDen \in Nat BY ClockAssumption
<1>2. due \in Int /\ gone \in Int /\ due <= gone /\ charged \in Nat
  BY DEF ClockInv, ClockTypeOK, SleepsToDeadline
<1>3. charged * CycleNum <= due * CycleDen BY DEF ClockInv, DeadlinePaced
<1> HIDE DEF due, gone
<1>4. due * CycleDen <= gone * CycleDen BY <1>1, <1>2
<1>5. charged * CycleNum \in Int /\ due * CycleDen \in Int /\ gone * CycleDen \in Int
  BY <1>1, <1>2
<1>6. charged * CycleNum <= gone * CycleDen BY <1>3, <1>4, <1>5
<1> QED BY <1>6 DEF gone

(* For every speed and every instruction cost, however the sleeps end: the *)
(* emulated CPU is never ahead of the requested speed by more than one     *)
(* nanosecond for each call of waitCycles().                               *)
THEOREM PacingHolds == Spec => []SpeedLimit
<1>1. Spec => []ClockInv BY InitInv, StepInv, PTL DEF Spec
<1> QED BY <1>1, InvImpliesSpeedLimit, PTL

(* For every RESYNC_NS and every stall: what waitCycles() leaves to be     *)
(* made up never exceeds RESYNC_NS or the oversleep it has just returned   *)
(* from.                                                                   *)
THEOREM CatchUpIsBounded == Spec => []CatchUpBounded
<1>1. Spec => []ClockInv BY InitInv, StepInv, PTL DEF Spec
<1>2. ClockInv => CatchUpBounded BY DEF ClockInv
<1> QED BY <1>1, <1>2, PTL
=============================================================================
