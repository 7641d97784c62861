----------------------------- MODULE BusProofs -----------------------------
(***************************************************************************)
(* What an instruction does on the bus, what it charges for it and where   *)
(* it leaves pc, for every program, memory size and register contents; and *)
(* what an interrupt saves and RTI restores.                               *)
(*                                                                         *)
(* The argument follows one instruction: init() fixes the address of its   *)
(* operand (OperandAt); while it has only read, the machine Follows that   *)
(* start with a log that is Calm, all reads, of a known length; what the   *)
(* table charges (Priced) is that length, plus the writes.                 *)
(***************************************************************************)
EXTENDS MCInstructions, MCInterrupts, ProcessorProofs

-----------------------------------------------------------------------------
(* One access at a time.                                                   *)
LEMMA Wrap16Word ==
  ASSUME NEW w \in Word
  PROVE  Wrap16(w) = w /\ w \in Int
  BY WordIs, SMT DEF Wrap16

(* A log of k accesses, all of them reads.                                 *)
Calm(log, k) == log \in Seq(Accesses) /\ Len(log) = k /\ \A j \in 1..k : log[j].kind = "R"

(* A read extends a calm log.                                              *)
LEMMA CalmRead ==
  ASSUME NEW log, NEW k \in Nat, Calm(log, k), NEW ad \in Word, NEW val \in Byte,
         NEW next, next = Append(log, Access("R", ad, val))
  PROVE  Calm(next, k + 1) /\ next[k + 1] = Access("R", ad, val)
<1> DEFINE last1 == Access("R", ad, val)
<1>1. last1 \in Accesses /\ last1.kind = "R" BY DEF Access, Accesses
<1> HIDE DEF last1
<1>2. log \in Seq(Accesses) /\ Len(log) = k BY DEF Calm
<1>3. next \in Seq(Accesses) /\ Len(next) = k + 1 /\ next[k + 1] = last1
  BY <1>1, <1>2 DEF last1
<1>4. \A j \in 1..k : next[j] = log[j] BY <1>1, <1>2 DEF last1
<1>5. \A j \in 1..(k + 1) : next[j].kind = "R" BY <1>1, <1>3, <1>4 DEF Calm
<1> QED BY <1>3, <1>5 DEF Calm, last1

(* What a bus read leaves alone, returns and logs.                         *)
LEMMA ReadIs ==
  ASSUME NEW m \in Machines, NEW ad \in Int
  PROVE  /\ read(m, ad) \in Machines /\ read(m, ad).r = m.r /\ read(m, ad).mem = m.mem
         /\ read(m, ad).p = m.p /\ read(m, ad).cycles = m.cycles
         /\ read(m, ad).v = Peek(m.mem, Wrap16(ad)) /\ Peek(m.mem, Wrap16(ad)) \in Byte
         /\ read(m, ad).log = Append(m.log, Access("R", Wrap16(ad), Peek(m.mem, Wrap16(ad))))
<1> DEFINE w   == Wrap16(ad)
           val == Peek(m.mem, w)
<1>1. w \in Word BY Wrap16Type
<1>2. val \in Byte BY <1>1, PeekType DEF Machines
<1>3. read(m, ad) \in Machines BY ReadOk DEF Ok
<1>4. read(m, ad) = [m EXCEPT !.v = val, !.log = Append(@, Access("R", w, val))]
  BY DEF read, Returned
<1> HIDE DEF val, w
<1>5. /\ read(m, ad).r = m.r /\ read(m, ad).mem = m.mem /\ read(m, ad).p = m.p
      /\ read(m, ad).cycles = m.cycles
      /\ read(m, ad).v = val /\ read(m, ad).log = Append(m.log, Access("R", w, val))
  BY <1>4, SMT DEF Machines
<1> QED BY <1>2, <1>3, <1>5 DEF val, w

(* The same for a write.                                                   *)
LEMMA WriteIs ==
  ASSUME NEW m \in Machines, NEW ad \in Int, NEW val \in Byte
  PROVE  /\ write(m, ad, val) \in Machines /\ write(m, ad, val).r = m.r
         /\ write(m, ad, val).p = m.p /\ write(m, ad, val).cycles = m.cycles
         /\ write(m, ad, val).mem = Poke(m.mem, Wrap16(ad), val)
         /\ write(m, ad, val).log = Append(m.log, Access("W", Wrap16(ad), val))
<1> DEFINE w   == Wrap16(ad)
           mem1 == Poke(m.mem, w, val)
<1>1. write(m, ad, val) \in Machines BY WriteOk DEF Ok
<1>2. write(m, ad, val) = [m EXCEPT !.mem = mem1, !.log = Append(@, Access("W", w, val))]
  BY DEF write
<1> HIDE DEF mem1, w
<1>3. /\ write(m, ad, val).r = m.r /\ write(m, ad, val).mem = mem1 /\ write(m, ad, val).p = m.p
      /\ write(m, ad, val).cycles = m.cycles
      /\ write(m, ad, val).log = Append(m.log, Access("W", w, val))
  BY <1>2, SMT DEF Machines
<1> QED BY <1>1, <1>3 DEF mem1, w

(* Two reads.                                                              *)
LEMMA Read16Is ==
  ASSUME NEW m \in Machines, NEW lo \in Int, NEW hi \in Int, NEW k \in Nat, Calm(m.log, k)
  PROVE  /\ read16(m, lo, hi) \in Machines /\ read16(m, lo, hi).r = m.r
         /\ read16(m, lo, hi).mem = m.mem /\ read16(m, lo, hi).p = m.p
         /\ read16(m, lo, hi).v = Join(Peek(m.mem, Wrap16(lo)), Peek(m.mem, Wrap16(hi)))
         /\ Calm(read16(m, lo, hi).log, k + 2)
<1> DEFINE first  == read(m, lo)
           second == read(first, hi)
           w      == Join(first.v, second.v)
<1>1. /\ first \in Machines /\ first.r = m.r /\ first.mem = m.mem /\ first.p = m.p
      /\ first.v = Peek(m.mem, Wrap16(lo)) /\ first.v \in Byte
      /\ first.log = Append(m.log, Access("R", Wrap16(lo), first.v))
  BY ReadIs
<1>2. Wrap16(lo) \in Word /\ Wrap16(hi) \in Word BY Wrap16Type
<1>3. read16(m, lo, hi) = [second EXCEPT !.v = w] BY DEF read16
<1> HIDE DEF first
<1>4. Calm(first.log, k + 1) BY <1>1, <1>2, CalmRead
<1>5. /\ second \in Machines /\ second.r = first.r /\ second.mem = first.mem /\ second.p = first.p
      /\ second.v = Peek(first.mem, Wrap16(hi)) /\ second.v \in Byte
      /\ second.log = Append(first.log, Access("R", Wrap16(hi), Peek(first.mem, Wrap16(hi))))
  BY <1>1, ReadIs, Zenon
<1> HIDE DEF second
<1>6. k + 1 \in Nat /\ (k + 1) + 1 = k + 2 OBVIOUS
<1>7. Calm(second.log, k + 2)
  <2>1. second.log = Append(first.log, Access("R", Wrap16(hi), second.v)) BY <1>5
  <2>2. Calm(second.log, (k + 1) + 1) BY <1>2, <1>4, <1>5, <1>6, <2>1, CalmRead
  <2> QED BY <1>6, <2>2
<1>8. w = Join(Peek(m.mem, Wrap16(lo)), Peek(m.mem, Wrap16(hi))) BY <1>1, <1>5
<1> HIDE DEF w
<1>9. /\ read16(m, lo, hi).r = second.r /\ read16(m, lo, hi).mem = second.mem
      /\ read16(m, lo, hi).p = second.p /\ read16(m, lo, hi).v = w
      /\ read16(m, lo, hi).log = second.log
  BY <1>3, <1>5, SMT DEF Machines
<1>10. read16(m, lo, hi) \in Machines BY Read16Ok DEF Ok
<1> QED BY <1>1, <1>5, <1>7, <1>8, <1>9, <1>10, Zenon

-----------------------------------------------------------------------------
(* The addresses an instruction is to use, from the machine init() left:   *)
(* the pointer, the base, the operand's, and whether the index carries.    *)
PointerAt(i, mode) ==
  LET zp == Wrap8(i.p.data + (IF mode = "izx" THEN i.r.x ELSE 0))
  IN  Join(Peek(i.mem, zp), Peek(i.mem, Wrap8(zp + 1)))
BaseAt(i, mode) == IF mode \in PointerModes THEN PointerAt(i, mode) ELSE i.p.data
OperandAt(i, mode) ==
  IF mode \in ZeroPageModes THEN Wrap8(i.p.data + IndexOf(i, mode))
  ELSE Wrap16(BaseAt(i, mode) + IndexOf(i, mode))
Carries(i, mode) == mode \in CarryModes /\ Hi(OperandAt(i, mode)) # Hi(BaseAt(i, mode))

(* m is what i becomes while the instruction has only read: registers and  *)
(* memory as they were, the pointer memoised or still to be fetched.       *)
Follows(i, m, mode, k) ==
  /\ m \in Machines /\ m.r = i.r /\ m.mem = i.mem /\ m.p.data = i.p.data
  /\ m.p.m_resolved => m.p.m_addr = PointerAt(i, mode)
  /\ Calm(m.log, k)
Ready(m, mode) == mode \in PointerModes => m.p.m_resolved
ToFetch(m, mode) == IF Ready(m, mode) THEN 0 ELSE 2

(* Another read.                                                           *)
LEMMA FollowRead ==
  ASSUME NEW i, NEW m, NEW mode, NEW k \in Nat, Follows(i, m, mode, k), NEW ad \in Word
  PROVE  /\ Follows(i, read(m, ad), mode, k + 1)
         /\ read(m, ad).p = m.p /\ read(m, ad).cycles = m.cycles
         /\ read(m, ad).v = Peek(i.mem, ad) /\ Peek(i.mem, ad) \in Byte
         /\ read(m, ad).log[k + 1] = Access("R", ad, Peek(i.mem, ad))
<1> DEFINE n   == read(m, ad)
           val == Peek(i.mem, ad)
<1>1. m \in Machines /\ m.r = i.r /\ m.mem = i.mem /\ Calm(m.log, k) BY DEF Follows
<1>2. ad \in Int /\ Wrap16(ad) = ad BY Wrap16Word
<1>3. /\ n \in Machines /\ n.r = m.r /\ n.mem = m.mem /\ n.p = m.p /\ n.cycles = m.cycles
      /\ n.v = Peek(m.mem, ad) /\ Peek(m.mem, ad) \in Byte
      /\ n.log = Append(m.log, Access("R", ad, Peek(m.mem, ad)))
  BY <1>1, <1>2, ReadIs
<1> HIDE DEF n
<1>4. n.v = val /\ val \in Byte /\ n.log = Append(m.log, Access("R", ad, val)) BY <1>1, <1>3
<1> HIDE DEF val
<1>5. Calm(n.log, k + 1) /\ n.log[k + 1] = Access("R", ad, val)
  <2> DEFINE old == m.log
             new == n.log
  <2>1. Calm(old, k) /\ new = Append(old, Access("R", ad, val)) BY <1>1, <1>4
  <2> HIDE DEF old, new
  <2>2. Calm(new, k + 1) BY <1>4, <2>1, CalmRead
  <2>3. old \in Seq(Accesses) /\ Len(old) = k BY <2>1 DEF Calm
  <2>4. Append(old, Access("R", ad, val))[k + 1] = Access("R", ad, val) BY <2>3
  <2> QED BY <2>1, <2>2, <2>4 DEF new
<1>6. Follows(i, n, mode, k + 1) BY <1>1, <1>3, <1>5, Zenon DEF Follows
<1> QED BY <1>3, <1>4, <1>5, <1>6 DEF n, val

(* The params object with the pointer in it.                               *)
LEMMA ResolvedIs ==
  ASSUME NEW m \in Machines
  PROVE  /\ Resolved(m).r = m.r /\ Resolved(m).mem = m.mem /\ Resolved(m).log = m.log
         /\ Resolved(m).p.data = m.p.data /\ Resolved(m).p.m_dummyDone = m.p.m_dummyDone
         /\ Resolved(m).p.m_crossed = m.p.m_crossed
         /\ Resolved(m).p.m_resolved = TRUE /\ Resolved(m).p.m_addr = m.v
<1> DEFINE q == [m.p EXCEPT !.m_resolved = TRUE, !.m_addr = m.v]
<1>1. Resolved(m) = [m EXCEPT !.p = q] BY DEF Resolved
<1>2. m.p \in Params BY DEF Machines
<1>3. /\ q.data = m.p.data /\ q.m_dummyDone = m.p.m_dummyDone /\ q.m_crossed = m.p.m_crossed
      /\ q.m_resolved = TRUE /\ q.m_addr = m.v
  BY <1>2, SMT DEF Params
<1> HIDE DEF q
<1>4. /\ Resolved(m).r = m.r /\ Resolved(m).mem = m.mem /\ Resolved(m).log = m.log
      /\ Resolved(m).p = q
  BY <1>1, SMT DEF Machines
<1> QED BY <1>3, <1>4

(* The pointer is fetched with two reads, once.                            *)
LEMMA FollowResolve ==
  ASSUME NEW i, NEW m, NEW mode, NEW k \in Nat, Follows(i, m, mode, k)
  PROVE  /\ Follows(i, resolve(m, mode), mode, k + ToFetch(m, mode))
         /\ Ready(resolve(m, mode), mode)
         /\ resolve(m, mode).p.m_dummyDone = m.p.m_dummyDone
         /\ resolve(m, mode).p.m_crossed = m.p.m_crossed
<1>1. CASE Ready(m, mode)
  <2>1. resolve(m, mode) = m BY <1>1 DEF Ready, resolve
  <2>2. k + ToFetch(m, mode) = k BY <1>1 DEF ToFetch
  <2> QED BY <1>1, <2>1, <2>2
<1>2. CASE ~Ready(m, mode)
  <2> DEFINE zp  == Wrap8(m.p.data + (IF mode = "izx" THEN m.r.x ELSE 0))
             hi  == Wrap8(zp + 1)
             got == read16(m, zp, hi)
  <2>1. m \in Machines /\ Calm(m.log, k) /\ m.r = i.r /\ m.mem = i.mem /\ m.p.data = i.p.data
    BY DEF Follows
  <2>2. m.p.data + (IF mode = "izx" THEN m.r.x ELSE 0) \in Int
    BY <2>1, ParamsType, PcPartType, ByteIs, WordIs
  <2>3. zp \in Byte BY <2>2, Wrap8Type
  <2>4. hi \in Byte BY <2>3, Wrap8Type, ByteIs
  <2>5. resolve(m, mode) = Resolved(got) BY <1>2 DEF Ready, resolve, fetchPointer
  <2>6. PointerAt(i, mode) = Join(Peek(m.mem, zp), Peek(m.mem, hi)) BY <2>1 DEF PointerAt
  <2> HIDE DEF zp, hi
  <2>7. /\ zp \in Int /\ hi \in Int /\ Wrap16(zp) = zp /\ Wrap16(hi) = hi
    BY <2>3, <2>4, ByteIsWord, Wrap16Word
  <2>8. /\ got \in Machines /\ got.r = m.r /\ got.mem = m.mem /\ got.p = m.p
        /\ got.v = Join(Peek(m.mem, zp), Peek(m.mem, hi)) /\ Calm(got.log, k + 2)
    BY <2>1, <2>7, Read16Is
  <2> HIDE DEF got
  <2> DEFINE n == Resolved(got)
  <2>9. /\ n.r = got.r /\ n.mem = got.mem /\ n.log = got.log
        /\ n.p.data = got.p.data /\ n.p.m_dummyDone = got.p.m_dummyDone
        /\ n.p.m_crossed = got.p.m_crossed /\ n.p.m_resolved = TRUE /\ n.p.m_addr = got.v
    BY <2>8, ResolvedIs
  <2>10. n \in Machines BY <2>1, <2>5, ResolveOk DEF Ok
  <2> HIDE DEF n
  <2>11. Follows(i, n, mode, k + 2) BY <2>1, <2>6, <2>8, <2>9, <2>10, Zenon DEF Follows
  <2>12. Ready(n, mode) BY <2>9 DEF Ready
  <2>13. n.p.m_dummyDone = m.p.m_dummyDone /\ n.p.m_crossed = m.p.m_crossed BY <2>8, <2>9
  <2>14. k + ToFetch(m, mode) = k + 2 BY <1>2 DEF ToFetch
  <2> QED BY <2>5, <2>11, <2>12, <2>13, <2>14 DEF n
<1> QED BY <1>1, <1>2

(* With the pointer at hand the addresses are those of i.                  *)
LEMMA FollowReady ==
  ASSUME NEW i, NEW m, NEW mode, NEW k, Follows(i, m, mode, k), Ready(m, mode)
  PROVE  /\ base(m, mode) = BaseAt(i, mode)
         /\ Effective(m, mode) = OperandAt(i, mode) /\ OperandAt(i, mode) \in Word
<1>1. m \in Machines /\ m.r = i.r /\ m.p.data = i.p.data BY DEF Follows
<1>2. IndexOf(m, mode) = IndexOf(i, mode) BY <1>1 DEF IndexOf
<1>3. base(m, mode) = BaseAt(i, mode) BY DEF Follows, Ready, base, BaseAt
<1>4. Effective(m, mode) = OperandAt(i, mode) BY <1>1, <1>2, <1>3 DEF Effective, OperandAt
<1> QED BY <1>1, <1>3, <1>4, EffectiveType

(* addr() reads the pointer if need be and notes the carry.                *)
LEMMA FollowAddr ==
  ASSUME NEW i, NEW m, NEW mode, NEW k \in Nat, Follows(i, m, mode, k)
  PROVE  /\ Follows(i, addr(m, mode), mode, k + ToFetch(m, mode))
         /\ Ready(addr(m, mode), mode)
         /\ addr(m, mode).p.m_dummyDone = m.p.m_dummyDone
         /\ addr(m, mode).p.m_crossed
              = IF mode \in CarryModes THEN Carries(i, mode) ELSE m.p.m_crossed
         /\ addr(m, mode).cycles = resolve(m, mode).cycles
<1> DEFINE j == resolve(m, mode)
           c == Hi(Effective(j, mode)) # Hi(base(j, mode))
           q == [j.p EXCEPT !.m_crossed = c]
<1>1. /\ Follows(i, j, mode, k + ToFetch(m, mode)) /\ Ready(j, mode)
      /\ j.p.m_dummyDone = m.p.m_dummyDone /\ j.p.m_crossed = m.p.m_crossed
  BY FollowResolve
<1>2. addr(m, mode) = IF mode \in CarryModes THEN [j EXCEPT !.p = q] ELSE j
  BY DEF addr, NoteCrossing
<1>3. mode \in CarryModes => c = Carries(i, mode) BY <1>1, FollowReady DEF Carries
<1> HIDE DEF j, c
<1>4. CASE mode \notin CarryModes BY <1>1, <1>2, <1>4 DEF j
<1>5. CASE mode \in CarryModes
  <2> DEFINE n == [j EXCEPT !.p = q]
  <2>1. n = addr(m, mode) BY <1>2, <1>5
  <2>2. m \in Machines BY DEF Follows
  <2>3. n \in Machines BY <2>1, <2>2, AddrOk DEF Ok
  <2>4. j \in Machines /\ j.p \in Params BY <1>1 DEF Follows, Machines
  <2>5. /\ q.data = j.p.data /\ q.m_dummyDone = j.p.m_dummyDone /\ q.m_crossed = c
        /\ q.m_resolved = j.p.m_resolved /\ q.m_addr = j.p.m_addr
    BY <2>4, SMT DEF Params
  <2> HIDE DEF q
  <2>6. n.r = j.r /\ n.mem = j.mem /\ n.log = j.log /\ n.p = q /\ n.cycles = j.cycles
    BY <2>4, SMT DEF Machines
  <2> HIDE DEF n
  <2>7. Follows(i, n, mode, k + ToFetch(m, mode)) BY <1>1, <2>3, <2>5, <2>6, Zenon DEF Follows
  <2>8. Ready(n, mode) BY <1>1, <2>5, <2>6 DEF Ready
  <2>9. n.p.m_dummyDone = m.p.m_dummyDone /\ n.p.m_crossed = Carries(i, mode)
    BY <1>1, <1>3, <1>5, <2>5, <2>6, Zenon
  <2> QED BY <1>5, <2>1, <2>6, <2>7, <2>8, <2>9, Zenon DEF j
<1> QED BY <1>4, <1>5

(* The dummy read is made once, and fetches the pointer if need be.        *)
LEMMA FollowDummy ==
  ASSUME NEW i, NEW m, NEW mode, NEW k \in Nat, Follows(i, m, mode, k),
         mode \in DummyModes, ~m.p.m_dummyDone
  PROVE  /\ Follows(i, dummyRead(m, mode), mode, (k + ToFetch(m, mode)) + 1)
         /\ Ready(dummyRead(m, mode), mode)
         /\ dummyRead(m, mode).p.m_dummyDone
         /\ dummyRead(m, mode).p.m_crossed = m.p.m_crossed
<1> DEFINE q == [m.p EXCEPT !.m_dummyDone = TRUE]
           n == [m EXCEPT !.p = q]
           j == resolve(n, mode)
           l == k + ToFetch(m, mode)
<1>1. m \in Machines /\ m.p \in Params BY DEF Follows, Machines
<1>2. /\ q.data = m.p.data /\ q.m_dummyDone = TRUE /\ q.m_crossed = m.p.m_crossed
      /\ q.m_resolved = m.p.m_resolved /\ q.m_addr = m.p.m_addr
  BY <1>1, SMT DEF Params
<1>3. q \in Params BY <1>1, ParamsFlag, Zenon
<1>4. dummyRead(m, mode) = read(j, Unfinished(j, mode))
  BY DEF dummyRead, readUnfinished, ReadAtUnfinished
<1> HIDE DEF q
<1>5. n.r = m.r /\ n.mem = m.mem /\ n.log = m.log /\ n.p = q BY <1>1, SMT DEF Machines
<1>6. n \in Machines BY <1>1, <1>3, OkP DEF Ok
<1> HIDE DEF n
<1>7. Follows(i, n, mode, k) BY <1>2, <1>5, <1>6, Zenon DEF Follows
<1>8. k + ToFetch(n, mode) = l BY <1>2, <1>5 DEF ToFetch, Ready
<1>9. /\ Follows(i, j, mode, l) /\ Ready(j, mode)
      /\ j.p.m_dummyDone = n.p.m_dummyDone /\ j.p.m_crossed = n.p.m_crossed
  BY <1>7, <1>8, FollowResolve
<1>10. l \in Nat BY DEF ToFetch
<1> HIDE DEF j, l
<1>11. Unfinished(j, mode) \in Word BY <1>9, EffectiveType DEF Follows
<1> DEFINE g == read(j, Unfinished(j, mode))
<1>12. Follows(i, g, mode, l + 1) /\ g.p = j.p BY <1>9, <1>10, <1>11, FollowRead
<1> HIDE DEF g
<1>13. Ready(g, mode) /\ g.p.m_dummyDone /\ g.p.m_crossed = m.p.m_crossed
  BY <1>2, <1>5, <1>9, <1>12 DEF Ready
<1> QED BY <1>4, <1>12, <1>13 DEF g, l

(* A load's dummy read: always in the indexed zero page, otherwise when    *)
(* the index carries, and never a second time.                             *)
Dummies(i, m, mode) ==
  IF ~m.p.m_dummyDone /\ (mode \in {"zpx", "zpy"} \/ Carries(i, mode)) THEN 1 ELSE 0

(* Reading an operand in memory.                                           *)
LEMMA FollowGet ==
  ASSUME NEW i, NEW m, NEW mode \in MemoryModes, NEW k \in Nat, Follows(i, m, mode, k),
         NEW l, l = (k + ToFetch(m, mode)) + Dummies(i, m, mode),
         NEW g, g = get8bit(m, mode)
  PROVE  /\ l \in Nat /\ Follows(i, g, mode, l + 1) /\ Ready(g, mode)
         /\ mode \in CarryModes => g.p.m_crossed = Carries(i, mode)
         /\ mode \notin CarryModes => g.p.m_crossed = m.p.m_crossed
         /\ g.v = Peek(i.mem, OperandAt(i, mode)) /\ g.v \in Byte
         /\ g.log[l + 1] = Access("R", OperandAt(i, mode), Peek(i.mem, OperandAt(i, mode)))
<1> DEFINE h == k + ToFetch(m, mode)
           n == addr(m, mode)
           d == DummyOnCrossing(n, mode)
<1>1. /\ Follows(i, n, mode, h) /\ Ready(n, mode)
      /\ n.p.m_dummyDone = m.p.m_dummyDone
      /\ n.p.m_crossed = IF mode \in CarryModes THEN Carries(i, mode) ELSE m.p.m_crossed
  BY FollowAddr
<1>2. h \in Nat /\ ToFetch(n, mode) = 0 BY <1>1 DEF ToFetch
<1>3. mode \notin {"nul", "acc", "imm", "rel", "abc", "ind"}
  BY SMT DEF MemoryModes, ZeroPageModes, CarryModes
<1>4. g = read(d, Effective(d, mode)) BY <1>3 DEF get8bit, ReadAtEffective
<1> HIDE DEF n, h
<1>5. l \in Nat BY <1>2 DEF h, Dummies
<1>6. Follows(i, d, mode, l) /\ Ready(d, mode) /\ d.p.m_crossed = n.p.m_crossed
  <2> DEFINE asked == mode \in {"zpx", "zpy"} \/ n.p.m_crossed
  <2>1. d = IF asked THEN dummyRead(n, mode) ELSE n BY DEF DummyOnCrossing
  <2>2. CASE asked /\ mode \in DummyModes /\ ~n.p.m_dummyDone
    <3>1. /\ Follows(i, dummyRead(n, mode), mode, (h + ToFetch(n, mode)) + 1)
          /\ Ready(dummyRead(n, mode), mode) /\ dummyRead(n, mode).p.m_crossed = n.p.m_crossed
      BY <1>1, <1>2, <2>2, FollowDummy
    <3>2. mode \in {"zpx", "zpy"} \/ Carries(i, mode) 
      <4>1. mode \in {"zpx", "zpy"} \/ mode \in CarryModes BY <2>2 DEF DummyModes
      <4>2. mode \in CarryModes => n.p.m_crossed = Carries(i, mode) BY <1>1
      <4> QED BY <2>2, <4>1, <4>2, Zenon
    <3>3. l = (h + ToFetch(n, mode)) + 1 BY <1>1, <1>2, <2>2, <3>2 DEF h, Dummies
    <3> QED BY <2>1, <2>2, <3>1, <3>3
  <2>3. CASE ~(asked /\ mode \in DummyModes /\ ~n.p.m_dummyDone)
    <3>1. d = n BY <2>1, <2>3 DEF dummyRead
    <3>2. mode \in {"zpx", "zpy"} => asked /\ mode \in DummyModes BY DEF DummyModes
    <3>3. Carries(i, mode) => asked /\ mode \in DummyModes BY <1>1 DEF Carries, DummyModes
    <3>4. Dummies(i, m, mode) = 0 BY <1>1, <2>3, <3>2, <3>3 DEF Dummies
    <3>5. l = h BY <1>2, <3>4 DEF h
    <3> QED BY <1>1, <3>1, <3>5
  <2> QED BY <2>2, <2>3
<1> HIDE DEF d
<1>7. Effective(d, mode) = OperandAt(i, mode) /\ OperandAt(i, mode) \in Word
  BY <1>6, FollowReady
<1> DEFINE f == read(d, OperandAt(i, mode))
<1>8. /\ Follows(i, f, mode, l + 1) /\ f.p = d.p
      /\ f.v = Peek(i.mem, OperandAt(i, mode)) /\ f.v \in Byte
      /\ f.log[l + 1] = Access("R", OperandAt(i, mode), Peek(i.mem, OperandAt(i, mode)))
  BY <1>5, <1>6, <1>7, FollowRead
<1>9. g = f BY <1>4, <1>7
<1> HIDE DEF f
<1>10. Ready(g, mode) BY <1>6, <1>8, <1>9 DEF Ready
<1>11. g.p.m_crossed = IF mode \in CarryModes THEN Carries(i, mode) ELSE m.p.m_crossed
  BY <1>1, <1>6, <1>8, <1>9, Zenon
<1> QED BY <1>5, <1>8, <1>9, <1>10, <1>11, Zenon

(* A store with the pointer at hand: one write, and the address stands.    *)
LEMMA SetReady ==
  ASSUME NEW m \in Machines, NEW mode \in MemoryModes, Ready(m, mode), NEW val \in Byte,
         NEW n, n = set8bit(m, mode, val)
  PROVE  /\ n \in Machines /\ n.r = m.r /\ n.cycles = m.cycles /\ Ready(n, mode)
         /\ Effective(m, mode) \in Word /\ Effective(n, mode) = Effective(m, mode)
         /\ n.mem = Poke(m.mem, Effective(m, mode), val)
         /\ n.log = Append(m.log, Access("W", Effective(m, mode), val))
<1> DEFINE c == Hi(Effective(m, mode)) # Hi(base(m, mode))
           q == [m.p EXCEPT !.m_crossed = c]
           s == addr(m, mode)
<1>1. resolve(m, mode) = m BY DEF Ready, resolve
<1>2. s = IF mode \in CarryModes THEN [m EXCEPT !.p = q] ELSE m BY <1>1 DEF addr, NoteCrossing
<1>3. m.p \in Params BY DEF Machines
<1>4. q.data = m.p.data /\ q.m_resolved = m.p.m_resolved /\ q.m_addr = m.p.m_addr
  BY <1>3, SMT DEF Params
<1>5. s \in Machines BY AddrOk DEF Ok
<1> HIDE DEF c, q
<1>6. /\ [m EXCEPT !.p = q].r = m.r /\ [m EXCEPT !.p = q].mem = m.mem
      /\ [m EXCEPT !.p = q].log = m.log /\ [m EXCEPT !.p = q].p = q
      /\ [m EXCEPT !.p = q].cycles = m.cycles
  BY SMT DEF Machines
<1>7. /\ s.r = m.r /\ s.mem = m.mem /\ s.log = m.log /\ s.cycles = m.cycles
      /\ s.p.data = m.p.data /\ s.p.m_resolved = m.p.m_resolved /\ s.p.m_addr = m.p.m_addr
  BY <1>2, <1>4, <1>6, Zenon
<1>8. n = write(s, Effective(s, mode), val)
  BY SMT DEF set8bit, WriteAtEffective, MemoryModes, ZeroPageModes, CarryModes
<1> HIDE DEF s
<1>9. ASSUME NEW t, t.r = m.r, t.p.data = m.p.data, t.p.m_addr = m.p.m_addr
      PROVE  Effective(t, mode) = Effective(m, mode)
  <2>1. IndexOf(t, mode) = IndexOf(m, mode) BY <1>9 DEF IndexOf
  <2>2. base(t, mode) = base(m, mode) BY <1>9 DEF base
  <2> QED BY <1>9, <2>1, <2>2 DEF Effective
<1> DEFINE w == Effective(m, mode)
<1>10. w \in Word /\ w \in Int /\ Wrap16(w) = w BY EffectiveType, Wrap16Word
<1>11. n = write(s, w, val) BY <1>7, <1>8, <1>9
<1> HIDE DEF w
<1>12. /\ n \in Machines /\ n.r = s.r /\ n.p = s.p /\ n.cycles = s.cycles
       /\ n.mem = Poke(s.mem, w, val) /\ n.log = Append(s.log, Access("W", w, val))
  BY <1>5, <1>10, <1>11, WriteIs
<1>13. Effective(n, mode) = w BY <1>7, <1>9, <1>12 DEF w
<1>14. Ready(n, mode) BY <1>7, <1>12 DEF Ready
<1> QED BY <1>7, <1>10, <1>12, <1>13, <1>14, Zenon DEF w

(* A store that may have to fetch the pointer first.                       *)
LEMMA FollowSet ==
  ASSUME NEW i, NEW m, NEW mode \in MemoryModes, NEW k \in Nat, Follows(i, m, mode, k),
         NEW val \in Byte, NEW n, n = set8bit(m, mode, val)
  PROVE  /\ n \in Machines /\ n.r = i.r
         /\ n.mem = Poke(i.mem, OperandAt(i, mode), val)
         /\ Calm(addr(m, mode).log, k + ToFetch(m, mode))
         /\ n.log = Append(addr(m, mode).log, Access("W", OperandAt(i, mode), val))
<1> DEFINE s == addr(m, mode)
<1>1. Follows(i, s, mode, k + ToFetch(m, mode)) /\ Ready(s, mode) BY FollowAddr
<1>2. n = write(s, Effective(s, mode), val)
  BY SMT DEF set8bit, WriteAtEffective, MemoryModes, ZeroPageModes, CarryModes
<1> HIDE DEF s
<1> DEFINE w == OperandAt(i, mode)
<1>3. w = Effective(s, mode) /\ w \in Word BY <1>1, FollowReady
<1>4. w \in Int /\ Wrap16(w) = w BY <1>3, Wrap16Word
<1>5. n = write(s, w, val) BY <1>2, <1>3
<1> HIDE DEF w
<1>6. s \in Machines BY <1>1 DEF Follows
<1>7. /\ n \in Machines /\ n.r = s.r
      /\ n.mem = Poke(s.mem, w, val) /\ n.log = Append(s.log, Access("W", w, val))
  BY <1>4, <1>5, <1>6, WriteIs
<1>8. s.r = i.r /\ s.mem = i.mem /\ Calm(s.log, k + ToFetch(m, mode)) BY <1>1 DEF Follows
<1> QED BY <1>7, <1>8, Zenon DEF w, s

-----------------------------------------------------------------------------
(* The opcode and operand bytes.                                           *)
Fresh(i) == ~i.p.m_resolved /\ ~i.p.m_dummyDone /\ ~i.p.m_crossed

(* init() reads the operand bytes, moves pc and resets the params.         *)
LEMMA InitIs ==
  ASSUME NEW m \in Machines, NEW mode, NEW k \in Nat, Calm(m.log, k), NEW i, i = init(m, mode)
  PROVE  /\ i \in Machines /\ i.mem = m.mem /\ Fresh(i)
         /\ i.r = [m.r EXCEPT !.pc = Wrap16(m.r.pc + OperandBytes(mode))]
         /\ Calm(i.log, k + OperandBytes(mode))
<1> DEFINE pc   == m.r.pc
           size == OperandBytes(mode)
           got  == CASE size = 0 -> [m EXCEPT !.v = 0]
                     [] size = 1 -> read(m, pc)
                     [] OTHER    -> read16(m, pc, pc + 1)
           w    == Wrap16(got.r.pc + size)
           s    == [got.r EXCEPT !.pc = w]
           q    == [NewParams EXCEPT !.data = got.v]
<1>1. pc \in Int /\ pc + 1 \in Int BY PcPartType
<1>2. size \in {0, 1, 2} BY OperandBytesType
<1>3. got \in Machines /\ got.r = m.r /\ got.mem = m.mem /\ Calm(got.log, k + size)
  <2>1. CASE size = 0
    <3>1. 0 \in Word BY WordIs, SMT
    <3>2. [m EXCEPT !.v = 0] \in Machines BY <3>1, OkV DEF Ok
    <3>3. /\ [m EXCEPT !.v = 0].r = m.r /\ [m EXCEPT !.v = 0].mem = m.mem
          /\ [m EXCEPT !.v = 0].log = m.log
      BY SMT DEF Machines
    <3>4. k + size = k /\ got = [m EXCEPT !.v = 0] BY <2>1
    <3> QED BY <3>2, <3>3, <3>4
  <2>2. CASE size = 1
    <3> DEFINE val == Peek(m.mem, Wrap16(pc))
    <3>1. /\ read(m, pc) \in Machines /\ read(m, pc).r = m.r /\ read(m, pc).mem = m.mem
          /\ val \in Byte /\ read(m, pc).log = Append(m.log, Access("R", Wrap16(pc), val))
      BY <1>1, ReadIs
    <3>2. Wrap16(pc) \in Word BY <1>1, Wrap16Type
    <3> HIDE DEF val
    <3>3. Calm(read(m, pc).log, k + 1) BY <3>1, <3>2, CalmRead
    <3>4. k + size = k + 1 /\ got = read(m, pc) BY <2>2
    <3> QED BY <3>1, <3>3, <3>4
  <2>3. CASE size = 2
    <3> DEFINE two == read16(m, pc, pc + 1)
    <3>1. two \in Machines /\ two.r = m.r /\ two.mem = m.mem /\ Calm(two.log, k + 2)
      BY <1>1, Read16Is
    <3>2. k + size = k + 2 /\ got = two BY <2>3
    <3> QED BY <3>1, <3>2
  <2> QED BY <1>2, <2>1, <2>2, <2>3
<1>4. i = [[got EXCEPT !.r = s] EXCEPT !.p = q] BY DEF init, Consume
<1>5. i \in Machines BY InitOk DEF Ok
<1> HIDE DEF got, size, pc
<1>6. s = [m.r EXCEPT !.pc = Wrap16(m.r.pc + size)] BY <1>3
<1>7. ~q.m_resolved /\ ~q.m_dummyDone /\ ~q.m_crossed BY DEF NewParams
<1> HIDE DEF s, q, w
<1>8. i.r = s /\ i.mem = got.mem /\ i.log = got.log /\ i.p = q
  BY <1>3, <1>4, SMT DEF Machines
<1> QED BY <1>3, <1>5, <1>6, <1>7, <1>8 DEF Fresh, size

(* The same, without the registers.                                        *)
LEMMA InitFresh ==
  ASSUME NEW m \in Machines, NEW mode, NEW k \in Nat, Calm(m.log, k), NEW i, i = init(m, mode)
  PROVE  i \in Machines /\ i.mem = m.mem /\ Fresh(i) /\ Calm(i.log, k + OperandBytes(mode))
  BY InitIs

(* Without operand bytes init() leaves pc and the bus alone.               *)
LEMMA NoOperandPc ==
  ASSUME NEW m \in Machines, Calm(m.log, 1), NEW i, i = init(m, "nul")
  PROVE  i.r.pc = m.r.pc /\ Calm(i.log, 1)
<1> DEFINE mode == "nul"
<1>1. OperandBytes(mode) = 0 BY DEF OperandBytes
<1>2. 1 \in Nat /\ 1 + 0 = 1 OBVIOUS
<1> HIDE DEF mode
<1>3. /\ Calm(i.log, 1 + OperandBytes(mode))
      /\ i.r = [m.r EXCEPT !.pc = Wrap16(m.r.pc + OperandBytes(mode))]
  BY <1>2, InitIs DEF mode
<1>4. m.r \in Regs /\ m.r.pc \in Word BY DEF Machines, Regs, Registers
<1>5. Wrap16(m.r.pc + 0) = m.r.pc BY <1>4, Wrap16Word
<1>6. i.r.pc = m.r.pc BY <1>1, <1>3, <1>4, <1>5, SMT DEF Regs, Registers
<1> QED BY <1>1, <1>2, <1>3, <1>6

(* The machine init() leaves is where the instruction starts.              *)
LEMMA FollowInit ==
  ASSUME NEW i \in Machines, Fresh(i), NEW mode, NEW k, Calm(i.log, k)
  PROVE  /\ Follows(i, i, mode, k)
         /\ ToFetch(i, mode) = IF mode \in PointerModes THEN 2 ELSE 0
<1>1. Follows(i, i, mode, k) BY DEF Follows, Fresh
<1> QED BY <1>1 DEF ToFetch, Ready, Fresh

(* The opcode has been fetched.                                            *)
LEMMA FetchedIs ==
  ASSUME ProcInv
  PROVE  /\ fetched \in Machines /\ fetched.mem = mem /\ Calm(fetched.log, 1)
         /\ fetched.r = [regs EXCEPT !.pc = Wrap16(regs.pc + 1)]
<1> DEFINE m == Machine(regs, mem)
           n == read(m, regs.pc)
           s == [n.r EXCEPT !.pc = Wrap16(n.r.pc + 1)]
           val == Peek(m.mem, Wrap16(regs.pc))
<1>1. m \in Machines /\ m.r = regs BY MachineType
<1>2. m.mem = mem /\ m.log = <<>> BY DEF Machine
<1>3. regs.pc \in Int BY WordIs DEF ProcInv, TypeOK, Registers
<1>4. fetched = [n EXCEPT !.r = s] BY DEF fetched
<1>5. Calm(m.log, 0)
  <2>1. <<>> \in Seq(Accesses) /\ Len(<<>>) = 0 OBVIOUS
  <2>2. \A j \in 1..0 : FALSE OBVIOUS
  <2> QED BY <1>2, <2>1, <2>2 DEF Calm
<1> HIDE DEF m
<1>6. /\ n \in Machines /\ n.r = m.r /\ n.mem = m.mem /\ val \in Byte
      /\ n.log = Append(m.log, Access("R", Wrap16(regs.pc), val))
  BY <1>1, <1>3, ReadIs
<1> HIDE DEF n, val
<1>7. Wrap16(regs.pc) \in Word BY <1>3, Wrap16Type
<1>8. 0 \in Nat /\ 0 + 1 = 1 OBVIOUS
<1>9. Calm(n.log, 0 + 1) BY <1>5, <1>6, <1>7, <1>8, CalmRead
<1>10. n.r.pc + 1 \in Int BY <1>6, PcPartType
<1>11. Wrap16(n.r.pc + 1) \in Word BY <1>10, Wrap16Type
<1>12. [n EXCEPT !.r.pc = Wrap16(n.r.pc + 1)] \in Machines BY <1>6, <1>11, PcOk DEF Ok
<1>13. [n EXCEPT !.r.pc = Wrap16(n.r.pc + 1)] = [n EXCEPT !.r = s] OBVIOUS
<1>14. s = [regs EXCEPT !.pc = Wrap16(regs.pc + 1)] BY <1>1, <1>6
<1>15. fetched \in Machines BY <1>4, <1>12, <1>13
<1> HIDE DEF s
<1>16. fetched.r = s /\ fetched.mem = n.mem /\ fetched.log = n.log
  BY <1>4, <1>6, SMT DEF Machines
<1> QED BY <1>2, <1>6, <1>8, <1>9, <1>14, <1>15, <1>16

-----------------------------------------------------------------------------
(* What the instruction table charges.                                     *)
ReadPrice(e) == e.op \in ReadOps =>
  \/ e.mode = "imm" /\ e.cycles = 2
  \/ e.mode = "zp" /\ e.cycles = 3
  \/ e.mode \in {"zpx", "zpy", "abs", "abx", "aby"} /\ e.cycles = 4
  \/ e.mode = "izy" /\ e.cycles = 5
  \/ e.mode = "izx" /\ e.cycles = 6
CarryPrice(e) == e.op \in ReadOps /\ e.mode \in CarryModes => e.op \in ExtraOps
RmwPrice(e) == e.op \in RmwOps =>
  \/ e.mode = "acc" /\ e.cycles = 2
  \/ e.mode = "zp" /\ e.cycles = 5
  \/ e.mode \in {"zpx", "abs"} /\ e.cycles = 6
  \/ e.mode \in {"abx", "aby"} /\ e.cycles = 7
  \/ e.mode \in {"izx", "izy"} /\ e.cycles = 8
StorePrice(e) == e.op \in StoreOps =>
  \/ e.mode = "zp" /\ e.cycles = 3
  \/ e.mode \in {"zpx", "zpy", "abs"} /\ e.cycles = 4
  \/ e.mode \in {"abx", "aby"} /\ e.cycles = 5
  \/ e.mode \in {"izx", "izy"} /\ e.cycles = 6
ShxPrice(e) == e.op \in ShxOps =>
  \/ e.mode \in {"abx", "aby"} /\ e.cycles = 5
  \/ e.mode = "izy" /\ e.cycles = 6
PlainPrice(e) ==
  /\ e.op \in BranchOps => e.mode = "rel"
  /\ e.op \in ImpliedOps => e.mode = "nul"
  /\ e.op = "NOP" => e.mode \in {"nul", "imm"}
  /\ e.op \in {"PHA", "PHP", "KIL", "PLA", "PLP", "RTS", "RTI", "BRK"} => e.mode = "nul"
ControlPrice(e) ==
  /\ e.op \in {"PHA", "PHP", "KIL"} => e.cycles = 3
  /\ e.op \in {"PLA", "PLP"} => e.cycles = 4
  /\ e.op \in {"RTS", "RTI"} => e.cycles = 6
  /\ e.op = "BRK" => e.cycles = 7
JumpPrice(e) ==
  /\ e.op = "JSR" => e.mode = "abc" /\ e.cycles = 6
  /\ e.op = "JMP" => (e.mode = "abc" /\ e.cycles = 3) \/ (e.mode = "ind" /\ e.cycles = 5)
Priced(e) ==
  /\ ReadPrice(e) /\ CarryPrice(e) /\ RmwPrice(e) /\ StorePrice(e) /\ ShxPrice(e)
  /\ PlainPrice(e) /\ ControlPrice(e) /\ JumpPrice(e)

(* Row by row, for the lower half of the table.                            *)
LEMMA LowPrices == \A k \in 1..128 : Priced(Rows00To7F[k])
<1>1. \A k \in 1..128 : ReadPrice(Rows00To7F[k])
  BY SMTT(60) DEF Rows00To7F, E, ReadPrice, ReadOps
<1>2. \A k \in 1..128 : CarryPrice(Rows00To7F[k])
  BY SMTT(60) DEF Rows00To7F, E, CarryPrice, ReadOps, ExtraOps, CarryModes
<1>3. \A k \in 1..128 : RmwPrice(Rows00To7F[k])
  BY SMTT(60) DEF Rows00To7F, E, RmwPrice, RmwOps, LeftOps, RightOps
<1>4. \A k \in 1..128 : StorePrice(Rows00To7F[k])
  BY SMTT(60) DEF Rows00To7F, E, StorePrice, StoreOps
<1>5. \A k \in 1..128 : ShxPrice(Rows00To7F[k])
  BY SMTT(60) DEF Rows00To7F, E, ShxPrice, ShxOps
<1>6. \A k \in 1..128 : PlainPrice(Rows00To7F[k])
  BY SMTT(60) DEF Rows00To7F, E, PlainPrice, BranchOps, ImpliedOps
<1>7. \A k \in 1..128 : ControlPrice(Rows00To7F[k])
  BY SMTT(60) DEF Rows00To7F, E, ControlPrice
<1>8. \A k \in 1..128 : JumpPrice(Rows00To7F[k])
  BY SMTT(60) DEF Rows00To7F, E, JumpPrice
<1> QED BY <1>1, <1>2, <1>3, <1>4, <1>5, <1>6, <1>7, <1>8, Zenon DEF Priced

(* And for the upper half.                                                 *)
LEMMA HighPrices == \A k \in 1..128 : Priced(Rows80ToFF[k])
<1>1. \A k \in 1..128 : ReadPrice(Rows80ToFF[k])
  BY SMTT(60) DEF Rows80ToFF, E, ReadPrice, ReadOps
<1>2. \A k \in 1..128 : CarryPrice(Rows80ToFF[k])
  BY SMTT(60) DEF Rows80ToFF, E, CarryPrice, ReadOps, ExtraOps, CarryModes
<1>3. \A k \in 1..128 : RmwPrice(Rows80ToFF[k])
  BY SMTT(60) DEF Rows80ToFF, E, RmwPrice, RmwOps, LeftOps, RightOps
<1>4. \A k \in 1..128 : StorePrice(Rows80ToFF[k])
  BY SMTT(60) DEF Rows80ToFF, E, StorePrice, StoreOps
<1>5. \A k \in 1..128 : ShxPrice(Rows80ToFF[k])
  BY SMTT(60) DEF Rows80ToFF, E, ShxPrice, ShxOps
<1>6. \A k \in 1..128 : PlainPrice(Rows80ToFF[k])
  BY SMTT(60) DEF Rows80ToFF, E, PlainPrice, BranchOps, ImpliedOps
<1>7. \A k \in 1..128 : ControlPrice(Rows80ToFF[k])
  BY SMTT(60) DEF Rows80ToFF, E, ControlPrice
<1>8. \A k \in 1..128 : JumpPrice(Rows80ToFF[k])
  BY SMTT(60) DEF Rows80ToFF, E, JumpPrice
<1> QED BY <1>1, <1>2, <1>3, <1>4, <1>5, <1>6, <1>7, <1>8, Zenon DEF Priced

(* Both halves, indexed by the opcode.                                     *)
LEMMA TablePrices ==
  ASSUME NEW code \in Byte
  PROVE  instruction_table[code] \in Entries /\ Priced(instruction_table[code])
<1>1. code \in Int /\ 0 <= code /\ code <= 255 BY ByteIs
<1>2. CASE code < 128
  <2> DEFINE k == code + 1
  <2>1. k \in 1..128 BY <1>1, <1>2
  <2>2. instruction_table[code] = Rows00To7F[k] BY <1>2 DEF instruction_table
  <2> HIDE DEF k
  <2> QED BY <2>1, <2>2, LowPrices, TableType
<1>3. CASE ~(code < 128)
  <2> DEFINE k == code - 127
  <2>1. k \in 1..128 BY <1>1, <1>3
  <2>2. instruction_table[code] = Rows80ToFF[k] BY <1>3 DEF instruction_table
  <2> HIDE DEF k
  <2> QED BY <2>1, <2>2, HighPrices, TableType
<1> QED BY <1>2, <1>3

-----------------------------------------------------------------------------
(* s is r but for the accumulator and the flags.                           *)
SameIndex(r, s) == s.pc = r.pc /\ s.x = r.x /\ s.y = r.y

(* The arithmetic cores write nothing else.                                *)
LEMMA OnlyA ==
  ASSUME NEW r \in Regs, NEW a, NEW t
  PROVE  SameIndex(r, [r EXCEPT !.a = a, !.sr = t])
  BY SMT DEF SameIndex, Regs, Registers

(* ADC, binary or decimal.                                                 *)
LEMMA AdcIndex ==
  ASSUME NEW r \in Regs, NEW val
  PROVE  SameIndex(r, adcCore(r, val))
<1> DEFINE bin  == r.a + val + Carry(r)
           adj  == bin + IfBit(DecimalOn(r) /\ DigitCarry(r, val), 6)
           full == adj + IfBit(DecimalOn(r) /\ adj > 153, 96)
           c    == IF DecimalOn(r) THEN full > 153 ELSE full > 255
           v    == Has(r.a, 128) = Has(val, 128) /\ Has(r.a, 128) # Has(adj, 128)
           z    == setStatus(r.sr, "Z", Lo(bin) = 0)
           n    == setStatus(z, "N", Has(adj, 128))
           t    == setStatus(setStatus(n, "V", v), "C", c)
<1>1. adcCore(r, val) = [r EXCEPT !.a = Lo(full), !.sr = t] BY DEF adcCore
<1> HIDE DEF full, t
<1>2. SameIndex(r, [r EXCEPT !.a = Lo(full), !.sr = t]) BY OnlyA
<1> QED BY <1>1, <1>2, Zenon

(* The same for subtraction.                                               *)
LEMMA SbcIndex ==
  ASSUME NEW r \in Regs, NEW val
  PROVE  SameIndex(r, sbcCore(r, val))
<1> DEFINE bin  == Wrap16(r.a - val - (1 - Carry(r)))
           adj  == Wrap16(bin - IfBit(DecimalOn(r) /\ DigitBorrow(r, val), 6))
           full == Wrap16(adj - IfBit(DecimalOn(r) /\ adj > 153, 96))
           v    == Has(r.a, 128) # Has(val, 128) /\ Has(r.a, 128) # Has(bin, 128)
           flag == setStatus(nz(r.sr, Lo(bin)), "V", v)
           t    == setStatus(flag, "C", full < 256)
<1>1. sbcCore(r, val) = [r EXCEPT !.a = Lo(full), !.sr = t] BY DEF sbcCore
<1> HIDE DEF full, t
<1>2. SameIndex(r, [r EXCEPT !.a = Lo(full), !.sr = t]) BY OnlyA
<1> QED BY <1>1, <1>2, Zenon

(* A load moves neither pc; X it may move.                                 *)
LEMMA ReadEffectPc ==
  ASSUME NEW r \in Regs, NEW v, NEW op \in ReadOps
  PROVE  ReadEffect(op, r, v).pc = r.pc
<1>1. CASE op \in {"ADC", "SBC"} BY <1>1, AdcIndex, SbcIndex DEF SameIndex, ReadEffect
<1> USE DEF ReadEffect, Load, Compare, BIT, UndocumentedRead, SetA, SetX, SetY, setNZ, SetFlag,
            cmpCore, Regs, Registers
<1>2. CASE op \in {"AND", "ORA", "EOR", "LDA", "LDX", "LDY"} BY <1>2, SMT
<1>3. CASE op \in {"CMP", "CPX", "CPY"} BY <1>3, SMT
<1>4. CASE op \in {"BIT", "NOPR"} BY <1>4, SMT
<1>5. CASE op \in {"LAX", "XAA", "LAS"} BY <1>5, SMT
<1>6. CASE op \in {"ANC", "ALR", "ARR", "SBX"} BY <1>6, SMT
<1> QED BY <1>1, <1>2, <1>3, <1>4, <1>5, <1>6 DEF ReadOps

(* A read-modify-write moves neither pc nor an index.                      *)
LEMMA RmwEffectIndex ==
  ASSUME NEW r \in Regs, NEW orig, NEW val, NEW op \in RmwOps
  PROVE  SameIndex(r, RmwEffect(op, r, orig, val))
<1> DEFINE s == CASE op \in LeftOps  -> SetFlag(r, "C", Has(orig, 128))
                  [] op \in RightOps -> SetFlag(r, "C", Has(orig, 1))
                  [] OTHER -> r
           t == RmwEffect(op, r, orig, val)
<1>1. s \in Regs BY SetFlagKeeps, SMT DEF Keeps, ArithmeticFlags
<1>2. SameIndex(r, s) BY SMT DEF SameIndex, SetFlag, Regs, Registers
<1>3. t = CASE op \in {"ASL", "LSR", "ROL", "ROR", "INC", "DEC"} -> setNZ(s, val)
            [] op = "SLO" -> SetA(s, Or(s.a, val))
            [] op = "RLA" -> SetA(s, And(s.a, val))
            [] op = "SRE" -> SetA(s, Xor(s.a, val))
            [] op = "RRA" -> adcCore(s, val)
            [] op = "ISC" -> sbcCore(s, val)
            [] op = "DCP" -> cmpCore(s, s.a, val)
  BY DEF RmwEffect
<1> HIDE DEF s, t
<1>4. \A b : SameIndex(s, SetA(s, b)) /\ SameIndex(s, setNZ(s, b))
  BY <1>1, SMT DEF SameIndex, SetA, setNZ, Regs, Registers
<1>5. SameIndex(s, cmpCore(s, s.a, val)) BY <1>1, SMT DEF SameIndex, cmpCore, Regs, Registers
<1>6. SameIndex(s, adcCore(s, val)) /\ SameIndex(s, sbcCore(s, val))
  BY <1>1, AdcIndex, SbcIndex
<1>7. SameIndex(s, t) BY <1>3, <1>4, <1>5, <1>6, SMT DEF RmwOps, LeftOps, RightOps
<1> QED BY <1>2, <1>7 DEF SameIndex, t

(* Nor does an implied instruction move pc.                                *)
LEMMA ImpliedPc ==
  ASSUME NEW r \in Regs, NEW op \in ImpliedOps
  PROVE  ImpliedEffect(op, r).pc = r.pc
  BY SMT DEF ImpliedEffect, ImpliedOps, ClearOrSet, Transfer, SetA, SetX, SetY, setNZ, SetFlag,
             Regs, Registers

-----------------------------------------------------------------------------
(* Loads: the log, the last access and the charge.                         *)
LEMMA LoadCount ==
  ASSUME NEW e \in Entries, Priced(e), e.op \in ReadOps, e.mode \in MemoryModes,
         NEW c \in BOOLEAN, c => e.mode \in CarryModes,
         NEW F, F = IF e.mode \in PointerModes THEN 2 ELSE 0,
         NEW D, D = IF e.mode \in {"zpx", "zpy"} \/ c THEN 1 ELSE 0
  PROVE  e.cycles + IfBit(c, 1)
           = ((((1 + OperandBytes(e.mode)) + F) + D) + 1) + IfBit(e.mode = "izx", 1)
<1>1. ReadPrice(e) BY DEF Priced
<1>2. e.mode # "imm" BY SMT DEF MemoryModes, ZeroPageModes, CarryModes
<1>3. CASE e.mode = "zp"
  BY <1>1, <1>3, SMT DEF ReadPrice, OperandBytes, IfBit, PointerModes, CarryModes
<1>4. CASE e.mode \in {"zpx", "zpy"}
  BY <1>1, <1>4, SMT DEF ReadPrice, OperandBytes, IfBit, PointerModes, CarryModes
<1>5. CASE e.mode = "abs"
  BY <1>1, <1>5, SMT DEF ReadPrice, OperandBytes, IfBit, PointerModes, CarryModes
<1>6. CASE e.mode \in {"abx", "aby"}
  BY <1>1, <1>6, SMT DEF ReadPrice, OperandBytes, IfBit, PointerModes, CarryModes
<1>7. CASE e.mode = "izy"
  BY <1>1, <1>7, SMT DEF ReadPrice, OperandBytes, IfBit, PointerModes, CarryModes
<1>8. CASE e.mode = "izx"
  BY <1>1, <1>8, SMT DEF ReadPrice, OperandBytes, IfBit, PointerModes, CarryModes
<1> QED BY <1>1, <1>2, <1>3, <1>4, <1>5, <1>6, <1>7, <1>8 DEF ReadPrice

(* A load reads its operand last and charges for every access.             *)
LEMMA LoadBus ==
  ASSUME NEW m \in Machines, Calm(m.log, 1), NEW e \in Entries, Priced(e), e.op \in ReadOps,
         NEW i, i = init(m, e.mode), NEW x, x = readOperand(m, e)
  PROVE  /\ x.r.pc = i.r.pc
         /\ e.mode \notin MemoryModes => Calm(x.log, 2) /\ x.cycles >= 2
         /\ e.mode \in MemoryModes =>
              \E n \in Nat :
                /\ Calm(x.log, n + 1) /\ x.cycles = (n + 1) + IfBit(e.mode = "izx", 1)
                /\ x.log[n + 1] = Access("R", OperandAt(i, e.mode),
                                         Peek(i.mem, OperandAt(i, e.mode)))
<1> DEFINE mode == e.mode
           g == get8bit(i, mode)
           s == ReadEffect(e.op, g.r, g.v)
           extra == IF e.op \in ExtraOps THEN extraCycles(g) ELSE 0
           k == 1 + OperandBytes(mode)
<1>1. 1 \in Nat /\ OperandBytes(mode) \in {0, 1, 2} /\ k \in Nat BY OperandBytesType
<1>2. i \in Machines /\ Fresh(i) /\ Calm(i.log, k) BY <1>1, InitIs
<1>3. g \in Machines /\ g.v \in Byte BY <1>2, Get8bitOk DEF Ok
<1>4. x = [g EXCEPT !.r = s, !.cycles = e.cycles + extra] BY DEF readOperand, UseOperand
<1>5. s.pc = g.r.pc BY <1>3, ReadEffectPc DEF Machines
<1>6. extra \in {0, 1} BY DEF extraCycles, IfBit
<1>7. e.cycles \in Nat BY EntryType
<1> HIDE DEF g, s, extra
<1>8. x.r = s /\ x.log = g.log /\ x.cycles = e.cycles + extra BY <1>3, <1>4, SMT DEF Machines
<1>9. CASE mode \notin MemoryModes
  <2>1. mode = "imm" /\ e.cycles = 2
    BY <1>9, SMT DEF Priced, ReadPrice, MemoryModes, ZeroPageModes, CarryModes
  <2>2. g = [i EXCEPT !.v = Lo(i.p.data)] BY <2>1 DEF g, get8bit
  <2>3. g.r = i.r /\ g.log = i.log BY <1>2, <2>2, SMT DEF Machines
  <2>4. k = 2 BY <2>1 DEF OperandBytes
  <2>5. x.cycles >= 2 BY <1>6, <1>8, <2>1
  <2>6. Calm(x.log, 2) BY <1>2, <1>8, <2>3, <2>4
  <2>7. x.r.pc = i.r.pc BY <1>5, <1>8, <2>3
  <2> QED BY <1>9, <2>5, <2>6, <2>7
<1>10. CASE mode \in MemoryModes
  <2> DEFINE F == ToFetch(i, mode)
             D == Dummies(i, i, mode)
             c == Carries(i, mode)
             n == (k + F) + D
  <2>1. Follows(i, i, mode, k) /\ F = IF mode \in PointerModes THEN 2 ELSE 0
    BY <1>2, FollowInit
  <2>2. /\ n \in Nat /\ Follows(i, g, mode, n + 1)
        /\ mode \in CarryModes => g.p.m_crossed = c
        /\ mode \notin CarryModes => g.p.m_crossed = i.p.m_crossed
        /\ g.log[n + 1] = Access("R", OperandAt(i, mode), Peek(i.mem, OperandAt(i, mode)))
    BY <1>1, <1>10, <2>1, FollowGet DEF g
  <2>3. D = IF mode \in {"zpx", "zpy"} \/ c THEN 1 ELSE 0 BY <1>2 DEF Dummies, Fresh
  <2>4. c \in BOOLEAN /\ (c => mode \in CarryModes) BY DEF Carries
  <2>5. extra = IfBit(c, 1)
    <3>1. CASE mode \in CarryModes
      <4>1. e.op \in ExtraOps BY <3>1 DEF Priced, CarryPrice
      <4>2. extra = IfBit(g.p.m_crossed, 1) BY <4>1 DEF extra, extraCycles
      <4> QED BY <2>2, <3>1, <4>2
    <3>2. CASE mode \notin CarryModes
      <4>1. ~g.p.m_crossed BY <1>2, <2>2, <3>2 DEF Fresh
      <4>2. ~c BY <2>4, <3>2
      <4> QED BY <4>1, <4>2 DEF extra, extraCycles, IfBit
    <3> QED BY <3>1, <3>2
  <2> HIDE DEF F, D, c
  <2>6. e.cycles + IfBit(c, 1) = (n + 1) + IfBit(mode = "izx", 1)
    BY <1>10, <2>1, <2>3, <2>4, LoadCount
  <2>7. g.r = i.r /\ Calm(g.log, n + 1) BY <2>2 DEF Follows
  <2> HIDE DEF n
  <2>8. x.cycles = (n + 1) + IfBit(mode = "izx", 1) BY <1>8, <2>5, <2>6
  <2>9. x.r.pc = i.r.pc BY <1>5, <1>8, <2>7
  <2> QED BY <1>8, <1>10, <2>2, <2>7, <2>8, <2>9
<1> QED BY <1>9, <1>10

-----------------------------------------------------------------------------
(* Stores and read-modify-writes spend the indexing cycle on the bus       *)
(* whether the index carries or not, and only once.                        *)
LEMMA Spent ==
  ASSUME NEW i \in Machines, Fresh(i), NEW mode, NEW k \in Nat, Calm(i.log, k),
         NEW d, d = dummyRead(i, mode)
  PROVE  \E l \in Nat :
           /\ Follows(i, d, mode, l) /\ Dummies(i, d, mode) = 0
           /\ l + ToFetch(d, mode)
                = (k + IF mode \in PointerModes THEN 2 ELSE 0)
                    + IF mode \in DummyModes THEN 1 ELSE 0
<1> DEFINE F == IF mode \in PointerModes THEN 2 ELSE 0
<1>1. Follows(i, i, mode, k) /\ ToFetch(i, mode) = F BY FollowInit
<1>2. CASE mode \in DummyModes
  <2> DEFINE l == (k + F) + 1
  <2>1. Follows(i, d, mode, l) /\ Ready(d, mode) /\ d.p.m_dummyDone
    BY <1>1, <1>2, FollowDummy DEF Fresh
  <2>2. l \in Nat BY DEF F
  <2>3. Dummies(i, d, mode) = 0 /\ ToFetch(d, mode) = 0 BY <2>1 DEF Dummies, ToFetch
  <2>4. l + ToFetch(d, mode) = (k + F) + IF mode \in DummyModes THEN 1 ELSE 0
    BY <1>2, <2>2, <2>3
  <2> QED BY <2>1, <2>2, <2>3, <2>4
<1>3. CASE mode \notin DummyModes
  <2>1. d = i BY <1>3 DEF dummyRead
  <2>2. Dummies(i, i, mode) = 0 BY <1>3 DEF Dummies, Carries, DummyModes
  <2>3. k + ToFetch(d, mode) = (k + F) + IF mode \in DummyModes THEN 1 ELSE 0
    BY <1>1, <1>3, <2>1 DEF F
  <2> QED BY <1>1, <2>1, <2>2, <2>3
<1> QED BY <1>2, <1>3

(* What the table charges for them.                                        *)
LEMMA StoreCount ==
  ASSUME NEW e \in Entries, Priced(e),
         NEW n, n = ((1 + OperandBytes(e.mode)) + IF e.mode \in PointerModes THEN 2 ELSE 0)
                      + IF e.mode \in DummyModes THEN 1 ELSE 0
  PROVE  /\ n \in Nat
         /\ e.op \in StoreOps => /\ e.mode \in MemoryModes
                                 /\ e.cycles = (n + 1) + IfBit(e.mode = "izx", 1)
         /\ e.op \in RmwOps /\ e.mode # "acc" =>
              e.mode \in MemoryModes /\ e.cycles = (n + 3) + IfBit(e.mode = "izx", 1)
         /\ e.op \in RmwOps /\ e.mode = "acc" => e.cycles = 2
<1>1. RmwPrice(e) /\ StorePrice(e) BY DEF Priced
<1>2. n \in Nat BY OperandBytesType
<1>3. e.op \in StoreOps => /\ e.mode \in MemoryModes
                           /\ e.cycles = (n + 1) + IfBit(e.mode = "izx", 1)
  BY <1>1, SMT DEF StorePrice, OperandBytes, IfBit, PointerModes, CarryModes, DummyModes,
                   MemoryModes, ZeroPageModes
<1>4. e.op \in RmwOps /\ e.mode # "acc" =>
        e.mode \in MemoryModes /\ e.cycles = (n + 3) + IfBit(e.mode = "izx", 1)
  BY <1>1, SMT DEF RmwPrice, OperandBytes, IfBit, PointerModes, CarryModes, DummyModes,
                   MemoryModes, ZeroPageModes
<1>5. e.op \in RmwOps /\ e.mode = "acc" => e.cycles = 2 BY <1>1, SMT DEF RmwPrice
<1> QED BY <1>2, <1>3, <1>4, <1>5

(* Stores: one write, the last access.                                     *)
LEMMA StoreBus ==
  ASSUME NEW m \in Machines, Calm(m.log, 1), NEW e \in Entries, Priced(e), e.op \in StoreOps,
         NEW i, i = init(m, e.mode), NEW x, x = store(m, e)
  PROVE  /\ x.r.pc = i.r.pc
         /\ \E n \in Nat, val \in Byte : \E log :
              /\ Calm(log, n) /\ x.cycles = (n + 1) + IfBit(e.mode = "izx", 1)
              /\ x.log = Append(log, Access("W", OperandAt(i, e.mode), val))
              /\ x.mem = Poke(i.mem, OperandAt(i, e.mode), val)
<1> DEFINE mode == e.mode
           k    == 1 + OperandBytes(mode)
           d    == dummyRead(i, mode)
           val  == StoreValue(e.op, d.r)
           s    == set8bit(d, mode, val)
           n    == (k + IF mode \in PointerModes THEN 2 ELSE 0)
                     + IF mode \in DummyModes THEN 1 ELSE 0
<1>1. 1 \in Nat /\ OperandBytes(mode) \in {0, 1, 2} /\ k \in Nat BY OperandBytesType
<1>2. i \in Machines /\ Fresh(i) /\ Calm(i.log, k) BY <1>1, InitIs
<1>3. PICK l \in Nat : Follows(i, d, mode, l) /\ l + ToFetch(d, mode) = n
  BY <1>1, <1>2, Spent
<1>4. n \in Nat /\ mode \in MemoryModes /\ e.cycles = (n + 1) + IfBit(mode = "izx", 1)
  BY StoreCount
<1>5. x = [s EXCEPT !.cycles = e.cycles] BY DEF store, StoreRegister
<1> HIDE DEF d, n
<1>6. val \in Byte
  <2>1. d.r \in Regs BY <1>3 DEF Follows, Machines
  <2> QED BY <2>1, StoreValueType
<1> HIDE DEF val
<1>7. /\ s \in Machines /\ s.r = i.r /\ s.mem = Poke(i.mem, OperandAt(i, mode), val)
      /\ Calm(addr(d, mode).log, l + ToFetch(d, mode))
      /\ s.log = Append(addr(d, mode).log, Access("W", OperandAt(i, mode), val))
  BY <1>3, <1>4, <1>6, FollowSet
<1> HIDE DEF s
<1>8. x.r = s.r /\ x.mem = s.mem /\ x.log = s.log /\ x.cycles = e.cycles
  BY <1>5, <1>7, SMT DEF Machines
<1>9. PICK log : Calm(log, n) /\ s.log = Append(log, Access("W", OperandAt(i, mode), val))
  BY <1>3, <1>7
<1>10. x.r.pc = i.r.pc /\ x.mem = Poke(i.mem, OperandAt(i, mode), val) BY <1>7, <1>8
<1>11. /\ x.log = Append(log, Access("W", OperandAt(i, mode), val))
       /\ x.cycles = (n + 1) + IfBit(mode = "izx", 1)
  BY <1>4, <1>8, <1>9
<1> QED BY <1>4, <1>6, <1>9, <1>10, <1>11, Zenon

(* A byte written twice holds the second.                                  *)
LEMMA PokeTwice ==
  ASSUME NEW mem0, NEW ad, NEW u, NEW v
  PROVE  Poke(Poke(mem0, ad, u), ad, v) = Poke(mem0, ad, v)
<1> DEFINE c == checkAddress(ad)
           D == DOMAIN mem0 \cup {c}
           one == Poke(mem0, ad, u)
<1>1. one = [k \in D |-> IF k = c THEN u ELSE mem0[k]] BY DEF Poke
<1>2. DOMAIN one = D /\ \A k \in D : one[k] = IF k = c THEN u ELSE mem0[k] BY <1>1
<1>3. Poke(one, ad, v) = [k \in DOMAIN one \cup {c} |-> IF k = c THEN v ELSE one[k]] BY DEF Poke
<1>4. Poke(mem0, ad, v) = [k \in D |-> IF k = c THEN v ELSE mem0[k]] BY DEF Poke
<1>5. D \cup {c} = D OBVIOUS
<1> HIDE DEF c, D, one
<1>6. Poke(one, ad, v) = [k \in D |-> IF k = c THEN v ELSE one[k]] BY <1>2, <1>3, <1>5
<1>7. \A k \in D : (IF k = c THEN v ELSE one[k]) = (IF k = c THEN v ELSE mem0[k]) BY <1>2
<1>8. Poke(one, ad, v) = Poke(mem0, ad, v) BY <1>4, <1>6, <1>7
<1> QED BY <1>8 DEF one

(* Read-modify-writes: the operand is read, written back and written.      *)
Modified(i, mode, ad, x) ==
  \E n \in Nat, val \in Byte : \E log :
    /\ Calm(log, n + 1) /\ log[n + 1] = Access("R", ad, Peek(i.mem, ad))
    /\ x.log = Append(Append(log, Access("W", ad, Peek(i.mem, ad))), Access("W", ad, val))
    /\ x.mem = Poke(i.mem, ad, val)
    /\ x.cycles = (n + 3) + IfBit(mode = "izx", 1)

(* So does every one of them that has a memory operand.                    *)
LEMMA RmwBus ==
  ASSUME NEW m \in Machines, Calm(m.log, 1), NEW e \in Entries, Priced(e), e.op \in RmwOps,
         NEW i, i = init(m, e.mode), NEW x, x = readModifyWrite(m, e),
         NEW ad, ad = OperandAt(i, e.mode)
  PROVE  /\ x.r.pc = i.r.pc
         /\ e.mode = "acc" => Calm(x.log, 1) /\ x.cycles = 2
         /\ e.mode # "acc" => Modified(i, e.mode, ad, x)
<1> DEFINE mode == e.mode
           k    == 1 + OperandBytes(mode)
           d    == dummyRead(i, mode)
           g    == get8bit(d, mode)
           val  == RmwValue(e.op, g.r, g.v)
           s    == RmwEffect(e.op, g.r, g.v, val)
           mod  == [g EXCEPT !.r = s, !.cycles = e.cycles]
           one  == set8bit(mod, mode, g.v)
           n    == (k + IF mode \in PointerModes THEN 2 ELSE 0)
                     + IF mode \in DummyModes THEN 1 ELSE 0
<1>1. 1 \in Nat /\ OperandBytes(mode) \in {0, 1, 2} /\ k \in Nat BY OperandBytesType
<1>2. i \in Machines /\ Fresh(i) /\ Calm(i.log, k) BY <1>1, InitIs
<1>3. PICK l \in Nat :
        Follows(i, d, mode, l) /\ Dummies(i, d, mode) = 0 /\ l + ToFetch(d, mode) = n
  BY <1>1, <1>2, Spent
<1>4. /\ n \in Nat
      /\ mode # "acc" => mode \in MemoryModes /\ e.cycles = (n + 3) + IfBit(mode = "izx", 1)
      /\ mode = "acc" => e.cycles = 2
  BY StoreCount
<1>5. d \in Machines BY <1>3 DEF Follows
<1>6. x = set8bit(one, mode, val) BY DEF readModifyWrite, ModifyWrite, rmwStore
<1>7. g \in Machines /\ g.v \in Byte /\ g.r \in Regs BY <1>5, Get8bitOk DEF Ok, Machines
<1> HIDE DEF g, n
<1>8. val \in Byte BY <1>7, RmwValueType
<1> HIDE DEF val
<1>9. Keeps(g.r, s) /\ SameIndex(g.r, s) BY <1>7, <1>8, RmwEffectKeeps, RmwEffectIndex
<1> HIDE DEF s
<1>10. e.cycles \in Nat BY EntryType
<1>11. /\ mod.r = s /\ mod.mem = g.mem /\ mod.log = g.log /\ mod.p = g.p
       /\ mod.cycles = e.cycles /\ mod \in Machines
  <2>1. mod \in Machines BY <1>7, <1>9, <1>10, FinishOk DEF Ok
  <2>2. /\ mod.r = s /\ mod.mem = g.mem /\ mod.log = g.log /\ mod.p = g.p
        /\ mod.cycles = e.cycles
    BY <1>7, SMT DEF Machines
  <2> QED BY <2>1, <2>2
<1> HIDE DEF mod
<1>12. CASE mode = "acc"
  <2>1. d = i BY <1>12 DEF dummyRead, DummyModes, CarryModes
  <2>2. g = [i EXCEPT !.v = i.r.a] BY <1>12, <2>1 DEF g, get8bit
  <2>3. g.r = i.r /\ g.log = i.log BY <1>2, <2>2, SMT DEF Machines
  <2>4. one = [mod EXCEPT !.r = [mod.r EXCEPT !.a = g.v]]
    BY <1>12, SMT DEF set8bit, MemoryModes, ZeroPageModes, CarryModes
  <2>5. one \in Machines BY <1>7, <1>11, Set8bitOk DEF Ok
  <2>6. one.r.pc = mod.r.pc /\ one.log = mod.log /\ one.cycles = mod.cycles
    BY <1>11, <2>4, SMT DEF Machines, Regs, Registers
  <2> HIDE DEF one
  <2>7. x = [one EXCEPT !.r = [one.r EXCEPT !.a = val]]
    BY <1>6, <1>12, SMT DEF set8bit, MemoryModes, ZeroPageModes, CarryModes
  <2>8. x.r.pc = one.r.pc /\ x.log = one.log /\ x.cycles = one.cycles
    BY <2>5, <2>7, SMT DEF Machines, Regs, Registers
  <2>9. k = 1 BY <1>12 DEF OperandBytes
  <2>10. x.r.pc = i.r.pc BY <1>9, <1>11, <2>3, <2>6, <2>8 DEF SameIndex
  <2>11. Calm(x.log, 1) /\ x.cycles = 2 BY <1>2, <1>4, <1>11, <1>12, <2>3, <2>6, <2>8, <2>9
  <2> QED BY <1>12, <2>10, <2>11
<1>13. CASE mode # "acc"
  <2>1. mode \in MemoryModes BY <1>4, <1>13
  <2>2. n = (l + ToFetch(d, mode)) + Dummies(i, d, mode) BY <1>3, <1>4
  <2>3. /\ Follows(i, g, mode, n + 1) /\ Ready(g, mode) /\ g.v = Peek(i.mem, ad)
        /\ g.log[n + 1] = Access("R", ad, Peek(i.mem, ad))
    BY <1>3, <2>1, <2>2, FollowGet DEF g
  <2>4. Effective(g, mode) = ad /\ ad \in Word BY <2>3, FollowReady
  <2>5. Effective(mod, mode) = ad
    <3>1. IndexOf(mod, mode) = IndexOf(g, mode) BY <1>9, <1>11 DEF IndexOf, SameIndex
    <3>2. base(mod, mode) = base(g, mode) BY <1>11 DEF base
    <3> QED BY <1>11, <2>4, <3>1, <3>2 DEF Effective
  <2>6. Ready(mod, mode) BY <1>11, <2>3 DEF Ready
  <2>7. /\ one \in Machines /\ one.r = mod.r /\ one.cycles = mod.cycles /\ Ready(one, mode)
        /\ Effective(one, mode) = ad
        /\ one.mem = Poke(mod.mem, ad, g.v)
        /\ one.log = Append(mod.log, Access("W", ad, g.v))
    BY <1>7, <1>11, <2>1, <2>5, <2>6, SetReady
  <2> HIDE DEF one
  <2>8. /\ x.r = one.r /\ x.cycles = one.cycles
        /\ x.mem = Poke(one.mem, ad, val) /\ x.log = Append(one.log, Access("W", ad, val))
    BY <1>6, <1>8, <2>1, <2>7, SetReady
  <2>9. g.r = i.r /\ g.mem = i.mem /\ Calm(g.log, n + 1) BY <2>3 DEF Follows
  <2>10. x.mem = Poke(i.mem, ad, val) BY <1>11, <2>7, <2>8, <2>9, PokeTwice
  <2>11. x.log = Append(Append(g.log, Access("W", ad, Peek(i.mem, ad))), Access("W", ad, val))
    BY <1>11, <2>3, <2>7, <2>8
  <2>12. x.cycles = (n + 3) + IfBit(mode = "izx", 1) BY <1>4, <1>11, <1>13, <2>7, <2>8
  <2>13. x.r.pc = i.r.pc BY <1>9, <1>11, <2>7, <2>8, <2>9 DEF SameIndex
  <2>14. Modified(i, mode, ad, x)
    BY <1>4, <1>8, <2>3, <2>9, <2>10, <2>11, <2>12, Zenon DEF Modified
  <2> QED BY <1>13, <2>13, <2>14, Zenon
<1> QED BY <1>12, <1>13

-----------------------------------------------------------------------------
(* The SHx stores and the branches.                                        *)
LEMMA ShxBus ==
  ASSUME NEW m \in Machines, Calm(m.log, 1), NEW e \in Entries, Priced(e), e.op \in ShxOps,
         NEW i, i = init(m, e.mode), NEW x, x = storeShx(m, e)
  PROVE  x.r.pc = i.r.pc /\ Len(x.log) <= x.cycles
<1> DEFINE mode == e.mode
           k    == 1 + OperandBytes(mode)
           src  == StoreValue(e.op, i.r)
           t    == [i.r EXCEPT !.sp = src]
           sp   == IF e.op = "TAS" THEN [i EXCEPT !.r.sp = src] ELSE i
           j    == resolve(sp, mode)
           val  == And(src, Wrap8(Hi(base(j, mode)) + 1))
           s    == set8bit(j, mode, val)
           n    == k + IF mode \in PointerModes THEN 2 ELSE 0
<1>1. 1 \in Nat /\ OperandBytes(mode) \in {0, 1, 2} /\ k \in Nat BY OperandBytesType
<1>2. i \in Machines /\ Fresh(i) /\ Calm(i.log, k) BY <1>1, InitIs
<1>3. i.r \in Regs BY <1>2 DEF Machines
<1>4. src \in Byte BY <1>3, StoreValueType
<1>5. x = [s EXCEPT !.cycles = e.cycles] BY DEF storeShx, StoreShxFrom, StoreMasked
<1> HIDE DEF src
<1>6. sp \in Machines BY <1>2, <1>4, SpOk DEF Ok
<1>7. sp.r.pc = i.r.pc /\ sp.log = i.log /\ sp.p = i.p
  BY <1>2, <1>3, SMT DEF Machines, Regs, Registers
<1> HIDE DEF sp
<1>8. Fresh(sp) BY <1>2, <1>7 DEF Fresh
<1>9. Follows(sp, sp, mode, k) /\ k + ToFetch(sp, mode) = n 
  BY <1>1, <1>2, <1>6, <1>7, <1>8, FollowInit
<1>10. Follows(sp, j, mode, n) /\ Ready(j, mode) BY <1>1, <1>9, FollowResolve
<1> HIDE DEF j
<1>11. val \in Byte BY AndType
<1>12. mode \in MemoryModes /\ n + 1 <= e.cycles /\ n \in Nat
  BY <1>1, SMT DEF Priced, ShxPrice, MemoryModes, ZeroPageModes, CarryModes,
                   PointerModes, OperandBytes
<1> HIDE DEF val, n
<1>13. j \in Machines /\ Calm(j.log, n) /\ j.r = sp.r BY <1>10 DEF Follows
<1>14. /\ s \in Machines /\ s.r = j.r /\ Effective(j, mode) \in Word
       /\ s.log = Append(j.log, Access("W", Effective(j, mode), val))
  BY <1>10, <1>11, <1>12, <1>13, SetReady
<1> HIDE DEF s
<1>15. x.r = s.r /\ x.log = s.log /\ x.cycles = e.cycles BY <1>5, <1>14, SMT DEF Machines
<1>16. Len(s.log) = n + 1
  <2>1. j.log \in Seq(Accesses) /\ Len(j.log) = n BY <1>13 DEF Calm
  <2> QED BY <1>14, <2>1
<1> QED BY <1>7, <1>12, <1>13, <1>14, <1>15, <1>16

(* A branch reads two bytes; one that is not taken goes on behind them.    *)
LEMMA BranchBus ==
  ASSUME NEW m \in Machines, Calm(m.log, 1), NEW e \in Entries, Priced(e), e.op \in BranchOps,
         NEW i, i = init(m, e.mode), NEW x, x = branch(m, e)
  PROVE  /\ Len(x.log) <= x.cycles
         /\ ~BranchTaken(e.op, i.r) => x.r.pc = i.r.pc
<1> DEFINE mode   == e.mode
           g      == get8bit(i, mode)
           target == Wrap16(g.r.pc + g.v - IfBit(Has(g.v, 128), 256))
           extra  == 1 + IfBit(Hi(g.r.pc) # Hi(target), 1)
<1>1. mode = "rel" BY DEF Priced, PlainPrice
<1>2. 1 \in Nat /\ 1 + OperandBytes(mode) = 2 BY <1>1 DEF OperandBytes
<1>3. i \in Machines /\ Calm(i.log, 2)
  <2>1. i \in Machines /\ Calm(i.log, 1 + OperandBytes(mode)) BY <1>2, InitIs
  <2> QED BY <1>2, <2>1
<1>4. g = [i EXCEPT !.v = Lo(i.p.data)] BY <1>1 DEF get8bit
<1>5. g \in Machines BY <1>3, Get8bitOk DEF Ok
<1>6. g.r = i.r /\ g.log = i.log BY <1>3, <1>4, SMT DEF Machines
<1>7. x = IF BranchTaken(e.op, g.r)
          THEN [g EXCEPT !.r.pc = target, !.cycles = e.cycles + extra]
          ELSE [g EXCEPT !.cycles = e.cycles]
  BY DEF branch, BranchFrom
<1>8. extra \in Nat BY DEF IfBit
<1>9. e.cycles \in Nat /\ e.cycles >= 2 BY SMT DEF Entries
<1> HIDE DEF g, target, extra
<1>10. Len(g.log) = 2 BY <1>3, <1>6 DEF Calm
<1>11. CASE BranchTaken(e.op, g.r)
  <2>1. x.log = g.log /\ x.cycles = e.cycles + extra BY <1>5, <1>7, <1>11, SMT DEF Machines
  <2>2. Len(x.log) <= x.cycles BY <1>8, <1>9, <1>10, <2>1
  <2> QED BY <1>6, <1>11, <2>2
<1>12. CASE ~BranchTaken(e.op, g.r)
  <2>1. x.r = g.r /\ x.log = g.log /\ x.cycles = e.cycles BY <1>5, <1>7, <1>12, SMT DEF Machines
  <2> QED BY <1>6, <1>9, <1>10, <2>1
<1> QED BY <1>11, <1>12

-----------------------------------------------------------------------------
(* Jumps, stack instructions and the interrupt sequence.  n has made d     *)
(* accesses more than m.                                                   *)
Longer(m, n, d) == n \in Machines /\ Len(n.log) = Len(m.log) + d

(* An access makes the log one longer.                                     *)
LEMMA AppendLen ==
  ASSUME NEW m \in Machines, NEW kind \in {"R", "W"}, NEW ad \in Word, NEW val \in Byte
  PROVE  Len(Append(m.log, Access(kind, ad, val))) = Len(m.log) + 1 /\ Len(m.log) \in Nat
<1>1. Access(kind, ad, val) \in Accesses BY DEF Access, Accesses
<1>2. m.log \in Seq(Accesses) BY DEF Machines
<1> QED BY <1>1, <1>2

(* The same for a machine that made it, and for one that made two.         *)
LEMMA LongerTwice ==
  ASSUME NEW l \in Machines, NEW m, NEW n, NEW c \in Nat, NEW d \in Nat,
         Longer(l, m, c), Longer(m, n, d)
  PROVE  Longer(l, n, c + d)
<1>1. l.log \in Seq(Accesses) BY DEF Machines
<1>2. Len(l.log) \in Nat BY <1>1
<1>3. Len(m.log) = Len(l.log) + c /\ Len(n.log) = Len(m.log) + d BY DEF Longer
<1>4. Len(n.log) = Len(l.log) + (c + d)
  <2> DEFINE p == Len(l.log)
             q == Len(m.log)
             t == Len(n.log)
  <2>1. p \in Nat /\ q = p + c /\ t = q + d BY <1>2, <1>3
  <2> HIDE DEF p, q, t
  <2>2. t = p + (c + d) BY <2>1
  <2> QED BY <2>2 DEF p, t
<1> QED BY <1>4 DEF Longer

(* A push writes page one at the stack pointer and moves it down.          *)
LEMMA PushIs ==
  ASSUME NEW m \in Machines, NEW val \in Byte, NEW n, n = push8(m, val)
  PROVE  /\ Longer(m, n, 1) /\ n.r = [m.r EXCEPT !.sp = Wrap8(m.r.sp - 1)]
         /\ n.mem = Poke(m.mem, 256 + m.r.sp, val)
<1> DEFINE ad == 256 + m.r.sp
           w  == write(m, ad, val)
           sp == Wrap8(w.r.sp - 1)
           s  == [w.r EXCEPT !.sp = sp]
<1>1. m.r.sp \in Byte BY DEF Machines, Regs, Registers
<1>2. ad \in Int /\ ad \in Word BY <1>1, ByteIs, WordIs
<1>3. Wrap16(ad) = ad BY <1>2, Wrap16Word
<1>4. n = [w EXCEPT !.r = s] BY DEF push8
<1>5. n \in Machines BY Push8Ok DEF Ok
<1> HIDE DEF ad
<1>6. /\ w \in Machines /\ w.r = m.r /\ w.mem = Poke(m.mem, ad, val)
      /\ w.log = Append(m.log, Access("W", ad, val))
  BY <1>2, <1>3, WriteIs
<1> HIDE DEF w
<1>7. Len(w.log) = Len(m.log) + 1 BY <1>2, <1>6, AppendLen
<1>8. s = [m.r EXCEPT !.sp = Wrap8(m.r.sp - 1)] BY <1>6
<1> HIDE DEF s
<1>9. n.r = s /\ n.mem = w.mem /\ n.log = w.log BY <1>4, <1>6, SMT DEF Machines
<1> QED BY <1>5, <1>6, <1>7, <1>8, <1>9 DEF Longer, ad

(* Two pushes.                                                             *)
LEMMA Push16Is ==
  ASSUME NEW m \in Machines, NEW val \in Word, NEW n, n = push16(m, val)
  PROVE  /\ Longer(m, n, 2) /\ n.r.pc = m.r.pc
         /\ n.r = [m.r EXCEPT !.sp = Wrap8(Wrap8(m.r.sp - 1) - 1)]
         /\ n.mem = Poke(Poke(m.mem, 256 + m.r.sp, Hi(val)),
                         256 + Wrap8(m.r.sp - 1), Lo(val))
<1> DEFINE j == push8(m, Hi(val))
<1>1. Hi(val) \in Byte /\ Lo(val) \in Byte BY HiType, LoType, WordIs
<1>2. /\ Longer(m, j, 1) /\ j.r = [m.r EXCEPT !.sp = Wrap8(m.r.sp - 1)]
      /\ j.mem = Poke(m.mem, 256 + m.r.sp, Hi(val))
  BY <1>1, PushIs
<1>3. n = push8(j, Lo(val)) BY DEF push16
<1> HIDE DEF j
<1>4. j \in Machines BY <1>2 DEF Longer
<1>5. /\ Longer(j, n, 1) /\ n.r = [j.r EXCEPT !.sp = Wrap8(j.r.sp - 1)]
      /\ n.mem = Poke(j.mem, 256 + j.r.sp, Lo(val))
  BY <1>1, <1>3, <1>4, PushIs
<1>6. 1 \in Nat /\ 1 + 1 = 2 OBVIOUS
<1>7. Longer(m, n, 2)
  <2>1. Longer(m, n, 1 + 1) BY <1>2, <1>5, <1>6, LongerTwice
  <2> QED BY <1>6, <2>1
<1>8. m.r \in Regs BY DEF Machines
<1>9. j.r.sp = Wrap8(m.r.sp - 1) BY <1>2, <1>8, SMT DEF Regs, Registers
<1>10. n.r = [m.r EXCEPT !.sp = Wrap8(Wrap8(m.r.sp - 1) - 1)]
  <2> DEFINE a == Wrap8(m.r.sp - 1)
             b == Wrap8(a - 1)
  <2>1. n.r = [[m.r EXCEPT !.sp = a] EXCEPT !.sp = b] BY <1>2, <1>5, <1>9
  <2> HIDE DEF a, b
  <2>2. n.r = [m.r EXCEPT !.sp = b] BY <2>1, Zenon
  <2> QED BY <2>2 DEF a, b
<1>11. n.r.pc = m.r.pc BY <1>8, <1>10, SMT DEF Regs, Registers
<1>12. n.mem = Poke(Poke(m.mem, 256 + m.r.sp, Hi(val)), 256 + Wrap8(m.r.sp - 1), Lo(val))
  BY <1>2, <1>5, <1>9, Zenon
<1> QED BY <1>7, <1>10, <1>11, <1>12

(* A pull moves the stack pointer up and reads page one there.             *)
LEMMA PopIs ==
  ASSUME NEW m \in Machines, NEW n, n = pop8(m)
  PROVE  /\ Longer(m, n, 1) /\ n.r = [m.r EXCEPT !.sp = Wrap8(m.r.sp + 1)]
         /\ n.mem = m.mem /\ n.v = Peek(m.mem, 256 + Wrap8(m.r.sp + 1)) /\ n.v \in Byte
<1> DEFINE sp == Wrap8(m.r.sp + 1)
           ad == 256 + sp
           t  == [m.r EXCEPT !.sp = sp]
           s  == [m EXCEPT !.r = t]
<1>1. m.r.sp \in Int BY ByteIs DEF Machines, Regs, Registers
<1>2. sp \in Byte BY <1>1, Wrap8Type
<1>3. n = read(s, ad) BY DEF pop8
<1> HIDE DEF sp
<1>4. ad \in Int /\ ad \in Word BY <1>2, ByteIs, WordIs
<1>5. Wrap16(ad) = ad BY <1>4, Wrap16Word
<1>6. s \in Machines
  <2>1. [m EXCEPT !.r.sp = sp] \in Machines BY <1>2, SpOk DEF Ok
  <2>2. [m EXCEPT !.r.sp = sp] = s OBVIOUS
  <2> QED BY <2>1, <2>2
<1> HIDE DEF t
<1>7. s.r = t /\ s.mem = m.mem /\ s.log = m.log BY SMT DEF Machines
<1> HIDE DEF s, ad
<1>8. /\ n \in Machines /\ n.r = s.r /\ n.mem = s.mem /\ n.v = Peek(s.mem, ad) /\ n.v \in Byte
      /\ n.log = Append(s.log, Access("R", ad, n.v))
  <2> DEFINE rd == read(s, ad)
  <2>1. /\ rd \in Machines /\ rd.r = s.r /\ rd.mem = s.mem /\ rd.v = Peek(s.mem, ad)
        /\ Peek(s.mem, ad) \in Byte /\ rd.log = Append(s.log, Access("R", ad, Peek(s.mem, ad)))
    BY <1>4, <1>5, <1>6, ReadIs
  <2>2. rd = n BY <1>3
  <2> HIDE DEF rd
  <2> QED BY <2>1, <2>2, Zenon
<1>9. Len(n.log) = Len(s.log) + 1 BY <1>4, <1>6, <1>8, AppendLen
<1> QED BY <1>7, <1>8, <1>9 DEF Longer, t, sp, ad

(* Two pulls.                                                              *)
LEMMA Pop16Is ==
  ASSUME NEW m \in Machines, NEW n, n = pop16(m)
  PROVE  /\ Longer(m, n, 2) /\ n.mem = m.mem /\ n.v \in Word
         /\ n.v = Join(Peek(m.mem, 256 + Wrap8(m.r.sp + 1)),
                       Peek(m.mem, 256 + Wrap8(Wrap8(m.r.sp + 1) + 1)))
<1> DEFINE j == pop8(m)
           h == pop8(j)
           w == Join(j.v, h.v)
<1>1. /\ Longer(m, j, 1) /\ j.r = [m.r EXCEPT !.sp = Wrap8(m.r.sp + 1)] /\ j.mem = m.mem
      /\ j.v = Peek(m.mem, 256 + Wrap8(m.r.sp + 1)) /\ j.v \in Byte
  BY PopIs
<1>2. n = [h EXCEPT !.v = w] BY DEF pop16
<1> HIDE DEF j
<1>3. j \in Machines BY <1>1 DEF Longer
<1>4. /\ Longer(j, h, 1) /\ h.mem = j.mem /\ h.v \in Byte
      /\ h.v = Peek(j.mem, 256 + Wrap8(j.r.sp + 1))
  BY <1>3, PopIs
<1> HIDE DEF h
<1>5. 1 \in Nat /\ 1 + 1 = 2 OBVIOUS
<1>6. Longer(m, h, 1 + 1) BY <1>1, <1>4, <1>5, LongerTwice
<1>7. j.r.sp = Wrap8(m.r.sp + 1) BY <1>1, SMT DEF Machines, Regs, Registers
<1>8. w \in Word BY <1>1, <1>4, JoinType
<1>9. w = Join(Peek(m.mem, 256 + Wrap8(m.r.sp + 1)),
               Peek(m.mem, 256 + Wrap8(Wrap8(m.r.sp + 1) + 1)))
  BY <1>1, <1>4, <1>7, Zenon
<1> HIDE DEF w
<1>10. h \in Machines /\ n \in Machines BY <1>6, <1>2, Pop16Ok DEF Longer, Ok
<1>11. n.mem = h.mem /\ n.log = h.log /\ n.v = w BY <1>2, <1>10, SMT DEF Machines
<1> QED BY <1>1, <1>4, <1>5, <1>6, <1>8, <1>9, <1>10, <1>11 DEF Longer

(* Registers and cycles are not on the bus.                                *)
LEMMA SameLog ==
  ASSUME NEW m \in Machines, NEW n \in Machines, NEW s, n = [m EXCEPT !.r = s]
  PROVE  Longer(m, n, 0) /\ n.r = s /\ n.mem = m.mem /\ n.v = m.v
<1>1. n.log = m.log /\ n.r = s /\ n.mem = m.mem /\ n.v = m.v BY SMT DEF Machines
<1>2. m.log \in Seq(Accesses) BY DEF Machines
<1>3. Len(n.log) = Len(m.log) + 0 BY <1>1, <1>2
<1> QED BY <1>1, <1>3 DEF Longer

(* Two reads, whatever came before them.                                   *)
LEMMA Read16Len ==
  ASSUME NEW m \in Machines, NEW lo \in Int, NEW hi \in Int
  PROVE  Longer(m, read16(m, lo, hi), 2)
<1> DEFINE j == read(m, lo)
           h == read(j, hi)
           w == Join(j.v, h.v)
           n == read16(m, lo, hi)
<1>1. \A d \in Machines : \A ad \in Int : Longer(d, read(d, ad), 1)
  <2> SUFFICES ASSUME NEW d \in Machines, NEW ad \in Int PROVE Longer(d, read(d, ad), 1)
    OBVIOUS
  <2>1. Wrap16(ad) \in Word BY Wrap16Type
  <2>2. /\ read(d, ad) \in Machines /\ Peek(d.mem, Wrap16(ad)) \in Byte
        /\ read(d, ad).log = Append(d.log, Access("R", Wrap16(ad), Peek(d.mem, Wrap16(ad))))
    BY ReadIs
  <2> QED BY <2>1, <2>2, AppendLen DEF Longer
<1>2. Longer(m, j, 1) BY <1>1
<1>3. n = [h EXCEPT !.v = w] BY DEF read16
<1>4. n \in Machines BY Read16Ok DEF Ok
<1> HIDE DEF j, w, n
<1>5. Longer(j, h, 1) BY <1>1, <1>2 DEF Longer
<1> HIDE DEF h
<1>6. 1 \in Nat /\ 1 + 1 = 2 OBVIOUS
<1>7. Longer(m, h, 1 + 1) BY <1>2, <1>5, <1>6, LongerTwice
<1>8. n.log = h.log BY <1>3, <1>5, SMT DEF Longer, Machines
<1>9. Longer(m, n, 2) BY <1>4, <1>6, <1>7, <1>8 DEF Longer
<1> QED BY <1>9 DEF n

(* A jump through a vector.                                                *)
LEMMA VectorLen ==
  ASSUME NEW m \in Machines, NEW ad \in Int
  PROVE  Longer(m, vector(m, ad), 2)
<1> DEFINE got == read16(m, ad, ad + 1)
           s   == [got.r EXCEPT !.pc = got.v]
           n   == vector(m, ad)
<1>1. ad + 1 \in Int OBVIOUS
<1>2. Longer(m, got, 2) BY <1>1, Read16Len
<1>3. n = [got EXCEPT !.r = s] BY DEF vector, JumpToRead
<1>4. n \in Machines BY VectorOk DEF Ok
<1> HIDE DEF got, s, n
<1>5. got \in Machines BY <1>2 DEF Longer
<1>6. Longer(got, n, 0) BY <1>3, <1>4, <1>5, SameLog
<1>7. 2 \in Nat /\ 0 \in Nat /\ 2 + 0 = 2 OBVIOUS
<1>8. Longer(m, n, 2 + 0) BY <1>2, <1>6, <1>7, LongerTwice
<1>9. Longer(m, n, 2) BY <1>7, <1>8
<1> QED BY <1>9 DEF n

(* What BRK and serviceInterrupt share: three pushes and the vector.       *)
LEMMA EntryLen ==
  ASSUME NEW m \in Machines, NEW pc \in Word, NEW b \in Byte, NEW ad \in Int,
         NEW pushed, pushed = push8(push16(m, pc), b)
  PROVE  Longer(m, vector([pushed EXCEPT !.r.sr = @ \cup {"I"}], ad), 5)
<1> DEFINE j == push16(m, pc)
           q == [pushed.r EXCEPT !.sr = pushed.r.sr \cup {"I"}]
           s == [pushed EXCEPT !.r = q]
           n == vector(s, ad)
<1>1. Longer(m, j, 2) BY Push16Is
<1>2. pushed = push8(j, b) OBVIOUS
<1> HIDE DEF j
<1>3. Longer(j, pushed, 1)
  <2>1. j \in Machines BY <1>1 DEF Longer
  <2> QED BY <1>2, <2>1, PushIs
<1>4. pushed \in Machines /\ pushed.r \in Regs BY <1>3 DEF Longer, Machines
<1>5. [pushed EXCEPT !.r.sr = @ \cup {"I"}] = s OBVIOUS
<1>6. s \in Machines
  <2> DEFINE t == pushed.r.sr \cup {"I"}
  <2>1. t \subseteq Flags6502 /\ "B" \notin t /\ "U" \in t
    BY <1>4, SMT DEF Regs, Registers, Flags6502
  <2> HIDE DEF t
  <2>2. Sound(pushed.r, [pushed.r EXCEPT !.sr = t]) BY <1>4, <2>1, SoundSr
  <2>3. q = [pushed.r EXCEPT !.sr = t] BY DEF t
  <2> HIDE DEF q
  <2>4. SoundM(pushed, s) BY <1>4, <2>2, <2>3, SoundR
  <2> QED BY <2>4 DEF SoundM
<1> HIDE DEF q
<1>7. Longer(pushed, s, 0) BY <1>4, <1>6, SameLog
<1> HIDE DEF s
<1>8. Longer(s, n, 2) BY <1>6, VectorLen
<1>9. 0 \in Nat /\ 1 \in Nat /\ 2 \in Nat /\ 3 \in Nat OBVIOUS
<1>10. 2 + 1 = 3 /\ 3 + 0 = 3 /\ 3 + 2 = 5 OBVIOUS
<1>11. Longer(m, pushed, 2 + 1) BY <1>1, <1>3, <1>9, LongerTwice
<1>12. Longer(m, pushed, 3) BY <1>10, <1>11
<1>13. Longer(m, s, 3 + 0) BY <1>7, <1>9, <1>12, LongerTwice
<1>14. Longer(m, s, 3) BY <1>10, <1>13
<1>15. Longer(m, n, 3 + 2) BY <1>8, <1>9, <1>14, LongerTwice
<1>16. Longer(m, n, 5) BY <1>10, <1>15
<1> QED BY <1>5, <1>16, Zenon DEF n

(* An interrupt sequence: five accesses in seven cycles.                   *)
LEMMA ServiceBus ==
  ASSUME NEW m \in Machines, Len(m.log) = 0, NEW ad \in Int, NEW x, x = serviceInterrupt(m, ad)
  PROVE  Len(x.log) = 5 /\ x.cycles = 7
<1> DEFINE pc     == m.r.pc
           b      == SrByte((m.r.sr \ {"B"}) \cup {"U"})
           pushed == push8(push16(m, pc), b)
           n      == vector([pushed EXCEPT !.r.sr = @ \cup {"I"}], ad)
<1>1. pc \in Word BY DEF Machines, Regs, Registers
<1>2. b \in Byte BY SrByteType
<1>3. x = [n EXCEPT !.cycles = 7] BY DEF serviceInterrupt
<1> HIDE DEF pc, b
<1>4. Longer(m, n, 5) BY <1>1, <1>2, EntryLen
<1> HIDE DEF n
<1>5. x.log = n.log /\ x.cycles = 7 BY <1>3, <1>4, SMT DEF Longer, Machines
<1> QED BY <1>4, <1>5 DEF Longer

(* BRK: three pushes and the vector.                                       *)
LEMMA BrkLen ==
  ASSUME NEW m \in Machines
  PROVE  Longer(m, BRK(m), 5)
<1> DEFINE w == Wrap16(m.r.pc + 1)
           b == PushedSr(m.r)
           ad == 65534
           pushed == push8(push16(m, w), b)
           n == vector([pushed EXCEPT !.r.sr = @ \cup {"I"}], ad)
<1>1. w \in Word BY PcPartType, Wrap16Type
<1>2. b \in Byte BY SrByteType DEF PushedSr
<1>3. ad \in Int BY SMT
<1>4. BRK(m) = n BY SMT DEF BRK
<1> HIDE DEF w, b, ad
<1>5. Longer(m, n, 5) BY <1>1, <1>2, <1>3, EntryLen
<1> QED BY <1>4, <1>5

(* JMP and JSR read their target.                                          *)
LEMMA GetTarget ==
  ASSUME NEW m \in Machines, Calm(m.log, 1), NEW mode \in {"abc", "ind"},
         NEW i, i = init(m, mode), NEW got, got = get16bit(i, mode)
  PROVE  /\ got \in Machines /\ got.r = i.r /\ got.v \in Word
         /\ mode = "abc" => Len(got.log) = 3
         /\ mode = "ind" => Len(got.log) = 5
<1>1. 1 \in Nat /\ 1 + OperandBytes(mode) = 3 BY DEF OperandBytes
<1>2. i \in Machines /\ Calm(i.log, 1 + OperandBytes(mode)) BY <1>1, InitIs
<1>3. Len(i.log) = 3 BY <1>1, <1>2 DEF Calm
<1>4. got \in Machines /\ got.v \in Word BY <1>2, Get16bitOk DEF Ok
<1>5. CASE mode = "abc"
  <2>1. got = [i EXCEPT !.v = i.p.data] BY <1>5 DEF get16bit
  <2>2. got.r = i.r /\ got.log = i.log BY <1>2, <2>1, SMT DEF Machines
  <2> QED BY <1>3, <1>4, <1>5, <2>2
<1>6. CASE mode = "ind"
  <2> DEFINE lo == i.p.data
             hi == Join(Lo(lo + 1), Hi(lo))
  <2>1. got = read16(i, lo, hi) BY <1>6 DEF get16bit
  <2>2. lo \in Word BY <1>2 DEF Machines, Params
  <2>3. lo \in Int /\ lo + 1 \in Int BY <2>2, WordIs
  <2> HIDE DEF lo
  <2>4. Lo(lo + 1) \in Byte /\ Hi(lo) \in Byte BY <2>2, <2>3, LoType, HiType
  <2>5. hi \in Word BY <2>4, JoinType
  <2>6. hi \in Int BY <2>5, WordIs
  <2> HIDE DEF hi
  <2>7. Longer(i, got, 2) BY <1>2, <2>1, <2>3, <2>6, Read16Len
  <2>8. got.r = i.r
    <3>1. 3 \in Nat /\ Calm(i.log, 3) BY <1>1, <1>2
    <3> QED BY <1>2, <2>1, <2>3, <2>6, <3>1, Read16Is
  <2> QED BY <1>3, <1>4, <1>6, <2>7, <2>8 DEF Longer
<1> QED BY <1>5, <1>6

(* JMP: the opcode, the operand and, through a pointer, two bytes more.    *)
LEMMA JmpLen ==
  ASSUME NEW m \in Machines, Calm(m.log, 1), NEW mode \in {"abc", "ind"}
  PROVE  /\ mode = "abc" => Len(JMP(m, mode).log) = 3
         /\ mode = "ind" => Len(JMP(m, mode).log) = 5
<1> DEFINE i   == init(m, mode)
           got == get16bit(i, mode)
           s   == [got.r EXCEPT !.pc = got.v]
           n   == JMP(m, mode)
<1>1. /\ got \in Machines
      /\ mode = "abc" => Len(got.log) = 3
      /\ mode = "ind" => Len(got.log) = 5
  BY GetTarget
<1>2. n = [got EXCEPT !.r = s] BY DEF JMP, JumpToRead
<1> HIDE DEF got, s
<1>3. n.log = got.log BY <1>1, <1>2, SMT DEF Machines
<1> QED BY <1>1, <1>3

(* JSR pushes the address before the next instruction, high byte first.    *)
LEMMA JsrIs ==
  ASSUME NEW m \in Machines, Calm(m.log, 1), NEW i, i = init(m, "abc"),
         NEW n, n = JSR(m, "abc"), NEW w, w = Wrap16(i.r.pc - 1)
  PROVE  /\ n \in Machines /\ Len(n.log) = 5
         /\ n.r.sp = Wrap8(Wrap8(i.r.sp - 1) - 1)
         /\ n.mem = Poke(Poke(i.mem, 256 + i.r.sp, Hi(w)), 256 + Wrap8(i.r.sp - 1), Lo(w))
<1> DEFINE got == get16bit(i, "abc")
           j   == push16(got, w)
           s   == [j.r EXCEPT !.pc = got.v]
<1>1. got \in Machines /\ got.r = i.r /\ got.v \in Word /\ Len(got.log) = 3 BY GetTarget
<1>2. got = [i EXCEPT !.v = i.p.data] BY DEF get16bit
<1>3. 1 \in Nat OBVIOUS
<1>4. i \in Machines BY <1>3, InitIs
<1> HIDE DEF got
<1>5. got.mem = i.mem BY <1>2, <1>4, SMT DEF Machines
<1>6. n = [j EXCEPT !.r = s] BY <1>1 DEF JSR, Call, got
<1>7. n \in Machines BY JsrOk DEF Ok
<1>8. i.r.pc - 1 \in Int BY <1>4, PcPartType
<1>9. w \in Word BY <1>8, Wrap16Type
<1>10. /\ Longer(got, j, 2) /\ j.r = [got.r EXCEPT !.sp = Wrap8(Wrap8(got.r.sp - 1) - 1)]
       /\ j.mem = Poke(Poke(got.mem, 256 + got.r.sp, Hi(w)), 256 + Wrap8(got.r.sp - 1), Lo(w))
  BY <1>1, <1>9, Push16Is
<1> HIDE DEF j
<1>11. j \in Machines /\ j.r \in Regs BY <1>10 DEF Longer, Machines
<1>12. s.sp = j.r.sp BY <1>11, SMT DEF Regs, Registers
<1> HIDE DEF s
<1>13. n.log = j.log /\ n.mem = j.mem /\ n.r = s BY <1>6, <1>11, SMT DEF Machines
<1>14. j.r.sp = Wrap8(Wrap8(i.r.sp - 1) - 1) BY <1>1, <1>10, <1>4, SMT DEF Machines, Regs, Registers
<1>15. Len(n.log) = 5 BY <1>1, <1>10, <1>13 DEF Longer
<1>16. n.mem = Poke(Poke(i.mem, 256 + i.r.sp, Hi(w)), 256 + Wrap8(i.r.sp - 1), Lo(w))
  <2>1. j.mem = Poke(Poke(i.mem, 256 + i.r.sp, Hi(w)), 256 + Wrap8(i.r.sp - 1), Lo(w))
    BY <1>1, <1>5, <1>10
  <2> QED BY <1>13, <2>1
<1> QED BY <1>7, <1>12, <1>13, <1>14, <1>15, <1>16

(* RTI pulls three bytes.                                                  *)
LEMMA RtiLen ==
  ASSUME NEW m \in Machines
  PROVE  Longer(m, RTI(m), 3)
<1> DEFINE j == pop8(m)
           q == [j.r EXCEPT !.sr = PulledSr(j.v)]
           t == [j EXCEPT !.r = q]
           p == pop16(t)
           s == [p.r EXCEPT !.pc = p.v]
           n == RTI(m)
<1>1. Longer(m, j, 1) BY PopIs
<1>2. n = [p EXCEPT !.r = s] BY DEF RTI, JumpToRead
<1>3. n \in Machines BY RtiSound DEF SoundM
<1> HIDE DEF j, n
<1>4. t \in Machines
  <2>1. j \in Machines BY <1>1 DEF Longer
  <2>2. [j EXCEPT !.r.sr = PulledSr(j.v)] \in Machines BY <2>1, PullSrSound DEF SoundM
  <2>3. [j EXCEPT !.r.sr = PulledSr(j.v)] = t OBVIOUS
  <2> QED BY <2>2, <2>3
<1> HIDE DEF q
<1>5. Longer(j, t, 0) BY <1>1, <1>4, SameLog DEF Longer
<1> HIDE DEF t
<1>6. Longer(t, p, 2) BY <1>4, Pop16Is
<1> HIDE DEF p, s
<1>7. Longer(p, n, 0) BY <1>2, <1>3, <1>6, SameLog DEF Longer
<1>8. 0 \in Nat /\ 1 \in Nat /\ 2 \in Nat /\ 3 \in Nat OBVIOUS
<1>9. 1 + 0 = 1 /\ 1 + 2 = 3 /\ 3 + 0 = 3 OBVIOUS
<1>10. Longer(m, t, 1 + 0) BY <1>1, <1>5, <1>8, LongerTwice
<1>11. Longer(m, t, 1) BY <1>9, <1>10
<1>12. Longer(m, p, 1 + 2) BY <1>6, <1>8, <1>11, LongerTwice
<1>13. Longer(m, p, 3) BY <1>9, <1>12
<1>14. Longer(m, n, 3 + 0) BY <1>7, <1>8, <1>13, LongerTwice
<1>15. Longer(m, n, 3) BY <1>9, <1>14
<1> QED BY <1>15 DEF n

(* RTS jumps behind the address it pulls.                                  *)
LEMMA RtsIs ==
  ASSUME NEW m \in Machines, NEW n, n = RTS(m)
  PROVE  /\ Longer(m, n, 2)
         /\ n.r.pc = Wrap16(Join(Peek(m.mem, 256 + Wrap8(m.r.sp + 1)),
                                 Peek(m.mem, 256 + Wrap8(Wrap8(m.r.sp + 1) + 1))) + 1)
<1> DEFINE p == pop16(m)
           w == Wrap16(p.v + 1)
           s == [p.r EXCEPT !.pc = w]
<1>1. /\ Longer(m, p, 2)
      /\ p.v = Join(Peek(m.mem, 256 + Wrap8(m.r.sp + 1)),
                    Peek(m.mem, 256 + Wrap8(Wrap8(m.r.sp + 1) + 1)))
  BY Pop16Is
<1>2. n = [p EXCEPT !.r = s] BY DEF RTS
<1>3. n \in Machines BY RtsOk DEF Ok
<1> HIDE DEF p
<1>4. p \in Machines /\ p.r \in Regs BY <1>1 DEF Longer, Machines
<1>5. s.pc = w BY <1>4, SMT DEF Regs, Registers
<1> HIDE DEF s
<1>6. Longer(p, n, 0) /\ n.r = s BY <1>2, <1>3, <1>4, SameLog
<1>7. 0 \in Nat /\ 2 \in Nat /\ 2 + 0 = 2 OBVIOUS
<1>8. Longer(m, n, 2 + 0) BY <1>1, <1>6, <1>7, LongerTwice
<1>9. Longer(m, n, 2) BY <1>7, <1>8
<1> QED BY <1>1, <1>5, <1>6, <1>9

(* PLA and PLP read one byte and go on.                                    *)
LEMMA PullIs ==
  ASSUME NEW m \in Machines, NEW n, n \in {PLA(m), PLP(m)}
  PROVE  Longer(m, n, 1) /\ n.r.pc = m.r.pc
<1> DEFINE p == pop8(m)
           s == IF n = PLA(m) THEN SetA(p.r, p.v) ELSE [p.r EXCEPT !.sr = PulledSr(p.v)]
<1>1. Longer(m, p, 1) /\ p.r = [m.r EXCEPT !.sp = Wrap8(m.r.sp + 1)] /\ p.v \in Byte
  BY PopIs
<1>2. n = [p EXCEPT !.r = s] BY DEF PLA, PLP
<1>3. n \in Machines BY PlaOk, PlpSound DEF Ok, SoundM
<1> HIDE DEF p
<1>4. p \in Machines /\ p.r \in Regs BY <1>1 DEF Longer, Machines
<1>5. s.pc = p.r.pc BY <1>4, SMT DEF Regs, Registers, SetA, setNZ
<1>6. p.r.pc = m.r.pc BY <1>1, SMT DEF Machines, Regs, Registers
<1> HIDE DEF s
<1>7. Longer(p, n, 0) /\ n.r = s BY <1>2, <1>3, <1>4, SameLog
<1>8. 0 \in Nat /\ 1 \in Nat /\ 1 + 0 = 1 OBVIOUS
<1>9. Longer(m, n, 1 + 0) BY <1>1, <1>7, <1>8, LongerTwice
<1>10. Longer(m, n, 1) BY <1>8, <1>9
<1> QED BY <1>5, <1>6, <1>7, <1>10

(* The jumps, stack instructions, NOP, BRK and KIL stay within their       *)
(* cycles; the ones that do not jump go on.                                *)
LEMMA ControlBus ==
  ASSUME NEW m \in Machines, Calm(m.log, 1), NEW e \in Entries, Priced(e), e.op \in ControlOps,
         NEW i, i = init(m, e.mode), NEW x, x = control(m, e)
  PROVE  /\ Len(x.log) <= x.cycles
         /\ e.op \in {"PHA", "PHP", "PLA", "PLP", "NOP"} => x.r.pc = i.r.pc
         /\ e.op = "JSR" => \E n : n = JSR(m, "abc") /\ x.r = n.r /\ x.mem = n.mem
<1> DEFINE done == CASE e.op = "BRK" -> BRK(m)
                     [] e.op = "JMP" -> JMP(m, e.mode)
                     [] e.op = "JSR" -> JSR(m, e.mode)
                     [] e.op = "RTI" -> RTI(m)
                     [] e.op = "RTS" -> RTS(m)
                     [] e.op = "PHA" -> push8(m, m.r.a)
                     [] e.op = "PHP" -> push8(m, PushedSr(m.r))
                     [] e.op = "PLA" -> PLA(m)
                     [] e.op = "PLP" -> PLP(m)
                     [] e.op = "NOP" -> init(m, e.mode)
                     [] e.op = "KIL" -> KIL(m)
<1>1. m.r.a \in Byte /\ PushedSr(m.r) \in Byte BY PcPartType, SrByteType DEF PushedSr
<1>2. done \in Machines
  <2>1. e.op \notin {"BRK", "RTI", "PLP"} => Ok(m, done)
    BY <1>1, JmpOk, JsrOk, RtsOk, Push8Ok, PlaOk, InitOk, KilOk DEF ControlOps
  <2>2. e.op \in {"BRK", "RTI", "PLP"} => SoundM(m, done)
    BY BrkSound, RtiSound, PlpSound
  <2> QED BY <2>1, <2>2 DEF Ok, SoundM
<1>3. x = [done EXCEPT !.cycles = e.cycles] BY DEF control
<1>4. PlainPrice(e) /\ ControlPrice(e) /\ JumpPrice(e) BY DEF Priced
<1>5. e.cycles \in Nat /\ e.cycles >= 2 BY SMT DEF Entries
<1>6. Len(m.log) = 1 BY DEF Calm
<1>7. e.mode = "nul" => i.r.pc = m.r.pc BY NoOperandPc
<1>8. Len(done.log) <= e.cycles
  <2>1. CASE e.op = "BRK"
    <3>1. Longer(m, done, 5) /\ e.cycles = 7 BY <1>4, <2>1, BrkLen DEF ControlPrice
    <3> HIDE DEF done
    <3> QED BY <1>6, <3>1 DEF Longer
  <2>2. CASE e.op = "RTI"
    <3>1. Longer(m, done, 3) /\ e.cycles = 6 BY <1>4, <2>2, RtiLen DEF ControlPrice
    <3> HIDE DEF done
    <3> QED BY <1>6, <3>1 DEF Longer
  <2>3. CASE e.op = "RTS"
    <3>1. Longer(m, done, 2) /\ e.cycles = 6 BY <1>4, <2>3, RtsIs DEF ControlPrice
    <3> HIDE DEF done
    <3> QED BY <1>6, <3>1 DEF Longer
  <2>4. CASE e.op \in {"PHA", "PHP"}
    <3>1. Longer(m, done, 1) /\ e.cycles = 3 BY <1>1, <1>4, <2>4, PushIs DEF ControlPrice
    <3> HIDE DEF done
    <3> QED BY <1>6, <3>1 DEF Longer
  <2>5. CASE e.op \in {"PLA", "PLP"}
    <3>1. Longer(m, done, 1) /\ e.cycles = 4 BY <1>4, <2>5, PullIs DEF ControlPrice
    <3> HIDE DEF done
    <3> QED BY <1>6, <3>1 DEF Longer
  <2>6. CASE e.op = "KIL"
    <3> DEFINE w == Wrap16(m.r.pc - 1)
    <3>1. done = [m EXCEPT !.r.pc = w] /\ e.cycles = 3 BY <1>4, <2>6 DEF ControlPrice, KIL
    <3> HIDE DEF w, done
    <3>2. done.log = m.log BY <3>1, SMT DEF Machines
    <3>3. e.cycles = 3 BY <3>1
    <3>4. Len(done.log) = 1 /\ 1 <= 3 BY <1>6, <3>2
    <3> QED BY <3>3, <3>4, Zenon
  <2>7. CASE e.op = "NOP"
    <3>1. done = i BY <2>7
    <3>2. 1 \in Nat OBVIOUS
    <3>3. Calm(i.log, 1 + OperandBytes(e.mode)) BY <3>2, InitIs
    <3>4. OperandBytes(e.mode) \in {0, 1} BY <1>4, <2>7 DEF PlainPrice, OperandBytes
    <3>5. Len(i.log) = 1 + OperandBytes(e.mode) BY <3>3 DEF Calm
    <3> HIDE DEF done
    <3> QED BY <1>5, <3>1, <3>4, <3>5
  <2>8. CASE e.op = "JMP"
    <3>1. (e.mode = "abc" /\ e.cycles = 3) \/ (e.mode = "ind" /\ e.cycles = 5)
      BY <1>4, <2>8 DEF JumpPrice
    <3>2. done = JMP(m, e.mode) BY <2>8
    <3> HIDE DEF done
    <3>3. e.mode \in {"abc", "ind"} BY <3>1
    <3>4. /\ e.mode = "abc" => Len(done.log) = 3
          /\ e.mode = "ind" => Len(done.log) = 5
      BY <3>2, <3>3, JmpLen, Zenon
    <3>5. 3 <= 3 /\ 5 <= 5 OBVIOUS
    <3> QED BY <3>1, <3>4, <3>5, Zenon
  <2>9. CASE e.op = "JSR"
    <3>1. e.mode = "abc" /\ e.cycles = 6 BY <1>4, <2>9 DEF JumpPrice
    <3>2. done = JSR(m, "abc") BY <2>9, <3>1
    <3> HIDE DEF done
    <3>3. Len(done.log) = 5 BY <3>2, JsrIs
    <3> QED BY <3>1, <3>3
  <2> QED BY <2>1, <2>2, <2>3, <2>4, <2>5, <2>6, <2>7, <2>8, <2>9, Zenon DEF ControlOps
<1>9. ASSUME e.op \in {"PHA", "PHP", "PLA", "PLP", "NOP"} PROVE done.r.pc = i.r.pc
  <2>1. CASE e.op = "NOP" BY <2>1
  <2>2. CASE e.op \in {"PLA", "PLP"}
    <3>1. e.mode = "nul" BY <1>4, <2>2 DEF PlainPrice
    <3>2. done.r.pc = m.r.pc BY <2>2, PullIs
    <3> QED BY <1>7, <3>1, <3>2
  <2>3. CASE e.op \in {"PHA", "PHP"}
    <3>1. e.mode = "nul" BY <1>4, <2>3 DEF PlainPrice
    <3>2. done.r = [m.r EXCEPT !.sp = Wrap8(m.r.sp - 1)] BY <1>1, <2>3, PushIs
    <3> HIDE DEF done
    <3>3. done.r.pc = m.r.pc BY <3>2, SMT DEF Machines, Regs, Registers
    <3> QED BY <1>7, <3>1, <3>3
  <2> QED BY <1>9, <2>1, <2>2, <2>3
<1>10. e.op = "JSR" => done = JSR(m, "abc") BY <1>4 DEF JumpPrice
<1> HIDE DEF done
<1>11. x.r = done.r /\ x.mem = done.mem /\ x.log = done.log /\ x.cycles = e.cycles
  BY <1>2, <1>3, SMT DEF Machines
<1> QED BY <1>8, <1>9, <1>10, <1>11, Zenon

-----------------------------------------------------------------------------
(* What a device sees of such logs: access k is the only write, or k and   *)
(* the next are the only ones.                                             *)
WritesOne(log, k) == Writes(log) = {k}
WritesTwo(log, k) == Writes(log) = {k, k + 1}

(* All reads, then one write ...                                           *)
LEMMA WriteLast ==
  ASSUME NEW log, NEW n \in Nat, Calm(log, n), NEW ad \in Word, NEW val \in Byte,
         NEW full, full = Append(log, Access("W", ad, val))
  PROVE  /\ full \in Seq(Accesses) /\ Len(full) = n + 1 /\ full[n + 1] = Access("W", ad, val)
         /\ \A j \in 1..n : full[j] = log[j]
         /\ WritesOne(full, n + 1)
<1> DEFINE w == Access("W", ad, val)
<1>1. w \in Accesses /\ w.kind = "W" BY DEF Access, Accesses
<1>2. log \in Seq(Accesses) /\ Len(log) = n BY DEF Calm
<1> HIDE DEF w
<1>3. full \in Seq(Accesses) /\ Len(full) = n + 1 /\ full[n + 1] = w BY <1>1, <1>2 DEF w
<1>4. \A j \in 1..n : full[j] = log[j] BY <1>1, <1>2 DEF w
<1>5. \A j \in 1..n : full[j].kind # "W" BY <1>4 DEF Calm
<1>6. DOMAIN full = 1..(n + 1) BY <1>3
<1>7. \A j \in 1..(n + 1) : full[j].kind = "W" <=> j = n + 1 BY <1>1, <1>3, <1>5
<1>8. Writes(full) = {n + 1} BY <1>6, <1>7 DEF Writes
<1> QED BY <1>3, <1>4, <1>8 DEF w, WritesOne

(* ... or two ...                                                          *)
LEMMA WriteTwice ==
  ASSUME NEW log, NEW k \in Nat, Calm(log, k), k > 0, NEW ad \in Word,
         NEW u \in Byte, NEW v \in Byte,
         NEW full, full = Append(Append(log, Access("W", ad, u)), Access("W", ad, v))
  PROVE  /\ Len(full) = k + 2 /\ full[k + 2] = Access("W", ad, v)
         /\ full[k + 1] = Access("W", ad, u) /\ full[k] = log[k]
         /\ WritesTwo(full, k + 1)
<1> DEFINE a == Access("W", ad, u)
           b == Access("W", ad, v)
           one == Append(log, a)
           l == k + 1
           t == k + 2
<1>1. a \in Accesses /\ b \in Accesses /\ b.kind = "W" /\ a.kind = "W" BY DEF Access, Accesses
<1>2. full = Append(one, b) OBVIOUS
<1>3. /\ one \in Seq(Accesses) /\ Len(one) = k + 1 /\ one[k + 1] = a
      /\ \A j \in 1..k : one[j] = log[j]
  <2>1. log \in Seq(Accesses) /\ Len(log) = k BY DEF Calm
  <2> HIDE DEF a
  <2>2. one \in Seq(Accesses) /\ Len(one) = k + 1 /\ one[k + 1] = a BY <1>1, <2>1
  <2>3. \A j \in 1..k : one[j] = log[j] BY <1>1, <2>1
  <2> QED BY <2>2, <2>3
<1>4. l \in Nat /\ t = l + 1 /\ l > k /\ k \in 1..k /\ k \in 1..l /\ l \in 1..l OBVIOUS
<1>5. \A j \in 1..k : j \in 1..l OBVIOUS
<1>6. \A j \in 1..t : j \in 1..k \/ j = l \/ j = t OBVIOUS
<1>7. one \in Seq(Accesses) /\ Len(one) = l /\ one[l] = a /\ l \in Nat BY <1>3
<1> HIDE DEF a, b, one, l
<1>8. full \in Seq(Accesses) /\ Len(full) = l + 1 /\ full[l + 1] = b
  <2>1. one \in Seq(Accesses) /\ Len(one) = l /\ l \in Nat /\ b \in Accesses BY <1>1, <1>7
  <2>2. Append(one, b) \in Seq(Accesses) /\ Len(Append(one, b)) = l + 1 BY <2>1
  <2>3. full[l + 1] = b BY <1>2, <2>1
  <2> QED BY <1>2, <2>2, <2>3, Zenon
<1>9. \A j \in 1..l : full[j] = one[j] BY <1>1, <1>2, <1>7
<1>10. Len(full) = t /\ full[t] = b BY <1>4, <1>8
<1> HIDE DEF t
<1>11. full[l] = a /\ full[k] = log[k] BY <1>3, <1>4, <1>7, <1>9, Zenon
<1>12. \A j \in 1..k : full[j].kind # "W"
  <2>1. \A j \in 1..k : log[j].kind = "R" BY DEF Calm
  <2>2. \A j \in 1..k : full[j] = log[j] BY <1>3, <1>5, <1>9, Zenon
  <2> QED BY <2>1, <2>2
<1>13. DOMAIN full = 1..t BY <1>8, <1>10
<1>14. l \in 1..t /\ t \in 1..t BY <1>4
<1>15. Writes(full) = {l, t} BY <1>1, <1>6, <1>10, <1>11, <1>12, <1>13, <1>14 DEF Writes
<1>16. WritesTwo(full, k + 1)
  <2>1. t = l + 1 BY <1>4
  <2>2. WritesTwo(full, l) BY <1>15, <2>1 DEF WritesTwo
  <2> QED BY <2>2 DEF l
<1> QED BY <1>10, <1>11, <1>16 DEF a, b, l, t

(* ... or none.                                                            *)
LEMMA NoWrites ==
  ASSUME NEW log, NEW n \in Nat, Calm(log, n)
  PROVE  Len(log) = n /\ Writes(log) = {}
<1>1. log \in Seq(Accesses) /\ Len(log) = n BY DEF Calm
<1>2. DOMAIN log = 1..n BY <1>1
<1>3. \A j \in 1..n : log[j].kind # "W" BY DEF Calm
<1> QED BY <1>1, <1>2, <1>3 DEF Writes

(* The instruction at pc, what init() makes of it, and its operand.        *)
LEMMA Started ==
  ASSUME ProcInv, NEW i, i = init(fetched, Entry.mode)
  PROVE  /\ Entry \in Entries /\ Priced(Entry)
         /\ fetched \in Machines /\ Calm(fetched.log, 1)
         /\ i \in Machines /\ i.mem = mem
         /\ OperandAt(i, Entry.mode) \in Word /\ Target = OperandAt(i, Entry.mode)
<1> DEFINE mode == Entry.mode
           f == fetched
           k == 1 + OperandBytes(mode)
           j == addr(i, mode)
<1>1. Entry \in Entries /\ Priced(Entry) BY ExecuteStep, TablePrices DEF Entry
<1>2. f \in Machines /\ f.mem = mem /\ Calm(f.log, 1) BY FetchedIs
<1>3. 1 \in Nat /\ k \in Nat BY OperandBytesType
<1>4. Target = Effective(j, mode) BY DEF Target
<1>5. i = init(f, mode) OBVIOUS
<1> HIDE DEF f, mode
<1>6. i \in Machines /\ i.mem = f.mem /\ Fresh(i) /\ Calm(i.log, k)
  BY <1>2, <1>3, <1>5, InitFresh
<1> HIDE DEF k
<1>7. Follows(i, i, mode, k) BY <1>6, FollowInit
<1>8. Follows(i, j, mode, k + ToFetch(i, mode)) /\ Ready(j, mode) BY <1>3, <1>7, FollowAddr
<1> HIDE DEF j
<1>9. Effective(j, mode) = OperandAt(i, mode) /\ OperandAt(i, mode) \in Word
  BY <1>8, FollowReady
<1> QED BY <1>1, <1>2, <1>4, <1>6, <1>9 DEF f, mode

(* Which family an opcode belongs to decides what execute() runs.          *)
LEMMA Families ==
  ASSUME NEW m, NEW e
  PROVE  /\ e.op \in ReadOps => execute(m, e) = readOperand(m, e)
         /\ e.op \in RmwOps => execute(m, e) = readModifyWrite(m, e)
         /\ e.op \in StoreOps => execute(m, e) = store(m, e)
         /\ e.op \in ShxOps => execute(m, e) = storeShx(m, e)
         /\ e.op \in BranchOps => execute(m, e) = branch(m, e)
         /\ e.op \in ControlOps => execute(m, e) = control(m, e)
         /\ e.op \in ImpliedOps =>
              execute(m, e) = [m EXCEPT !.r = ImpliedEffect(e.op, m.r), !.cycles = e.cycles]
<1> USE DEF execute, ReadOps, RmwOps, LeftOps, RightOps, StoreOps, ShxOps, BranchOps,
            ImpliedOps, ControlOps
<1>1. e.op \in ReadOps => execute(m, e) = readOperand(m, e) OBVIOUS
<1>2. e.op \in RmwOps => execute(m, e) = readModifyWrite(m, e) OBVIOUS
<1>3. e.op \in StoreOps => execute(m, e) = store(m, e) OBVIOUS
<1>4. e.op \in ShxOps => execute(m, e) = storeShx(m, e) OBVIOUS
<1>5. e.op \in BranchOps => execute(m, e) = branch(m, e) OBVIOUS
<1>6. e.op \in ControlOps => execute(m, e) = control(m, e) OBVIOUS
<1>7. e.op \in ImpliedOps =>
        execute(m, e) = [m EXCEPT !.r = ImpliedEffect(e.op, m.r), !.cycles = e.cycles]
  OBVIOUS
<1> HIDE DEF execute, ReadOps, RmwOps, LeftOps, RightOps, StoreOps, ShxOps, BranchOps,
             ImpliedOps, ControlOps
<1> QED BY <1>1, <1>2, <1>3, <1>4, <1>5, <1>6, <1>7, Zenon

(* A load of memory.                                                       *)
LEMMA LoadSeen ==
  ASSUME ProcInv, Entry.op \in ReadOps, Entry.mode \in MemoryModes
  PROVE  /\ After.cycles = Len(After.log) + IfBit(Entry.mode = "izx", 1)
         /\ SeesLoad(After.log, Target)
<1> DEFINE e == Entry
           f == fetched
           i == init(f, e.mode)
           x == After
           ad == OperandAt(i, e.mode)
           bonus == IfBit(e.mode = "izx", 1)
<1>1. /\ e \in Entries /\ Priced(e) /\ f \in Machines /\ Calm(f.log, 1)
      /\ i \in Machines /\ i.mem = mem /\ ad \in Word /\ Target = ad
  BY Started
<1>2. x = readOperand(f, e) BY Families DEF After
<1> HIDE DEF e, f, x
<1>3. PICK n \in Nat : /\ Calm(x.log, n + 1) /\ x.cycles = (n + 1) + bonus
                       /\ x.log[n + 1] = Access("R", ad, Peek(i.mem, ad))
  BY <1>1, <1>2, LoadBus DEF e
<1> HIDE DEF i, ad, bonus
<1>4. n + 1 \in Nat OBVIOUS
<1>5. Len(x.log) = n + 1 /\ Writes(x.log) = {} BY <1>3, <1>4, NoWrites
<1>6. x.cycles = Len(x.log) + bonus BY <1>3, <1>5
<1>7. SeesLoad(x.log, ad) BY <1>1, <1>3, <1>5, Zenon DEF SeesLoad
<1> QED BY <1>1, <1>6, <1>7 DEF x, e, bonus

(* A store.                                                                *)
LEMMA StoreSeen ==
  ASSUME ProcInv, Entry.op \in StoreOps
  PROVE  /\ After.cycles = Len(After.log) + IfBit(Entry.mode = "izx", 1)
         /\ SeesStore(After.log, Target)
         /\ After.mem = Poke(mem, Target, After.log[Len(After.log)].val)
<1> DEFINE e == Entry
           f == fetched
           i == init(f, e.mode)
           x == After
           ad == OperandAt(i, e.mode)
           bonus == IfBit(e.mode = "izx", 1)
<1>1. /\ e \in Entries /\ Priced(e) /\ f \in Machines /\ Calm(f.log, 1)
      /\ i \in Machines /\ i.mem = mem /\ ad \in Word /\ Target = ad
  BY Started
<1>2. x = store(f, e) BY Families DEF After
<1> HIDE DEF e, f, x
<1>3. PICK n \in Nat, val \in Byte : \E log :
                       /\ Calm(log, n) /\ x.cycles = (n + 1) + bonus
                       /\ x.log = Append(log, Access("W", ad, val))
                       /\ x.mem = Poke(i.mem, ad, val)
  BY <1>1, <1>2, StoreBus DEF e
<1> HIDE DEF i, ad, bonus
<1>4. PICK log : /\ Calm(log, n) /\ x.cycles = (n + 1) + bonus
                 /\ x.log = Append(log, Access("W", ad, val))
                 /\ x.mem = Poke(i.mem, ad, val)
  BY <1>3
<1>5. Len(x.log) = n + 1 /\ WritesOne(x.log, n + 1) /\ x.log[n + 1] = Access("W", ad, val)
  <2>1. Calm(log, n) /\ x.log = Append(log, Access("W", ad, val)) /\ ad \in Word BY <1>1, <1>4
  <2>2. WritesOne(x.log, n + 1)
    <3> DEFINE full == x.log
    <3>1. Calm(log, n) /\ full = Append(log, Access("W", ad, val)) /\ ad \in Word BY <2>1
    <3> HIDE DEF full
    <3>2. WritesOne(full, n + 1) BY <3>1, WriteLast
    <3> QED BY <3>2 DEF full
  <2>3. Len(x.log) = n + 1 /\ x.log[n + 1] = Access("W", ad, val) BY <2>1, WriteLast
  <2> QED BY <2>2, <2>3
<1>6. x.log[Len(x.log)].ad = ad /\ x.log[Len(x.log)].val = val BY <1>5 DEF Access
<1>7. x.cycles = Len(x.log) + bonus BY <1>4, <1>5
<1>8. SeesStore(x.log, ad) BY <1>5, <1>6, Zenon DEF SeesStore, WritesOne
<1>9. x.mem = Poke(mem, ad, x.log[Len(x.log)].val) BY <1>1, <1>4, <1>6
<1> QED BY <1>1, <1>7, <1>8, <1>9 DEF x, e, bonus

(* A read-modify-write of memory.                                          *)
LEMMA RmwSeen ==
  ASSUME ProcInv, Entry.op \in RmwOps, Entry.mode \in MemoryModes
  PROVE  /\ After.cycles = Len(After.log) + IfBit(Entry.mode = "izx", 1)
         /\ SeesRmw(After.log, Target)
         /\ After.mem = Poke(mem, Target, After.log[Len(After.log)].val)
<1> DEFINE e == Entry
           f == fetched
           i == init(f, e.mode)
           x == After
           ad == OperandAt(i, e.mode)
           old == Peek(i.mem, ad)
           bonus == IfBit(e.mode = "izx", 1)
<1>1. /\ e \in Entries /\ Priced(e) /\ f \in Machines /\ Calm(f.log, 1)
      /\ i \in Machines /\ i.mem = mem /\ ad \in Word /\ Target = ad
  BY Started
<1>2. x = readModifyWrite(f, e) BY Families DEF After
<1>3. e.mode # "acc" BY SMT DEF MemoryModes, ZeroPageModes, CarryModes
<1> HIDE DEF e, f, x
<1>4. PICK n \in Nat, val \in Byte : \E log :
                /\ Calm(log, n + 1) /\ log[n + 1] = Access("R", ad, old)
                /\ x.log = Append(Append(log, Access("W", ad, old)), Access("W", ad, val))
                /\ x.mem = Poke(i.mem, ad, val)
                /\ x.cycles = (n + 3) + bonus
  <2>1. e.op \in RmwOps /\ i = init(f, e.mode) /\ ad = OperandAt(i, e.mode) BY DEF e
  <2> HIDE DEF i, ad
  <2>2. Modified(i, e.mode, ad, x) BY <1>1, <1>2, <1>3, <2>1, RmwBus
  <2> QED BY <2>2 DEF Modified
<1> HIDE DEF i, ad, bonus
<1>5. PICK log : /\ Calm(log, n + 1) /\ log[n + 1] = Access("R", ad, old)
                 /\ x.log = Append(Append(log, Access("W", ad, old)), Access("W", ad, val))
                 /\ x.mem = Poke(i.mem, ad, val)
                 /\ x.cycles = (n + 3) + bonus
  BY <1>4
<1>6. old \in Byte BY <1>1, PeekType DEF Machines
<1> HIDE DEF old
<1> DEFINE k == n + 1
<1>7. k \in Nat /\ k > 0 /\ n + 3 = k + 2 /\ Calm(log, k) /\ log[k] = Access("R", ad, old)
  BY <1>5
<1> HIDE DEF k
<1>8. /\ Len(x.log) = k + 2 /\ x.log[k + 2] = Access("W", ad, val)
      /\ x.log[k + 1] = Access("W", ad, old) /\ x.log[k] = log[k]
      /\ WritesTwo(x.log, k + 1)
  <2>1. /\ x.log = Append(Append(log, Access("W", ad, old)), Access("W", ad, val))
        /\ ad \in Word /\ Calm(log, k) /\ k \in Nat /\ k > 0
    BY <1>1, <1>5, <1>7
  <2>2. WritesTwo(x.log, k + 1)
    <3> DEFINE full == x.log
    <3>1. /\ full = Append(Append(log, Access("W", ad, old)), Access("W", ad, val))
          /\ ad \in Word /\ Calm(log, k) /\ k \in Nat /\ k > 0
      BY <2>1
    <3> HIDE DEF full
    <3>2. WritesTwo(full, k + 1) BY <1>6, <3>1, WriteTwice
    <3> QED BY <3>2 DEF full
  <2>3. /\ Len(x.log) = k + 2 /\ x.log[k + 2] = Access("W", ad, val)
        /\ x.log[k + 1] = Access("W", ad, old) /\ x.log[k] = log[k]
    BY <1>6, <2>1, WriteTwice
  <2> QED BY <2>2, <2>3
<1>9. (k + 2) - 1 = k + 1 /\ (k + 2) - 2 = k /\ (k + 1) + 1 = k + 2 BY <1>7
<1>10. x.log[Len(x.log)].ad = ad /\ x.log[Len(x.log)].val = val BY <1>8 DEF Access
<1>11. x.cycles = Len(x.log) + bonus BY <1>5, <1>7, <1>8
<1>12. old = Peek(mem, ad) BY <1>1 DEF old
<1>13. SeesRmw(x.log, ad) BY <1>7, <1>8, <1>9, <1>10, <1>12, Zenon
  DEF SeesRmw, WritesTwo
<1>14. x.mem = Poke(mem, ad, x.log[Len(x.log)].val) BY <1>1, <1>5, <1>10
<1> QED BY <1>1, <1>11, <1>13, <1>14 DEF x, e, bonus

-----------------------------------------------------------------------------
(* The instruction at pc stays within its cycles.                          *)
LEMMA Budget ==
  ASSUME ProcInv
  PROVE  Len(After.log) <= After.cycles
<1> DEFINE e == Entry
           f == fetched
           i == init(f, e.mode)
           x == After
<1> SUFFICES Len(x.log) <= x.cycles OBVIOUS
<1>1. /\ e \in Entries /\ Priced(e) /\ f \in Machines /\ Calm(f.log, 1) /\ i \in Machines
  BY Started
<1>2. x = execute(f, e) BY DEF After
<1>3. x \in Machines BY ExecuteStep DEF After
<1>4. ASSUME NEW n \in Nat, NEW c \in BOOLEAN, n = Len(x.log), x.cycles = n + IfBit(c, 1)
      PROVE  Len(x.log) <= x.cycles
  <2> HIDE DEF x
  <2>1. n <= n + IfBit(c, 1) BY DEF IfBit
  <2> QED BY <1>4, <2>1, Zenon
<1>5. Len(x.log) \in Nat
  <2> HIDE DEF x
  <2>1. x.log \in Seq(Accesses) BY <1>3 DEF Machines
  <2> QED BY <2>1
<1>6. CASE e.op \in ReadOps \cup RmwOps \cup StoreOps /\ e.mode \in MemoryModes
  <2>1. x.cycles = Len(x.log) + IfBit(e.mode = "izx", 1)
    BY <1>6, LoadSeen, StoreSeen, RmwSeen
  <2> HIDE DEF x
  <2> QED BY <1>4, <1>5, <2>1
<1> HIDE DEF x, f, e
<1>7. CASE e.op \in ReadOps /\ e.mode \notin MemoryModes
  <2>1. x = readOperand(f, e) BY <1>2, <1>7, Families
  <2>2. Calm(x.log, 2) /\ x.cycles >= 2 BY <1>1, <1>7, <2>1, LoadBus
  <2>3. Len(x.log) = 2 BY <2>2 DEF Calm
  <2>4. 2 <= x.cycles BY <1>3, <2>2, SMT DEF Machines
  <2> QED BY <2>3, <2>4, Zenon
<1>8. CASE e.op \in RmwOps /\ e.mode \notin MemoryModes
  <2>1. x = readModifyWrite(f, e) BY <1>2, <1>8, Families
  <2>2. e.mode = "acc"
    BY <1>1, <1>8, SMT DEF Priced, RmwPrice, MemoryModes, ZeroPageModes, CarryModes
  <2>3. Calm(x.log, 1) /\ x.cycles = 2 BY <1>1, <1>8, <2>1, <2>2, RmwBus
  <2>4. Len(x.log) = 1 /\ 1 <= 2 BY <2>3 DEF Calm
  <2> QED BY <2>3, <2>4, Zenon
<1>9. CASE e.op \in StoreOps /\ e.mode \notin MemoryModes
  BY <1>1, <1>9, SMT DEF Priced, StorePrice, MemoryModes, ZeroPageModes, CarryModes
<1>10. CASE e.op \in ShxOps
  <2>1. x = storeShx(f, e) BY <1>2, <1>10, Families
  <2> QED BY <1>1, <1>10, <2>1, ShxBus
<1>11. CASE e.op \in BranchOps
  <2>1. x = branch(f, e) BY <1>2, <1>11, Families
  <2> QED BY <1>1, <1>11, <2>1, BranchBus
<1>12. CASE e.op \in ControlOps
  <2>1. x = control(f, e) BY <1>2, <1>12, Families
  <2> QED BY <1>1, <1>12, <2>1, ControlBus
<1>13. CASE e.op \in ImpliedOps
  <2> DEFINE s == ImpliedEffect(e.op, f.r)
             c == e.cycles
  <2>1. x = [f EXCEPT !.r = s, !.cycles = c] BY <1>2, <1>13, Families
  <2>2. c \in Nat /\ c >= 2 BY <1>1, SMT DEF Entries
  <2> HIDE DEF s, c
  <2>3. x.log = f.log /\ x.cycles = c BY <1>1, <2>1, SMT DEF Machines
  <2>4. Len(x.log) = 1 BY <1>1, <2>3 DEF Calm
  <2>5. 1 <= c BY <2>2
  <2> QED BY <2>3, <2>4, <2>5, Zenon
<1>14. e.op \in Op BY <1>1, EntryType
<1> QED BY <1>6, <1>7, <1>8, <1>9, <1>10, <1>11, <1>12, <1>13, <1>14, Zenon DEF Op

(* No instruction and no interrupt sequence makes more bus accesses than   *)
(* it is charged cycles, in any state any program reaches.                 *)
THEOREM BusWithinCycles == Spec => []AccessesWithinCycles
<1>1. ASSUME ProcInv PROVE AccessesWithinCycles
  <2> DEFINE m == Machine(regs, mem)
             ad == NmiVector
             x == serviceInterrupt(m, ad)
  <2>1. m \in Machines BY <1>1, MachineType
  <2>2. Len(m.log) = 0 BY DEF Machine
  <2>3. ad \in Int BY SMT DEF NmiVector
  <2> HIDE DEF m, ad
  <2>4. Len(x.log) = 5 /\ x.cycles = 7 BY <2>1, <2>2, <2>3, ServiceBus
  <2> HIDE DEF x
  <2>5. Len(x.log) <= x.cycles BY <2>4
  <2>6. Len(After.log) <= After.cycles BY <1>1, Budget
  <2> QED BY <2>5, <2>6, Zenon DEF AccessesWithinCycles, x, m, ad
<1> QED BY <1>1, InitInv, NextInv, PTL DEF Spec

(* Loads, stores and read-modify-writes of memory charge exactly their     *)
(* accesses, the page-crossing penalty included, and one cycle more for    *)
(* (zp,X): the table's base count, the operand fetch, the memoised pointer *)
(* and the single dummy read add up in every mode.                         *)
THEOREM NoIdleCycle == Spec => []EveryCycleOnTheBus
<1>1. ASSUME ProcInv PROVE EveryCycleOnTheBus
  BY <1>1, LoadSeen, StoreSeen, RmwSeen, Zenon DEF EveryCycleOnTheBus, Indexable
<1> QED BY <1>1, InitInv, NextInv, PTL DEF Spec

(* The accesses a device at the operand's address sees, for every address, *)
(* mode and memory size: a load reads it last and writes nothing, a store  *)
(* writes it once and last, a read-modify-write reads it, writes it back   *)
(* and then writes the result; and memory changes nowhere else.            *)
THEOREM DevicesSeeTheOperand == Spec => []DeviceSees
<1>1. ASSUME ProcInv PROVE DeviceSees
  <2> SUFFICES ASSUME Indexable PROVE Sees(After, Target) BY DEF DeviceSees
  <2>1. CASE Entry.op \in ReadOps
    <3>1. SeesLoad(After.log, Target) BY <1>1, <2>1, LoadSeen DEF Indexable
    <3>2. Entry.op \notin StoreOps /\ Entry.op \notin RmwOps
      BY <2>1 DEF StoreOps, ReadOps, RmwOps, LeftOps, RightOps
    <3> QED BY <2>1, <3>1, <3>2, Zenon DEF Sees
  <2>2. CASE Entry.op \in StoreOps
    <3>1. Entry.op \notin ReadOps /\ Entry.op \notin RmwOps
      BY <2>2 DEF StoreOps, ReadOps, RmwOps, LeftOps, RightOps
    <3>2. /\ SeesStore(After.log, Target)
          /\ After.mem = Poke(mem, Target, After.log[Len(After.log)].val)
      BY <1>1, <2>2, StoreSeen
    <3> QED BY <2>2, <3>1, <3>2, Zenon DEF Sees
  <2>3. CASE Entry.op \in RmwOps
    <3>1. Entry.op \notin ReadOps /\ Entry.op \notin StoreOps
      BY <2>3 DEF StoreOps, ReadOps, RmwOps, LeftOps, RightOps
    <3>2. /\ SeesRmw(After.log, Target)
          /\ After.mem = Poke(mem, Target, After.log[Len(After.log)].val)
      BY <1>1, <2>3, RmwSeen DEF Indexable
    <3> QED BY <2>3, <3>1, <3>2, Zenon DEF Sees
  <2> QED BY <2>1, <2>2, <2>3 DEF Indexable
<1> QED BY <1>1, InitInv, NextInv, PTL DEF Spec

-----------------------------------------------------------------------------
(* The disassembler, which decodes opcodes by their bits, against the      *)
(* instruction table: the mode a line is printed with.                     *)
Listed(e) == IF e.mode = "abc" THEN "abs" ELSE e.mode

(* An opcode is aaabbbcc.                                                  *)
LEMMA OpcodeBits ==
  ASSUME NEW code \in Byte, NEW a, a = code \div 32, NEW b, b = (code \div 4) % 8,
         NEW c, c = code % 4
  PROVE  a \in 0..7 /\ b \in 0..7 /\ c \in 0..3 /\ code = ((32 * a) + (4 * b)) + c
<1> DEFINE q == code \div 4
<1>1. code \in Int /\ 0 <= code /\ code <= 255 BY ByteIs
<1>2. a \in 0..7 /\ b \in 0..7 /\ c \in 0..3 BY <1>1
<1>3. q \in Int /\ code = (4 * q) + c BY <1>1
<1>4. a = q \div 8 BY <1>1
<1>5. q = (8 * (q \div 8)) + (q % 8) BY <1>3
<1>6. q = (8 * a) + b BY <1>4, <1>5
<1> HIDE DEF q
<1>7. code = ((32 * a) + (4 * b)) + c BY <1>2, <1>3, <1>6
<1> QED BY <1>2, <1>7

(* Column by column, in the lower half of the table ...                    *)
LEMMA LowListed ==
  \A a \in 0..3, b \in 0..7 :
    /\ Listed(Rows00To7F[((32 * a) + (4 * b)) + 1]) = Column0(a, b)
    /\ Listed(Rows00To7F[((32 * a) + (4 * b)) + 2]) = Column13(b, "abx", "zpx")
    /\ Listed(Rows00To7F[((32 * a) + (4 * b)) + 3]) = Column2(a, b, "abx", "zpx")
    /\ Listed(Rows00To7F[((32 * a) + (4 * b)) + 4]) = Column13(b, "abx", "zpx")
<1>1. \A a \in 0..3, b \in 0..7 :
        Listed(Rows00To7F[((32 * a) + (4 * b)) + 1]) = Column0(a, b)
  BY SMTT(60) DEF Rows00To7F, E, Listed, Column0
<1>2. \A a \in 0..3, b \in 0..7 :
        Listed(Rows00To7F[((32 * a) + (4 * b)) + 2]) = Column13(b, "abx", "zpx")
  BY SMTT(60) DEF Rows00To7F, E, Listed, Column13
<1>3. \A a \in 0..3, b \in 0..7 :
        Listed(Rows00To7F[((32 * a) + (4 * b)) + 3]) = Column2(a, b, "abx", "zpx")
  BY SMTT(60) DEF Rows00To7F, E, Listed, Column2
<1>4. \A a \in 0..3, b \in 0..7 :
        Listed(Rows00To7F[((32 * a) + (4 * b)) + 4]) = Column13(b, "abx", "zpx")
  BY SMTT(60) DEF Rows00To7F, E, Listed, Column13
<1> QED BY <1>1, <1>2, <1>3, <1>4, Zenon

(* ... and in the upper, where two rows index by Y.                        *)
LEMMA HighListed ==
  \A d \in 0..3, b \in 0..7 :
    LET x  == IF d \in {0, 1} THEN "aby" ELSE "abx"
        zx == IF d \in {0, 1} THEN "zpy" ELSE "zpx"
    IN  /\ Listed(Rows80ToFF[((32 * d) + (4 * b)) + 1]) = Column0(d + 4, b)
        /\ Listed(Rows80ToFF[((32 * d) + (4 * b)) + 2]) = Column13(b, "abx", "zpx")
        /\ Listed(Rows80ToFF[((32 * d) + (4 * b)) + 3]) = Column2(d + 4, b, x, zx)
        /\ Listed(Rows80ToFF[((32 * d) + (4 * b)) + 4]) = Column13(b, x, zx)
<1> DEFINE x(d)  == IF d \in {0, 1} THEN "aby" ELSE "abx"
           zx(d) == IF d \in {0, 1} THEN "zpy" ELSE "zpx"
<1>1. \A d \in 0..3, b \in 0..7 :
        Listed(Rows80ToFF[((32 * d) + (4 * b)) + 1]) = Column0(d + 4, b)
  BY SMTT(60) DEF Rows80ToFF, E, Listed, Column0
<1>2. \A d \in 0..3, b \in 0..7 :
        Listed(Rows80ToFF[((32 * d) + (4 * b)) + 2]) = Column13(b, "abx", "zpx")
  BY SMTT(60) DEF Rows80ToFF, E, Listed, Column13
<1>3. \A d \in 0..3, b \in 0..7 :
        Listed(Rows80ToFF[((32 * d) + (4 * b)) + 3]) = Column2(d + 4, b, x(d), zx(d))
  BY SMTT(60) DEF Rows80ToFF, E, Listed, Column2
<1>4. \A d \in 0..3, b \in 0..7 :
        Listed(Rows80ToFF[((32 * d) + (4 * b)) + 4]) = Column13(b, x(d), zx(d))
  BY SMTT(60) DEF Rows80ToFF, E, Listed, Column13
<1> QED BY <1>1, <1>2, <1>3, <1>4, Zenon

(* The disassembler and the table agree on all 256 codes.                  *)
LEMMA ModesListed ==
  ASSUME NEW code \in Byte
  PROVE  unasm_mode(code) = Listed(instruction_table[code])
<1> DEFINE a  == code \div 32
           b  == (code \div 4) % 8
           c  == code % 4
           x  == IF a \in {4, 5} THEN "aby" ELSE "abx"
           zx == IF a \in {4, 5} THEN "zpy" ELSE "zpx"
           r  == instruction_table[code]
<1>1. a \in 0..7 /\ b \in 0..7 /\ c \in 0..3 /\ code = ((32 * a) + (4 * b)) + c
  BY OpcodeBits
<1>2. /\ c = 0 => unasm_mode(code) = Column0(a, b)
      /\ c = 1 => unasm_mode(code) = Column13(b, "abx", "zpx")
      /\ c = 2 => unasm_mode(code) = Column2(a, b, x, zx)
      /\ c = 3 => unasm_mode(code) = Column13(b, x, zx)
  BY DEF unasm_mode
<1>3. r = IF code < 128 THEN Rows00To7F[code + 1] ELSE Rows80ToFF[code - 127]
  BY DEF instruction_table
<1> HIDE DEF a, b, c, r
<1>4. CASE a \in 0..3
  <2>1. code < 128 BY <1>1, <1>4
  <2>2. r = Rows00To7F[code + 1] BY <1>3, <2>1
  <2>3. x = "abx" /\ zx = "zpx" BY <1>4
  <2> HIDE DEF x, zx
  <2>4. CASE c = 0
    <3>1. code + 1 = ((32 * a) + (4 * b)) + 1 BY <1>1, <2>4
    <3> QED BY <1>1, <1>2, <1>4, <2>2, <2>4, <3>1, LowListed, Zenon DEF r
  <2>5. CASE c = 1
    <3>1. code + 1 = ((32 * a) + (4 * b)) + 2 BY <1>1, <2>5
    <3> QED BY <1>1, <1>2, <1>4, <2>2, <2>5, <3>1, LowListed, Zenon DEF r
  <2>6. CASE c = 2
    <3>1. code + 1 = ((32 * a) + (4 * b)) + 3 BY <1>1, <2>6
    <3> QED BY <1>1, <1>2, <1>4, <2>2, <2>3, <2>6, <3>1, LowListed, Zenon DEF r
  <2>7. CASE c = 3
    <3>1. code + 1 = ((32 * a) + (4 * b)) + 4 BY <1>1, <2>7
    <3> QED BY <1>1, <1>2, <1>4, <2>2, <2>3, <2>7, <3>1, LowListed, Zenon DEF r
  <2> QED BY <1>1, <2>4, <2>5, <2>6, <2>7
<1>5. CASE a \notin 0..3
  <2> DEFINE d == a - 4
             y  == IF d \in {0, 1} THEN "aby" ELSE "abx"
             zy == IF d \in {0, 1} THEN "zpy" ELSE "zpx"
  <2>1. d \in 0..3 /\ a = d + 4 /\ ~(code < 128) BY <1>1, <1>5
  <2>2. r = Rows80ToFF[code - 127] BY <1>3, <2>1
  <2>3. x = y /\ zx = zy BY <2>1
  <2>4. /\ Listed(Rows80ToFF[((32 * d) + (4 * b)) + 1]) = Column0(d + 4, b)
        /\ Listed(Rows80ToFF[((32 * d) + (4 * b)) + 2]) = Column13(b, "abx", "zpx")
        /\ Listed(Rows80ToFF[((32 * d) + (4 * b)) + 3]) = Column2(d + 4, b, y, zy)
        /\ Listed(Rows80ToFF[((32 * d) + (4 * b)) + 4]) = Column13(b, y, zy)
    BY <1>1, <2>1, HighListed, Zenon
  <2> HIDE DEF x, zx, y, zy, d
  <2>5. CASE c = 0
    <3>1. code - 127 = ((32 * d) + (4 * b)) + 1 BY <1>1, <2>1, <2>5
    <3> QED BY <1>2, <2>1, <2>2, <2>4, <2>5, <3>1, Zenon DEF r
  <2>6. CASE c = 1
    <3>1. code - 127 = ((32 * d) + (4 * b)) + 2 BY <1>1, <2>1, <2>6
    <3> QED BY <1>2, <2>2, <2>4, <2>6, <3>1, Zenon DEF r
  <2>7. CASE c = 2
    <3>1. code - 127 = ((32 * d) + (4 * b)) + 3 BY <1>1, <2>1, <2>7
    <3> QED BY <1>2, <2>1, <2>2, <2>3, <2>4, <2>7, <3>1, Zenon DEF r
  <2>8. CASE c = 3
    <3>1. code - 127 = ((32 * d) + (4 * b)) + 4 BY <1>1, <2>1, <2>8
    <3> QED BY <1>2, <2>2, <2>3, <2>4, <2>8, <3>1, Zenon DEF r
  <2> QED BY <1>1, <2>5, <2>6, <2>7, <2>8
<1> QED BY <1>4, <1>5

(* The next line of the listing is where init() leaves pc.                 *)
LEMMA NextLine ==
  ASSUME ProcInv, NEW i, i = init(fetched, Entry.mode)
  PROVE  /\ unasm_mode(Code) = Listed(Entry)
         /\ i.r.pc = unasm_next(regs.pc, Code) /\ i.r.pc \in Word
         /\ i.r.sr = regs.sr /\ i.r.sp = regs.sp
<1> DEFINE e == Entry
           f == fetched
           p == regs.pc
           n == OperandBytes(e.mode)
           w == Wrap16(p + 1)
           t == [regs EXCEPT !.pc = w]
<1>1. unasm_mode(Code) = Listed(e) BY ExecuteStep, ModesListed DEF Entry
<1>2. e.mode \in Mode BY Started DEF Entries
<1>3. unasm_operand_bytes(Listed(e)) = n
  BY <1>2, SMT DEF Mode, unasm_operand_bytes, Listed, OperandBytes
<1>4. unasm_next(p, Code) = Wrap16((p + 1) + n) BY <1>1, <1>3 DEF unasm_next
<1>5. f \in Machines /\ Calm(f.log, 1) /\ f.r = t BY FetchedIs
<1>6. 1 \in Nat /\ n \in {0, 1, 2} BY OperandBytesType
<1>7. regs \in Regs BY ProcInvParts
<1>8. p \in Int BY <1>7, WordIs DEF Regs, Registers
<1>9. w \in Word /\ w \in Int BY <1>8, Wrap16Type, WordIs
<1>10. Wrap16(w + n) = Wrap16((p + 1) + n) BY <1>6, <1>8, SMT DEF Wrap16
<1>11. i.r = [f.r EXCEPT !.pc = Wrap16(f.r.pc + n)]
  <2>1. f \in Machines /\ Calm(f.log, 1) /\ i = init(f, e.mode) BY <1>5
  <2> HIDE DEF f, e
  <2> QED BY <1>6, <2>1, InitIs
<1> HIDE DEF f, e, n
<1>12. f.r \in Regs BY <1>5 DEF Machines
<1>13. f.r.pc = w /\ f.r.sr = regs.sr /\ f.r.sp = regs.sp
  BY <1>5, <1>7, SMT DEF Regs, Registers
<1> HIDE DEF w
<1>14. i.r = [f.r EXCEPT !.pc = Wrap16(w + n)] BY <1>11, <1>13
<1>15. Wrap16(w + n) \in Word
  <2>1. w + n \in Int BY <1>6, <1>9
  <2> QED BY <2>1, Wrap16Type
<1> DEFINE z == Wrap16(w + n)
<1> HIDE DEF z
<1>16. i.r = [f.r EXCEPT !.pc = z] BY <1>14 DEF z
<1>17. i.r.pc = z /\ i.r.sr = f.r.sr /\ i.r.sp = f.r.sp
  BY <1>12, <1>16, SMT DEF Regs, Registers
<1>18. i.r.pc = unasm_next(p, Code) /\ i.r.pc \in Word BY <1>4, <1>10, <1>15, <1>17, Zenon DEF z
<1> QED BY <1>1, <1>13, <1>17, <1>18 DEF e

-----------------------------------------------------------------------------
(* The way back: two neighbours in page one are different cells, however   *)
(* small the memory, so what JSR pushed is what RTS pulls.                 *)
LEMMA StackCells ==
  ASSUME NEW s \in Byte, NEW t, t = Wrap8(s - 1)
  PROVE  /\ t \in Byte /\ checkAddress(256 + s) # checkAddress(256 + t)
         /\ Wrap8(Wrap8(t - 1) + 1) = t /\ Wrap8(t + 1) = s
<1>1. s \in Int /\ 0 <= s /\ s <= 255 BY ByteIs
<1>2. t \in Int /\ 0 <= t /\ t <= 255 /\ t # s BY <1>1, SMT DEF Wrap8
<1>3. Wrap8(Wrap8(t - 1) + 1) = t BY <1>2, SMT DEF Wrap8
<1>4. Wrap8(t + 1) = s BY <1>1, SMT DEF Wrap8
<1>5. MemSize \in Int /\ MemSize > 0 /\ MemSize % 256 = 0 BY MemSizeAssumption, SMT
<1>6. MemSize = 256 \/ MemSize >= 512 BY <1>5, SMT
<1>7. MemSize = 256 => checkAddress(256 + s) = s /\ checkAddress(256 + t) = t
  BY <1>1, <1>2, SMT DEF checkAddress
<1>8. MemSize >= 512 => checkAddress(256 + s) = 256 + s /\ checkAddress(256 + t) = 256 + t
  BY <1>1, <1>2, <1>5, SMT DEF checkAddress
<1>9. t \in Byte BY <1>2, ByteIs
<1>10. 256 + s # 256 + t BY <1>1, <1>2
<1>11. checkAddress(256 + s) # checkAddress(256 + t) BY <1>2, <1>6, <1>7, <1>8, <1>10, Zenon
<1> QED BY <1>3, <1>4, <1>9, <1>11

(* A byte just written is read back, and its neighbour is left alone.      *)
LEMMA PeekPoke ==
  ASSUME NEW mem0, NEW ad, NEW val, NEW other, checkAddress(other) # checkAddress(ad)
  PROVE  /\ Peek(Poke(mem0, ad, val), ad) = val
         /\ Peek(Poke(mem0, ad, val), other) = Peek(mem0, other)
<1> DEFINE c == checkAddress(ad)
           o == checkAddress(other)
           D == DOMAIN mem0 \cup {c}
           one == Poke(mem0, ad, val)
<1>1. one = [k \in D |-> IF k = c THEN val ELSE mem0[k]] BY DEF Poke
<1>2. DOMAIN one = D /\ \A k \in D : one[k] = IF k = c THEN val ELSE mem0[k] BY <1>1
<1>3. Peek(one, ad) = IF c \in DOMAIN one THEN one[c] ELSE 0 BY DEF Peek
<1>4. Peek(one, other) = IF o \in DOMAIN one THEN one[o] ELSE 0 BY DEF Peek
<1>5. Peek(mem0, other) = IF o \in DOMAIN mem0 THEN mem0[o] ELSE 0 BY DEF Peek
<1>6. o \in D <=> o \in DOMAIN mem0 OBVIOUS
<1>7. c \in D /\ o # c OBVIOUS
<1> HIDE DEF c, o, D, one
<1>8. Peek(one, ad) = val BY <1>2, <1>3, <1>7
<1>9. Peek(one, other) = Peek(mem0, other) BY <1>2, <1>4, <1>5, <1>6, <1>7
<1> QED BY <1>8, <1>9 DEF one

(* RTS after JSR comes back to where init() left pc.                       *)
LEMMA RoundTrip ==
  ASSUME NEW m \in Machines, Calm(m.log, 1), NEW i, i = init(m, "abc"),
         NEW n, n = JSR(m, "abc"), NEW x \in Machines, x.r = n.r, x.mem = n.mem
  PROVE  RTS(x).r.pc = i.r.pc
<1> DEFINE w == Wrap16(i.r.pc - 1)
           s == i.r.sp
           t == Wrap8(s - 1)
           one == Poke(i.mem, 256 + s, Hi(w))
           two == Poke(one, 256 + t, Lo(w))
<1>1. n.r.sp = Wrap8(t - 1) /\ n.mem = two BY JsrIs
<1>2. 1 \in Nat OBVIOUS
<1>3. i \in Machines BY <1>2, InitFresh
<1>4. s \in Byte /\ i.r.pc \in Word BY <1>3 DEF Machines, Regs, Registers
<1>5. /\ checkAddress(256 + s) # checkAddress(256 + t)
      /\ Wrap8(Wrap8(t - 1) + 1) = t /\ Wrap8(t + 1) = s
  BY <1>4, StackCells
<1>6. RTS(x).r.pc = Wrap16(Join(Peek(x.mem, 256 + Wrap8(x.r.sp + 1)),
                                Peek(x.mem, 256 + Wrap8(Wrap8(x.r.sp + 1) + 1))) + 1)
  BY RtsIs
<1>7. Wrap16(Join(Lo(w), Hi(w)) + 1) = i.r.pc
  <2> DEFINE p == i.r.pc
  <2>1. p \in Int /\ 0 <= p /\ p <= 65535 BY <1>4, WordIs
  <2> HIDE DEF p
  <2>2. w \in Int /\ Wrap16(w + 1) = p BY <2>1, SMT DEF Wrap16, p
  <2> HIDE DEF w
  <2>3. Join(Lo(w), Hi(w)) = w BY <2>2, SMT DEF Join, Lo, Hi
  <2> QED BY <2>2, <2>3 DEF p
<1> HIDE DEF s, t, w, one
<1>8. Peek(two, 256 + t) = Lo(w) /\ Peek(two, 256 + s) = Peek(one, 256 + s)
  BY <1>5, PeekPoke
<1>9. Peek(one, 256 + s) = Hi(w)
  BY <1>5, PeekPoke DEF one
<1> HIDE DEF two
<1>10. x.r.sp = Wrap8(t - 1) /\ x.mem = two BY <1>1
<1>11. Wrap8(x.r.sp + 1) = t BY <1>5, <1>10
<1>12. RTS(x).r.pc = Wrap16(Join(Peek(two, 256 + t), Peek(two, 256 + s)) + 1)
  BY <1>5, <1>6, <1>10, <1>11
<1> QED BY <1>7, <1>8, <1>9, <1>12

(* Whatever does not jump leaves pc where init() did.                      *)
LEMMA PcGoesOn ==
  ASSUME ProcInv, NEW i, i = init(fetched, Entry.mode),
         Entry.op \notin {"JMP", "RTI", "RTS", "BRK", "KIL", "JSR"}, Entry.op \notin BranchOps
  PROVE  After.r.pc = i.r.pc
<1> DEFINE e == Entry
           f == fetched
           x == After
           ad == OperandAt(i, e.mode)
<1> SUFFICES x.r.pc = i.r.pc OBVIOUS
<1>1. /\ e \in Entries /\ Priced(e) /\ f \in Machines /\ Calm(f.log, 1) /\ i \in Machines
  BY Started
<1>2. x = execute(f, e) /\ i = init(f, e.mode) BY DEF After
<1>3. e.op \in Op BY <1>1, EntryType
<1>4. e.op \notin {"JMP", "RTI", "RTS", "BRK", "KIL", "JSR"} /\ e.op \notin BranchOps OBVIOUS
<1> HIDE DEF x, f, e, ad
<1>5. CASE e.op \in ReadOps
  <2>1. x = readOperand(f, e) BY <1>2, <1>5, Families
  <2> QED BY <1>1, <1>2, <1>5, <2>1, LoadBus
<1>6. CASE e.op \in RmwOps
  <2>1. x = readModifyWrite(f, e) BY <1>2, <1>6, Families
  <2>2. ad = OperandAt(i, e.mode) BY DEF ad
  <2> QED BY <1>1, <1>2, <1>6, <2>1, <2>2, RmwBus
<1>7. CASE e.op \in StoreOps
  <2>1. x = store(f, e) BY <1>2, <1>7, Families
  <2> QED BY <1>1, <1>2, <1>7, <2>1, StoreBus
<1>8. CASE e.op \in ShxOps
  <2>1. x = storeShx(f, e) BY <1>2, <1>8, Families
  <2> QED BY <1>1, <1>2, <1>8, <2>1, ShxBus
<1>9. CASE e.op \in ControlOps
  <2>1. x = control(f, e) BY <1>2, <1>9, Families
  <2>2. e.op \in {"PHA", "PHP", "PLA", "PLP", "NOP"} BY <1>4, <1>9 DEF ControlOps
  <2> QED BY <1>1, <1>2, <1>9, <2>1, <2>2, ControlBus
<1>10. CASE e.op \in ImpliedOps
  <2> DEFINE s == ImpliedEffect(e.op, f.r)
             c == e.cycles
  <2>1. x = [f EXCEPT !.r = s, !.cycles = c] BY <1>2, <1>10, Families
  <2>2. f.r \in Regs BY <1>1 DEF Machines
  <2>3. s.pc = f.r.pc BY <1>10, <2>2, ImpliedPc
  <2> HIDE DEF s, c
  <2>4. x.r = s BY <1>1, <2>1, SMT DEF Machines
  <2>5. e.mode = "nul" BY <1>1, <1>10 DEF Priced, PlainPrice
  <2>6. i.r.pc = f.r.pc BY <1>1, <1>2, <2>5, NoOperandPc
  <2> QED BY <2>3, <2>4, <2>6
<1> QED BY <1>3, <1>4, <1>5, <1>6, <1>7, <1>8, <1>9, <1>10, Zenon DEF Op

(* The listing and execution agree for every program: the disassembler's   *)
(* mode is the table's for all 256 codes, whatever is not a jump goes on   *)
(* at the listing's next line, and what JSR pushes brings RTS back there,  *)
(* also where the stack wraps and where memory is a single page.           *)
THEOREM ListingFollowsExecution == Spec => []ListingInSync
<1>1. ASSUME ProcInv PROVE ListingInSync
  <2> DEFINE f == fetched
             i == init(f, Entry.mode)
             next == unasm_next(regs.pc, Code)
             op == Entry.op
  <2>1. /\ unasm_mode(Code) = Listed(Entry) /\ i.r.pc = next
        /\ i.r.sr = regs.sr
    BY <1>1, NextLine
  <2>2. unasm_mode(Code) = IF Entry.mode = "abc" THEN "abs" ELSE Entry.mode
    BY <2>1 DEF Listed
  <2>3. /\ Entry \in Entries /\ Priced(Entry) /\ f \in Machines /\ Calm(f.log, 1)
    BY <1>1, Started
  <2>4. op = "JSR" => RTS(After).r.pc = next
    <3> SUFFICES ASSUME op = "JSR" PROVE RTS(After).r.pc = next OBVIOUS
    <3> DEFINE x == After
    <3>1. Entry.mode = "abc" BY <2>3 DEF Priced, JumpPrice
    <3>2. op \in ControlOps BY DEF ControlOps
    <3>3. x = control(f, Entry) BY <3>2, Families DEF After
    <3>4. x \in Machines BY <1>1, ExecuteStep DEF After
    <3>5. i = init(f, "abc") BY <3>1
    <3> HIDE DEF f, x, i
    <3>6. PICK n : n = JSR(f, "abc") /\ x.r = n.r /\ x.mem = n.mem
      BY <2>3, <3>2, <3>3, ControlBus
    <3>7. RTS(x).r.pc = i.r.pc BY <2>3, <3>4, <3>5, <3>6, RoundTrip
    <3> QED BY <2>1, <3>7 DEF x
  <2>5. op \in BranchOps => (~BranchTaken(op, regs) => After.r.pc = next)
    <3> SUFFICES ASSUME op \in BranchOps, ~BranchTaken(op, regs) PROVE After.r.pc = next
      OBVIOUS
    <3>1. After = branch(f, Entry) BY Families DEF After
    <3>2. ~BranchTaken(op, i.r) BY <2>1 DEF BranchTaken, getStatus, BranchOps
    <3>3. After.r.pc = i.r.pc BY <2>3, <3>1, <3>2, BranchBus
    <3> QED BY <2>1, <3>3
  <2>6. op \notin {"JMP", "RTI", "RTS", "BRK", "KIL", "JSR"} /\ op \notin BranchOps =>
          After.r.pc = next
    BY <1>1, <2>1, PcGoesOn
  <2>7. op \in BranchOps => op \notin {"JMP", "RTI", "RTS", "BRK", "KIL", "JSR"}
    BY DEF BranchOps
  <2> HIDE DEF next
  <2>8. CASE op \in {"JMP", "RTI", "RTS", "BRK", "KIL"}
    BY <2>2, <2>7, <2>8, Zenon DEF ListingInSync
  <2>9. CASE op = "JSR"
    BY <2>2, <2>4, <2>7, <2>9, Zenon DEF ListingInSync, next
  <2>10. CASE op \in BranchOps
    BY <2>2, <2>5, <2>7, <2>10, Zenon DEF ListingInSync, next
  <2>11. CASE op \notin {"JMP", "RTI", "RTS", "BRK", "KIL", "JSR"} /\ op \notin BranchOps
    BY <2>2, <2>6, <2>11, Zenon DEF ListingInSync, next
  <2> QED BY <2>8, <2>9, <2>10, <2>11
<1> QED BY <1>1, InitInv, NextInv, PTL DEF Spec

-----------------------------------------------------------------------------
(* Interrupts.                                                             *)

(* Two cells of page one are different cells, however small the memory.    *)
LEMMA StackApart ==
  ASSUME NEW s \in Byte, NEW t \in Byte, s # t
  PROVE  checkAddress(256 + s) # checkAddress(256 + t)
<1>1. /\ s \in Int /\ 0 <= s /\ s <= 255 /\ t \in Int /\ 0 <= t /\ t <= 255 BY ByteIs
<1>2. MemSize \in Int /\ MemSize > 0 /\ MemSize % 256 = 0 BY MemSizeAssumption, SMT
<1>3. MemSize = 256 \/ MemSize >= 512 BY <1>2, SMT
<1>4. MemSize = 256 => checkAddress(256 + s) = s /\ checkAddress(256 + t) = t
  BY <1>1, SMT DEF checkAddress
<1>5. MemSize >= 512 => checkAddress(256 + s) = 256 + s /\ checkAddress(256 + t) = 256 + t
  BY <1>1, <1>2, SMT DEF checkAddress
<1>6. 256 + s # 256 + t BY <1>1
<1>7. CASE MemSize = 256 BY <1>4, <1>7, Zenon
<1>8. CASE MemSize >= 512 BY <1>5, <1>6, <1>8, Zenon
<1> QED BY <1>3, <1>7, <1>8

(* The three cells that an interrupt pushes to, and the way back.          *)
LEMMA FrameCells ==
  ASSUME NEW s \in Byte, NEW t, t = Wrap8(s - 1), NEW u, u = Wrap8(t - 1), NEW v, v = Wrap8(u - 1)
  PROVE  /\ t \in Byte /\ u \in Byte /\ v \in Byte
         /\ Wrap8(v + 1) = u /\ Wrap8(u + 1) = t /\ Wrap8(t + 1) = s
         /\ checkAddress(256 + s) # checkAddress(256 + t)
         /\ checkAddress(256 + s) # checkAddress(256 + u)
         /\ checkAddress(256 + t) # checkAddress(256 + u)
<1>1. s \in Int /\ 0 <= s /\ s <= 255 BY ByteIs
<1>2. \A a \in Int : 0 <= a /\ a <= 255 => Wrap8(a - 1) = IF a = 0 THEN 255 ELSE a - 1
  BY SMT DEF Wrap8
<1>3. \A a \in Int : 0 <= a /\ a <= 255 => Wrap8(a + 1) = IF a = 255 THEN 0 ELSE a + 1
  BY SMT DEF Wrap8
<1>4. t \in Int /\ 0 <= t /\ t <= 255 /\ t # s /\ Wrap8(t + 1) = s BY <1>1, <1>2, <1>3
<1>5. u \in Int /\ 0 <= u /\ u <= 255 /\ u # t /\ u # s /\ Wrap8(u + 1) = t
  BY <1>1, <1>2, <1>3, <1>4
<1>6. v \in Int /\ 0 <= v /\ v <= 255 /\ Wrap8(v + 1) = u BY <1>2, <1>3, <1>5
<1>7. t \in Byte /\ u \in Byte /\ v \in Byte BY <1>4, <1>5, <1>6, ByteIs
<1> QED BY <1>4, <1>5, <1>6, <1>7, StackApart

(* The bits of a pushed status byte are its flags,                         *)
LEMMA SrByteBits ==
  ASSUME NEW sr
  PROVE  \A w \in DOMAIN FlagOf : Has(SrByte(sr), w) <=> FlagOf[w] \in sr
<1> DEFINE c == IF FlagOf[1] \in sr THEN 1 ELSE 0
           z == IF FlagOf[2] \in sr THEN 1 ELSE 0
           i == IF FlagOf[4] \in sr THEN 1 ELSE 0
           d == IF FlagOf[8] \in sr THEN 1 ELSE 0
           b == IF FlagOf[16] \in sr THEN 1 ELSE 0
           x == IF FlagOf[32] \in sr THEN 1 ELSE 0
           o == IF FlagOf[64] \in sr THEN 1 ELSE 0
           s == IF FlagOf[128] \in sr THEN 1 ELSE 0
           byte == SrByte(sr)
<1>1. byte = c + 2 * z + 4 * i + 8 * d + 16 * b + 32 * x + 64 * o + 128 * s
  BY SMT DEF SrByte, ByteWhere
<1>2. /\ c \in {0, 1} /\ z \in {0, 1} /\ i \in {0, 1} /\ d \in {0, 1}
      /\ b \in {0, 1} /\ x \in {0, 1} /\ o \in {0, 1} /\ s \in {0, 1}
  OBVIOUS
<1>3. /\ FlagOf[1] \in sr <=> c = 1
      /\ FlagOf[2] \in sr <=> z = 1
      /\ FlagOf[4] \in sr <=> i = 1
      /\ FlagOf[8] \in sr <=> d = 1
      /\ FlagOf[16] \in sr <=> b = 1
      /\ FlagOf[32] \in sr <=> x = 1
      /\ FlagOf[64] \in sr <=> o = 1
      /\ FlagOf[128] \in sr <=> s = 1
  OBVIOUS
<1> HIDE DEF c, z, i, d, b, x, o, s, byte
<1>4. (Has(byte, 1) <=> c = 1) /\ (Has(byte, 2) <=> z = 1) BY <1>1, <1>2, SMT DEF Has
<1>5. (Has(byte, 4) <=> i = 1) /\ (Has(byte, 8) <=> d = 1) BY <1>1, <1>2, SMT DEF Has
<1>6. (Has(byte, 16) <=> b = 1) /\ (Has(byte, 32) <=> x = 1) BY <1>1, <1>2, SMT DEF Has
<1>7. (Has(byte, 64) <=> o = 1) /\ (Has(byte, 128) <=> s = 1) BY <1>1, <1>2, SMT DEF Has
<1>8. DOMAIN FlagOf = {1, 2, 4, 8, 16, 32, 64, 128} BY DEF FlagOf
<1> QED BY <1>3, <1>4, <1>5, <1>6, <1>7, <1>8 DEF byte

(* so a status byte that is pulled is the set of flags that was pushed.    *)
LEMMA SrRoundTrip ==
  ASSUME NEW sr \in SUBSET Flags6502
  PROVE  SrFlags(SrByte(sr)) = sr
<1> DEFINE byte == SrByte(sr)
<1>1. \A w \in DOMAIN FlagOf : Has(byte, w) <=> FlagOf[w] \in sr BY SrByteBits
<1>2. \A f \in Flags6502 : \E w \in DOMAIN FlagOf : FlagOf[w] = f BY SMT DEF FlagOf, Flags6502
<1> HIDE DEF byte
<1>3. SrFlags(byte) = sr BY <1>1, <1>2, Zenon DEF SrFlags
<1> QED BY <1>3 DEF byte

(* A byte stored in one of three different cells.                          *)
LEMMA ThreePokes ==
  ASSUME NEW mem0, NEW a, NEW b, NEW c, NEW x, NEW y, NEW z,
         checkAddress(a) # checkAddress(b), checkAddress(a) # checkAddress(c),
         checkAddress(b) # checkAddress(c),
         NEW new, new = Poke(Poke(Poke(mem0, a, x), b, y), c, z)
  PROVE  Peek(new, a) = x /\ Peek(new, b) = y /\ Peek(new, c) = z
<1>1. PICK one : one = Poke(mem0, a, x) OBVIOUS
<1>2. PICK two : two = Poke(one, b, y) OBVIOUS
<1>3. new = Poke(two, c, z) BY <1>1, <1>2
<1>4. Peek(one, a) = x BY <1>1, PeekPoke
<1>5. Peek(two, b) = y /\ Peek(two, a) = Peek(one, a) BY <1>2, PeekPoke
<1>6. Peek(new, c) = z /\ Peek(new, a) = Peek(two, a) /\ Peek(new, b) = Peek(two, b)
  BY <1>3, PeekPoke
<1> QED BY <1>4, <1>5, <1>6

(* Jumping through a vector leaves the stack alone.                        *)
LEMMA VectorKeeps ==
  ASSUME NEW m \in Machines, NEW ad \in Int, NEW n, n = vector(m, ad), n \in Machines
  PROVE  n.r.sp = m.r.sp /\ n.mem = m.mem
<1> DEFINE first == read(m, ad)
           second == read(first, ad + 1)
           w == Join(first.v, second.v)
           got == [second EXCEPT !.v = w]
           z == got.v
           s == [got.r EXCEPT !.pc = z]
<1>1. first \in Machines /\ first.r = m.r /\ first.mem = m.mem BY ReadIs
<1>2. ad + 1 \in Int OBVIOUS
<1>3. n = [got EXCEPT !.r = s] BY DEF vector, JumpToRead, read16
<1> HIDE DEF first
<1>4. second \in Machines /\ second.r = first.r /\ second.mem = first.mem BY <1>1, <1>2, ReadIs
<1> HIDE DEF second, w
<1>5. got.r = second.r /\ got.mem = second.mem BY <1>4, SMT DEF Machines
<1>6. s.sp = got.r.sp BY <1>4, <1>5, SMT DEF Machines, Regs, Registers
<1>7. n.r = s /\ n.mem = got.mem
  <2> HIDE DEF s, z
  <2> QED BY <1>3, <1>4, SMT DEF Machines
<1> HIDE DEF s, got
<1> QED BY <1>1, <1>4, <1>5, <1>6, <1>7

(* The memory m holds a frame: pc and the flags, pushed when the stack     *)
(* pointer was sp; and the stack pointer is just below it.                 *)
Stored(m, pc, sp, flags) ==
  /\ Peek(m, 256 + sp) = Hi(pc) /\ Peek(m, 256 + Wrap8(sp - 1)) = Lo(pc)
  /\ SrFlags(Peek(m, 256 + Wrap8(sp - 2))) = flags
Saved(r, m, pc, sp, flags) == r.sp = Wrap8(sp - 3) /\ Stored(m, pc, sp, flags)

(* Where three pushes leave the stack pointer.                             *)
LEMMA Pushes ==
  ASSUME NEW s \in Byte
  PROVE  /\ Wrap8(Wrap8(s - 1) - 1) = Wrap8(s - 2)
         /\ Wrap8(Wrap8(Wrap8(s - 1) - 1) - 1) = Wrap8(s - 3)
<1>1. s \in Int /\ 0 <= s /\ s <= 255 BY ByteIs
<1>2. \A a \in Int : 0 <= a /\ a <= 255 => Wrap8(a - 1) = IF a = 0 THEN 255 ELSE a - 1
  BY SMT DEF Wrap8
<1>3. \A a \in Int : 0 <= a /\ a <= 255 =>
        /\ Wrap8(a - 2) = IF a < 2 THEN a + 254 ELSE a - 2
        /\ Wrap8(a - 3) = IF a < 3 THEN a + 253 ELSE a - 3
  BY SMT DEF Wrap8
<1> QED BY <1>1, <1>2, <1>3

(* What BRK and serviceInterrupt share: they leave a frame.                *)
LEMMA EntrySaved ==
  ASSUME NEW m \in Machines, NEW pc \in Word, NEW flags \in SUBSET Flags6502, NEW ad \in Int,
         NEW pushed, pushed = push8(push16(m, pc), SrByte(flags)),
         NEW n, n = vector([pushed EXCEPT !.r.sr = @ \cup {"I"}], ad)
  PROVE  Saved(n.r, n.mem, pc, m.r.sp, flags)
<1> DEFINE b == SrByte(flags)
           s == m.r.sp
           t == Wrap8(s - 1)
           u == Wrap8(t - 1)
           v == Wrap8(u - 1)
           j == push16(m, pc)
           q == [pushed.r EXCEPT !.sr = pushed.r.sr \cup {"I"}]
           k == [pushed EXCEPT !.r = q]
<1>1. b \in Byte /\ SrFlags(b) = flags BY SrByteType, SrRoundTrip
<1>2. s \in Byte BY DEF Machines, Regs, Registers
<1>3. /\ Longer(m, j, 2) /\ j.r = [m.r EXCEPT !.sp = u]
      /\ j.mem = Poke(Poke(m.mem, 256 + s, Hi(pc)), 256 + t, Lo(pc))
  BY Push16Is
<1>4. pushed = push8(j, b) OBVIOUS
<1>5. Longer(m, vector([pushed EXCEPT !.r.sr = @ \cup {"I"}], ad), 5) BY <1>1, EntryLen
<1>6. n \in Machines BY <1>5 DEF Longer
<1>7. [pushed EXCEPT !.r.sr = @ \cup {"I"}] = k OBVIOUS
<1>8. n = vector(k, ad) BY <1>7
<1> HIDE DEF b, t, u, v, j
<1>9. j \in Machines /\ m.r \in Regs BY <1>3 DEF Longer, Machines
<1>10. j.r.sp = u BY <1>3, <1>9, SMT DEF Regs, Registers
<1>11. /\ Longer(j, pushed, 1) /\ pushed.r = [j.r EXCEPT !.sp = Wrap8(u - 1)]
       /\ pushed.mem = Poke(j.mem, 256 + u, b)
  BY <1>1, <1>4, <1>9, <1>10, PushIs
<1>12. pushed \in Machines /\ pushed.r \in Regs /\ j.r \in Regs BY <1>9, <1>11 DEF Longer, Machines
<1>13. pushed.r.sp = v BY <1>11, <1>12, SMT DEF Regs, Registers, v
<1>14. Sound(pushed.r, q)
  <2>1. pushed.r.sr \cup {"I"} \in SUBSET Flags6502 BY <1>12, SMT DEF Regs, Registers, Flags6502
  <2> DEFINE f == pushed.r.sr \cup {"I"}
  <2>2. "B" \notin f /\ "U" \in f BY <1>12 DEF Regs
  <2> HIDE DEF f
  <2>3. q = [pushed.r EXCEPT !.sr = f] BY DEF f
  <2>4. Sound(pushed.r, [pushed.r EXCEPT !.sr = f]) BY <1>12, <2>1, <2>2, SoundSr DEF f
  <2> QED BY <2>3, <2>4
<1>15. q.sp = v BY <1>12, <1>13, SMT DEF Regs, Registers
<1> HIDE DEF q
<1>16. k \in Machines /\ k.r = q /\ k.mem = pushed.mem
  <2>1. k \in Machines BY <1>12, <1>14, SoundR DEF SoundM
  <2> QED BY <1>12, <2>1, SameLog
<1> HIDE DEF k
<1>17. n.r.sp = v /\ n.mem = pushed.mem BY <1>6, <1>8, <1>15, <1>16, VectorKeeps
<1>18. /\ checkAddress(256 + s) # checkAddress(256 + t)
       /\ checkAddress(256 + s) # checkAddress(256 + u)
       /\ checkAddress(256 + t) # checkAddress(256 + u)
  BY <1>2, FrameCells DEF t, u
<1>19. n.mem = Poke(Poke(Poke(m.mem, 256 + s, Hi(pc)), 256 + t, Lo(pc)), 256 + u, b)
  BY <1>3, <1>11, <1>17
<1>20. Peek(n.mem, 256 + s) = Hi(pc) /\ Peek(n.mem, 256 + t) = Lo(pc) /\ Peek(n.mem, 256 + u) = b
  BY <1>18, <1>19, ThreePokes
<1>21. u = Wrap8(s - 2) /\ v = Wrap8(s - 3) BY <1>2, Pushes DEF t, u, v
<1> QED BY <1>1, <1>17, <1>20, <1>21, Zenon DEF Saved, Stored, t

(* RTI pulls the flags and then pc.                                        *)
LEMMA RtiIs ==
  ASSUME NEW m \in Machines, NEW n, n = RTI(m),
         NEW a, a = Wrap8(m.r.sp + 1), NEW b, b = Wrap8(a + 1), NEW c, c = Wrap8(b + 1)
  PROVE  /\ n.r.sp = c /\ n.r.sr = PulledSr(Peek(m.mem, 256 + a))
         /\ n.r.pc = Join(Peek(m.mem, 256 + b), Peek(m.mem, 256 + c))
<1> DEFINE j == pop8(m)
           f == PulledSr(j.v)
           q == [j.r EXCEPT !.sr = f]
           t == [j EXCEPT !.r = q]
           low == pop8(t)
           high == pop8(low)
           w == Join(low.v, high.v)
           p == [high EXCEPT !.v = w]
           s == [p.r EXCEPT !.pc = p.v]
<1>1. /\ Longer(m, j, 1) /\ j.r = [m.r EXCEPT !.sp = a] /\ j.mem = m.mem
      /\ j.v = Peek(m.mem, 256 + a)
  BY PopIs
<1>2. n = [p EXCEPT !.r = s] BY DEF RTI, JumpToRead, pop16
<1>3. n \in Machines BY RtiSound DEF SoundM
<1> HIDE DEF j
<1>4. j \in Machines /\ j.r \in Regs /\ m.r \in Regs BY <1>1 DEF Longer, Machines
<1>5. t \in Machines
  <2>1. [j EXCEPT !.r.sr = PulledSr(j.v)] \in Machines BY <1>4, PullSrSound DEF SoundM
  <2>2. [j EXCEPT !.r.sr = PulledSr(j.v)] = t OBVIOUS
  <2> QED BY <2>1, <2>2
<1>6. f = PulledSr(Peek(m.mem, 256 + a)) BY <1>1
<1> HIDE DEF f
<1>7. j.r.sp = a BY <1>1, <1>4, SMT DEF Regs, Registers
<1>8. q.sp = a /\ q.sr = f BY <1>4, <1>7, SMT DEF Regs, Registers
<1> HIDE DEF q
<1>9. t.r = q /\ t.mem = m.mem BY <1>1, <1>4, SMT DEF Machines
<1> HIDE DEF t
<1>10. /\ Longer(t, low, 1) /\ low.r = [t.r EXCEPT !.sp = Wrap8(t.r.sp + 1)] /\ low.mem = t.mem
       /\ low.v = Peek(t.mem, 256 + Wrap8(t.r.sp + 1))
  BY <1>5, PopIs
<1> HIDE DEF low
<1>11. low \in Machines /\ low.r \in Regs /\ t.r \in Regs BY <1>5, <1>10 DEF Longer, Machines
<1>12. Wrap8(t.r.sp + 1) = b BY <1>8, <1>9
<1>13. low.r.sp = b /\ low.r.sr = f BY <1>8, <1>9, <1>10, <1>11, <1>12, SMT DEF Regs, Registers
<1>14. /\ Longer(low, high, 1) /\ high.r = [low.r EXCEPT !.sp = Wrap8(low.r.sp + 1)]
       /\ high.v = Peek(low.mem, 256 + Wrap8(low.r.sp + 1))
  BY <1>11, PopIs
<1> HIDE DEF high
<1>15. high \in Machines /\ high.r \in Regs BY <1>14 DEF Longer, Machines
<1>16. Wrap8(low.r.sp + 1) = c BY <1>13
<1>17. high.r.sp = c /\ high.r.sr = f BY <1>11, <1>13, <1>14, <1>16, SMT DEF Regs, Registers
<1>18. w = Join(Peek(m.mem, 256 + b), Peek(m.mem, 256 + c)) BY <1>9, <1>10, <1>12, <1>14, <1>16
<1> HIDE DEF w
<1>19. p.r = high.r /\ p.v = w BY <1>15, SMT DEF Machines
<1>20. s.sp = c /\ s.sr = f /\ s.pc = w
  <2> HIDE DEF p
  <2> QED BY <1>15, <1>17, <1>19, SMT DEF Regs, Registers
<1>21. n.r = s
  <2> HIDE DEF s
  <2> QED BY <1>2, <1>15, SMT DEF Machines
<1> HIDE DEF s
<1> QED BY <1>6, <1>18, <1>20, <1>21

(* So RTI takes back what a frame holds.                                   *)
LEMMA RtiRestores ==
  ASSUME NEW m \in Machines, NEW pc \in Word, NEW sp \in Byte, NEW flags,
         Saved(m.r, m.mem, pc, sp, flags), NEW n, n = RTI(m)
  PROVE  n.r.pc = pc /\ n.r.sp = sp /\ n.r.sr = (flags \ {"B"}) \cup {"U"}
<1> DEFINE t == Wrap8(sp - 1)
           u == Wrap8(t - 1)
           v == Wrap8(u - 1)
<1>1. Wrap8(v + 1) = u /\ Wrap8(u + 1) = t /\ Wrap8(t + 1) = sp BY FrameCells
<1>2. /\ m.r.sp = v /\ Peek(m.mem, 256 + sp) = Hi(pc) /\ Peek(m.mem, 256 + t) = Lo(pc)
      /\ SrFlags(Peek(m.mem, 256 + u)) = flags
  <2>1. u = Wrap8(sp - 2) /\ v = Wrap8(sp - 3) BY Pushes
  <2> HIDE DEF u, v
  <2> QED BY <2>1, Zenon DEF Saved, Stored
<1> HIDE DEF t, u, v
<1>3. u = Wrap8(m.r.sp + 1) /\ t = Wrap8(u + 1) /\ sp = Wrap8(t + 1) BY <1>1, <1>2
<1>4. /\ n.r.sp = sp /\ n.r.sr = PulledSr(Peek(m.mem, 256 + u))
      /\ n.r.pc = Join(Peek(m.mem, 256 + t), Peek(m.mem, 256 + sp))
  BY <1>3, RtiIs
<1>5. Join(Lo(pc), Hi(pc)) = pc BY JoinLoHi
<1> QED BY <1>2, <1>4, <1>5, Zenon DEF PulledSr

(* execute() of BRK and RTI.                                               *)
LEMMA BrkExecuted ==
  ASSUME NEW m \in Machines, NEW e, e.op = "BRK", NEW n, n = BRK(m)
  PROVE  execute(m, e).r = n.r /\ execute(m, e).mem = n.mem
<1>1. e.op \in ControlOps BY DEF ControlOps
<1>2. execute(m, e) = control(m, e) BY <1>1, Families, Zenon
<1>3. n \in Machines BY BrkSound DEF SoundM
<1> PICK cycles : cycles = e.cycles OBVIOUS
<1>4. control(m, e) = [n EXCEPT !.cycles = cycles] BY DEF control
<1>5. [n EXCEPT !.cycles = cycles].r = n.r /\ [n EXCEPT !.cycles = cycles].mem = n.mem
  BY <1>3, SMT DEF Machines
<1> QED BY <1>2, <1>4, <1>5, Zenon

LEMMA RtiExecuted ==
  ASSUME NEW m \in Machines, NEW e, e.op = "RTI", NEW n, n = RTI(m)
  PROVE  execute(m, e).r = n.r
<1>1. e.op \in ControlOps BY DEF ControlOps
<1>2. execute(m, e) = control(m, e) BY <1>1, Families, Zenon
<1>3. n \in Machines BY RtiSound DEF SoundM
<1> PICK cycles : cycles = e.cycles OBVIOUS
<1>4. control(m, e) = [n EXCEPT !.cycles = cycles] BY DEF control
<1>5. [n EXCEPT !.cycles = cycles].r = n.r BY <1>3, SMT DEF Machines
<1> QED BY <1>2, <1>4, <1>5, Zenon

(* An interrupt leaves a frame with the interrupted context, and BRK one   *)
(* with B set and the address behind its padding byte.                     *)
EntrySaves ==
  /\ StepNmi \/ StepIrq => Saved(regs', mem', regs.pc, regs.sp, regs.sr)
  /\ StepExecute /\ Entry.op = "BRK"
       => Saved(regs', mem', Wrap16(regs.pc + 2), regs.sp, regs.sr \cup {"B"})

(* RTI goes back to the context whose frame is on the stack; software or   *)
(* a line may have pushed it, with or without B.                           *)
StatusSets == {sr \in SUBSET Flags6502 : "B" \notin sr /\ "U" \in sr}
RtiReturns ==
  StepExecute /\ Entry.op = "RTI" =>
    \A pc \in Word, sp \in Byte, sr \in StatusSets :
      Saved(regs, mem, pc, sp, sr) \/ Saved(regs, mem, pc, sp, sr \cup {"B"})
        => regs'.pc = pc /\ regs'.sp = sp /\ regs'.sr = sr

(* The service of an interrupt leaves the frame of what it interrupted.    *)
LEMMA ServiceSaves ==
  ASSUME ProcInv, NEW ad \in Int, NEW what, NEW code,
         Apply(serviceInterrupt(Machine(regs, mem), ad), what, code)
  PROVE  Saved(regs', mem', regs.pc, regs.sp, regs.sr)
<1> DEFINE m == Machine(regs, mem)
           flags == (m.r.sr \ {"B"}) \cup {"U"}
           pushed == push8(push16(m, m.r.pc), SrByte(flags))
           n == vector([pushed EXCEPT !.r.sr = @ \cup {"I"}], ad)
           x == [n EXCEPT !.cycles = 7]
<1>1. m \in Machines /\ m.r = regs BY MachineType
<1>2. regs \in Regs BY <1>1 DEF Machines
<1>3. flags = regs.sr /\ flags \in SUBSET Flags6502 /\ regs.pc \in Word
  <2>1. regs.sr \in SUBSET Flags6502 /\ regs.pc \in Word BY <1>2, SMT DEF Regs, Registers
  <2>2. "B" \notin regs.sr /\ "U" \in regs.sr BY <1>2 DEF Regs
  <2> QED BY <1>1, <2>1, <2>2, Zenon
<1>4. regs' = x.r /\ mem' = x.mem BY DEF Apply, serviceInterrupt
<1> HIDE DEF m, flags
<1>5. Saved(n.r, n.mem, regs.pc, regs.sp, regs.sr)
  <2>1. Saved(n.r, n.mem, m.r.pc, m.r.sp, flags) BY <1>1, <1>3, EntrySaved
  <2> QED BY <1>1, <1>3, <2>1
<1>6. n \in Machines
  <2>1. SrByte(flags) \in Byte BY SrByteType
  <2>2. Longer(m, n, 5) BY <1>1, <1>3, <2>1, EntryLen
  <2> QED BY <2>2 DEF Longer
<1> HIDE DEF n
<1>7. x.r = n.r /\ x.mem = n.mem BY <1>6, SMT DEF Machines
<1> HIDE DEF x
<1> QED BY <1>4, <1>5, <1>7

(* BRK leaves the frame of the instruction behind it.                      *)
LEMMA BrkSaves ==
  ASSUME ProcInv, StepExecute, Entry.op = "BRK"
  PROVE  Saved(regs', mem', Wrap16(regs.pc + 2), regs.sp, regs.sr \cup {"B"})
<1> DEFINE m == fetched
           flags == m.r.sr \cup {"B", "U"}
           w == Wrap16(m.r.pc + 1)
           ad == 65534
           pushed == push8(push16(m, w), SrByte(flags))
           n == vector([pushed EXCEPT !.r.sr = @ \cup {"I"}], ad)
<1>1. m \in Machines /\ m.r = [regs EXCEPT !.pc = Wrap16(regs.pc + 1)] BY FetchedIs
<1>2. regs \in Regs BY MachineType DEF Machines
<1>3. regs.sr \in SUBSET Flags6502 /\ regs.pc \in Word /\ "U" \in regs.sr
  BY <1>2, SMT DEF Regs, Registers
<1>4. m.r.sr = regs.sr /\ m.r.sp = regs.sp /\ m.r.pc = Wrap16(regs.pc + 1)
  BY <1>1, <1>2, SMT DEF Regs, Registers
<1>5. flags = regs.sr \cup {"B"} /\ flags \in SUBSET Flags6502
  <2>1. "B" \in Flags6502 BY DEF Flags6502
  <2> QED BY <1>3, <1>4, <2>1, Zenon
<1>6. w = Wrap16(regs.pc + 2) /\ w \in Word
  <2>1. w = Wrap16(Wrap16(regs.pc + 1) + 1) BY <1>4
  <2>2. \A p \in Int : 0 <= p /\ p <= 65535 => Wrap16(Wrap16(p + 1) + 1) = Wrap16(p + 2)
    BY SMT DEF Wrap16
  <2>3. regs.pc + 2 \in Int /\ regs.pc \in Int /\ 0 <= regs.pc /\ regs.pc <= 65535
    BY <1>3, WordIs
  <2> QED BY <2>1, <2>2, <2>3, Wrap16Type
<1>7. ad \in Int BY SMT
<1>8. BRK(m) = n
  <2> DEFINE b == PushedSr(m.r)
             one == push8(push16(m, w), b)
  <2>1. BRK(m) = vector([one EXCEPT !.r.sr = @ \cup {"I"}], ad) BY SMT DEF BRK
  <2>2. b = SrByte(flags) BY DEF PushedSr
  <2> HIDE DEF b, flags
  <2> QED BY <2>1, <2>2
<1>9. regs' = execute(m, Entry).r /\ mem' = execute(m, Entry).mem BY DEF StepExecute, Apply
<1>10. regs' = n.r /\ mem' = n.mem
  <2>1. PICK e : e = Entry OBVIOUS
  <2>2. e.op = "BRK" BY <2>1
  <2>3. n = BRK(m) BY <1>8
  <2> HIDE DEF m, n
  <2>4. execute(m, e).r = n.r /\ execute(m, e).mem = n.mem BY <1>1, <2>2, <2>3, BrkExecuted
  <2> QED BY <1>9, <2>1, <2>4
<1> HIDE DEF m, flags, w, ad
<1>11. Saved(n.r, n.mem, w, m.r.sp, flags) BY <1>1, <1>5, <1>6, <1>7, EntrySaved
<1> HIDE DEF n
<1> QED BY <1>4, <1>5, <1>6, <1>10, <1>11

(* Both kinds of entry save what they interrupt, for every program.        *)
LEMMA StepSaves ==
  ASSUME ProcInv
  PROVE  EntrySaves
<1>1. NmiVector \in Int /\ IrqVector \in Int BY SMT DEF NmiVector, IrqVector
<1>2. StepNmi \/ StepIrq => Saved(regs', mem', regs.pc, regs.sp, regs.sr)
  BY <1>1, ServiceSaves DEF StepNmi, StepIrq
<1> QED BY <1>2, BrkSaves DEF EntrySaves

(* RTI returns to what was saved, for every program.                       *)
LEMMA StepReturns ==
  ASSUME ProcInv
  PROVE  RtiReturns
<1> SUFFICES ASSUME StepExecute, Entry.op = "RTI", NEW pc \in Word, NEW sp \in Byte,
                    NEW sr \in StatusSets, NEW flags \in {sr, sr \cup {"B"}},
                    Saved(regs, mem, pc, sp, flags)
             PROVE  regs'.pc = pc /\ regs'.sp = sp /\ regs'.sr = sr
  BY DEF RtiReturns
<1> DEFINE m == fetched
           n == RTI(m)
<1>1. m \in Machines /\ m.mem = mem /\ m.r = [regs EXCEPT !.pc = Wrap16(regs.pc + 1)]
  BY FetchedIs
<1>2. regs \in Regs BY MachineType DEF Machines
<1>3. m.r.sp = regs.sp BY <1>1, <1>2, SMT DEF Regs, Registers
<1>4. regs' = execute(m, Entry).r BY DEF StepExecute, Apply
<1>5. regs' = n.r
  <2>1. PICK e : e = Entry OBVIOUS
  <2>2. e.op = "RTI" BY <2>1
  <2>3. n = RTI(m) OBVIOUS
  <2> HIDE DEF m, n
  <2>4. execute(m, e).r = n.r BY <1>1, <2>2, <2>3, RtiExecuted
  <2> QED BY <1>4, <2>1, <2>4
<1>6. Saved(m.r, m.mem, pc, sp, flags) BY <1>1, <1>3, Zenon DEF Saved
<1> HIDE DEF m
<1>7. n.r.pc = pc /\ n.r.sp = sp /\ n.r.sr = (flags \ {"B"}) \cup {"U"}
  BY <1>1, <1>6, RtiRestores
<1>8. (flags \ {"B"}) \cup {"U"} = sr BY Zenon DEF StatusSets
<1> QED BY <1>5, <1>7, <1>8

(* Every NMI, IRQ and BRK leaves the program counter, the stack pointer    *)
(* and the flags of what it interrupted in a frame on the stack, with B    *)
(* set exactly for BRK, wherever the stack wraps or memory mirrors.        *)
THEOREM InterruptsSave == Spec => [][EntrySaves]_vars
<1>1. ProcInv => EntrySaves BY StepSaves
<1> QED BY <1>1, InitInv, NextInv, PTL DEF Spec

(* An RTI that finds such a frame on the stack, whatever the handler did   *)
(* in between, goes back to the interrupted context.                       *)
THEOREM RtiGoesBack == Spec => [][RtiReturns]_vars
<1>1. ProcInv => RtiReturns BY StepReturns
<1> QED BY <1>1, InitInv, NextInv, PTL DEF Spec

-----------------------------------------------------------------------------
(* Nested handlers, for every program that is tidy.  The frames that are   *)
(* open are well-formed contexts, and each is still in memory.             *)
Contexts == [kind : {"nmi", "irq", "brk"}, sr : StatusSets, sp : Byte, pc : Word]
PushedFlags(f) == f.sr \cup (IF f.kind = "brk" THEN {"B"} ELSE {})
InMemory(m, f) == Stored(m, f.pc, f.sp, PushedFlags(f))
FramesKept ==
  /\ frames \in Seq(Contexts)
  /\ \A k \in 1..Len(frames) : InMemory(mem, frames[k])
FramesInv == ProcInv /\ FramesKept

(* A tidy step leaves every open frame in memory.                          *)
LEMMA TidyKeeps ==
  ASSUME FramesInv, TidyStep, NEW k \in 1..Len(frames)
  PROVE  InMemory(mem', frames[k])
<1> PICK f : f = frames[k] OBVIOUS
<1>1. InMemory(mem, f) /\ f \in Contexts BY DEF FramesInv, FramesKept
<1>2. \A d \in 0..2 : Peek(mem', 256 + Wrap8(f.sp - d)) = Peek(mem, 256 + Wrap8(f.sp - d))
  BY DEF TidyStep
<1>3. f.sp \in Byte BY <1>1 DEF Contexts
<1>4. 0 \in 0..2 /\ 1 \in 0..2 /\ 2 \in 0..2 BY SMT
<1>5. Wrap8(f.sp - 0) = f.sp
  <2>1. f.sp \in Int /\ 0 <= f.sp /\ f.sp <= 255 BY <1>3, ByteIs
  <2> QED BY <2>1, SMT DEF Wrap8
<1>6. Peek(mem', 256 + f.sp) = Peek(mem, 256 + f.sp) BY <1>2, <1>4, <1>5
<1>7. Peek(mem', 256 + Wrap8(f.sp - 1)) = Peek(mem, 256 + Wrap8(f.sp - 1)) BY <1>2, <1>4, Zenon
<1>8. Peek(mem', 256 + Wrap8(f.sp - 2)) = Peek(mem, 256 + Wrap8(f.sp - 2)) BY <1>2, <1>4, Zenon
<1>9. InMemory(mem', f) BY <1>1, <1>6, <1>7, <1>8, SMT DEF InMemory, Stored
<1> QED BY <1>9

(* Opening and closing a frame.                                            *)
LEMMA FramePushed ==
  ASSUME FramesInv, TidyStep, NEW f \in Contexts, InMemory(mem', f), frames' = <<f>> \o frames
  PROVE  FramesKept'
<1>1. frames \in Seq(Contexts) BY DEF FramesInv, FramesKept
<1>2. /\ frames' \in Seq(Contexts) /\ Len(frames') = Len(frames) + 1 /\ frames'[1] = f
      /\ \A k \in 1..Len(frames') : k = 1 \/ (k - 1 \in 1..Len(frames) /\ frames'[k] = frames[k - 1])
  BY <1>1
<1>3. ASSUME NEW k \in 1..Len(frames') PROVE InMemory(mem', frames'[k])
  BY <1>2, <1>3, TidyKeeps
<1> QED BY <1>2, <1>3 DEF FramesKept

LEMMA FramePopped ==
  ASSUME FramesInv, TidyStep, frames # <<>>, frames' = Tail(frames)
  PROVE  FramesKept'
<1>1. frames \in Seq(Contexts) BY DEF FramesInv, FramesKept
<1>2. /\ frames' \in Seq(Contexts)
      /\ \A k \in 1..Len(frames') : k + 1 \in 1..Len(frames) /\ frames'[k] = frames[k + 1]
  BY <1>1
<1>3. ASSUME NEW k \in 1..Len(frames') PROVE InMemory(mem', frames'[k])
  BY <1>2, <1>3, TidyKeeps
<1> QED BY <1>2, <1>3 DEF FramesKept

LEMMA FramesSame ==
  ASSUME FramesInv, TidyStep, frames' = frames
  PROVE  FramesKept'
<1>1. frames \in Seq(Contexts) BY DEF FramesInv, FramesKept
<1>2. ASSUME NEW k \in 1..Len(frames') PROVE InMemory(mem', frames'[k])
  BY <1>2, TidyKeeps
<1> QED BY <1>1, <1>2 DEF FramesKept

(* The frame a service or BRK opens is a context.                          *)
LEMMA FrameType ==
  ASSUME ProcInv, NEW kind \in {"nmi", "irq", "brk"}
  PROVE  /\ Frame(kind) \in Contexts
         /\ Frame(kind).kind = kind /\ Frame(kind).sr = regs.sr /\ Frame(kind).sp = regs.sp
         /\ Frame(kind).pc = IF kind = "brk" THEN Wrap16(regs.pc + 2) ELSE regs.pc
<1>1. regs \in Regs BY MachineType DEF Machines
<1>2. regs.sr \in SUBSET Flags6502 /\ regs.pc \in Word /\ regs.sp \in Byte
  BY <1>1, SMT DEF Regs, Registers
<1>3. "B" \notin regs.sr /\ "U" \in regs.sr BY <1>1 DEF Regs
<1>4. regs.sr \in StatusSets BY <1>2, <1>3, Zenon DEF StatusSets
<1>5. Wrap16(regs.pc + 2) \in Word
  <2>1. regs.pc + 2 \in Int BY <1>2, WordIs
  <2> QED BY <2>1, Wrap16Type
<1> PICK sr, sp, pc, pc2 : sr = regs.sr /\ sp = regs.sp /\ pc = regs.pc /\ pc2 = Wrap16(regs.pc + 2)
  OBVIOUS
<1>6. Frame(kind) = [kind |-> kind, sr |-> sr, sp |-> sp, pc |-> IF kind = "brk" THEN pc2 ELSE pc]
  BY DEF Frame
<1> QED BY <1>2, <1>4, <1>5, <1>6 DEF Contexts

(* What the steps do to the frames.                                        *)
LEMMA FramesStep ==
  ASSUME ProcInv, GStep
  PROVE  \/ frames' = frames
         \/ StepNmi /\ frames' = <<Frame("nmi")>> \o frames
         \/ StepIrq /\ frames' = <<Frame("irq")>> \o frames
         \/ StepExecute /\ Entry.op = "BRK" /\ frames' = <<Frame("brk")>> \o frames
         \/ StepExecute /\ Entry.op = "RTI" /\ frames # <<>> /\ frames' = Tail(frames)
<1>1. frames' = Frames /\ (StepNmi \/ FindNoNmi \/ StepIrq \/ StepExecute) BY DEF GStep, step
<1>2. CASE StepNmi
  <2>1. ~noNmi' /\ last'.did = "nmi" BY <1>2 DEF StepNmi, Apply, Did
  <2> QED BY <1>1, <1>2, <2>1 DEF Frames
<1>3. CASE FindNoNmi BY <1>1, <1>3 DEF Frames, FindNoNmi
<1>4. CASE StepIrq
  <2>1. ~noNmi' /\ last'.did = "irq" BY <1>4 DEF StepIrq, Apply, Did
  <2> QED BY <1>1, <1>4, <2>1 DEF Frames
<1>5. CASE StepExecute
  <2>1. ~noNmi' /\ last'.did = "exec" BY <1>5 DEF StepExecute, Apply, Did
  <2> PICK op : op = Entry.op OBVIOUS
  <2> QED BY <1>1, <1>5, <2>1 DEF Frames
<1> QED BY <1>1, <1>2, <1>3, <1>4, <1>5

(* The frames are kept by every step of a tidy program.                    *)
LEMMA GNextKeeps ==
  ASSUME FramesInv, GNext, TidyStep
  PROVE  FramesKept'
<1>1. CASE GStep
  <2>1. CASE frames' = frames BY <2>1, FramesSame
  <2>2. ASSUME StepNmi, frames' = <<Frame("nmi")>> \o frames PROVE FramesKept'
    <3>1. Saved(regs', mem', regs.pc, regs.sp, regs.sr)
      BY <2>2, StepSaves DEF EntrySaves, FramesInv
    <3> PICK f : f = Frame("nmi") OBVIOUS
    <3>2. f \in Contexts /\ f.kind = "nmi" /\ f.sr = regs.sr /\ f.sp = regs.sp /\ f.pc = regs.pc
      BY FrameType DEF FramesInv
    <3>3. InMemory(mem', f)
      <4>1. PushedFlags(f) = regs.sr BY <3>2 DEF PushedFlags
      <4> QED BY <3>1, <3>2, <4>1 DEF Saved, InMemory
    <3> QED BY <2>2, <3>2, <3>3, FramePushed
  <2>3. ASSUME StepIrq, frames' = <<Frame("irq")>> \o frames PROVE FramesKept'
    <3>1. Saved(regs', mem', regs.pc, regs.sp, regs.sr)
      BY <2>3, StepSaves DEF EntrySaves, FramesInv
    <3> PICK f : f = Frame("irq") OBVIOUS
    <3>2. f \in Contexts /\ f.kind = "irq" /\ f.sr = regs.sr /\ f.sp = regs.sp /\ f.pc = regs.pc
      BY FrameType DEF FramesInv
    <3>3. InMemory(mem', f)
      <4>1. PushedFlags(f) = regs.sr BY <3>2 DEF PushedFlags
      <4> QED BY <3>1, <3>2, <4>1 DEF Saved, InMemory
    <3> QED BY <2>3, <3>2, <3>3, FramePushed
  <2>4. ASSUME StepExecute, Entry.op = "BRK", frames' = <<Frame("brk")>> \o frames
        PROVE  FramesKept'
    <3>1. Saved(regs', mem', Wrap16(regs.pc + 2), regs.sp, regs.sr \cup {"B"})
      BY <2>4, StepSaves DEF EntrySaves, FramesInv
    <3> PICK f : f = Frame("brk") OBVIOUS
    <3>2. /\ f \in Contexts /\ f.kind = "brk" /\ f.sr = regs.sr /\ f.sp = regs.sp
          /\ f.pc = Wrap16(regs.pc + 2)
      BY FrameType DEF FramesInv
    <3>3. InMemory(mem', f)
      <4>1. PushedFlags(f) = regs.sr \cup {"B"} BY <3>2 DEF PushedFlags
      <4> QED BY <3>1, <3>2, <4>1 DEF Saved, InMemory
    <3> QED BY <2>4, <3>2, <3>3, FramePushed
  <2>5. CASE frames # <<>> /\ frames' = Tail(frames) BY <2>5, FramePopped
  <2> QED BY <1>1, <2>1, <2>2, <2>3, <2>4, <2>5, FramesStep DEF FramesInv
<1>2. CASE GNmi \/ GIrq
  <2>1. frames' = frames BY <1>2 DEF GNmi, GIrq
  <2> QED BY <2>1, FramesSame
<1>3. CASE GStart
  <2>1. frames' = <<>> BY <1>3 DEF GStart
  <2>2. frames' \in Seq(Contexts) /\ Len(frames') = 0 BY <2>1
  <2>3. 1..Len(frames') = {} BY <2>2, SMT
  <2> QED BY <2>2, <2>3 DEF FramesKept
<1> QED BY <1>1, <1>2, <1>3 DEF GNext

(* An RTI in a tidy program finds the frame of its handler and goes back.  *)
LEMMA TidyReturns ==
  ASSUME FramesInv, GNext, TidyStep, Returning
  PROVE  /\ regs'.pc = Head(frames).pc
         /\ regs'.sr = Head(frames).sr
         /\ regs'.sp = Head(frames).sp
<1>1. frames \in Seq(Contexts) /\ frames # <<>> /\ frames' = Tail(frames) /\ Len(frames') # Len(frames)
  BY DEF FramesInv, FramesKept, Returning
<1>2. last'.did = "exec" /\ Entry.op = "RTI" BY DEF Returning
<1>3. frames' # frames BY <1>1
<1>4. \A f \in Contexts : frames' # <<f>> \o frames
  <2>1. ASSUME NEW f \in Contexts, frames' = <<f>> \o frames PROVE FALSE
    <3>1. Len(<<f>> \o frames) = Len(frames) + 1 BY <1>1
    <3>2. Len(frames') = Len(frames) - 1 BY <1>1
    <3>3. Len(frames) \in Nat BY <1>1
    <3>4. Len(frames) - 1 = Len(frames) + 1 BY <2>1, <3>1, <3>2, Zenon
    <3> QED BY <3>3, <3>4
  <2> QED BY <2>1
<1>5. GStep
  <2>1. ~GNmi /\ ~GIrq BY <1>3 DEF GNmi, GIrq
  <2>2. ~GStart BY <1>2 DEF GStart, start, Did
  <2> QED BY <2>1, <2>2 DEF GNext
<1>6. StepExecute
  <2>1. \A kind \in {"nmi", "irq", "brk"} : Frame(kind) \in Contexts
    BY FrameType DEF FramesInv
  <2> QED BY <1>3, <1>4, <1>5, <2>1, FramesStep DEF FramesInv
<1> PICK f : f = Head(frames) OBVIOUS
<1>7. f \in Contexts /\ f = frames[1] /\ 1 \in 1..Len(frames) BY <1>1
<1>8. InMemory(mem, f) BY <1>7 DEF FramesInv, FramesKept
<1>9. regs.sp = Wrap8(f.sp - 3) BY DEF TidyStep
<1>10. Saved(regs, mem, f.pc, f.sp, PushedFlags(f)) BY <1>8, <1>9 DEF InMemory, Saved
<1>11. PushedFlags(f) = f.sr \/ PushedFlags(f) = f.sr \cup {"B"}
  <2>1. f.sr \cup {} = f.sr OBVIOUS
  <2> QED BY <2>1 DEF PushedFlags
<1>12. f.pc \in Word /\ f.sp \in Byte /\ f.sr \in StatusSets BY <1>7 DEF Contexts
<1>13. regs'.pc = f.pc /\ regs'.sp = f.sp /\ regs'.sr = f.sr
  <2>1. RtiReturns BY StepReturns DEF FramesInv
  <2>2. CASE PushedFlags(f) = f.sr
    <3>1. Saved(regs, mem, f.pc, f.sp, f.sr) BY <1>10, <2>2
    <3> QED BY <1>2, <1>6, <1>12, <2>1, <3>1, Zenon DEF RtiReturns
  <2>3. CASE PushedFlags(f) = f.sr \cup {"B"}
    <3>1. Saved(regs, mem, f.pc, f.sp, f.sr \cup {"B"}) BY <1>10, <2>3
    <3> QED BY <1>2, <1>6, <1>12, <2>1, <3>1, Zenon DEF RtiReturns
  <2> QED BY <1>11, <2>2, <2>3
<1> QED BY <1>13

(* Bit 4 of the status byte in a frame is set exactly by BRK.              *)
LEMMA BrkTold ==
  ASSUME FramesKept
  PROVE  HandlerCanTellBrk
<1> SUFFICES ASSUME NEW k \in 1..Len(frames)
             PROVE  Has(Peek(mem, 256 + Wrap8(frames[k].sp - 2)), 16) <=> frames[k].kind = "brk"
  BY DEF HandlerCanTellBrk
<1> PICK f : f = frames[k] OBVIOUS
<1>1. f \in Contexts /\ InMemory(mem, f) BY DEF FramesKept
<1> PICK byte : byte = Peek(mem, 256 + Wrap8(f.sp - 2)) OBVIOUS
<1>2. SrFlags(byte) = PushedFlags(f) BY <1>1 DEF InMemory, Stored
<1>3. "B" \in SrFlags(byte) <=> Has(byte, 16)
  <2>1. \A w \in DOMAIN FlagOf : FlagOf[w] = "B" <=> w = 16 BY DEF FlagOf
  <2>2. 16 \in DOMAIN FlagOf BY DEF FlagOf
  <2> QED BY <2>1, <2>2 DEF SrFlags
<1>4. "B" \in PushedFlags(f) <=> f.kind = "brk"
  <2>1. "B" \notin f.sr BY <1>1 DEF Contexts, StatusSets
  <2> QED BY <2>1 DEF PushedFlags
<1>5. Has(byte, 16) <=> f.kind = "brk" BY <1>2, <1>3, <1>4
<1> QED BY <1>5

(* FramesInv is inductive for a tidy program.                              *)
LEMMA TidyInit == GInit => FramesInv
<1> SUFFICES ASSUME GInit PROVE FramesInv OBVIOUS
<1>1. ProcInv BY InitInv DEF GInit
<1>2. frames \in Seq(Contexts) /\ Len(frames) = 0 BY DEF GInit
<1>3. 1..Len(frames) = {} BY <1>2, SMT
<1> QED BY <1>1, <1>2, <1>3 DEF FramesInv, FramesKept

LEMMA TidyNext == FramesInv /\ [GNext]_gvars /\ [TidyStep]_gvars => FramesInv'
<1> SUFFICES ASSUME FramesInv, [GNext]_gvars, [TidyStep]_gvars PROVE FramesInv' OBVIOUS
<1>1. CASE UNCHANGED gvars
  <2>1. ProcInv'
    <3>1. UNCHANGED vars BY <1>1 DEF gvars
    <3> QED BY <3>1, NextInv DEF FramesInv
  <2>2. frames' = frames /\ mem' = mem BY <1>1 DEF gvars, vars
  <2>3. FramesKept' BY <2>2 DEF FramesInv, FramesKept
  <2> QED BY <2>1, <2>3 DEF FramesInv
<1>2. CASE GNext /\ TidyStep
  <2>1. Next BY <1>2 DEF GNext, GStep, GNmi, GIrq, GStart, Next
  <2>2. ProcInv' BY <2>1, NextInv DEF FramesInv
  <2>3. FramesKept' BY <1>2, GNextKeeps
  <2> QED BY <2>2, <2>3 DEF FramesInv
<1> QED BY <1>1, <1>2

(* For every program that is tidy with its frames, every interleaving of   *)
(* the lines and every depth: the status byte on the stack tells a handler *)
(* whether BRK or a line brought it there.                                 *)
THEOREM BrkCanBeTold == GSpec /\ TidyHandlers => []HandlerCanTellBrk
<1>1. FramesInv => HandlerCanTellBrk BY BrkTold DEF FramesInv
<1> QED BY <1>1, TidyInit, TidyNext, PTL DEF GSpec, TidyHandlers

(* For every such program, every RTI that ends a handler restores pc, the  *)
(* flags and sp of the context that was interrupted.                       *)
THEOREM HandlersReturn == GSpec /\ TidyHandlers => ReturnsToInterrupted
<1> DEFINE Restores == /\ regs'.pc = Head(frames).pc
                       /\ regs'.sr = Head(frames).sr
                       /\ regs'.sp = Head(frames).sp
<1>1. FramesInv /\ [GNext]_gvars /\ [TidyStep]_gvars => [Returning => Restores]_gvars
  BY TidyReturns
<1> QED BY <1>1, TidyInit, TidyNext, PTL DEF GSpec, TidyHandlers, ReturnsToInterrupted
=============================================================================
