------------------------------- MODULE Memory -------------------------------
(***************************************************************************)
(* Memory (Memory.cpp) behind the default Bus (emu_bus.cpp), and the stack *)
(* in page one.                                                            *)
(*                                                                         *)
(* An instruction is executed on a record m: the registers m.r, the bytes  *)
(* m.mem, the bus accesses made so far m.log, the params object m.p of     *)
(* parameters.h, and m.v, the value the last read returned.  The block of  *)
(* bytes is kept sparse: a byte nobody stored is the zero Memory's         *)
(* constructor put there.                                                  *)
(***************************************************************************)
EXTENDS Alu, Sequences

CONSTANT MemSize    \* Memory::_size in bytes: pages * 256

ASSUME MemSizeAssumption == MemSize \in Nat \ {0} /\ MemSize <= 65536 /\ MemSize % 256 = 0

MemType(mem) == DOMAIN mem \subseteq 0..(MemSize - 1) /\ mem \in [DOMAIN mem -> Byte]

(* The block mirrors: an address beyond it wraps.                          *)
checkAddress(ad) == IF ad < MemSize THEN ad ELSE ad % MemSize

Peek(mem, ad) ==
  LET cell == checkAddress(ad) IN IF cell \in DOMAIN mem THEN mem[cell] ELSE 0

Poke(mem, ad, val) ==
  LET cell == checkAddress(ad)
  IN  [k \in DOMAIN mem \cup {cell} |-> IF k = cell THEN val ELSE mem[k]]

(* The overload of Memory::write that copies length bytes, src[0] first;    *)
(* what does not fit behind offsetDest is dropped, it does not wrap.       *)
writeBlock(mem, src, length, offsetDest) ==
  LET last   == IF length > MemSize - offsetDest THEN MemSize - 1 ELSE offsetDest + length - 1
      copied == offsetDest .. last
  IN  [k \in DOMAIN mem \cup copied |->
         IF k \in copied THEN src[k - offsetDest] ELSE mem[k]]

Access(kind, ad, val) == [kind |-> kind, ad |-> ad, val |-> val]

(* Bus::read and Bus::write with a memory connected.  The address          *)
(* parameter is a uint16.                                                  *)
Returned(m, ad, val) ==
  [m EXCEPT !.v = val, !.log = Append(@, Access("R", ad, val))]
read(m, ad) == Returned(m, Wrap16(ad), Peek(m.mem, Wrap16(ad)))

write(m, ad, val) ==
  [m EXCEPT !.mem = Poke(@, Wrap16(ad), val),
            !.log = Append(@, Access("W", Wrap16(ad), val))]

(* bus->read(lo) | (bus->read(hi) << 8).  C++ leaves the order of the two  *)
(* reads open; no property of the project looks at it.                     *)
read16(m, lo, hi) ==
  LET first == read(m, lo) IN [read(first, hi) EXCEPT !.v = Join(first.v, @)]

-----------------------------------------------------------------------------
push8NoWrap(m, val) == [write(m, 256 + m.r.sp, val) EXCEPT !.r.sp = @ - 1]
push8(m, val) == [write(m, 256 + m.r.sp, val) EXCEPT !.r.sp = Wrap8(@ - 1)]

push16LowFirst(m, val) == push8(push8(m, Lo(val)), Hi(val))
push16(m, val) == push8(push8(m, Hi(val)), Lo(val))

pop8(m) ==
  LET sp == Wrap8(m.r.sp + 1) IN read([m EXCEPT !.r.sp = sp], 256 + sp)

pop16(m) ==
  LET low == pop8(m) IN [pop8(low) EXCEPT !.v = Join(low.v, @)]
=============================================================================
