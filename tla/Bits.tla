-------------------------------- MODULE Bits --------------------------------
(***************************************************************************)
(* The integer types of include/6502cc/emu_base.h (uint8, uint16) and the  *)
(* bit operations the instructions apply to them.  Everything is written   *)
(* with \div and % so that it can be evaluated and proved about alike.     *)
(***************************************************************************)
EXTENDS Integers

UINT8_MAX == 255
UINT16_MAX == 65535

Byte == 0..UINT8_MAX
Word == 0..UINT16_MAX

(* The low and the high byte of a uint16.                                  *)
Lo(w) == w % 256
Hi(w) == w \div 256
Join(lo, hi) == lo + 256 * hi

(* Assignment to a uint16 variable keeps the low sixteen bits, also of a   *)
(* negative int: 0 - 1 becomes 65535.                                      *)
Wrap16(n) == (n + 65536) % 65536
(* Assignment to a uint8 variable.                                         *)
Wrap8(n) == (n + 256) % 256

(* weight is a power of two: v & weight, as a truth value.                 *)
Has(v, weight) == (v \div weight) % 2 = 1

(* The byte whose bit of each weight is on exactly where on(weight) holds. *)
ByteWhere(on(_)) ==
  LET w(weight) == IF on(weight) THEN weight ELSE 0
  IN  w(1) + w(2) + w(4) + w(8) + w(16) + w(32) + w(64) + w(128)

And(u, v) == LET both(w) == Has(u, w) /\ Has(v, w) IN ByteWhere(both)
Or(u, v)  == LET any(w)  == Has(u, w) \/ Has(v, w) IN ByteWhere(any)
Xor(u, v) == LET one(w)  == Has(u, w) # Has(v, w)  IN ByteWhere(one)

(* A truth value as the bit it adds to a result: (cond ? n : 0).           *)
IfBit(cond, n) == IF cond THEN n ELSE 0
=============================================================================
