------------------------------- MODULE Memory -------------------------------
(***************************************************************************)
(* The primary memory of the XM-23 (the union MEMORY of Emulator.h) and    *)
(* the bus that reads and writes it (bus() in Memory.c).                   *)
(*                                                                         *)
(* The union overlays 2^16 bytes and 2^15 words; the model keeps the bytes *)
(* and computes the words, low byte first as on the x86 build.  A byte is  *)
(* an element of Byte, and a word the pair of its bytes: the cache and the *)
(* bus only copy values, they never compute with them.                     *)
(***************************************************************************)
EXTENDS Naturals

CONSTANTS
  Words,    \* number of words of primary memory (1<<15 in the code)
  Byte,     \* the values of a byte
  Zero      \* the byte 0x00

ASSUME MemoryAssumption == Words \in Nat \ {0} /\ Zero \in Byte

WordIndex == 0 .. Words - 1
Address   == 0 .. 2 * Words - 1
Word      == [lo : Byte, hi : Byte]
Width     == {"word", "byte"}

(* wordmem[w] of the union: the word made of bytes 2w and 2w+1. *)
WordAt(m, w) == [lo |-> m[2 * w], hi |-> m[2 * w + 1]]

(* The value bus() delivers for a read.  A word access ignores bit 0 of the
   address (MAR >> 1); a byte is zero-extended into the 16-bit register.   *)
BusRead(m, a, wb) ==
  IF wb = "word" THEN WordAt(m, a \div 2) ELSE [lo |-> m[a], hi |-> Zero]

(* The memory bus() leaves after a write: both bytes of the word that holds
   the address, or the one byte addressed, which gets the low byte of d.   *)
BusWrite(m, a, d, wb) ==
  [b \in DOMAIN m |->
     CASE wb = "word" /\ b = 2 * (a \div 2)     -> d.lo
       [] wb = "word" /\ b = 2 * (a \div 2) + 1 -> d.hi
       [] wb = "byte" /\ b = a                  -> d.lo
       [] OTHER                                 -> m[b]]
=============================================================================
