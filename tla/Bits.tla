-------------------------------- MODULE Bits --------------------------------
(***************************************************************************)
(* 16-bit words and the fields of them that the emulator extracts          *)
(* (bit_extract.h), with the bitwise operations of C.                      *)
(***************************************************************************)
EXTENDS Integers

Word16 == 0 .. 2^16 - 1

(* Arithmetic on unsigned short: every result is cut to 16 bits. *)
Plus(x, y) == (x + y) % \h10000

(* Bit k of x. *)
B(x, k) == (x \div 2^k) % 2

(* Mutant of B14_15: the shift of the neighbouring macro. *)
ShiftOf13(x) == x \div \h2000

(* The high bits of an instruction, from bit k up. *)
B14_15(x) == x \div \h4000
B13_15(x) == x \div \h2000
B12_15(x) == x \div \h1000
B11_15(x) == x \div \h0800
B10_15(x) == x \div \h0400
B8_15(x)  == x \div \h0100
B7_15(x)  == x \div \h0080
B6_15(x)  == x \div \h0040
B5_15(x)  == x \div \h0020
B4_15(x)  == x \div \h0010

(* Bits 3 to 15 with the word/byte bit (bit 6), or with the sleep and
   overflow bits (3 and 4), made zero.                                     *)
B3_15_mod(x)  == (x \div 8) - 8 * B(x, 6)
B3_15_mod2(x) == (x \div 8) - B(x, 3) - 2 * B(x, 4)

(* Mutant of B3_10: the mask is forgotten. *)
Unmasked(x) == x \div 8

(* Operand fields. *)
B8_11(x) == (x \div \h100) % 16
B6_9(x)  == (x \div \h40) % 16
B3_10(x) == (x \div 8) % 256
B3_5(x)  == (x \div 8) % 8
B0_2(x)  == x % 8

LowByte(x)  == x % 256
HighByte(x) == x \div 256

(* An n-bit field read as two's complement, in 16 bits. *)
SignExtend(x, n) == IF x < 2^(n - 1) THEN x ELSE x + \h10000 - 2^n

-----------------------------------------------------------------------------
(* The word whose bit k is f[k]. *)
Pack(f) ==
  f[0] + 2 * f[1] + 4 * f[2] + 8 * f[3]
    + 16 * f[4] + 32 * f[5] + 64 * f[6] + 128 * f[7]
    + 256 * f[8] + 512 * f[9] + 1024 * f[10] + 2048 * f[11]
    + 4096 * f[12] + 8192 * f[13] + 16384 * f[14] + 32768 * f[15]

(* The operators & | ^ ~ of C on 16-bit words. *)
BitAnd(x, y) == Pack([k \in 0 .. 15 |-> B(x, k) * B(y, k)])
BitOr(x, y)  == Pack([k \in 0 .. 15 |-> IF B(x, k) + B(y, k) = 0 THEN 0 ELSE 1])
BitXor(x, y) == Pack([k \in 0 .. 15 |-> (B(x, k) + B(y, k)) % 2])
BitNot(x)    == \hFFFF - x
=============================================================================
