----------------------------- MODULE ByteMemory -----------------------------
(***************************************************************************)
(* Primary memory and bus() (Memory.c) for the parts of the emulator that  *)
(* compute with the values they read: a byte is a number, and memory the   *)
(* function of the bytes that have been loaded or written.  Every other    *)
(* byte is 0, as in the zeroed union MEMORY of the program.                *)
(***************************************************************************)
EXTENDS Bits

IsMemory(m) == /\ DOMAIN m \subseteq Word16
               /\ \A a \in DOMAIN m : m[a] \in 0 .. 255

(* bus(): a word access ignores bit 0 of the address, a byte is
   zero-extended when read and its high part dropped when written.         *)
ByteAt(m, a) == IF a \in DOMAIN m THEN m[a] ELSE 0

ReadBus(m, a, wb) ==
  IF wb = 1 THEN ByteAt(m, a)
  ELSE ByteAt(m, 2 * (a \div 2)) + 256 * ByteAt(m, 2 * (a \div 2) + 1)

WriteBus(m, a, x, wb) ==
  LET written == IF wb = 1 THEN {a} ELSE {2 * (a \div 2), 2 * (a \div 2) + 1}
  IN  [b \in DOMAIN m \cup written |->
         IF b \notin written THEN m[b]
         ELSE IF wb = 0 /\ b % 2 = 1 THEN HighByte(x) ELSE LowByte(x)]
=============================================================================
