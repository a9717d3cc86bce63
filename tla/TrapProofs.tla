------------------------------ MODULE TrapProofs ------------------------------
(***************************************************************************)
(* Traps: for every program that keeps nothing but the frames of traps on  *)
(* its stack, SVC and the return from a trap keep the promise of Traps,    *)
(* and no more than seven frames are ever on the stack.                    *)
(***************************************************************************)
EXTENDS CpuProofs, SequenceTheorems

-----------------------------------------------------------------------------
(* Words in memory. *)

LEMMA EvenBus ==
  ASSUME NEW m, NEW a \in Nat, a % 2 = 0
  PROVE  ReadBus(m, a, 0) = ByteAt(m, a) + 256 * ByteAt(m, a + 1)
<1>1. 2 * (a \div 2) = a
  BY SMT
<1> QED BY <1>1 DEF ReadBus

LEMMA BytesOfWord ==
  ASSUME NEW x \in Word16
  PROVE  LowByte(x) + 256 * HighByte(x) = x
BY SMT DEF LowByte, HighByte, Word16

(* What a word write leaves in each byte. *)
LEMMA WordWritten ==
  ASSUME NEW m, NEW a \in Nat, a % 2 = 0, NEW x \in Word16
  PROVE  /\ ByteAt(WriteBus(m, a, x, 0), a) = LowByte(x)
         /\ ByteAt(WriteBus(m, a, x, 0), a + 1) = HighByte(x)
         /\ \A b : b # a /\ b # a + 1 =>
                     ByteAt(WriteBus(m, a, x, 0), b) = ByteAt(m, b)
<1>1. 2 * (a \div 2) = a /\ (a + 1) % 2 = 1 /\ a + 1 # a /\ 0 # 1
  BY SMT
<1>2. WriteBus(m, a, x, 0) =
        [b \in DOMAIN m \cup {a, a + 1} |->
           IF b \notin {a, a + 1} THEN m[b]
           ELSE IF b % 2 = 1 THEN HighByte(x) ELSE LowByte(x)]
  BY <1>1, Zenon DEF WriteBus
<1> DEFINE w == WriteBus(m, a, x, 0)
<1>3. /\ DOMAIN w = DOMAIN m \cup {a, a + 1}
      /\ \A b \in DOMAIN w :
           w[b] = IF b \notin {a, a + 1} THEN m[b]
                  ELSE IF b % 2 = 1 THEN HighByte(x) ELSE LowByte(x)
  BY <1>2, Zenon
<1> HIDE DEF w
<1>4. w[a] = LowByte(x) /\ w[a + 1] = HighByte(x)
  BY <1>1, <1>3
<1>5. \A b : b # a /\ b # a + 1 => ByteAt(w, b) = ByteAt(m, b)
  BY <1>3, Zenon DEF ByteAt
<1>6. ByteAt(w, a) = LowByte(x) /\ ByteAt(w, a + 1) = HighByte(x)
  BY <1>3, <1>4, Zenon DEF ByteAt
<1> QED BY <1>5, <1>6 DEF w

(* A word read at an even address after a word write at another or the same. *)
LEMMA ReadAfterWrite ==
  ASSUME NEW m, NEW a \in Nat, a % 2 = 0, NEW x \in Word16
  PROVE  /\ ReadBus(WriteBus(m, a, x, 0), a, 0) = x
         /\ \A b \in Nat : b % 2 = 0 /\ b # a =>
              ReadBus(WriteBus(m, a, x, 0), b, 0) = ReadBus(m, b, 0)
<1> DEFINE w == WriteBus(m, a, x, 0)
<1>1. /\ ByteAt(w, a) = LowByte(x) /\ ByteAt(w, a + 1) = HighByte(x)
      /\ \A b : b # a /\ b # a + 1 => ByteAt(w, b) = ByteAt(m, b)
  BY WordWritten
<1> HIDE DEF w
<1>2. ReadBus(w, a, 0) = x
  BY <1>1, EvenBus, BytesOfWord
<1>3. ASSUME NEW b \in Nat, b % 2 = 0, b # a
      PROVE  ReadBus(w, b, 0) = ReadBus(m, b, 0)
  <2>1. b # a + 1 /\ b + 1 # a /\ b + 1 # a + 1
    BY <1>3, SMT
  <2>2. ByteAt(w, b) = ByteAt(m, b) /\ ByteAt(w, b + 1) = ByteAt(m, b + 1)
    BY <1>1, <1>3, <2>1
  <2>3. /\ ReadBus(w, b, 0) = ByteAt(w, b) + 256 * ByteAt(w, b + 1)
        /\ ReadBus(m, b, 0) = ByteAt(m, b) + 256 * ByteAt(m, b + 1)
    BY <1>3, EvenBus
  <2> QED BY <2>2, <2>3
<1> QED BY <1>2, <1>3 DEF w

(* The four words of a frame, pushed below sp. *)
LEMMA FourPushed ==
  ASSUME NEW m, NEW sp \in Nat, sp % 2 = 0, sp >= 8,
         NEW x1 \in Word16, NEW x2 \in Word16, NEW x3 \in Word16, NEW x4 \in Word16,
         NEW w, w = WriteBus(WriteBus(WriteBus(WriteBus(m,
                      sp - 2, x1, 0), sp - 4, x2, 0), sp - 6, x3, 0), sp - 8, x4, 0)
  PROVE  /\ ReadBus(w, sp - 2, 0) = x1 /\ ReadBus(w, sp - 4, 0) = x2
         /\ ReadBus(w, sp - 6, 0) = x3 /\ ReadBus(w, sp - 8, 0) = x4
         /\ \A b \in Nat : b >= sp => ByteAt(w, b) = ByteAt(m, b)
<1>1. PICK a1, a2, a3, a4 \in Nat :
        /\ a1 = sp - 2 /\ a2 = sp - 4 /\ a3 = sp - 6 /\ a4 = sp - 8
        /\ a1 % 2 = 0 /\ a2 % 2 = 0 /\ a3 % 2 = 0 /\ a4 % 2 = 0
  <2>1. /\ sp - 2 \in Nat /\ sp - 4 \in Nat /\ sp - 6 \in Nat /\ sp - 8 \in Nat
        /\ (sp - 2) % 2 = 0 /\ (sp - 4) % 2 = 0 /\ (sp - 6) % 2 = 0 /\ (sp - 8) % 2 = 0
    BY SMT
  <2> QED BY <2>1
<1>2. /\ a1 # a2 /\ a1 # a3 /\ a1 # a4 /\ a2 # a3 /\ a2 # a4 /\ a3 # a4
      /\ \A b \in Nat : b >= sp =>
           /\ b # a1 /\ b # a1 + 1 /\ b # a2 /\ b # a2 + 1
           /\ b # a3 /\ b # a3 + 1 /\ b # a4 /\ b # a4 + 1
  BY <1>1
<1> DEFINE w1 == WriteBus(m, a1, x1, 0)
           w2 == WriteBus(w1, a2, x2, 0)
           w3 == WriteBus(w2, a3, x3, 0)
           w4 == WriteBus(w3, a4, x4, 0)
<1>3. w = w4
  BY <1>1
<1>4. /\ ReadBus(w1, a1, 0) = x1
      /\ \A b : b # a1 /\ b # a1 + 1 => ByteAt(w1, b) = ByteAt(m, b)
  BY <1>1, ReadAfterWrite, WordWritten
<1> HIDE DEF w1
<1>5. /\ ReadBus(w2, a2, 0) = x2
      /\ \A b \in Nat : b % 2 = 0 /\ b # a2 => ReadBus(w2, b, 0) = ReadBus(w1, b, 0)
      /\ \A b : b # a2 /\ b # a2 + 1 => ByteAt(w2, b) = ByteAt(w1, b)
  BY <1>1, ReadAfterWrite, WordWritten
<1> HIDE DEF w2
<1>6. /\ ReadBus(w3, a3, 0) = x3
      /\ \A b \in Nat : b % 2 = 0 /\ b # a3 => ReadBus(w3, b, 0) = ReadBus(w2, b, 0)
      /\ \A b : b # a3 /\ b # a3 + 1 => ByteAt(w3, b) = ByteAt(w2, b)
  BY <1>1, ReadAfterWrite, WordWritten
<1> HIDE DEF w3
<1>7. /\ ReadBus(w4, a4, 0) = x4
      /\ \A b \in Nat : b % 2 = 0 /\ b # a4 => ReadBus(w4, b, 0) = ReadBus(w3, b, 0)
      /\ \A b : b # a4 /\ b # a4 + 1 => ByteAt(w4, b) = ByteAt(w3, b)
  BY <1>1, ReadAfterWrite, WordWritten
<1> HIDE DEF w4
<1>8. /\ ReadBus(w4, a1, 0) = x1 /\ ReadBus(w4, a2, 0) = x2
      /\ ReadBus(w4, a3, 0) = x3 /\ ReadBus(w4, a4, 0) = x4
  BY <1>1, <1>2, <1>4, <1>5, <1>6, <1>7
<1>9. \A b \in Nat : b >= sp => ByteAt(w4, b) = ByteAt(m, b)
  BY <1>2, <1>4, <1>5, <1>6, <1>7
<1> QED BY <1>1, <1>3, <1>8, <1>9

(* A PSW survives the union that makes it a word. *)
LEMMA PswRoundTrip == \A x \in Psw : PswOf(PswWord(x)) = x
<1> SUFFICES ASSUME NEW x \in Psw PROVE PswOf(PswWord(x)) = x
  OBVIOUS
<1> DEFINE c == x.c   z == x.z  n == x.n  s == x.slp  v == x.v
           k == x.current  f == x.faulting  r == x.reserved  p == x.previous
           w == PswWord(x)
<1>0. /\ c \in 0 .. 1 /\ z \in 0 .. 1 /\ n \in 0 .. 1 /\ s \in 0 .. 1
      /\ v \in 0 .. 1 /\ k \in 0 .. 7 /\ f \in 0 .. 1
      /\ r \in 0 .. 15 /\ p \in 0 .. 7
      /\ w = c + 2 * z + 4 * n + 8 * s + 16 * v + 32 * k + 256 * f + 512 * r + 8192 * p
  <2>1. /\ c \in 0 .. 1 /\ z \in 0 .. 1 /\ n \in 0 .. 1 /\ s \in 0 .. 1
        /\ v \in 0 .. 1 /\ k \in 0 .. 7 /\ f \in 0 .. 1
        /\ r \in 0 .. 15 /\ p \in 0 .. 7
    BY SMT DEF Psw
  <2> QED BY <2>1 DEF PswWord
<1> HIDE DEF c, z, n, s, v, k, f, r, p, w
<1>1. w \in Nat
  BY <1>0, SMT
<1>2. PICK h5 \in Nat : h5 = k + 8 * f + 16 * r + 256 * p
  BY <1>0, SMT
<1>3. PICK h8 \in Nat : h8 = f + 2 * r + 32 * p
  BY <1>0, SMT
<1>4. PICK h9 \in Nat : h9 = r + 16 * p
  BY <1>0, SMT
<1>5. PICK h1 \in Nat : h1 = z + 2 * n + 4 * s + 8 * v + 16 * h5
  BY <1>0, SMT
<1>6. w = c + 2 * h1
  BY <1>0, <1>2, <1>5, SMT
<1>7. w \div 2 = h1 /\ w % 2 = c
  BY <1>0, <1>6, SMT
<1>8. w \div 4 = n + 2 * s + 4 * v + 8 * h5
  BY <1>0, <1>5, <1>6, SMT
<1>9. w \div 8 = s + 2 * v + 4 * h5
  BY <1>0, <1>5, <1>6, SMT
<1>10. w \div 16 = v + 2 * h5
  BY <1>0, <1>5, <1>6, SMT
<1>11. w \div 32 = h5
  BY <1>0, <1>5, <1>6, SMT
<1>12. w \div 256 = h8
  BY <1>0, <1>2, <1>3, <1>5, <1>6, SMT
<1>13. w \div 512 = h9
  BY <1>0, <1>2, <1>4, <1>5, <1>6, SMT
<1>14. w \div 8192 = p
  BY <1>0, <1>2, <1>5, <1>6, SMT
<1>15. B(w, 0) = c /\ B(w, 1) = z /\ B(w, 2) = n /\ B(w, 3) = s /\ B(w, 4) = v
  <2>1. w \div 1 = w
    BY <1>0, <1>1, SMT
  <2>2. /\ h1 % 2 = z /\ (n + 2 * s + 4 * v + 8 * h5) % 2 = n
        /\ (s + 2 * v + 4 * h5) % 2 = s /\ (v + 2 * h5) % 2 = v
    BY <1>0, <1>5, SMT
  <2>3. 2^0 = 1 /\ 2^1 = 2 /\ 2^2 = 4 /\ 2^3 = 8 /\ 2^4 = 16
    BY <1>0, SMT
  <2> QED
    BY <1>0, <1>7, <1>8, <1>9, <1>10, <2>1, <2>2, <2>3 DEF B
<1>16. (w \div 32) % 8 = k /\ (w \div 512) % 16 = r /\ (w \div 8192) % 8 = p
  BY <1>0, <1>2, <1>4, <1>11, <1>13, <1>14, SMT
<1>17. B(w, 8) = f
  <2>1. 2^8 = 256 /\ h8 % 2 = f
    BY <1>0, <1>3, SMT
  <2> QED BY <1>0, <1>12, <2>1 DEF B
<1>18. PswOf(w) = [c |-> c, z |-> z, n |-> n, slp |-> s, v |-> v, current |-> k,
                   faulting |-> f, reserved |-> r, previous |-> p]
  BY <1>15, <1>16, <1>17 DEF PswOf
<1>19. x = [c |-> x.c, z |-> x.z, n |-> x.n, slp |-> x.slp, v |-> x.v,
            current |-> x.current, faulting |-> x.faulting,
            reserved |-> x.reserved, previous |-> x.previous]
  BY DEF Psw
<1> QED BY <1>18, <1>19 DEF c, z, n, s, v, k, f, r, p, w

-----------------------------------------------------------------------------
(* The frames on the stack. *)

Contexts == [cex : Word16, psw : Psw, lr : Word16, pc : Word16]

(* Frame and Frames of Cpu for n frames in memory m. *)
FrameOf(m, k) == [cex |-> ReadBus(m, \hFFC0 - 8 * k, 0),
                  psw |-> PswOf(ReadBus(m, \hFFC0 - 8 * k + 2, 0)),
                  lr  |-> ReadBus(m, \hFFC0 - 8 * k + 4, 0),
                  pc  |-> ReadBus(m, \hFFC0 - 8 * k + 6, 0)]

FramesOf(m, n) == [k \in 1 .. n |-> FrameOf(m, k)]

(* With n frames in memory m, SP is sp, the PSW p has no faulting bit, and
   neither has the PSW of a frame; the priorities ascend from frame to frame
   and to p.  The k-th frame is at least of priority k - 1: this is what
   bounds n.                                                               *)
Nested(m, sp, p, n) ==
  /\ sp = \hFFC0 - 8 * n
  /\ p.faulting = 0
  /\ n <= p.current
  /\ \A k \in 1 .. n : /\ FrameOf(m, k).psw.faulting = 0
                       /\ k - 1 <= FrameOf(m, k).psw.current
                       /\ FrameOf(m, k).psw.current < p.current
  /\ \A j, k \in 1 .. n :
       j < k => FrameOf(m, j).psw.current < FrameOf(m, k).psw.current

StackInv == \E n \in 0 .. 7 : Nested(memory, regfile[SP], word_psw, n)

LEMMA FrameAddresses ==
  ASSUME NEW n \in 0 .. 7, NEW k \in 1 .. n, NEW i \in {0, 2, 4, 6}
  PROVE  LET a == \hFFC0 - 8 * k + i
         IN  /\ a \in Nat /\ a \in Word16 /\ a % 2 = 0
             /\ a \in \hFFC0 - 8 * n .. \hFFBF
             /\ a + 1 \in \hFFC0 - 8 * n .. \hFFBF
BY SMT DEF Word16

LEMMA FrameIsFrameOf ==
  /\ \A k \in 1 .. 7 : Frame(k) = FrameOf(memory, k)
  /\ \A k \in 1 .. 7 : Frame(k)' = FrameOf(memory', k)
<1>1. ASSUME NEW k \in 1 .. 7 PROVE Frame(k) = FrameOf(memory, k)
  BY DEF Frame, FrameOf
<1>2. ASSUME NEW k \in 1 .. 7 PROVE Frame(k)' = FrameOf(memory', k)
  BY DEF Frame, FrameOf
<1> QED BY <1>1, <1>2

LEMMA FrameOfType ==
  ASSUME NEW m, IsMemory(m), NEW k \in 1 .. 7
  PROVE  FrameOf(m, k) \in Contexts
<1>1. /\ \hFFC0 - 8 * k \in Word16 /\ \hFFC0 - 8 * k + 2 \in Word16
      /\ \hFFC0 - 8 * k + 4 \in Word16 /\ \hFFC0 - 8 * k + 6 \in Word16
  BY SMT DEF Word16
<1>2. \A a \in Word16 : ReadBus(m, a, 0) \in Word16
  BY ReadType DEF Bit
<1> QED BY <1>1, <1>2, PswType DEF FrameOf, Contexts

(* A frame is what its bytes make it. *)
LEMMA FrameOfKept ==
  ASSUME NEW m, NEW w, NEW n \in 0 .. 7,
         \A a \in \hFFC0 - 8 * n .. \hFFBF : ByteAt(w, a) = ByteAt(m, a)
  PROVE  \A k \in 1 .. n : FrameOf(w, k) = FrameOf(m, k)
<1> SUFFICES ASSUME NEW k \in 1 .. n PROVE FrameOf(w, k) = FrameOf(m, k)
  OBVIOUS
<1>1. ASSUME NEW i \in {0, 2, 4, 6}
      PROVE  ReadBus(w, \hFFC0 - 8 * k + i, 0) = ReadBus(m, \hFFC0 - 8 * k + i, 0)
  <2> DEFINE a == \hFFC0 - 8 * k + i
  <2>1. /\ a \in Nat /\ a % 2 = 0
        /\ a \in \hFFC0 - 8 * n .. \hFFBF /\ a + 1 \in \hFFC0 - 8 * n .. \hFFBF
    BY FrameAddresses
  <2> HIDE DEF a
  <2>2. ReadBus(w, a, 0) = ReadBus(m, a, 0)
    BY <2>1, EvenBus
  <2> QED BY <2>2 DEF a
<1>2. \hFFC0 - 8 * k + 0 = \hFFC0 - 8 * k
  BY SMT
<1>3. ReadBus(w, \hFFC0 - 8 * k, 0) = ReadBus(m, \hFFC0 - 8 * k, 0)
  BY <1>1, <1>2
<1> QED BY <1>1, <1>3 DEF FrameOf

LEMMA FramesIsFramesOf ==
  /\ \A n \in 0 .. 7 : regfile[SP] = \hFFC0 - 8 * n => Frames = FramesOf(memory, n)
  /\ \A n \in 0 .. 7 : regfile'[SP] = \hFFC0 - 8 * n => Frames' = FramesOf(memory', n)
<1>1. ASSUME NEW n \in 0 .. 7
      PROVE  (\hFFC0 - (\hFFC0 - 8 * n)) \div 8 = n /\ 1 .. n \subseteq 1 .. 7
  BY SMT
<1>2. ASSUME NEW n \in 0 .. 7, regfile[SP] = \hFFC0 - 8 * n
      PROVE  Frames = FramesOf(memory, n)
  <2>1. Frames = [k \in 1 .. n |-> Frame(k)]
    BY <1>1, <1>2 DEF Frames
  <2>2. \A k \in 1 .. n : Frame(k) = FrameOf(memory, k)
    BY <1>1, FrameIsFrameOf
  <2> QED BY <2>1, <2>2 DEF FramesOf
<1>3. ASSUME NEW n \in 0 .. 7, regfile'[SP] = \hFFC0 - 8 * n
      PROVE  Frames' = FramesOf(memory', n)
  <2>1. Frames' = [k \in 1 .. n |-> Frame(k)']
    BY <1>1, <1>3 DEF Frames
  <2>2. \A k \in 1 .. n : Frame(k)' = FrameOf(memory', k)
    BY <1>1, FrameIsFrameOf
  <2> QED BY <2>1, <2>2 DEF FramesOf
<1> QED BY <1>2, <1>3

LEMMA FramesType ==
  ASSUME NEW m, IsMemory(m), NEW n \in 0 .. 7
  PROVE  /\ FramesOf(m, n) \in Seq(Contexts)
         /\ Len(FramesOf(m, n)) = n
         /\ \A k \in 1 .. n : FramesOf(m, n)[k] = FrameOf(m, k)
<1>1. n \in Nat /\ 1 .. n \subseteq 1 .. 7
  BY SMT
<1>2. FramesOf(m, n) \in [1 .. n -> Contexts]
  BY <1>1, FrameOfType DEF FramesOf
<1>3. FramesOf(m, n) \in Seq(Contexts)
  BY <1>1, <1>2, SeqDef
<1> QED BY <1>1, <1>2, <1>3, LenProperties DEF FramesOf

LEMMA ContextType ==
  /\ TypeOK => Context \in Contexts
  /\ TypeOK' => Context' \in Contexts
BY DEF TypeOK, Context, Contexts, Register, LR, PC

-----------------------------------------------------------------------------
(* Steps that leave the stack alone. *)

Quiet ==
  /\ regfile'[SP] = regfile[SP]
  /\ word_psw'.current = word_psw.current
  /\ word_psw'.faulting = word_psw.faulting
  /\ \A a \in regfile[SP] .. \hFFBF : ByteAt(memory', a) = ByteAt(memory, a)

(* There is a frame on the stack. *)
Framed == regfile[SP] < \hFFC0

StackKept ==
  /\ at = "menu" \/ (at = "execute" /\ Function # "SVC") => Quiet
  /\ at = "fetch" /\ Returning => Framed

LEMMA SilentFault ==
  ASSUME NEW p \in Psw, p.faulting = 0, Fault(p) \/ NoFault(p)
  PROVE  word_psw' = p
BY DEF Fault, NoFault, Psw

LEMMA OthersAreNotSVC ==
  ASSUME IInv, Arithmetic \/ Move \/ Load \/ Store \/ SETPRI \/ SETCC \/ CLRCC \/ CEX
  PROVE  at = "execute" /\ Function # "SVC"
<1>1. at = "execute"
  BY DEF Arithmetic, Move, Load, Store, SETPRI, SETCC, CLRCC, CEX, Executed
<1>2. CASE Arithmetic
  <2>1. table_index \in DOMAIN arithmetic_table /\ Function = arithmetic_table[table_index].name
    BY <1>2, SMT DEF IInv, IndexInTable, Arithmetic, Function, Table
  <2>2. \A i \in DOMAIN arithmetic_table : arithmetic_table[i].name # "SVC"
    BY SMT DEF arithmetic_table, ZeroBased, Entry
  <2> QED BY <1>1, <2>1, <2>2
<1>3. CASE Move \/ Load \/ Store \/ SETPRI \/ SETCC \/ CLRCC \/ CEX
  BY <1>1, <1>3 DEF Move, Load, Store, SETPRI, SETCC, CLRCC, CEX, OneRegister
<1> QED BY <1>2, <1>3

(* Every step but a trap and a return is quiet, if the program and the user
   are.                                                                    *)
LEMMA StepKinds ==
  ASSUME IInv, StackInv, [Next]_vars, [StackKept]_vars
  PROVE  \/ Quiet
         \/ SVC /\ Trap
         \/ fetch /\ Returning /\ Framed
<1>0. word_psw \in Psw /\ word_psw.faulting = 0 /\ regfile \in [Register -> Word16]
  BY DEF IInv, TypeOK, StackInv, Nested
<1>1. CASE UNCHANGED vars
  BY <1>1 DEF vars, Quiet
<1>2. CASE StackKept
  <2>1. CASE Dispatch \/ CexLoops \/ Count \/ Continue
    BY <2>1 DEF Dispatch, CexLoops, Count, Continue, Quiet
  <2>2. CASE fetch
    <3>1. CASE Returning
      BY <1>2, <2>2, <3>1 DEF StackKept, fetch
    <3>2. CASE ~Returning
      <4>1. /\ Fault(word_psw) \/ NoFault(word_psw)
            /\ regfile' = [regfile EXCEPT ![PC] = Plus(@, 2)]
            /\ UNCHANGED memory
        BY <2>2, <3>2 DEF fetch
      <4>2. word_psw' = word_psw
        BY <1>0, <4>1, SilentFault
      <4>3. regfile'[SP] = regfile[SP]
        BY <1>0, <4>1 DEF SP, PC, Register
      <4> QED BY <4>1, <4>2, <4>3 DEF Quiet
    <3> QED BY <3>1, <3>2
  <2>3. CASE decode
    <3>1. /\ Fault(word_psw) \/ NoFault(word_psw)
          /\ UNCHANGED <<memory, regfile>>
      BY <2>3 DEF decode
    <3>2. word_psw' = word_psw
      BY <1>0, <3>1, SilentFault
    <3> QED BY <3>1, <3>2 DEF Quiet
  <2>4. CASE execute /\ ~SVC
    <3>1. CASE Branch
      BY <1>0, <3>1 DEF Branch, Quiet, LR, SP, PC, Register
    <3>2. CASE ~Branch
      <4>1. at = "execute" /\ Function # "SVC"
        BY <2>4, <3>2, OthersAreNotSVC DEF execute
      <4> QED BY <1>2, <4>1 DEF StackKept
    <3> QED BY <3>1, <3>2
  <2>5. CASE SVC
    <3>1. CASE Trap
      BY <2>5, <3>1
    <3>2. CASE ~Trap
      <4>1. Fault(word_psw) /\ UNCHANGED <<memory, regfile>>
        BY <2>5, <3>2 DEF SVC
      <4>2. word_psw' = word_psw
        BY <1>0, <4>1, SilentFault
      <4> QED BY <4>1, <4>2 DEF Quiet
    <3> QED BY <3>1, <3>2
  <2>6. CASE Menu
    <3>1. at = "menu" \/ UNCHANGED <<memory, regfile, word_psw>>
      BY <2>6 DEF Menu, initialize_signal_handler, bind, run_xm, break_point, change_pc,
         change_registers, edit_psw_bits, machine
    <3> QED BY <1>2, <3>1 DEF StackKept, Quiet
  <2>7. CASE ctrl_c \/ sigint_hdlr
    BY <2>7 DEF ctrl_c, sigint_hdlr, machine, Quiet
  <2>8. CASE UNCHANGED vars
    BY <2>8 DEF vars, Quiet
  <2> QED
    BY <2>1, <2>2, <2>3, <2>4, <2>5, <2>6, <2>7, <2>8 DEF Next, cpu, execute
<1> QED BY <1>1, <1>2

-----------------------------------------------------------------------------
(* The three kinds of steps keep the invariant and the promise of Traps. *)

LEMMA QuietStep ==
  ASSUME TypeOK, TypeOK', StackInv, Quiet
  PROVE  StackInv' /\ Interrupted!Run
<1>1. PICK n \in 0 .. 7 : Nested(memory, regfile[SP], word_psw, n)
  BY DEF StackInv
<1>2. \A k \in 1 .. n : FrameOf(memory', k) = FrameOf(memory, k)
  BY <1>1, FrameOfKept DEF Quiet, Nested
<1>3. Nested(memory', regfile'[SP], word_psw', n)
  BY <1>1, <1>2 DEF Quiet, Nested
<1>4. UNCHANGED Frames
  <2>1. Frames = FramesOf(memory, n) /\ Frames' = FramesOf(memory', n)
    BY <1>1, <1>3, FramesIsFramesOf DEF Nested
  <2> QED BY <1>2, <2>1 DEF FramesOf
<1>5. Context' \in Contexts
  BY ContextType
<1> QED BY <1>3, <1>4, <1>5 DEF StackInv, Interrupted!Run, Contexts

(* The stack pointers around a trap and a return. *)
LEMMA StackPointers ==
  /\ \A n \in 0 .. 6 :
       /\ Plus(\hFFC0 - 8 * n, \h10000 - 8) = \hFFC0 - 8 * (n + 1)
       /\ \A k \in 1 .. 4 :
            Plus(\hFFC0 - 8 * n, \h10000 - 2 * k) = \hFFC0 - 8 * n - 2 * k
       /\ \hFFC0 - 8 * n \in Nat /\ (\hFFC0 - 8 * n) % 2 = 0
       /\ \hFFC0 - 8 * n >= 8
  /\ \A n \in 1 .. 7 :
       /\ Plus(\hFFC0 - 8 * n, 8) = \hFFC0 - 8 * (n - 1)
       /\ \A k \in 0 .. 3 : Plus(\hFFC0 - 8 * n, 2 * k) = \hFFC0 - 8 * n + 2 * k
BY SMT DEF Plus

LEMMA AppendFrame ==
  ASSUME NEW S, NEW n \in Nat, NEW s \in Seq(S), NEW t \in Seq(S), NEW e \in S,
         Len(s) = n, Len(t) = n + 1, \A k \in 1 .. n : t[k] = s[k], t[n + 1] = e
  PROVE  t = Append(s, e)
<1>1. /\ Append(s, e) \in Seq(S) /\ Len(Append(s, e)) = n + 1
      /\ \A k \in 1 .. n : Append(s, e)[k] = s[k]
      /\ Append(s, e)[n + 1] = e
  BY AppendProperties
<1>2. \A k \in 1 .. n + 1 : k \in 1 .. n \/ k = n + 1
  OBVIOUS
<1>3. \A k \in 1 .. n + 1 : t[k] = Append(s, e)[k]
  BY <1>1, <1>2
<1> QED BY <1>1, <1>3, SeqEqual

LEMMA DropFrame ==
  ASSUME NEW S, NEW n \in Nat \ {0}, NEW s \in Seq(S), NEW t \in Seq(S),
         Len(s) = n, Len(t) = n - 1, \A k \in 1 .. n - 1 : t[k] = s[k]
  PROVE  s # <<>> /\ t = SubSeq(s, 1, Len(s) - 1)
<1>1. s # <<>>
  BY EmptySeq
<1>2. \A k \in 1 .. n - 1 : s[k] \in S
  BY ElementOfSeq
<1>3. /\ SubSeq(s, 1, n - 1) \in Seq(S)
      /\ Len(SubSeq(s, 1, n - 1)) = n - 1
      /\ \A k \in 1 .. n - 1 : SubSeq(s, 1, n - 1)[k] = s[k]
  <2>1. /\ SubSeq(s, 1, n - 1) \in Seq(S)
        /\ Len(SubSeq(s, 1, n - 1)) = IF 1 <= n - 1 THEN n - 1 - 1 + 1 ELSE 0
        /\ \A k \in 1 .. n - 1 - 1 + 1 : SubSeq(s, 1, n - 1)[k] = s[1 + k - 1]
    BY <1>2, SubSeqProperties
  <2> QED BY <2>1
<1>4. t = SubSeq(s, 1, n - 1)
  BY <1>3, SeqEqual
<1> QED BY <1>1, <1>4

LEMMA FramesDrop ==
  ASSUME NEW m, IsMemory(m), NEW n \in 1 .. 7
  PROVE  /\ FramesOf(m, n) # <<>>
         /\ FramesOf(m, n - 1) = SubSeq(FramesOf(m, n), 1, Len(FramesOf(m, n)) - 1)
         /\ FramesOf(m, n)[Len(FramesOf(m, n))] = FrameOf(m, n)
<1>1. PICK l \in 0 .. 7 : l = n - 1
  BY SMT
<1>2. n \in 0 .. 7 /\ n \in Nat \ {0} /\ n \in 1 .. n /\ 1 .. l \subseteq 1 .. n
  BY <1>1, SMT
<1>3. /\ FramesOf(m, n) \in Seq(Contexts) /\ Len(FramesOf(m, n)) = n
      /\ \A k \in 1 .. n : FramesOf(m, n)[k] = FrameOf(m, k)
  <2>1. n \in 0 .. 7
    BY <1>2
  <2> QED BY <2>1, FramesType, Zenon
<1>4. /\ FramesOf(m, l) \in Seq(Contexts) /\ Len(FramesOf(m, l)) = l
      /\ \A k \in 1 .. l : FramesOf(m, l)[k] = FrameOf(m, k)
  <2>1. l \in 0 .. 7
    OBVIOUS
  <2> QED BY <2>1, FramesType, Zenon
<1>5. \A k \in 1 .. l : FramesOf(m, l)[k] = FramesOf(m, n)[k]
  BY <1>2, <1>3, <1>4, Zenon
<1>6. FramesOf(m, n)[Len(FramesOf(m, n))] = FrameOf(m, n)
  BY <1>2, <1>3, Zenon
<1> DEFINE s == FramesOf(m, n)   t == FramesOf(m, l)
<1>7. /\ s \in Seq(Contexts) /\ t \in Seq(Contexts)
      /\ Len(s) = n /\ Len(t) = n - 1 /\ \A k \in 1 .. n - 1 : t[k] = s[k]
  BY <1>1, <1>3, <1>4, <1>5, Zenon
<1> HIDE DEF s, t
<1>8. s # <<>> /\ t = SubSeq(s, 1, Len(s) - 1)
  BY <1>2, <1>7, DropFrame
<1> QED BY <1>1, <1>6, <1>8 DEF s, t

LEMMA TrapStep ==
  ASSUME IInv, TypeOK', StackInv, SVC, Trap
  PROVE  StackInv' /\ Interrupted!Enter
<1>1. PICK n \in 0 .. 7 : Nested(memory, regfile[SP], word_psw, n)
  BY DEF StackInv
<1>2. /\ word_psw \in Psw /\ VectorPsw \in Psw /\ IsMemory(memory) /\ IsMemory(memory')
      /\ CEX_state \in Word16 /\ regfile[LR] \in Word16 /\ regfile[PC] \in Word16
      /\ PswWord(word_psw) \in Word16 /\ regfile \in [Register -> Word16]
  BY VectorType, PswType DEF IInv, TypeOK, Register, LR, PC
<1>3. /\ word_psw'.faulting = 0 /\ word_psw'.current = VectorPsw.current
      /\ word_psw.current < word_psw'.current
      /\ word_psw.current \in 0 .. 7 /\ word_psw'.current \in 0 .. 7
  BY <1>2 DEF Trap, NoFault, Psw
<1>4. n \in 0 .. 6 /\ n + 1 \in 0 .. 7 /\ n + 1 <= word_psw'.current
  <2>1. n <= word_psw.current
    BY <1>1 DEF Nested
  <2> QED BY <1>3, <2>1
<1> DEFINE sp == \hFFC0 - 8 * n
<1>5. /\ regfile[SP] = sp /\ sp \in Nat /\ sp % 2 = 0 /\ sp >= 8
      /\ Plus(sp, \h10000 - 8) = \hFFC0 - 8 * (n + 1)
      /\ Plus(sp, \h10000 - 2 * 1) = sp - 2 * 1 /\ Plus(sp, \h10000 - 2 * 2) = sp - 2 * 2
      /\ Plus(sp, \h10000 - 2 * 3) = sp - 2 * 3 /\ Plus(sp, \h10000 - 2 * 4) = sp - 2 * 4
      /\ sp - 8 = \hFFC0 - 8 * (n + 1) /\ sp - 6 = \hFFC0 - 8 * (n + 1) + 2
      /\ sp - 4 = \hFFC0 - 8 * (n + 1) + 4 /\ sp - 2 = \hFFC0 - 8 * (n + 1) + 6
  <2>1. regfile[SP] = sp
    BY <1>1 DEF Nested
  <2>2. /\ sp - 8 = \hFFC0 - 8 * (n + 1) /\ sp - 6 = \hFFC0 - 8 * (n + 1) + 2
        /\ sp - 4 = \hFFC0 - 8 * (n + 1) + 4 /\ sp - 2 = \hFFC0 - 8 * (n + 1) + 6
    BY <1>4
  <2> QED BY <1>4, <2>1, <2>2, StackPointers
<1> HIDE DEF sp
<1>6. memory' = WriteBus(WriteBus(WriteBus(WriteBus(memory,
                  sp - 2, regfile[PC], 0), sp - 4, regfile[LR], 0),
                  sp - 6, PswWord(word_psw), 0), sp - 8, CEX_state, 0)
  <2>1. 2 * 1 = 2 /\ 2 * 2 = 4 /\ 2 * 3 = 6 /\ 2 * 4 = 8
    OBVIOUS
  <2>2. /\ BelowTop(1) = sp - 2 /\ BelowTop(2) = sp - 4
        /\ BelowTop(3) = sp - 6 /\ BelowTop(4) = sp - 8
    BY <1>5, <2>1 DEF BelowTop
  <2>3. memory' = Pushed(4, CEX_state,
                    Pushed(3, PswWord(word_psw),
                      Pushed(2, regfile[LR], Pushed(1, regfile[PC], memory))))
    BY DEF Trap
  <2> QED BY <2>2, <2>3 DEF Pushed
<1>7. /\ ReadBus(memory', sp - 2, 0) = regfile[PC]
      /\ ReadBus(memory', sp - 4, 0) = regfile[LR]
      /\ ReadBus(memory', sp - 6, 0) = PswWord(word_psw)
      /\ ReadBus(memory', sp - 8, 0) = CEX_state
      /\ \A b \in Nat : b >= sp => ByteAt(memory', b) = ByteAt(memory, b)
  BY <1>2, <1>5, <1>6, FourPushed
<1>8. FrameOf(memory', n + 1) = Context
  <2>1. PswOf(PswWord(word_psw)) = word_psw
    BY <1>2, PswRoundTrip
  <2> QED BY <1>5, <1>7, <2>1 DEF FrameOf, Context
<1>9. \A k \in 1 .. n : FrameOf(memory', k) = FrameOf(memory, k)
  <2>1. \A a \in \hFFC0 - 8 * n .. \hFFBF : ByteAt(memory', a) = ByteAt(memory, a)
    <3>1. \A a \in sp .. \hFFBF : a \in Nat /\ a >= sp
      BY <1>5
    <3> QED BY <1>7, <3>1 DEF sp
  <2> QED BY <2>1, FrameOfKept
<1>10. regfile'[SP] = \hFFC0 - 8 * (n + 1)
  BY <1>2, <1>5 DEF Trap, SP, LR, PC, Register
<1>11. Nested(memory', regfile'[SP], word_psw', n + 1)
  <2> DEFINE F(k) == FrameOf(memory', k).psw
  <2>1. F(n + 1) = word_psw
    BY <1>8 DEF Context
  <2>2. /\ word_psw.faulting = 0 /\ n <= word_psw.current
        /\ \A k \in 1 .. n : /\ F(k).faulting = 0 /\ k - 1 <= F(k).current
                             /\ F(k).current < word_psw.current
        /\ \A j, k \in 1 .. n : j < k => F(j).current < F(k).current
    BY <1>1, <1>9 DEF Nested
  <2>3. \A k \in 1 .. n : F(k).current \in 0 .. 7
    <3>1. \A k \in 1 .. n : k \in 1 .. 7
      OBVIOUS
    <3>2. \A k \in 1 .. n : F(k) \in Psw
      BY <1>2, <3>1, FrameOfType DEF Contexts
    <3> QED BY <3>2 DEF Psw
  <2> HIDE DEF F
  <2>4. \A k \in 1 .. n + 1 : k \in 1 .. n \/ k = n + 1
    OBVIOUS
  <2>5. \A k \in 1 .. n + 1 : /\ F(k).faulting = 0 /\ k - 1 <= F(k).current
                             /\ F(k).current < word_psw'.current
    <3> SUFFICES ASSUME NEW k \in 1 .. n + 1
                 PROVE  /\ F(k).faulting = 0 /\ k - 1 <= F(k).current
                        /\ F(k).current < word_psw'.current
      OBVIOUS
    <3>1. CASE k \in 1 .. n
      <4>1. /\ F(k).faulting = 0 /\ k - 1 <= F(k).current
            /\ F(k).current < word_psw.current /\ F(k).current \in 0 .. 7
        BY <2>2, <2>3, <3>1
      <4> QED BY <1>3, <4>1
    <3>2. CASE k = n + 1
      BY <1>3, <2>1, <2>2, <3>2
    <3> QED BY <2>4, <3>1, <3>2
  <2>6. \A j, k \in 1 .. n + 1 : j < k => F(j).current < F(k).current
    <3> SUFFICES ASSUME NEW j \in 1 .. n + 1, NEW k \in 1 .. n + 1, j < k
                 PROVE  F(j).current < F(k).current
      OBVIOUS
    <3>1. j \in 1 .. n
      OBVIOUS
    <3>2. CASE k \in 1 .. n
      BY <2>2, <3>1, <3>2
    <3>3. CASE k = n + 1
      BY <2>1, <2>2, <3>1, <3>3
    <3> QED BY <2>4, <3>2, <3>3
  <2> QED BY <1>3, <1>4, <1>10, <2>5, <2>6 DEF Nested, F
<1>12. Frames' = Append(Frames, Context)
  <2>1. Frames = FramesOf(memory, n) /\ Frames' = FramesOf(memory', n + 1)
    BY <1>4, <1>5, <1>10, FramesIsFramesOf DEF sp
  <2>2. /\ Frames \in Seq(Contexts) /\ Len(Frames) = n
        /\ \A k \in 1 .. n : Frames[k] = FrameOf(memory, k)
    BY <1>2, <2>1, FramesType
  <2>3. /\ Frames' \in Seq(Contexts) /\ Len(Frames') = n + 1
        /\ \A k \in 1 .. n + 1 : Frames'[k] = FrameOf(memory', k)
    BY <1>2, <1>4, <2>1, FramesType
  <2>4. Context \in Contexts
    BY ContextType DEF IInv
  <2>5. \A k \in 1 .. n : Frames'[k] = Frames[k]
    BY <1>9, <2>2, <2>3
  <2>6. Frames'[n + 1] = Context /\ n \in Nat
    BY <1>8, <2>3
  <2> QED BY <2>2, <2>3, <2>4, <2>5, <2>6, AppendFrame
<1>13. Context' \in Contexts /\ Context.psw.current < Context'.psw.current
  BY <1>3, ContextType DEF Context
<1> QED
  BY <1>4, <1>11, <1>12, <1>13 DEF StackInv, Interrupted!Enter, Contexts

LEMMA ReturnStep ==
  ASSUME IInv, TypeOK', StackInv, fetch, Returning, Framed
  PROVE  StackInv' /\ Interrupted!Return
<1>1. PICK n \in 0 .. 7 : Nested(memory, regfile[SP], word_psw, n)
  BY DEF StackInv
<1>2. /\ regfile[SP] = \hFFC0 - 8 * n /\ n \in 1 .. 7 /\ n - 1 \in 0 .. 7
      /\ n \in Nat \ {0}
  <2>1. regfile[SP] = \hFFC0 - 8 * n
    BY <1>1 DEF Nested
  <2> QED BY <2>1 DEF Framed
<1> DEFINE f == FrameOf(memory, n)
<1>3. /\ f \in Contexts /\ f.psw.faulting = 0 /\ n - 1 <= f.psw.current
      /\ IsMemory(memory) /\ IsMemory(memory') /\ regfile \in [Register -> Word16]
  <2>1. IsMemory(memory) /\ IsMemory(memory') /\ regfile \in [Register -> Word16]
    BY DEF IInv, TypeOK
  <2> QED BY <1>1, <1>2, <2>1, FrameOfType DEF Nested
<1>4. /\ Pulled(0) = f.cex /\ PswOf(Pulled(1)) = f.psw
      /\ Pulled(2) = f.lr /\ Pulled(3) = f.pc
  <2>1. /\ FromTop(0) = \hFFC0 - 8 * n /\ FromTop(1) = \hFFC0 - 8 * n + 2
        /\ FromTop(2) = \hFFC0 - 8 * n + 4 /\ FromTop(3) = \hFFC0 - 8 * n + 6
    BY <1>2, StackPointers DEF FromTop
  <2> QED BY <2>1 DEF Pulled, FrameOf
<1> HIDE DEF f
<1>5. LET regs == [regfile EXCEPT ![LR] = Pulled(2), ![PC] = Pulled(3),
                                  ![SP] = Plus(@, 8)]
          psw  == PswOf(Pulled(1))
      IN  /\ Fault(psw) \/ NoFault(psw)
          /\ regfile' = [regs EXCEPT ![PC] = Plus(@, 2)]
          /\ UNCHANGED memory /\ CEX_state' = Pulled(0)
  BY DEF fetch
<1>6. word_psw' = f.psw
  <2>1. PswOf(Pulled(1)) \in Psw /\ PswOf(Pulled(1)).faulting = 0
    BY <1>3, <1>4 DEF Contexts
  <2>2. word_psw' = PswOf(Pulled(1))
    BY <1>5, <2>1, SilentFault
  <2> QED BY <1>4, <2>2
<1>7. /\ regfile'[SP] = \hFFC0 - 8 * (n - 1)
      /\ regfile'[PC] = Plus(f.pc, 2) /\ regfile'[LR] = f.lr
  <2>1. Plus(regfile[SP], 8) = \hFFC0 - 8 * (n - 1)
    BY <1>2, StackPointers
  <2>2. /\ regfile'[SP] = Plus(regfile[SP], 8)
        /\ regfile'[PC] = Plus(Pulled(3), 2) /\ regfile'[LR] = Pulled(2)
    BY <1>3, <1>5 DEF SP, LR, PC, Register
  <2> QED BY <1>4, <2>1, <2>2
<1>8. Nested(memory', regfile'[SP], word_psw', n - 1)
  <2> DEFINE F(k) == FrameOf(memory, k).psw
  <2>1. /\ \A k \in 1 .. n : F(k).faulting = 0 /\ k - 1 <= F(k).current
        /\ \A j, k \in 1 .. n : j < k => F(j).current < F(k).current
        /\ F(n) = f.psw
    BY <1>1 DEF Nested, f
  <2> HIDE DEF F
  <2>2. n \in 1 .. n /\ \A k \in 1 .. n - 1 : k \in 1 .. n /\ k < n
    BY <1>2
  <2>3. \A k \in 1 .. n - 1 : /\ F(k).faulting = 0 /\ k - 1 <= F(k).current
                              /\ F(k).current < f.psw.current
    BY <2>1, <2>2
  <2>4. \A j, k \in 1 .. n - 1 : j < k => F(j).current < F(k).current
    BY <2>1, <2>2
  <2> QED BY <1>3, <1>5, <1>6, <1>7, <2>3, <2>4 DEF Nested, F
<1>9. /\ Frames # <<>> /\ Frames' = SubSeq(Frames, 1, Len(Frames) - 1)
      /\ Frames[Len(Frames)] = f
  <2>1. Frames = FramesOf(memory, n)
    BY <1>1, <1>2, FramesIsFramesOf
  <2>2. Frames' = FramesOf(memory', n - 1)
    BY <1>2, <1>7, FramesIsFramesOf
  <2>3. memory' = memory
    BY <1>5
  <2>4. n \in 1 .. 7 /\ IsMemory(memory)
    BY <1>2, <1>3
  <2>5. /\ FramesOf(memory, n) # <<>>
        /\ FramesOf(memory, n - 1)
             = SubSeq(FramesOf(memory, n), 1, Len(FramesOf(memory, n)) - 1)
        /\ FramesOf(memory, n)[Len(FramesOf(memory, n))] = FrameOf(memory, n)
    BY <2>4, FramesDrop, Zenon
  <2> QED BY <2>1, <2>2, <2>3, <2>5, Zenon DEF f
<1>10. Context' = [f EXCEPT !.pc = (@ + 2) % \h10000]
  BY <1>3, <1>4, <1>5, <1>6, <1>7 DEF Context, Contexts, Plus
<1> QED
  BY <1>2, <1>8, <1>9, <1>10 DEF StackInv, Interrupted!Return

-----------------------------------------------------------------------------
(* The empty stack of the start. *)
LEMMA StackInit == Init => StackInv /\ Interrupted!Init
<1> SUFFICES ASSUME Init PROVE StackInv /\ Interrupted!Init
  OBVIOUS
<1>1. /\ regfile[SP] = \hFFC0 /\ word_psw = PswOf(0)
  BY DEF Init, Register, SP, PC
<1>2. word_psw.faulting = 0 /\ word_psw.current = 0
  <2>1. B(0, 8) = 0 /\ (0 \div 32) % 8 = 0
    BY SMT DEF B
  <2> QED BY <1>1, <2>1 DEF PswOf
<1>3. \hFFC0 = \hFFC0 - 8 * 0 /\ 0 \in 0 .. 7
  BY SMT
<1>4. Nested(memory, regfile[SP], word_psw, 0)
  BY <1>1, <1>2, <1>3 DEF Nested
<1>5. Frames = <<>>
  <2>1. Frames = FramesOf(memory, 0)
    BY <1>1, <1>3, FramesIsFramesOf
  <2> QED BY <2>1 DEF FramesOf
<1>6. Context \in Contexts
  BY InitInv, ContextType DEF IInv
<1> QED
  BY <1>3, <1>4, <1>5, <1>6 DEF StackInv, Interrupted!Init, Contexts

LEMMA StackStep ==
  ASSUME IInv, StackInv, [Next]_vars, [StackKept]_vars
  PROVE  StackInv' /\ [Interrupted!Next]_<<Context, Frames>>
<1>1. TypeOK /\ TypeOK'
  BY InvIsInductive DEF IInv
<1> QED
  BY <1>1, StepKinds, QuietStep, TrapStep, ReturnStep DEF Interrupted!Next

LEMMA StackInvMeans ==
  ASSUME TypeOK, StackInv
  PROVE  PrioritiesAscend
<1>1. PICK n \in 0 .. 7 : Nested(memory, regfile[SP], word_psw, n)
  BY DEF StackInv
<1>2. Frames = FramesOf(memory, n)
  BY <1>1, FramesIsFramesOf DEF Nested
<1>3. DOMAIN Frames = 1 .. n /\ \A k \in 1 .. n : Frames[k] = FrameOf(memory, k)
  BY <1>2 DEF FramesOf
<1> QED BY <1>1, <1>3 DEF Nested, PrioritiesAscend

(* As long as program and user keep the stack, the frames on it ascend in
   priority, and end below that of the code that runs.                     *)
THEOREM FramesAscend == Spec /\ KeepsStack => []PrioritiesAscend
<1>1. IInv /\ StackInv /\ [Next]_vars /\ [StackKept]_vars => StackInv'
  BY StackStep
<1>2. IInv /\ StackInv => PrioritiesAscend
  BY StackInvMeans DEF IInv
<1>3. Init => StackInv
  BY StackInit
<1>4. KeepsStack <=> [][StackKept]_vars
  BY DEF KeepsStack, StackKept, Quiet, Framed
<1> QED
  BY InitInv, InvIsInductive, <1>1, <1>2, <1>3, <1>4, PTL DEF Spec

(* Every trap then sets aside the state of the code it interrupts, in memory
   nobody overwrites, and every return brings back the one set aside last. *)
THEOREM TrapsAreImplemented == Spec /\ KeepsStack => ImplementsTraps
<1>1. IInv /\ StackInv /\ [Next]_vars /\ [StackKept]_vars
        => StackInv' /\ [Interrupted!Next]_<<Context, Frames>>
  BY StackStep
<1>2. Init => StackInv /\ Interrupted!Init
  BY StackInit
<1>3. KeepsStack <=> [][StackKept]_vars
  BY DEF KeepsStack, StackKept, Quiet, Framed
<1> QED
  BY InitInv, InvIsInductive, <1>1, <1>2, <1>3, PTL
  DEF Spec, ImplementsTraps, Interrupted!Spec
=============================================================================
