---------------------------- MODULE LoaderProofs ----------------------------
(***************************************************************************)
(* The loader for every set of files whose digits are well formed,         *)
(* whatever its records say of themselves.  No count, type or missing      *)
(* digit moves the scan, the checksum or the address out of its range      *)
(* before the scan leaves the line buffer; every complete record has its   *)
(* own effect and verdict; and loading ends.                               *)
(***************************************************************************)
EXTENDS Loader, WellFoundedInduction, TLAPS

(* What is left of the file is lines whose pairs of digits are bytes. *)
Lined == file \in Seq(Line)

IInv == TypeOK /\ Lined

-----------------------------------------------------------------------------
(* Arithmetic of the C types. *)

LEMMA AddType == ASSUME NEW c \in Nat, NEW x \in Nat PROVE (c + x) % 256 \in Byte
BY SMT DEF Byte

LEMMA SumType ==
  ASSUME NEW c \in Byte, NEW h \in Byte, NEW l \in Byte
  PROVE  c \in Nat /\ (c + h + l) \in Nat
BY SMT DEF Byte

LEMMA PlusType == ASSUME NEW x \in Int, NEW y \in Int PROVE Plus(x, y) \in Word16
BY SMT DEF Plus, Word16

LEMMA AddressType ==
  ASSUME NEW h \in Byte, NEW l \in Byte PROVE 256 * h + l \in Word16
BY SMT DEF Byte, Word16

(* A byte written to memory leaves memory a function of bytes. *)
LEMMA ByteWritten ==
  ASSUME NEW m, IsMemory(m), NEW a \in Word16, NEW x \in Byte
  PROVE  IsMemory(WriteBus(m, a, x, 1))
<1>1. LowByte(x) \in 0 .. 255
  BY SMT DEF LowByte, Byte
<1>2. WriteBus(m, a, x, 1) =
        [b \in DOMAIN m \cup {a} |-> IF b \notin {a} THEN m[b] ELSE LowByte(x)]
  BY DEF WriteBus
<1>3. DOMAIN m \cup {a} \subseteq Word16 /\ \A b \in DOMAIN m : m[b] \in 0 .. 255
  BY DEF IsMemory
<1> QED
  BY <1>1, <1>2, <1>3 DEF IsMemory

-----------------------------------------------------------------------------
(* What sscanf() leaves in a variable is a byte, whether or not it found
   digits.                                                                 *)

LEMMA ScanType ==
  ASSUME TypeOK, NEW k \in 0 .. Slots, NEW old \in Byte
  PROVE  Scan(k, old) \in Byte
BY DEF TypeOK, Scan

LEMMA ScanHeaderType ==
  ASSUME TypeOK, NEW k \in 1 .. 3, NEW old \in Byte
  PROVE  ScanHeader(k, old) \in Byte
<1>1. k \in 1 .. k /\ k \in 0 .. Slots
  BY LoaderAssumption, SMT
<1>2. inrec[k] \in Byte \cup {End}
  BY <1>1 DEF TypeOK
<1> QED
  BY <1>1, <1>2 DEF ScanHeader

(* What is left of a count is an unsigned int, and a byte if it did not wrap. *)
LEMMA LessTwoType ==
  ASSUME NEW n \in Byte
  PROVE  /\ LessTwo(n) \in 0 .. Unsigned - 1
         /\ n >= 2 => LessTwo(n) = n - 2
BY LoaderAssumption, SMT DEF LessTwo, Byte

-----------------------------------------------------------------------------
LEMMA InitIInv == Init => IInv
<1> SUFFICES ASSUME Init PROVE IInv
  OBVIOUS
<1>1. 0 \in Byte /\ 0 \in Word16 /\ 0 \in 0 .. Slots + 1 /\ 0 \in 0 .. Unsigned - 1
  BY LoaderAssumption, SMT DEF Byte, Word16
<1>2. IsMemory(<<>>)
  <2>1. DOMAIN <<>> = {}
    BY SMT
  <2> QED BY <2>1 DEF IsMemory
<1>3. <<>> \in Seq(Line)
  OBVIOUS
<1>4. /\ DOMAIN inrec = 0 .. Slots
      /\ \A k \in 0 .. Slots : inrec[k] \in Byte \cup {End}
  BY DEF Init
<1> QED
  BY <1>1, <1>2, <1>3, <1>4 DEF Init, IInv, TypeOK, Lined

LEMMA NextIInv == IInv /\ [Next]_vars => IInv'
<1> SUFFICES ASSUME IInv, [Next]_vars PROVE IInv'
  OBVIOUS
<1>0. TypeOK /\ Lined
  BY DEF IInv
<1>1. CASE load_file
  <2>1. file' \in Seq(Line)
    BY <1>0, <1>1, LoaderAssumption DEF load_file, Lined
  <2> QED
    BY <1>0, <1>1, <2>1 DEF load_file, IInv, TypeOK, Lined, scanned, loaded
<1>2. CASE fgets
  <2>1. CASE file = <<>>
    BY <1>0, <1>2, <2>1 DEF fgets, IInv, TypeOK, Lined, scanned, loaded
  <2>2. CASE file # <<>>
    <3>1. line' = Head(file) /\ file' = Tail(file) /\ inrec' = Overwritten(line')
      BY <1>2, <2>2 DEF fgets, Rest
    <3>2. line' \in Line /\ file' \in Seq(Line)
      BY <1>0, <2>2, <3>1 DEF Lined
    <3>3. line'.pairs \in Seq(Byte)
      BY <3>2 DEF Line
    <3>4. \A k \in DOMAIN line'.pairs : line'.pairs[k] \in Byte
      BY <3>3
    <3>5. /\ DOMAIN inrec' = 0 .. Slots
          /\ \A k \in 0 .. Slots : inrec'[k] \in Byte \cup {End}
      BY <1>0, <3>1, <3>4 DEF Overwritten, TypeOK
    <3>6. at' \in {"fgets", "header", "last_byte"}
      BY <1>2, <2>2 DEF fgets
    <3> QED
      BY <1>0, <1>2, <3>2, <3>5, <3>6 DEF fgets, IInv, TypeOK, Lined, scanned, loaded
  <2> QED
    BY <2>1, <2>2
<1>3. CASE header
  <2> DEFINE count == ScanHeader(1, len)
  <2>1. count \in Byte /\ ah' \in Byte /\ al' \in Byte
    <3>1. 1 \in 1 .. 3 /\ 2 \in 1 .. 3 /\ 3 \in 1 .. 3
      BY SMT
    <3>2. len \in Byte
      BY <1>0, <1>3 DEF header, TypeOK
    <3> QED
      BY <1>0, <1>3, <3>1, <3>2, ScanHeaderType DEF header, TypeOK
  <2> HIDE DEF count
  <2>2. address' \in Word16
    BY <1>3, <2>1, AddressType DEF header
  <2>3. nibble' \in 0 .. Slots + 1
    BY <1>3, LoaderAssumption, SMT DEF header, pos_data
  <2>4. checksum' \in Byte
    <3>1. checksum' = (checksum + (count + ah' + al')) % 256
      BY <1>3 DEF header, Add, count
    <3>2. checksum \in Nat /\ (count + ah' + al') \in Nat
      <4>1. checksum \in Byte
        BY <1>0 DEF TypeOK
      <4> QED
        BY <2>1, <4>1, SumType
    <3> QED
      BY <3>1, <3>2, AddType
  <2>5. len' \in 0 .. Unsigned - 1 /\ (at' # "data" => len' \in Byte)
    <3>1. (len' = count /\ at' = "last_byte") \/ (len' = LessTwo(count) /\ at' = "data")
      BY <1>3 DEF header, count
    <3>2. \A x \in Byte : x \in 0 .. Unsigned - 1
      BY LoaderAssumption, SMT DEF Byte
    <3> QED
      BY <2>1, <3>1, <3>2, LessTwoType
  <2>6. PC' \in Word16
    BY <1>0, <1>3, <2>2 DEF header, TypeOK
  <2>7. at' \in {"last_byte", "data"}
    BY <1>3 DEF header
  <2> QED
    BY <1>0, <1>3, <2>1, <2>2, <2>3, <2>4, <2>5, <2>6, <2>7
    DEF header, IInv, TypeOK, Lined
<1>4. CASE data
  <2>1. CASE ~MoreData \/ nibble > Slots
    <3>1. /\ UNCHANGED <<len, data_b, address, nibble, checksum, memory>>
          /\ at' \in {"last_byte", "undefined"}
          /\ at' = "last_byte" => len \in Byte
      <4>1. MoreData /\ nibble > Slots => ~(nibble <= Slots)
        BY <1>0, LoaderAssumption, SMT DEF TypeOK
      <4>2. ~MoreData => len \in Byte
        BY <1>0, LoaderAssumption, SMT DEF TypeOK, MoreData, Byte
      <4> QED
        BY <1>4, <2>1, <4>1, <4>2 DEF data
    <3> QED
      BY <1>0, <1>4, <3>1 DEF data, IInv, TypeOK, Lined
  <2>2. CASE MoreData /\ nibble <= Slots
    <3>1. /\ data_b' = Scan(nibble, data_b)
          /\ IF line.type = "1"
             THEN /\ memory' = WriteBus(memory, address, data_b', 1)
                  /\ address' = Plus(address, 1)
             ELSE UNCHANGED <<memory, address>>
          /\ len' = len - 1 /\ nibble' = nibble + 1
          /\ checksum' = Add(data_b') /\ at' = at
      <4>1. ~(nibble > Slots)
        BY <1>0, <2>2, LoaderAssumption, SMT DEF TypeOK
      <4> QED
        BY <1>4, <2>2, <4>1 DEF data
    <3>2. nibble \in 0 .. Slots /\ nibble' \in 0 .. Slots + 1
      BY <1>0, <2>2, <3>1, LoaderAssumption, SMT DEF TypeOK
    <3>3. data_b' \in Byte
      BY <1>0, <3>1, <3>2, ScanType DEF TypeOK
    <3>4. len' \in 0 .. Unsigned - 1 /\ at' = "data"
      <4>1. len \in 0 .. Unsigned - 1
        BY <1>0 DEF TypeOK
      <4> QED
        BY <1>4, <2>2, <3>1, <4>1, LoaderAssumption, SMT DEF data, MoreData
    <3>5. checksum' \in Byte
      <4>1. checksum \in Nat /\ data_b' \in Nat
        BY <1>0, <3>3, SMT DEF TypeOK, Byte
      <4> QED
        BY <3>1, <4>1, AddType DEF Add
    <3>6. address' \in Word16
      <4>1. address \in Int
        BY <1>0, SMT DEF TypeOK, Word16
      <4> QED
        BY <1>0, <3>1, <4>1, PlusType DEF TypeOK
    <3>7. IsMemory(memory')
      BY <1>0, <3>1, <3>3, ByteWritten DEF TypeOK
    <3>8. IsMemory(memory)'
      BY <3>7 DEF IsMemory
    <3> QED
      BY <1>0, <1>4, <3>1, <3>2, <3>3, <3>4, <3>5, <3>6, <3>8
      DEF data, IInv, TypeOK, Lined
  <2> QED
    <3>1. nibble <= Slots \/ nibble > Slots
      BY <1>0, LoaderAssumption, SMT DEF TypeOK
    <3> QED
      BY <2>1, <2>2, <3>1
<1>5. CASE check
  <2>1. CASE nibble <= Slots
    <3>0. ~(nibble > Slots) /\ nibble \in 0 .. Slots
      BY <1>0, <2>1, LoaderAssumption, SMT DEF TypeOK
    <3>1. /\ last_byte' = Scan(nibble, last_byte)
          /\ report' \in {"valid", "invalid"}
          /\ checksum' = 0 /\ at' = "fgets"
      BY <1>5, <3>0 DEF check
    <3>2. last_byte' \in Byte
      BY <1>0, <3>0, <3>1, ScanType DEF TypeOK
    <3>3. checksum' \in Byte
      BY <3>1, SMT DEF Byte
    <3> QED
      BY <1>0, <1>5, <3>1, <3>2, <3>3 DEF check, IInv, TypeOK, Lined, loaded
  <2>2. CASE nibble > Slots
    <3>1. ~(nibble <= Slots)
      BY <1>0, <2>2, LoaderAssumption, SMT DEF TypeOK
    <3> QED
      BY <1>0, <1>5, <3>1 DEF check, IInv, TypeOK, Lined, loaded
  <2> QED
    BY <1>5, <2>1, <2>2 DEF check
<1>6. CASE UNCHANGED vars
  BY <1>0, <1>6 DEF vars, scanned, loaded, IInv, TypeOK, Lined
<1> QED
  BY <1>1, <1>2, <1>3, <1>4, <1>5, <1>6 DEF Next

(* For every set of files: the scan never leaves the line buffer unnoticed,
   the checksum and the address keep their width, and memory receives bytes
   only, whatever counts, types and digits the records carry.              *)
THEOREM TypeCorrect == Spec => []TypeOK
<1>1. IInv => TypeOK
  BY DEF IInv
<1> QED
  BY InitIInv, NextIInv, <1>1, PTL DEF Spec

-----------------------------------------------------------------------------
(* Induction over the natural numbers, for a set of them. *)
LEMMA SetInduction ==
  ASSUME NEW S \in SUBSET Nat, 0 \in S, \A n \in Nat : n \in S => n + 1 \in S
  PROVE  S = Nat
<1> SUFFICES ASSUME Nat \ S # {} PROVE FALSE
  OBVIOUS
<1> DEFINE R == OpToRel(<, Nat)
           T == Nat \ S
<1>1. IsWellFoundedOn(R, Nat)
  BY NatLessThanWellFounded, Zenon
<1>2. R = {ss \in Nat \X Nat : ss[1] < ss[2]}
  BY DEF OpToRel
<1>3. \A x, y \in Nat : y < x => <<y, x>> \in R
  BY <1>2
<1> HIDE DEF R
<1>4. PICK x \in T : \A y \in T : ~ (<<y, x>> \in R)
  BY <1>1, WFMin, Zenon
<1>5. x # 0 /\ x - 1 \in Nat /\ x - 1 < x /\ x - 1 + 1 = x
  BY <1>4
<1>6. x - 1 \notin T
  BY <1>3, <1>4, <1>5
<1> QED BY <1>4, <1>5, <1>6

(* f holds the sums of the first k elements of p, up to the n-th. *)
Sums(f, p, n) == f = [k \in 0 .. n |-> IF k = 0 THEN 0 ELSE f[k - 1] + p[k]]

LEMMA SumsExist == ASSUME NEW p, NEW n \in Nat PROVE \E f : Sums(f, p, n)
<1> DEFINE S == {m \in Nat : \E f : Sums(f, p, m)}
<1>1. 0 \in S
  <2> DEFINE f == [k \in 0 .. 0 |-> 0]
  <2>1. Sums(f, p, 0)
    BY DEF Sums
  <2> HIDE DEF f
  <2> QED BY <2>1
<1>2. ASSUME NEW m \in Nat, m \in S PROVE m + 1 \in S
  <2>1. PICK f : Sums(f, p, m)
    BY <1>2
  <2> DEFINE g == [k \in 0 .. m + 1 |-> IF k = m + 1 THEN f[m] + p[m + 1] ELSE f[k]]
  <2>2. ASSUME NEW k \in 0 .. m + 1
        PROVE  g[k] = IF k = 0 THEN 0 ELSE g[k - 1] + p[k]
    <3>1. CASE k = m + 1
      <4>1. g[k - 1] = f[m] /\ k # 0
        BY <3>1
      <4> QED BY <3>1, <4>1
    <3>2. CASE k # m + 1
      <4>1. k \in 0 .. m /\ (k # 0 => k - 1 \in 0 .. m + 1 /\ k - 1 # m + 1)
        BY <3>2
      <4>2. f[k] = IF k = 0 THEN 0 ELSE f[k - 1] + p[k]
        BY <2>1, <4>1 DEF Sums
      <4> QED BY <3>2, <4>1, <4>2
    <3> QED BY <3>1, <3>2
  <2>3. g = [k \in 0 .. m + 1 |-> g[k]]
    OBVIOUS
  <2> HIDE DEF g
  <2>4. Sums(g, p, m + 1)
    BY <2>2, <2>3 DEF Sums
  <2> QED BY <2>4
<1> HIDE DEF S
<1>3. S = Nat
  <2>1. S \in SUBSET Nat
    BY DEF S
  <2> QED BY <1>1, <1>2, <2>1, SetInduction
<1> QED BY <1>3 DEF S

(* The running total of a record is the function its definition describes. *)
LEMMA TotalSums ==
  ASSUME NEW l \in Line
  PROVE  Sums(Record!Total(l), l.pairs, Len(l.pairs))
<1>1. Len(l.pairs) \in Nat
  BY DEF Line
<1>2. \E f : Sums(f, l.pairs, Len(l.pairs))
  BY <1>1, SumsExist
<1>3. Record!Total(l) = CHOOSE f : Sums(f, l.pairs, Len(l.pairs))
  BY DEF Record!Total, Sums
<1> QED BY <1>2, <1>3

LEMMA TotalSteps ==
  ASSUME NEW l \in Line
  PROVE  /\ Record!Total(l)[0] = 0
         /\ \A n \in 1 .. Len(l.pairs) :
              Record!Total(l)[n] = Record!Total(l)[n - 1] + l.pairs[n]
<1> DEFINE t == Record!Total(l)
           N == Len(l.pairs)
<1>1. N \in Nat
  BY DEF Line
<1>2. t = [k \in 0 .. N |-> IF k = 0 THEN 0 ELSE t[k - 1] + l.pairs[k]]
  BY TotalSums DEF Sums
<1> HIDE DEF t, N
<1>3. t[0] = 0
  BY <1>1, <1>2
<1>4. ASSUME NEW n \in 1 .. N PROVE t[n] = t[n - 1] + l.pairs[n]
  BY <1>1, <1>2
<1> QED BY <1>3, <1>4 DEF t, N

LEMMA TotalType ==
  ASSUME NEW l \in Line
  PROVE  \A n \in 0 .. Len(l.pairs) : Record!Total(l)[n] \in Nat
<1> DEFINE t == Record!Total(l)
           N == Len(l.pairs)
           S == {n \in Nat : n <= N => t[n] \in Nat}
<1>0. N \in Nat /\ \A n \in 1 .. N : l.pairs[n] \in Nat
  <2>1. l.pairs \in Seq(Byte)
    BY DEF Line
  <2>2. N \in Nat /\ \A n \in 1 .. N : l.pairs[n] \in Byte
    BY <2>1
  <2>3. \A x \in Byte : x \in Nat
    BY DEF Byte
  <2> QED BY <2>2, <2>3
<1>1. t[0] = 0 /\ \A n \in 1 .. N : t[n] = t[n - 1] + l.pairs[n]
  BY TotalSteps
<1> HIDE DEF t, N
<1>2. 0 \in S
  BY <1>1
<1>3. ASSUME NEW n \in Nat, n \in S PROVE n + 1 \in S
  <2>1. CASE n + 1 <= N
    <3>1. n <= N /\ n + 1 \in 1 .. N /\ n + 1 - 1 = n
      BY <1>0, <2>1
    <3> QED BY <1>0, <1>1, <1>3, <3>1
  <2>2. CASE ~(n + 1 <= N)
    BY <2>2
  <2> QED BY <2>1, <2>2
<1> HIDE DEF S
<1>4. S = Nat
  <2>1. S \in SUBSET Nat
    BY DEF S
  <2> QED BY <1>2, <1>3, <2>1, SetInduction
<1> QED BY <1>0, <1>4 DEF S, t, N

-----------------------------------------------------------------------------
(* How far a record has been read. *)

ShortLine == {l \in Line : Len(l.pairs) < Slots}

(* The loop stands at byte nibble of the record, and no further than its
   count says, if that was read at all and has not wrapped.                *)
InPlace ==
  /\ nibble >= pos_data
  /\ Record!Count(line) >= 2 => nibble + len = Record!Count(line) + 2
  /\ line.type = "1" =>
       address = Plus(Record!AddressOf(line), nibble - pos_data)

(* What comes before nibble has been added and, of an S1 record, stored. *)
Applied ==
  /\ pos_data <= nibble /\ nibble <= Record!Count(line) + 1
  /\ checksum = Record!Total(line)[nibble - 1] % 256
  /\ line.type = "1" =>
       \A k \in 0 .. nibble - pos_data - 1 :
         /\ Plus(Record!AddressOf(line), k) \in DOMAIN memory
         /\ memory[Plus(Record!AddressOf(line), k)] = line.pairs[pos_data + k]

RecordInv ==
  /\ file \in Seq(ShortLine)
  /\ memory \in [DOMAIN memory -> Byte]
  /\ at \in {"load_file", "fgets", "header"} => checksum = 0
  /\ at \in {"header", "data", "last_byte"} =>
       /\ line \in ShortLine /\ line.start = "S"
       /\ \A k \in DOMAIN line.pairs : inrec[k] = line.pairs[k]
  /\ at = "header" => line.type \in {"0", "1", "9"}
  /\ at = "data" => line.type \in {"0", "1"}
  /\ at = "data" /\ Len(line.pairs) >= 3 => InPlace
  /\ at \in {"data", "last_byte"} /\ Record!IsComplete(line) => Applied
  /\ at = "last_byte" /\ Record!IsComplete(line) =>
       nibble = Record!Count(line) + 1

-----------------------------------------------------------------------------
(* Lines, sums and addresses. *)

LEMMA LineType ==
  ASSUME NEW l \in ShortLine
  PROVE  /\ l \in Line /\ Len(l.pairs) \in Nat /\ Len(l.pairs) < Slots
         /\ DOMAIN l.pairs = 1 .. Len(l.pairs)
         /\ \A k \in 1 .. Len(l.pairs) : l.pairs[k] \in Byte
<1>1. l \in Line /\ l.pairs \in Seq(Byte) /\ Len(l.pairs) < Slots
  BY DEF ShortLine, Line
<1> QED BY <1>1

LEMMA CompleteType ==
  ASSUME NEW l \in ShortLine, Record!IsComplete(l)
  PROVE  /\ Record!Count(l) = l.pairs[1] /\ Record!Count(l) \in 3 .. 255
         /\ Len(l.pairs) > 3 /\ Record!Count(l) < Len(l.pairs)
         /\ l.type \in {"0", "1", "9"}
         /\ l.type = "9" => Record!Count(l) = 3
<1>1. /\ Len(l.pairs) > 3 /\ Len(l.pairs) > Record!Count(l)
      /\ \/ l.type \in {"0", "1"} /\ Record!Count(l) >= 3
         \/ l.type = "9" /\ Record!Count(l) = 3
  BY DEF Record!IsComplete
<1>2. 1 \in 1 .. Len(l.pairs) /\ l.pairs[1] \in 0 .. 255
  BY <1>1, LineType DEF Byte
<1>3. Record!Count(l) = l.pairs[1]
  BY DEF Record!Count
<1>4. Record!Count(l) >= 3
  BY <1>1, SMT
<1>5. Record!Count(l) \in 3 .. 255
  <2>1. \A x \in 0 .. 255 : x >= 3 => x \in 3 .. 255
    BY SMT
  <2> QED BY <1>2, <1>3, <1>4, <2>1, Zenon
<1> QED BY <1>1, <1>3, <1>5, LineType

LEMMA AddressOfType ==
  ASSUME NEW l \in ShortLine, Len(l.pairs) >= 3
  PROVE  Record!AddressOf(l) \in Word16
<1>1. 2 \in 1 .. Len(l.pairs) /\ 3 \in 1 .. Len(l.pairs)
  BY LineType
<1>2. l.pairs[2] \in Byte /\ l.pairs[3] \in Byte
  BY <1>1, LineType
<1> QED BY <1>2, AddressType DEF Record!AddressOf

LEMMA SumModulo ==
  ASSUME NEW c \in Nat, NEW x \in Nat
  PROVE  ((c % 256) + x) % 256 = (c + x) % 256
BY SMT

LEMMA NextAddress ==
  ASSUME NEW a \in Nat, NEW k \in Nat
  PROVE  Plus(Plus(a, k), 1) = Plus(a, k + 1)
BY SMT DEF Plus

LEMMA CloseModulo ==
  ASSUME NEW x \in Nat, NEW y \in Nat, x % 65536 = y % 65536,
         x - y <= 255, y - x <= 255
  PROVE  x = y
BY SMT

(* The bytes of one record land at different addresses. *)
LEMMA AddressesDiffer ==
  ASSUME NEW a \in Nat, NEW j \in 0 .. 255, NEW k \in 0 .. 255,
         Plus(a, j) = Plus(a, k)
  PROVE  j = k
<1>1. (a + j) % 65536 = (a + k) % 65536
  BY DEF Plus
<1>2. /\ a + j \in Nat /\ a + k \in Nat
      /\ (a + j) - (a + k) <= 255 /\ (a + k) - (a + j) <= 255
  BY SMT
<1>3. a + j = a + k
  BY <1>1, <1>2, CloseModulo
<1> QED BY <1>3, SMT

LEMMA ByteStored ==
  ASSUME NEW m, NEW a, NEW x \in Byte, NEW w, w = WriteBus(m, a, x, 1)
  PROVE  /\ \A b : b \in DOMAIN w <=> b \in DOMAIN m \/ b = a
         /\ w = [b \in DOMAIN w |-> w[b]]
         /\ w[a] = x
         /\ \A b \in DOMAIN m : b # a => w[b] = m[b]
<1>1. LowByte(x) = x
  BY SMT DEF LowByte, Byte
<1>2. w = [b \in DOMAIN m \cup {a} |-> IF b \notin {a} THEN m[b] ELSE LowByte(x)]
  BY DEF WriteBus
<1> QED BY <1>1, <1>2

(* What the header of a record is scanned for is found if it is there. *)
LEMMA HeaderScanned ==
  ASSUME line \in ShortLine, \A k \in DOMAIN line.pairs : inrec[k] = line.pairs[k],
         Len(line.pairs) >= 3, NEW k \in 1 .. 3, NEW old
  PROVE  ScanHeader(k, old) = line.pairs[k]
<1>1. \A j \in 1 .. k : j \in DOMAIN line.pairs /\ line.pairs[j] \in Byte
  BY LineType
<1>2. \A j \in 1 .. k : inrec[j] # End
  <2>1. End \notin Byte
    BY SMT DEF Byte, End
  <2> QED BY <1>1, <2>1, Zenon
<1>3. inrec[k] = line.pairs[k]
  BY <1>1
<1> QED BY <1>2, <1>3 DEF ScanHeader

(* A sum of three bytes is that of the header. *)
LEMMA HeaderTotal ==
  ASSUME NEW l \in ShortLine, Len(l.pairs) >= 3
  PROVE  Record!Total(l)[3] = l.pairs[1] + l.pairs[2] + l.pairs[3]
<1> DEFINE t == Record!Total(l)
<1>1. /\ 1 \in 1 .. Len(l.pairs) /\ 2 \in 1 .. Len(l.pairs) /\ 3 \in 1 .. Len(l.pairs)
      /\ l \in Line
  BY LineType
<1>2. /\ t[0] = 0
      /\ t[1] = t[0] + l.pairs[1] /\ t[2] = t[1] + l.pairs[2]
      /\ t[3] = t[2] + l.pairs[3]
  <2>1. t[0] = 0 /\ \A n \in 1 .. Len(l.pairs) : t[n] = t[n - 1] + l.pairs[n]
    BY <1>1, TotalSteps
  <2> HIDE DEF t
  <2> QED BY <1>1, <2>1
<1>3. l.pairs[1] \in Byte /\ l.pairs[2] \in Byte /\ l.pairs[3] \in Byte
  BY <1>1, LineType
<1> HIDE DEF t
<1>4. t[3] = l.pairs[1] + l.pairs[2] + l.pairs[3]
  <2>1. \A x, y, z \in Byte : \A b, c, d :
          b = 0 + x /\ c = b + y /\ d = c + z => d = x + y + z
    BY SMT DEF Byte
  <2> QED BY <1>2, <1>3, <2>1
<1> QED BY <1>4 DEF t

-----------------------------------------------------------------------------
LEMMA InitRecordInv == Init => RecordInv
<1> SUFFICES ASSUME Init PROVE RecordInv
  OBVIOUS
<1>1. file = <<>> /\ memory = <<>> /\ at = "load_file" /\ checksum = 0
  BY DEF Init
<1>2. file \in Seq(ShortLine)
  BY <1>1
<1>3. memory \in [DOMAIN memory -> Byte]
  <2>1. DOMAIN <<>> = {} /\ <<>> = [k \in {} |-> 0]
    BY SMT
  <2> QED BY <1>1, <2>1
<1> QED BY <1>1, <1>2, <1>3 DEF RecordInv

LEMMA OpenRecordInv == RecordInv /\ load_file => RecordInv'
<1> SUFFICES ASSUME RecordInv, load_file PROVE RecordInv'
  OBVIOUS
<1>1. file' \in Seq(ShortLine)
  <2>1. CASE file' \in Files
    <3>1. file' \in Seq(Line) /\ \A i \in DOMAIN file' : Len(file'[i].pairs) < Slots
      BY <2>1, LoaderAssumption
    <3>2. \A i \in 1 .. Len(file') : file'[i] \in ShortLine
      BY <3>1 DEF ShortLine
    <3> QED BY <3>1, <3>2
  <2> QED BY <2>1 DEF load_file, RecordInv
<1>2. /\ at = "load_file" /\ at' \in {"fgets", "undefined"}
      /\ UNCHANGED <<memory, checksum>>
  BY DEF load_file, loaded
<1> QED BY <1>1, <1>2 DEF RecordInv

LEMMA FgetsRecordInv == RecordInv /\ fgets => RecordInv'
<1> SUFFICES ASSUME RecordInv, fgets PROVE RecordInv'
  OBVIOUS
<1>0. at = "fgets" /\ checksum = 0 /\ UNCHANGED <<memory, checksum>>
  BY DEF fgets, loaded, RecordInv
<1>1. CASE file = <<>>
  BY <1>0, <1>1 DEF fgets, RecordInv
<1>2. CASE file # <<>>
  <2>1. /\ line' = Head(file) /\ file' = Tail(file) /\ inrec' = Overwritten(line')
        /\ at' = IF line'.start # "S" THEN "fgets"
                 ELSE IF line'.type \in {"0", "1", "9"} THEN "header"
                 ELSE "last_byte"
    BY <1>2 DEF fgets, Rest
  <2>2. line' \in ShortLine /\ file' \in Seq(ShortLine)
    BY <1>2, <2>1 DEF RecordInv
  <2>3. \A k \in DOMAIN line'.pairs : inrec'[k] = line'.pairs[k]
    <3>1. \A k \in DOMAIN line'.pairs : k \in 0 .. Slots /\ k # Len(line'.pairs) + 1
      BY <2>2, LineType, LoaderAssumption
    <3> QED BY <2>1, <3>1, SMT DEF Overwritten
  <2>4. CASE line'.start # "S"
    BY <1>0, <2>1, <2>2, <2>4 DEF RecordInv
  <2>5. CASE line'.start = "S" /\ line'.type \in {"0", "1", "9"}
    BY <1>0, <2>1, <2>2, <2>3, <2>5 DEF RecordInv
  <2>6. CASE line'.start = "S" /\ line'.type \notin {"0", "1", "9"}
    <3>1. at' = "last_byte"
      BY <2>1, <2>6
    <3>2. ~Record!IsComplete(line')
      BY <2>6 DEF Record!IsComplete
    <3>3. ~Record!IsComplete(line)'
      BY <3>2 DEF Record!IsComplete, Record!Count
    <3> QED BY <1>0, <2>1, <2>2, <2>3, <2>6, <3>1, <3>3 DEF RecordInv
  <2> QED BY <2>4, <2>5, <2>6
<1> QED BY <1>1, <1>2

LEMMA HeaderRecordInv == TypeOK /\ RecordInv /\ header => RecordInv'
<1> SUFFICES ASSUME TypeOK, RecordInv, header PROVE RecordInv'
  OBVIOUS
<1>0. /\ at = "header" /\ checksum = 0 /\ UNCHANGED <<file, line, inrec, memory>>
      /\ line \in ShortLine /\ line.start = "S"
      /\ \A k \in DOMAIN line.pairs : inrec[k] = line.pairs[k]
      /\ line.type \in {"0", "1", "9"}
      /\ file \in Seq(ShortLine) /\ memory \in [DOMAIN memory -> Byte]
  BY DEF header, RecordInv
<1> DEFINE count == ScanHeader(1, len)
           A == Record!AddressOf(line)
<1>1. /\ nibble' = 4 /\ checksum' = (0 + (count + ah' + al')) % 256
      /\ address' = 256 * ah' + al'
      /\ \/ line.type = "9" /\ at' = "last_byte"
         \/ line.type # "9" /\ at' = "data" /\ len' = LessTwo(count)
  BY <1>0 DEF header, pos_data, Add
<1>2. ASSUME Len(line.pairs) >= 3
      PROVE  /\ count = Record!Count(line) /\ count \in Byte /\ A \in Word16
             /\ address' = A
             /\ checksum' = Record!Total(line)[3] % 256
  <2>1. count = line.pairs[1] /\ ah' = line.pairs[2] /\ al' = line.pairs[3]
    BY <1>0, <1>2, HeaderScanned DEF header
  <2>2. line.pairs[1] \in Byte /\ line.pairs[2] \in Byte /\ line.pairs[3] \in Byte
    BY <1>0, <1>2, LineType
  <2>3. Record!Total(line)[3] = count + ah' + al'
    BY <1>0, <1>2, <2>1, HeaderTotal
  <2>4. \A x, y, z \in Byte : 0 + (x + y + z) = x + y + z
    BY SMT DEF Byte
  <2>5. checksum' = Record!Total(line)[3] % 256
    BY <1>1, <2>1, <2>2, <2>3, <2>4
  <2>6. A \in Word16
    BY <1>0, <1>2, AddressOfType
  <2> QED BY <1>1, <2>1, <2>2, <2>5, <2>6 DEF Record!Count, Record!AddressOf
<1> HIDE DEF count, A
<1>3. ASSUME at' = "data", Len(line.pairs) >= 3 PROVE InPlace'
  <2>1. count \in Nat
    <3>1. count \in Byte /\ \A x \in Byte : x \in Nat
      BY <1>2, <1>3 DEF Byte
    <3> QED BY <3>1
  <2>2. nibble' >= 4 /\ (count >= 2 => nibble' + len' = count + 2)
    <3>1. count >= 2 => len' = count - 2
      BY <1>1, <1>2, <1>3, LessTwoType
    <3> QED BY <1>1, <2>1, <3>1
  <2>3. address' = Plus(A, nibble' - 4)
    <3>1. \A x \in Word16 : Plus(x, 4 - 4) = x
      BY SMT DEF Plus, Word16
    <3> QED BY <1>1, <1>2, <1>3, <3>1
  <2>4. line' = line
    BY <1>0
  <2> QED BY <1>2, <1>3, <2>2, <2>3, <2>4 DEF InPlace, pos_data, A
<1>4. ASSUME at' \in {"data", "last_byte"}, Record!IsComplete(line)
      PROVE  Applied' /\ (at' = "last_byte" => nibble' = Record!Count(line) + 1)
  <2>1. /\ Record!Count(line) \in 3 .. 255 /\ Len(line.pairs) >= 3
        /\ line.type = "9" => Record!Count(line) = 3
    BY <1>0, <1>4, CompleteType, LineType
  <2>2. /\ 4 <= nibble' /\ nibble' <= Record!Count(line) + 1 /\ nibble' - 1 = 3
        /\ 0 .. nibble' - 4 - 1 = {}
    <3>1. nibble' = 4 /\ 4 <= 4 /\ 4 - 1 = 3 /\ 0 .. 4 - 4 - 1 = {}
      BY <1>1, SMT
    <3>2. \A n \in 3 .. 255 : 4 <= n + 1
      BY SMT
    <3> QED BY <2>1, <3>1, <3>2
  <2>3. at' = "last_byte" => nibble' = Record!Count(line) + 1
    BY <1>1, <2>1
  <2>4. checksum' = Record!Total(line)[3] % 256
    BY <1>2, <2>1
  <2>5. line' = line
    BY <1>0
  <2> QED BY <2>2, <2>3, <2>4, <2>5 DEF Applied, pos_data
<1>5. /\ at' \in {"data", "last_byte"} /\ line' = line
      /\ at' = "data" => line.type \in {"0", "1"}
  BY <1>0, <1>1
<1> QED BY <1>0, <1>3, <1>4, <1>5 DEF RecordInv

LEMMA CheckRecordInv == RecordInv /\ check => RecordInv'
<1> SUFFICES ASSUME RecordInv, check PROVE RecordInv'
  OBVIOUS
<1>1. /\ UNCHANGED <<file, memory>>
      /\ \/ at' = "fgets" /\ checksum' = 0
         \/ at' = "undefined"
  BY DEF check, loaded
<1> QED BY <1>1 DEF RecordInv

(* One byte of data, where the record has one. *)
LEMMA DataRecordInv == TypeOK /\ RecordInv /\ data => RecordInv'
<1> SUFFICES ASSUME TypeOK, RecordInv, data PROVE RecordInv'
  OBVIOUS
<1>0. /\ at = "data" /\ UNCHANGED <<file, line, inrec>>
      /\ line \in ShortLine /\ line.start = "S" /\ line.type \in {"0", "1"}
      /\ \A k \in DOMAIN line.pairs : inrec[k] = line.pairs[k]
      /\ file \in Seq(ShortLine) /\ memory \in [DOMAIN memory -> Byte]
      /\ len \in Nat /\ nibble \in Nat /\ checksum \in Nat
  <2>1. len \in Nat /\ nibble \in Nat /\ checksum \in Nat
    BY LoaderAssumption, SMT DEF TypeOK, Byte
  <2> QED BY <2>1 DEF data, RecordInv
<1> DEFINE A == Record!AddressOf(line)
           N == Record!Count(line)
<1>1. CASE at' = "last_byte"
  <2>1. len <= 1 /\ UNCHANGED <<len, address, nibble, checksum, memory>>
    BY <1>0, <1>1 DEF data, MoreData
  <2>2. ASSUME Record!IsComplete(line) PROVE Applied /\ nibble = N + 1
    <3>1. Applied /\ InPlace
      BY <1>0, <2>2, CompleteType DEF RecordInv
    <3>2. N \in Nat /\ N >= 2
      <4>1. N \in 3 .. 255
        BY <1>0, <2>2, CompleteType
      <4> QED BY <4>1
    <3> QED BY <1>0, <2>1, <3>1, <3>2 DEF InPlace, Applied
  <2> QED BY <1>0, <1>1, <2>1, <2>2 DEF RecordInv, Applied
<1>2. CASE at' = "undefined"
  <2>1. UNCHANGED memory
    BY <1>0, <1>2 DEF data
  <2> QED BY <1>0, <1>2, <2>1 DEF RecordInv
<1>3. CASE at' = "data"
  <2>1. /\ len > 1 /\ nibble <= Slots /\ data_b' = Scan(nibble, data_b)
        /\ IF line.type = "1"
           THEN /\ memory' = WriteBus(memory, address, data_b', 1)
                /\ address' = Plus(address, 1)
           ELSE UNCHANGED <<memory, address>>
        /\ len' = len - 1 /\ nibble' = nibble + 1
        /\ checksum' = (checksum + data_b') % 256
    BY <1>0, <1>3 DEF data, MoreData, Add
  <2>2. data_b' \in Byte
    <3>1. nibble \in 0 .. Slots
      BY <1>0, <2>1, LoaderAssumption
    <3> QED BY <2>1, <3>1, ScanType DEF TypeOK
  <2>3. /\ line.type = "1" =>
             /\ \A b : b \in DOMAIN memory' <=> b \in DOMAIN memory \/ b = address
             /\ memory' = [b \in DOMAIN memory' |-> memory'[b]]
             /\ memory'[address] = data_b'
             /\ \A b \in DOMAIN memory : b # address => memory'[b] = memory[b]
        /\ line.type # "1" => memory' = memory
    <3>1. CASE line.type = "1"
      <4>1. memory' = WriteBus(memory, address, data_b', 1)
        BY <2>1, <3>1
      <4> QED BY <2>2, <3>1, <4>1, ByteStored
    <3>2. CASE line.type # "1"
      BY <2>1, <3>2
    <3> QED BY <3>1, <3>2
  <2>4. memory' \in [DOMAIN memory' -> Byte]
    BY <1>0, <2>2, <2>3
  <2>5. ASSUME Len(line.pairs) >= 3 PROVE InPlace'
    <3>1. InPlace /\ A \in Word16
      BY <1>0, <1>3, <2>5, AddressOfType DEF RecordInv
    <3>2. nibble' >= 4 /\ (N >= 2 => nibble' + len' = N + 2)
      <4>1. /\ nibble \in Nat /\ len \in Nat /\ nibble >= 4
            /\ N >= 2 => nibble + len = N + 2
        BY <1>0, <3>1 DEF InPlace, pos_data
      <4> HIDE DEF N
      <4> QED BY <2>1, <4>1
    <3>3. line.type = "1" => address' = Plus(A, nibble' - 4)
      <4>1. A \in Nat /\ nibble - 4 \in Nat /\ (nibble - 4) + 1 = nibble' - 4
        BY <1>0, <2>1, <3>1, SMT DEF InPlace, pos_data, Word16
      <4>2. line.type = "1" => address = Plus(A, nibble - 4)
        BY <3>1 DEF InPlace, pos_data
      <4> QED BY <2>1, <4>1, <4>2, NextAddress
    <3>4. line' = line
      BY <1>0
    <3> QED BY <3>2, <3>3, <3>4 DEF InPlace, pos_data
  <2>6. ASSUME Record!IsComplete(line) PROVE Applied'
    <3>1. Applied /\ InPlace /\ N \in 3 .. 255 /\ N < Len(line.pairs)
          /\ Len(line.pairs) \in Nat /\ A \in Nat
      <4>1. /\ N \in 3 .. 255 /\ N < Len(line.pairs) /\ Len(line.pairs) \in Nat
            /\ Len(line.pairs) >= 3
        <5>1. N \in 3 .. 255 /\ N < Len(line.pairs) /\ Len(line.pairs) > 3
          BY <1>0, <2>6, CompleteType
        <5>2. Len(line.pairs) \in Nat
          BY <1>0, LineType
        <5> QED BY <5>1, <5>2
      <4>2. A \in Nat
        BY <1>0, <4>1, AddressOfType, SMT DEF Word16
      <4> QED BY <1>0, <2>6, <4>1, <4>2 DEF RecordInv
    <3>2. 4 <= nibble /\ nibble + len = N + 2 /\ nibble + 1 <= N + 1
          /\ nibble \in 1 .. Len(line.pairs) /\ nibble - 1 \in 0 .. Len(line.pairs)
      <4>1. /\ nibble \in Nat /\ len \in Nat /\ len > 1
            /\ nibble >= 4 /\ (N >= 2 => nibble + len = N + 2)
        BY <1>0, <2>1, <3>1 DEF InPlace, pos_data
      <4> HIDE DEF N
      <4> QED BY <3>1, <4>1
    <3>3. data_b' = line.pairs[nibble]
      <4>1. inrec[nibble] = line.pairs[nibble] /\ line.pairs[nibble] \in Byte
        BY <1>0, <3>2, LineType
      <4>2. \A x \in Byte : x # End
        BY SMT DEF Byte, End
      <4> QED BY <2>1, <4>1, <4>2 DEF Scan
    <3>4. checksum' = Record!Total(line)[nibble' - 1] % 256
      <4> DEFINE t == Record!Total(line)
      <4>1. t[nibble] = t[nibble - 1] + line.pairs[nibble]
        BY <1>0, <3>2, LineType, TotalSteps
      <4>2. t[nibble - 1] \in Nat /\ line.pairs[nibble] \in Nat
        <5>1. t[nibble - 1] \in Nat
          BY <1>0, <3>2, LineType, TotalType
        <5>2. line.pairs[nibble] \in Byte /\ \A x \in Byte : x \in Nat
          BY <2>2, <3>3 DEF Byte
        <5> QED BY <5>1, <5>2
      <4>3. checksum = t[nibble - 1] % 256
        BY <3>1 DEF Applied
      <4>4. nibble' - 1 = nibble
        BY <1>0, <2>1
      <4> HIDE DEF t
      <4>5. checksum' = t[nibble' - 1] % 256
        BY <2>1, <3>3, <4>1, <4>2, <4>3, <4>4, SumModulo
      <4> QED BY <4>5 DEF t
    <3>5. ASSUME line.type = "1", NEW k \in 0 .. nibble' - 4 - 1
          PROVE  /\ Plus(A, k) \in DOMAIN memory'
                 /\ memory'[Plus(A, k)] = line.pairs[4 + k]
      <4>0. /\ k \in 0 .. 255 /\ nibble - 4 \in 0 .. 255 /\ nibble' = nibble + 1
            /\ address = Plus(A, nibble - 4)
        <5>1. nibble' = nibble + 1 /\ address = Plus(A, nibble - 4)
          BY <2>1, <3>1, <3>5 DEF InPlace, pos_data
        <5>2. nibble \in Nat /\ 4 <= nibble /\ nibble + 1 <= N + 1 /\ N \in 3 .. 255
          BY <1>0, <3>1, <3>2
        <5>3. nibble - 4 \in 0 .. 255
          BY <5>2
        <5>4. k \in 0 .. nibble - 4
          BY <3>5, <5>1, <5>2
        <5> QED BY <5>1, <5>3, <5>4
      <4>1. CASE k = nibble - 4
        <5>1. 4 + k = nibble
          BY <1>0, <4>1
        <5> QED BY <2>3, <3>3, <3>5, <4>0, <4>1, <5>1
      <4>2. CASE k # nibble - 4
        <5>1. k \in 0 .. nibble - 4 - 1
          BY <1>0, <4>0, <4>2
        <5>2. /\ Plus(A, k) \in DOMAIN memory
              /\ memory[Plus(A, k)] = line.pairs[4 + k]
          BY <3>1, <3>5, <5>1 DEF Applied, pos_data
        <5>3. Plus(A, k) # address
          BY <3>1, <4>0, <4>2, AddressesDiffer
        <5> QED BY <2>3, <3>5, <5>2, <5>3
      <4> QED BY <4>1, <4>2
    <3>6. line' = line /\ 4 <= nibble' /\ nibble' <= N + 1
      BY <1>0, <2>1, <3>2
    <3> QED BY <3>4, <3>5, <3>6 DEF Applied, pos_data
  <2> QED BY <1>0, <1>3, <2>4, <2>5, <2>6 DEF RecordInv
<1>4. at' \in {"last_byte", "undefined", "data"}
  BY <1>0 DEF data
<1> QED BY <1>1, <1>2, <1>3, <1>4

(* The invariant of the refinement. *)
LoaderInv == IInv /\ RecordInv

LEMMA InitLoaderInv == Init => LoaderInv
BY InitIInv, InitRecordInv DEF LoaderInv

LEMMA NextLoaderInv == LoaderInv /\ [Next]_vars => LoaderInv'
<1> SUFFICES ASSUME LoaderInv, [Next]_vars PROVE LoaderInv'
  OBVIOUS
<1>1. IInv' /\ TypeOK
  BY NextIInv DEF LoaderInv, IInv
<1>2. RecordInv'
  <2>1. CASE UNCHANGED vars
    BY <2>1 DEF LoaderInv, RecordInv, Applied, InPlace, vars, scanned, loaded
  <2>2. CASE Next
    BY <1>1, <2>2, OpenRecordInv, FgetsRecordInv, HeaderRecordInv, DataRecordInv,
       CheckRecordInv DEF LoaderInv, Next
  <2> QED BY <2>1, <2>2
<1> QED BY <1>1, <1>2 DEF LoaderInv

-----------------------------------------------------------------------------
(* The refinement of SRecords.  What is said of a line does not depend on   *)
(* the state the abstract module is instantiated with.                      *)

LEMMA SameRecord ==
  ASSUME NEW l
  PROVE  /\ Records!IsRecord(l) <=> l.start = "S"
         /\ Records!IsComplete(l) <=> Record!IsComplete(l)
         /\ Records!AddressOf(l) = Record!AddressOf(l)
         /\ Records!Named(l) = Record!Named(l)
         /\ Records!Verdict(l) = Record!Verdict(l)
         /\ \A m : Records!With(m, l) = Record!With(m, l)
<1> USE DEF Records!Plus, Record!Plus, Records!Word16, Record!Word16,
            Records!Count, Record!Count, Records!AddressOf, Record!AddressOf,
            Records!Offsets, Record!Offsets, Records!Named, Record!Named
<1>1. Records!IsRecord(l) <=> l.start = "S"
  BY DEF Records!IsRecord
<1>2. Records!IsComplete(l) <=> Record!IsComplete(l)
  BY DEF Records!IsComplete, Record!IsComplete
<1>3. Records!AddressOf(l) = Record!AddressOf(l) /\ Records!Named(l) = Record!Named(l)
  OBVIOUS
<1>4. Records!Verdict(l) = Record!Verdict(l)
  BY DEF Records!Verdict, Record!Verdict, Records!Total, Record!Total
<1>5. \A m : Records!With(m, l) = Record!With(m, l)
  BY DEF Records!With, Record!With
<1> QED BY <1>1, <1>2, <1>3, <1>4, <1>5

LEMMA Mapping ==
  /\ at = "load_file" => Doing = "closed"
  /\ at = "fgets" => Doing = "ready"
  /\ at = "menu" => Doing = "done"
  /\ at = "undefined" => Doing = "failed"
  /\ at \in {"header", "data", "last_byte"} => Doing = "record"
  /\ at \notin {"header", "data"} => MemoryAfter = memory
  /\ at # "header" => EntryAfter = PC
BY DEF Doing, MemoryAfter, EntryAfter

LEMMA MappingNext ==
  /\ at' = "load_file" => Doing' = "closed"
  /\ at' = "fgets" => Doing' = "ready"
  /\ at' = "menu" => Doing' = "done"
  /\ at' = "undefined" => Doing' = "failed"
  /\ at' \in {"header", "data", "last_byte"} => Doing' = "record"
  /\ at' \notin {"header", "data"} => MemoryAfter' = memory'
  /\ at' # "header" => EntryAfter' = PC'
BY DEF Doing, MemoryAfter, EntryAfter

LEMMA PlusIsPlus == \A x, y : Record!Plus(x, y) = Plus(x, y)
BY DEF Record!Plus, Plus

(* Once every byte of a record is in memory, the record changes nothing. *)
LEMMA WithAll ==
  ASSUME NEW l \in ShortLine, Record!IsComplete(l), l.type = "1",
         NEW m, m = [a \in DOMAIN m |-> m[a]],
         \A k \in Record!Offsets(l) :
           /\ Plus(Record!AddressOf(l), k) \in DOMAIN m
           /\ m[Plus(Record!AddressOf(l), k)] = l.pairs[4 + k]
  PROVE  Record!With(m, l) = m
<1> DEFINE A == Record!AddressOf(l)
           O == Record!Offsets(l)
           N == Record!Named(l)
<1>1. A \in Nat /\ \A k \in O : k \in 0 .. 255
  <2>1. Record!Count(l) \in 3 .. 255 /\ Len(l.pairs) > 3 /\ Len(l.pairs) \in Nat
    BY CompleteType, LineType
  <2>2. A \in Nat
    BY <2>1, AddressOfType, SMT DEF Word16
  <2>3. \A k \in O : k \in 0 .. 255
    <3>1. \A c \in 3 .. 255 : \A k \in 0 .. c - 4 : k \in 0 .. 255
      BY SMT
    <3>2. ~(Record!Count(l) < 2)
      <4>1. \A c \in 3 .. 255 : ~(c < 2)
        BY SMT
      <4> QED BY <2>1, <4>1
    <3> QED BY <2>1, <3>1, <3>2 DEF Record!Offsets
  <2> QED BY <2>2, <2>3
<1>2. \A a : a \in N <=> \E k \in O : a = Plus(A, k)
  <2>1. Len(l.pairs) >= 3 /\ ~(Len(l.pairs) < 3)
    BY CompleteType, LineType
  <2>2. N = {Plus(A, k) : k \in O}
    BY <2>1, PlusIsPlus DEF Record!Named
  <2> QED BY <2>2
<1> HIDE DEF A, N, O
<1>3. \A a \in N : a \in DOMAIN m
  BY <1>2 DEF A, O
<1>4. ASSUME NEW a \in N
      PROVE  l.pairs[4 + CHOOSE k \in O : Plus(A, k) = a] = m[a]
  <2> DEFINE j == CHOOSE k \in O : Plus(A, k) = a
  <2>1. j \in O /\ Plus(A, j) = a
    BY <1>2, <1>4
  <2> HIDE DEF j
  <2>2. m[Plus(A, j)] = l.pairs[4 + j]
    BY <2>1 DEF A, O
  <2>3. l.pairs[4 + j] = m[a]
    BY <2>1, <2>2
  <2> QED BY <2>3 DEF j
<1>5. Record!With(m, l) =
        [a \in DOMAIN m \cup N |->
           IF a \notin N THEN m[a]
           ELSE l.pairs[4 + CHOOSE k \in O : Plus(A, k) = a]]
  BY DEF Record!With, N, O, A, Record!Plus, Plus
<1>6. DOMAIN m \cup N = DOMAIN m
  BY <1>3
<1>7. Record!With(m, l) = [a \in DOMAIN m |-> m[a]]
  BY <1>4, <1>5, <1>6
<1> QED BY <1>7

(* A byte stored where the record says leaves its effect the same. *)
LEMMA WithOneMore ==
  ASSUME NEW l, NEW m, NEW a \in Record!Named(l), NEW x \in Byte,
         NEW w, w = WriteBus(m, a, x, 1)
  PROVE  Record!With(w, l) = Record!With(m, l)
<1> DEFINE N == Record!Named(l)
<1>1. /\ \A b : b \in DOMAIN w <=> b \in DOMAIN m \/ b = a
      /\ \A b \in DOMAIN m : b # a => w[b] = m[b]
  BY ByteStored
<1> DEFINE e(b) == l.pairs[4 + CHOOSE k \in Record!Offsets(l) :
                                  Plus(Record!AddressOf(l), k) = b]
<1>2. /\ Record!With(w, l) =
           [b \in DOMAIN w \cup N |-> IF b \notin N THEN w[b] ELSE e(b)]
      /\ Record!With(m, l) =
           [b \in DOMAIN m \cup N |-> IF b \notin N THEN m[b] ELSE e(b)]
  BY DEF Record!With, Record!Plus, Plus
<1> HIDE DEF e, N
<1>3. DOMAIN w \cup N = DOMAIN m \cup N
  BY <1>1 DEF N
<1>4. \A b \in DOMAIN m \cup N : b \notin N => w[b] = m[b]
  BY <1>1 DEF N
<1> QED BY <1>2, <1>3, <1>4

-----------------------------------------------------------------------------
(* Every action is a step of SRecords, or none. *)

LEMMA OpenRefines == load_file => Records!Open
<1> SUFFICES ASSUME load_file PROVE Records!Open
  OBVIOUS
<1>1. /\ at = "load_file" /\ UNCHANGED <<line, memory, PC, report>>
      /\ \/ file' \in Files /\ at' = "fgets"
         \/ UNCHANGED file /\ at' = "undefined"
  BY DEF load_file, loaded
<1>2. /\ Doing = "closed" /\ MemoryAfter' = MemoryAfter /\ EntryAfter' = EntryAfter
      /\ \/ file' \in Files /\ Doing' = "ready"
         \/ UNCHANGED file /\ Doing' = "failed"
  BY <1>1, Mapping, MappingNext
<1> QED BY <1>1, <1>2 DEF Records!Open

LEMMA FgetsRefines == fgets => Records!Next
<1> SUFFICES ASSUME fgets PROVE Records!Next
  OBVIOUS
<1>0. at = "fgets" /\ UNCHANGED <<memory, PC, report>>
  BY DEF fgets, loaded
<1>1. Doing = "ready" /\ MemoryAfter = memory /\ EntryAfter = PC
  BY <1>0, Mapping
<1>2. CASE file = <<>>
  <2>1. at' = "menu" /\ UNCHANGED <<file, line>>
    BY <1>2 DEF fgets
  <2>2. Doing' = "done" /\ MemoryAfter' = memory /\ EntryAfter' = PC
    BY <1>0, <2>1, MappingNext
  <2>3. Records!Close
    BY <1>0, <1>1, <1>2, <2>1, <2>2 DEF Records!Close
  <2> QED BY <2>3 DEF Records!Next
<1>3. CASE file # <<>>
  <2>1. /\ line' = Head(file) /\ file' = Tail(file)
        /\ at' = IF line'.start # "S" THEN "fgets"
                 ELSE IF line'.type \in {"0", "1", "9"} THEN "header"
                 ELSE "last_byte"
    BY <1>3 DEF fgets, Rest
  <2>2. Records!Next_line
    BY <1>1, <1>3, <2>1 DEF Records!Next_line
  <2>3. CASE line'.start # "S"
    <3>1. Doing' = "ready" /\ MemoryAfter' = memory /\ EntryAfter' = PC
      BY <1>0, <2>1, <2>3, MappingNext
    <3>2. Records!Ignore
      BY <1>0, <1>1, <2>2, <2>3, <3>1, SameRecord DEF Records!Ignore
    <3> QED BY <3>2 DEF Records!Next
  <2>4. CASE line'.start = "S" /\ Record!IsComplete(line')
    <3>1. line'.type \in {"0", "1", "9"}
      BY <2>4 DEF Record!IsComplete
    <3>2. at' = "header"
      BY <2>1, <2>4, <3>1
    <3>3. /\ Doing' = "record"
          /\ MemoryAfter' = IF line'.type = "1" THEN Record!With(memory, line')
                                                ELSE memory
          /\ EntryAfter' = IF line'.type = "9" THEN Record!AddressOf(line') ELSE PC
      <4>1. Record!IsComplete(line)'
        BY <2>4 DEF Record!IsComplete, Record!Count
      <4>2. Doing' = "record"
        BY <3>2, MappingNext
      <4>3. MemoryAfter' = IF line'.type = "1" THEN Record!With(memory, line')
                                                ELSE memory
        BY <1>0, <3>2, <4>1 DEF MemoryAfter
      <4>4. EntryAfter' = IF line'.type = "9" THEN Record!AddressOf(line') ELSE PC
        BY <1>0, <3>2, <4>1 DEF EntryAfter
      <4> QED BY <4>2, <4>3, <4>4
    <3>4. Records!Apply
      BY <1>0, <1>1, <2>2, <2>4, <3>3, SameRecord DEF Records!Apply
    <3> QED BY <3>4 DEF Records!Next
  <2>5. CASE line'.start = "S" /\ ~Record!IsComplete(line')
    <3>1. at' \in {"header", "last_byte"}
      BY <2>1, <2>5
    <3>2. Doing' = "record" /\ MemoryAfter' = memory /\ EntryAfter' = PC
      <4>1. ~Record!IsComplete(line)'
        BY <2>5 DEF Record!IsComplete, Record!Count
      <4> QED BY <1>0, <3>1, <4>1, MappingNext DEF MemoryAfter, EntryAfter
    <3>3. Records!Misread
      BY <1>0, <1>1, <2>2, <2>5, <3>2, SameRecord DEF Records!Misread
    <3> QED BY <3>3 DEF Records!Next
  <2> QED BY <2>3, <2>4, <2>5
<1> QED BY <1>2, <1>3

LEMMA CheckRefines == LoaderInv /\ check => Records!Next
<1> SUFFICES ASSUME LoaderInv, check PROVE Records!Next
  OBVIOUS
<1>0. /\ at = "last_byte" /\ UNCHANGED <<file, line, memory, PC>>
      /\ line \in ShortLine
      /\ \A k \in DOMAIN line.pairs : inrec[k] = line.pairs[k]
      /\ Record!IsComplete(line) => Applied /\ nibble = Record!Count(line) + 1
      /\ TypeOK
  BY DEF check, loaded, LoaderInv, RecordInv, IInv
<1>1. Doing = "record" /\ MemoryAfter = memory /\ EntryAfter = PC
  BY <1>0, Mapping
<1>2. CASE at' = "undefined"
  <2>1. Doing' = "failed" /\ MemoryAfter' = memory /\ EntryAfter' = PC
    BY <1>0, <1>2, MappingNext
  <2>2. nibble > Slots /\ report' = report
    BY <1>2 DEF check
  <2>3. ~Record!IsComplete(line)
    <3>1. SUFFICES ASSUME Record!IsComplete(line) PROVE FALSE
      OBVIOUS
    <3>2. /\ Record!Count(line) \in 3 .. 255 /\ Record!Count(line) < Len(line.pairs)
          /\ Len(line.pairs) < Slots /\ Len(line.pairs) \in Nat
      <4>1. Record!Count(line) \in 3 .. 255 /\ Record!Count(line) < Len(line.pairs)
        BY <1>0, <3>1, CompleteType
      <4>2. Len(line.pairs) < Slots /\ Len(line.pairs) \in Nat
        BY <1>0, LineType
      <4> QED BY <4>1, <4>2
    <3>3. nibble = Record!Count(line) + 1
      BY <1>0, <3>1
    <3>4. \A c \in 3 .. 255, l, s \in Nat : c < l /\ l < s => ~(c + 1 > s)
      BY SMT
    <3> QED BY <2>2, <3>2, <3>3, <3>4, LoaderAssumption
  <2>4. Records!Fail
    BY <1>0, <1>1, <2>1, <2>2, <2>3, SameRecord DEF Records!Fail
  <2> QED BY <2>4 DEF Records!Next
<1>3. CASE at' = "fgets"
  <2>1. Doing' = "ready" /\ MemoryAfter' = memory /\ EntryAfter' = PC
    BY <1>0, <1>3, MappingNext
  <2>2. /\ nibble <= Slots /\ last_byte' = Scan(nibble, last_byte)
        /\ report' = IF (checksum + last_byte') % 256 = 255 THEN "valid" ELSE "invalid"
    BY <1>3 DEF check, Add
  <2>3. ASSUME Record!IsComplete(line) PROVE report' = Record!Verdict(line)
    <3> DEFINE n == Record!Count(line)
               t == Record!Total(line)
    <3>1. /\ n \in 3 .. 255 /\ n < Len(line.pairs) /\ nibble = n + 1
          /\ n + 1 \in 1 .. Len(line.pairs) /\ n \in 0 .. Len(line.pairs)
          /\ nibble - 1 = n
      <4>1. n \in 3 .. 255 /\ n < Len(line.pairs) /\ nibble = n + 1
        BY <1>0, <2>3, CompleteType
      <4>2. Len(line.pairs) \in Nat
        BY <1>0, LineType
      <4> HIDE DEF n
      <4> QED BY <4>1, <4>2
    <3>2. last_byte' = line.pairs[n + 1] /\ line.pairs[n + 1] \in Byte
      <4>1. inrec[n + 1] = line.pairs[n + 1] /\ line.pairs[n + 1] \in Byte
        BY <1>0, <3>1, LineType
      <4>2. \A x \in Byte : x # End
        BY SMT DEF Byte, End
      <4> QED BY <2>2, <3>1, <4>1, <4>2 DEF Scan
    <3>3. checksum = t[n] % 256
      BY <1>0, <2>3, <3>1 DEF Applied
    <3>4. t[n + 1] = t[n] + line.pairs[n + 1] /\ t[n] \in Nat
      <4>1. t[n + 1] = t[n + 1 - 1] + line.pairs[n + 1]
        BY <1>0, <3>1, LineType, TotalSteps
      <4>2. n + 1 - 1 = n
        BY <3>1
      <4>3. t[n] \in Nat
        BY <1>0, <3>1, LineType, TotalType
      <4> QED BY <4>1, <4>2, <4>3
    <3>5. Record!Verdict(line) = IF t[n + 1] % 256 = 255 THEN "valid" ELSE "invalid"
      BY DEF Record!Verdict
    <3> HIDE DEF n, t
    <3>6. last_byte' \in Nat /\ last_byte' = line.pairs[n + 1]
      <4>1. \A x \in Byte : x \in Nat
        BY DEF Byte
      <4> QED BY <3>2, <4>1
    <3>7. (checksum + last_byte') % 256 = t[n + 1] % 256
      BY <3>3, <3>4, <3>6, SumModulo
    <3> QED BY <2>2, <3>5, <3>7
  <2>4. report' \in {"valid", "invalid"}
    BY <2>2
  <2>5. Records!Judge
    BY <1>0, <1>1, <2>1, <2>3, <2>4, SameRecord DEF Records!Judge
  <2> QED BY <2>5 DEF Records!Next
<1>4. at' \in {"fgets", "undefined"}
  BY DEF check
<1> QED BY <1>2, <1>3, <1>4

LEMMA HeaderRefines == LoaderInv /\ LoaderInv' /\ header => [Records!Next]_Records!vars
<1> SUFFICES ASSUME LoaderInv, LoaderInv', header
             PROVE  Records!Next \/ UNCHANGED Records!vars
  OBVIOUS
<1>0. /\ at = "header" /\ UNCHANGED <<file, line, memory, report>>
      /\ line \in ShortLine /\ line.type \in {"0", "1", "9"}
      /\ \A k \in DOMAIN line.pairs : inrec[k] = line.pairs[k]
      /\ Doing = "record" /\ PC' \in Word16
  BY Mapping DEF header, LoaderInv, RecordInv, IInv, TypeOK
<1> DEFINE count == ScanHeader(1, len)
<1>1. \/ line.type = "9" /\ at' = "last_byte" /\ PC' = 256 * ah' + al'
      \/ line.type # "9" /\ at' = "data" /\ UNCHANGED PC
  BY <1>0 DEF header
<1>2. CASE Record!IsComplete(line)
  <2>1. /\ Record!Count(line) \in 3 .. 255 /\ Len(line.pairs) >= 3
        /\ Record!Count(line) = line.pairs[1]
    <3>1. /\ Record!Count(line) \in 3 .. 255 /\ Len(line.pairs) > 3
          /\ Record!Count(line) = line.pairs[1]
      BY <1>0, <1>2, CompleteType
    <3>2. Len(line.pairs) \in Nat
      BY <1>0, LineType
    <3> QED BY <3>1, <3>2
  <2>2. count = line.pairs[1] /\ ah' = line.pairs[2] /\ al' = line.pairs[3]
    BY <1>0, <2>1, HeaderScanned DEF header
  <2>4. Record!IsComplete(line)' /\ line' = line
    BY <1>0, <1>2 DEF Record!IsComplete, Record!Count
  <2>5. MemoryAfter' = MemoryAfter
    <3>1. CASE line.type = "1"
      <4>1. at' = "data"
        BY <1>1, <3>1
      <4> QED BY <1>0, <1>2, <2>4, <3>1, <4>1
              DEF MemoryAfter, Record!With, Record!Named, Record!AddressOf, Record!Offsets,
                  Record!Count
    <3>2. CASE line.type # "1"
      BY <1>0, <3>2 DEF MemoryAfter
    <3> QED BY <3>1, <3>2
  <2>6. EntryAfter' = EntryAfter
    <3>1. EntryAfter' = PC'
      BY <1>1, MappingNext
    <3>2. CASE line.type = "9"
      BY <1>0, <1>1, <1>2, <2>2, <3>1, <3>2 DEF EntryAfter, Record!AddressOf
    <3>3. CASE line.type # "9"
      BY <1>1, <3>1, <3>3 DEF EntryAfter
    <3> QED BY <3>2, <3>3
  <2>7. Doing' = Doing
    <3>1. at' \in {"data", "last_byte"}
      BY <1>1
    <3> QED BY <1>0, <3>1, MappingNext
  <2> QED BY <1>0, <2>5, <2>6, <2>7 DEF Records!vars
<1>3. CASE ~Record!IsComplete(line)
  <2>1. MemoryAfter = memory /\ EntryAfter = PC
    BY <1>3 DEF MemoryAfter, EntryAfter
  <2>2. MemoryAfter' = memory /\ EntryAfter' = PC'
    <3>1. ~Record!IsComplete(line)'
      BY <1>0, <1>3 DEF Record!IsComplete, Record!Count
    <3> QED BY <1>0, <3>1 DEF MemoryAfter, EntryAfter
  <2>3. Doing' = "record"
    BY <1>1, MappingNext
  <2>4. line.type = "9" \/ PC' = PC
    BY <1>1
  <2>5. Records!Word16 = Word16
    BY DEF Records!Word16, Word16
  <2>6. Records!Spoil
    BY <1>0, <1>3, <2>1, <2>2, <2>3, <2>4, <2>5, SameRecord DEF Records!Spoil
  <2> QED BY <2>6 DEF Records!Next
<1> QED BY <1>2, <1>3

(* The loop stores only where the header says. *)
LEMMA AddressNamed ==
  ASSUME LoaderInv, at = "data", line.type = "1", len > 1, nibble <= Slots
  PROVE  address \in Record!Named(line)
<1>1. /\ line \in ShortLine /\ address \in Word16 /\ len \in Nat /\ nibble \in Nat
      /\ Len(line.pairs) >= 3 => InPlace
  <2>1. len \in Nat /\ nibble \in Nat
    BY LoaderAssumption, SMT DEF LoaderInv, IInv, TypeOK, Byte
  <2> QED BY <2>1 DEF LoaderInv, IInv, TypeOK, RecordInv
<1>2. Len(line.pairs) \in Nat
  BY <1>1, LineType
<1>3. CASE Len(line.pairs) < 3
  BY <1>1, <1>3 DEF Record!Named, Record!Word16, Word16
<1>4. CASE Len(line.pairs) >= 3
  <2> DEFINE A == Record!AddressOf(line)
             N == Record!Count(line)
  <2>1. /\ nibble >= 4 /\ address = Plus(A, nibble - 4)
        /\ N >= 2 => nibble + len = N + 2
    BY <1>1, <1>4 DEF InPlace, pos_data
  <2>2. N \in Nat
    <3>1. 1 \in 1 .. Len(line.pairs)
      BY <1>2, <1>4
    <3>2. line.pairs[1] \in Byte /\ \A x \in Byte : x \in Nat
      BY <1>1, <3>1, LineType DEF Byte
    <3> QED BY <3>2 DEF Record!Count
  <2>3. nibble - 4 \in Record!Offsets(line)
    <3>1. CASE N < 2
      <4>1. nibble - 4 \in 0 .. Room - 1
        BY <1>1, <2>1, LoaderAssumption DEF Room, pos_data
      <4> QED BY <3>1, <4>1 DEF Record!Offsets
    <3>2. CASE ~(N < 2)
      <4>1. \A x, y, z \in Nat : x >= 4 /\ y > 1 /\ x + y = z + 2 => x - 4 \in 0 .. z - 4
        BY SMT
      <4> QED BY <1>1, <2>1, <2>2, <3>2, <4>1 DEF Record!Offsets
    <3> QED BY <3>1, <3>2
  <2>4. ~(Len(line.pairs) < 3)
    BY <1>2, <1>4
  <2>5. Record!Named(line) = {Plus(A, k) : k \in Record!Offsets(line)}
    BY <2>4 DEF Record!Named, Record!Plus, Plus
  <2> HIDE DEF A, N
  <2> QED BY <2>1, <2>3, <2>5
<1> QED BY <1>2, <1>3, <1>4

LEMMA DataRefines == LoaderInv /\ LoaderInv' /\ data => [Records!Next]_Records!vars
<1> SUFFICES ASSUME LoaderInv, LoaderInv', data
             PROVE  Records!Next \/ UNCHANGED Records!vars
  OBVIOUS
<1>0. /\ at = "data" /\ UNCHANGED <<file, line, inrec, PC, report>>
      /\ line \in ShortLine /\ line.type \in {"0", "1"}
      /\ Doing = "record" /\ EntryAfter = PC
      /\ Record!IsComplete(line) => Applied
      /\ IsMemory(memory) /\ memory = [a \in DOMAIN memory |-> memory[a]]
  BY Mapping DEF data, LoaderInv, RecordInv, IInv, TypeOK
<1>9. Record!IsComplete(line)' = Record!IsComplete(line)
  BY <1>0 DEF Record!IsComplete, Record!Count
<1>1. CASE at' = "last_byte"
  <2>1. UNCHANGED <<memory, nibble>>
    BY <1>0, <1>1 DEF data
  <2>2. Doing' = "record" /\ EntryAfter' = PC /\ MemoryAfter' = memory
    BY <1>0, <1>1, <2>1, MappingNext
  <2>3. MemoryAfter = memory
    <3>1. CASE line.type = "1" /\ Record!IsComplete(line)
      <4> DEFINE N == Record!Count(line)
      <4>1. nibble = N + 1 /\ N \in 3 .. 255
        <5>1. nibble' = Record!Count(line)' + 1
          BY <1>1, <1>9, <3>1 DEF LoaderInv, RecordInv
        <5>2. Record!Count(line)' = Record!Count(line)
          BY <1>0 DEF Record!Count
        <5> QED BY <1>0, <2>1, <3>1, <5>1, <5>2, CompleteType
      <4>2. 0 .. nibble - 4 - 1 = Record!Offsets(line)
        <5> HIDE DEF N
        <5>1. nibble - 4 - 1 = N - 4
          BY <4>1
        <5>2. ~(N < 2)
          BY <4>1
        <5> QED BY <5>1, <5>2 DEF Record!Offsets, N
      <4>3. \A k \in Record!Offsets(line) :
              /\ Plus(Record!AddressOf(line), k) \in DOMAIN memory
              /\ memory[Plus(Record!AddressOf(line), k)] = line.pairs[4 + k]
        BY <1>0, <3>1, <4>2 DEF Applied, pos_data
      <4>4. Record!With(memory, line) = memory
        BY <1>0, <3>1, <4>3, WithAll
      <4> QED BY <1>0, <3>1, <4>4 DEF MemoryAfter
    <3>2. CASE ~(line.type = "1" /\ Record!IsComplete(line))
      BY <3>2 DEF MemoryAfter
    <3> QED BY <3>1, <3>2
  <2> QED BY <1>0, <2>2, <2>3 DEF Records!vars
<1>2. CASE at' = "undefined"
  <2>1. nibble > Slots /\ UNCHANGED memory
    BY <1>0, <1>2 DEF data
  <2>2. ~Record!IsComplete(line)
    <3>1. SUFFICES ASSUME Record!IsComplete(line) PROVE FALSE
      OBVIOUS
    <3>2. Record!Count(line) \in 3 .. 255 /\ Record!Count(line) < Len(line.pairs)
      BY <1>0, <3>1, CompleteType
    <3>3. Len(line.pairs) \in Nat /\ Len(line.pairs) < Slots
      BY <1>0, LineType
    <3>4. nibble <= Record!Count(line) + 1 /\ nibble \in 0 .. Slots + 1
      BY <1>0, <3>1 DEF Applied, LoaderInv, IInv, TypeOK
    <3>5. \A c \in 3 .. 255, l, s \in Nat : \A n \in 0 .. s + 1 :
            c < l /\ l < s /\ n <= c + 1 => ~(n > s)
      BY SMT
    <3> QED BY <2>1, <3>2, <3>3, <3>4, <3>5, LoaderAssumption
  <2>3. /\ Doing' = "failed" /\ EntryAfter' = PC /\ MemoryAfter' = memory
        /\ MemoryAfter = memory
    BY <1>0, <1>2, <2>1, <2>2, MappingNext DEF MemoryAfter
  <2>4. Records!Fail
    BY <1>0, <2>2, <2>3, SameRecord DEF Records!Fail
  <2> QED BY <2>4 DEF Records!Next
<1>3. CASE at' = "data"
  <2>1. Doing' = "record" /\ EntryAfter' = PC
    BY <1>0, <1>3, MappingNext
  <2>2. len > 1 /\ nibble <= Slots /\ data_b' = Scan(nibble, data_b)
    BY <1>0, <1>3 DEF data, MoreData
  <2>3. CASE line.type # "1"
    <3>1. memory' = memory
      BY <1>0, <1>3, <2>3 DEF data
    <3>2. MemoryAfter' = memory /\ MemoryAfter = memory
      BY <1>0, <2>3, <3>1 DEF MemoryAfter
    <3> QED BY <1>0, <2>1, <3>2 DEF Records!vars
  <2>4. CASE line.type = "1"
    <3>1. memory' = WriteBus(memory, address, data_b', 1) /\ data_b' \in Byte
      BY <1>0, <1>3, <2>4 DEF data, LoaderInv, IInv, TypeOK
    <3>2. address \in Record!Named(line)
      BY <1>0, <2>2, <2>4, AddressNamed
    <3>3. CASE Record!IsComplete(line)
      <4>1. Record!With(memory', line) = Record!With(memory, line)
        BY <3>1, <3>2, WithOneMore
      <4>2. MemoryAfter = Record!With(memory, line)
        BY <1>0, <2>4, <3>3 DEF MemoryAfter
      <4>3. MemoryAfter' = Record!With(memory', line)
        BY <1>0, <1>3, <1>9, <2>4, <3>3
        DEF MemoryAfter, Record!With, Record!Named, Record!AddressOf, Record!Offsets,
            Record!Count
      <4> QED BY <1>0, <2>1, <4>1, <4>2, <4>3 DEF Records!vars
    <3>4. CASE ~Record!IsComplete(line)
      <4>1. MemoryAfter = memory /\ MemoryAfter' = memory'
        BY <1>0, <1>9, <3>4 DEF MemoryAfter
      <4>2. /\ \A b : b \in DOMAIN memory' <=> b \in DOMAIN memory \/ b = address
            /\ \A b \in DOMAIN memory : b # address => memory'[b] = memory[b]
        BY <3>1, ByteStored
      <4>3. \A b : b # address => Records!ByteAt(memory', b) = Records!ByteAt(memory, b)
        BY <4>2 DEF Records!ByteAt
      <4>4. Records!Spoil
        BY <1>0, <2>1, <3>2, <3>4, <4>1, <4>3, SameRecord DEF Records!Spoil
      <4> QED BY <4>4 DEF Records!Next
    <3> QED BY <3>3, <3>4
  <2> QED BY <2>3, <2>4
<1>4. at' \in {"last_byte", "undefined", "data"}
  BY <1>0 DEF data
<1> QED BY <1>1, <1>2, <1>3, <1>4

LEMMA InitRefines == Init => Records!Init
<1> SUFFICES ASSUME Init PROVE Records!Init
  OBVIOUS
<1>1. at = "load_file" /\ memory = <<>> /\ PC = 0
  BY DEF Init
<1>2. Doing = "closed" /\ MemoryAfter = <<>> /\ EntryAfter = 0
  BY <1>1, Mapping
<1> QED BY <1>2 DEF Init, Records!Init

LEMMA StepRefines == LoaderInv /\ LoaderInv' /\ [Next]_vars => [Records!Next]_Records!vars
<1> SUFFICES ASSUME LoaderInv, LoaderInv', [Next]_vars
             PROVE  [Records!Next]_Records!vars
  OBVIOUS
<1>1. CASE load_file
  BY <1>1, OpenRefines DEF Records!Next
<1>2. CASE fgets
  BY <1>2, FgetsRefines
<1>3. CASE header
  BY <1>3, HeaderRefines
<1>4. CASE data
  BY <1>4, DataRefines
<1>5. CASE check
  BY <1>5, CheckRefines
<1>6. CASE UNCHANGED vars
  <2>1. UNCHANGED <<file, line, report, at, memory, PC>>
    BY <1>6 DEF vars, loaded
  <2>2. Doing' = Doing
    BY <2>1 DEF Doing
  <2>3. MemoryAfter' = MemoryAfter /\ EntryAfter' = EntryAfter
    BY <2>1 DEF MemoryAfter, EntryAfter, Record!IsComplete, Record!Count, Record!With,
                Record!Named, Record!AddressOf, Record!Offsets
  <2> QED BY <2>1, <2>2, <2>3 DEF Records!vars
<1> QED BY <1>1, <1>2, <1>3, <1>4, <1>5, <1>6 DEF Next

(* The loader implements SRecords: whatever earlier records left in the line
   buffer and the variables, a complete record puts exactly its bytes at its
   addresses or sets the entry point, and is judged by the sum of its own
   bytes; one that is not complete spoils only what its header names.      *)
THEOREM RecordsAreLoaded == Spec => ImplementsSRecords
<1>1. Init => Records!Init
  BY InitRefines
<1>2. LoaderInv /\ LoaderInv' /\ [Next]_vars => [Records!Next]_Records!vars
  BY StepRefines
<1> QED
  BY InitLoaderInv, NextLoaderInv, <1>1, <1>2, PTL
  DEF Spec, ImplementsSRecords, Records!Spec

-----------------------------------------------------------------------------
(* The end of loading. *)

(* A line read is a line less to read, and has at most as many steps of its
   own as there are slots.                                                 *)
LEMMA StepsLeftFalls ==
  ASSUME IInv, Next, at # "load_file"
  PROVE  StepsLeft' \in 0 .. StepsLeft - 1
<1> DEFINE L(n) == (Slots + 1) * n
<1>1. file \in Seq(Line) /\ Len(file) \in Nat /\ Slots \in Nat /\ Slots >= 4
  BY LoaderAssumption DEF IInv, Lined
<1>2. \A n \in Nat : L(n) \in Nat /\ L(n + 1) = L(n) + Slots + 1
  BY <1>1, SMT
<1>3. nibble \in 0 .. Slots + 1
  BY DEF IInv, TypeOK
<1>4. /\ StepsLeft = CASE at = "fgets"     -> L(Len(file)) + 1
                       [] at = "header"    -> L(Len(file)) + Slots + 1
                       [] at = "data"      -> L(Len(file)) + Slots + 1 - nibble + 3
                       [] at = "last_byte" -> L(Len(file)) + 2
                       [] OTHER            -> 0
      /\ StepsLeft' = CASE at' = "fgets"     -> L(Len(file')) + 1
                        [] at' = "header"    -> L(Len(file')) + Slots + 1
                        [] at' = "data"      -> L(Len(file')) + Slots + 1 - nibble' + 3
                        [] at' = "last_byte" -> L(Len(file')) + 2
                        [] OTHER             -> 0
  BY DEF StepsLeft
<1> HIDE DEF L
<1>5. CASE fgets
  <2>1. CASE file = <<>>
    <3>1. at = "fgets" /\ at' = "menu"
      BY <1>5, <2>1 DEF fgets
    <3>2. StepsLeft = L(Len(file)) + 1 /\ StepsLeft' = 0
      BY <1>4, <3>1
    <3> QED BY <1>1, <1>2, <3>2
  <2>2. CASE file # <<>>
    <3>1. /\ at = "fgets" /\ at' \in {"fgets", "header", "last_byte"}
          /\ file' = Tail(file)
      BY <1>5, <2>2 DEF fgets, Rest
    <3>2. PICK n \in Nat : Len(file) = n + 1 /\ Len(file') = n
      BY <1>1, <2>2, <3>1
    <3>3. StepsLeft = L(n) + Slots + 1 + 1
      BY <1>2, <1>4, <3>1, <3>2
    <3>4. StepsLeft' \in {L(n) + 1, L(n) + Slots + 1, L(n) + 2}
      BY <1>4, <3>1, <3>2
    <3>5. L(n) \in Nat
      BY <1>2
    <3> QED BY <1>1, <3>3, <3>4, <3>5
  <2> QED BY <2>1, <2>2
<1>6. PICK l \in Nat : l = L(Len(file))
  BY <1>1, <1>2
<1>7. CASE header
  <2>1. /\ at = "header" /\ file' = file /\ nibble' = 4
        /\ at' \in {"last_byte", "data"}
    BY <1>7 DEF header, pos_data
  <2>2. StepsLeft = l + Slots + 1 /\ StepsLeft' \in {l + 2, l + Slots}
    BY <1>1, <1>4, <1>6, <2>1
  <2> QED BY <1>1, <2>2
<1>8. CASE data
  <2>1. at = "data" /\ file' = file
    BY <1>8 DEF data
  <2>2. \/ at' \in {"last_byte", "undefined"}
        \/ at' = "data" /\ nibble <= Slots /\ nibble' = nibble + 1
    BY <1>8 DEF data
  <2>3. StepsLeft = l + Slots + 1 - nibble + 3
    BY <1>4, <1>6, <2>1
  <2>4. CASE at' = "data"
    <3>1. StepsLeft' = l + Slots + 1 - nibble' + 3
      BY <1>4, <1>6, <2>1, <2>4
    <3> QED BY <1>1, <1>3, <2>2, <2>3, <2>4, <3>1
  <2>5. CASE at' # "data"
    <3>1. StepsLeft' \in {l + 2, 0}
      BY <1>4, <1>6, <2>1, <2>2, <2>5
    <3> QED BY <1>1, <1>3, <2>3, <3>1
  <2> QED BY <2>4, <2>5
<1>9. CASE check
  <2>1. at = "last_byte" /\ file' = file /\ at' \in {"fgets", "undefined"}
    BY <1>9 DEF check
  <2>2. StepsLeft = l + 2 /\ StepsLeft' \in {l + 1, 0}
    BY <1>4, <1>6, <2>1
  <2> QED BY <2>2
<1> QED BY <1>5, <1>7, <1>8, <1>9 DEF Next, load_file

(* For every set of files: loading is over, or has left what is defined, after
   as many steps for each line of the file as the line buffer has slots,
   whatever its records claim of their length.                             *)
THEOREM LoadingEnds == Spec => LoadsSoon
<1>1. IInv /\ [Next]_vars => [at # "load_file" => StepsLeft' \in 0 .. StepsLeft - 1]_vars
  BY StepsLeftFalls
<1> QED
  BY InitIInv, NextIInv, <1>1, PTL DEF Spec, LoadsSoon
=============================================================================
