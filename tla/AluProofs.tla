------------------------------ MODULE AluProofs ------------------------------
(***************************************************************************)
(* The flags and conditions of the arithmetic instructions, for every pair *)
(* of operands.                                                            *)
(***************************************************************************)
EXTENDS MCAlu, TLAPS

(* The values an operand of the width has. *)
Operand(w) == {x \in Nat : x < Span(w)}

(* The sign of a word of either width tells its half of the range. *)
LEMMA SignOf ==
  ASSUME NEW x \in Word16, NEW w \in {0, 1}
  PROVE  /\ Cut(x, w) \in Operand(w)
         /\ Sign(x, w) = IF 2 * Cut(x, w) >= Span(w) THEN 1 ELSE 0
<1>0. x \in Int /\ 0 <= x /\ x < 65536
  BY DEF Word16
<1>1. CASE w = 0
  <2>1. Span(w) = 65536
    BY <1>1 DEF Span
  <2>2. x % 65536 = x
    BY <1>0, SMT
  <2>3. Cut(x, w) = x
    BY <1>1, <2>2 DEF Cut
  <2>4. Sign(x, w) = (x \div 32768) % 2
    BY <1>1, <1>0, SMT DEF Sign, B
  <2>5. (x \div 32768) % 2 = IF 2 * x >= 65536 THEN 1 ELSE 0
    BY <1>0, SMT
  <2>6. Cut(x, w) \in Operand(w)
    BY <1>0, <2>1, <2>3 DEF Operand
  <2>7. 2 * Cut(x, w) >= Span(w) <=> 2 * x >= 65536
    BY <2>1, <2>3
  <2> QED BY <2>4, <2>5, <2>6, <2>7
<1>2. CASE w = 1
  <2>1. Span(w) = 256
    BY <1>2 DEF Span
  <2>2. x % 256 \in Nat /\ x % 256 < 256
    BY <1>0, SMT
  <2>3. Cut(x, w) = x % 256
    BY <1>2 DEF Cut
  <2>4. Sign(x, w) = (x \div 128) % 2
    BY <1>2, <1>0, SMT DEF Sign, B
  <2>5. (x \div 128) % 2 = IF 2 * (x % 256) >= 256 THEN 1 ELSE 0
    BY <1>0, SMT
  <2>6. Cut(x, w) \in Operand(w)
    BY <2>1, <2>2, <2>3 DEF Operand
  <2>7. 2 * Cut(x, w) >= Span(w) <=> 2 * (x % 256) >= 256
    BY <2>1, <2>3
  <2> QED BY <2>4, <2>5, <2>6, <2>7
<1> QED
  BY <1>1, <1>2

(* The tables carry and overflow, as the condition each computes. *)
LEMMA FlagTables ==
  ASSUME NEW src \in Word16, NEW dst \in Word16, NEW res \in Word16,
         NEW w \in {0, 1}
  PROVE  LET f == update_psw(src, dst, res, w)
             a == Sign(src, w)  b == Sign(dst, w)  r == Sign(res, w)
         IN  /\ f.c = IF a + b + (1 - r) >= 2 THEN 1 ELSE 0
             /\ f.v = IF a = b /\ r # a THEN 1 ELSE 0
             /\ f.n = r
             /\ f.z = IF Cut(res, w) = 0 THEN 1 ELSE 0
<1> DEFINE a == Sign(src, w)
           b == Sign(dst, w)
           r == Sign(res, w)
<1>1. a \in {0, 1} /\ b \in {0, 1} /\ r \in {0, 1}
  BY SignOf
<1>2. <<a, b, r>> \in carry <=> a + b + (1 - r) >= 2
  <2> HIDE DEF a, b, r
  <2> QED BY <1>1, SMT DEF carry
<1>3. <<a, b, r>> \in overflow <=> a = b /\ r # a
  <2> HIDE DEF a, b, r
  <2> QED BY <1>1, SMT DEF overflow
<1> QED
  BY <1>2, <1>3 DEF update_psw

(* Adding x to y, the flags taken from the signs of x, y and the sum. *)
LEMMA SumIsSum ==
  ASSUME NEW w \in {0, 1}, NEW x \in Operand(w), NEW y \in Operand(w)
  PROVE  LET r == Cut(y + x, w)
         IN  IsSum(r, update_psw(x, y, r, w), x + y,
                   Signed(x, w) + Signed(y, w), w)
<1> DEFINE r == Cut(y + x, w)
           f == update_psw(x, y, r, w)
<1>0. /\ Span(w) \in {256, 65536}
      /\ x \in Int /\ 0 <= x /\ x < Span(w)
      /\ y \in Int /\ 0 <= y /\ y < Span(w)
  BY SMT DEF Operand, Span
<1>1. /\ x \in Word16 /\ y \in Word16 /\ r \in Word16 /\ r \in Operand(w)
      /\ r = IF x + y >= Span(w) THEN x + y - Span(w) ELSE x + y
  <2>1. r = (y + x) % Span(w)
    BY DEF Cut, Span
  <2>2. r = IF x + y >= Span(w) THEN x + y - Span(w) ELSE x + y
    <3>1. CASE Span(w) = 256
      BY <1>0, <2>1, <3>1, SMT
    <3>2. CASE Span(w) = 65536
      BY <1>0, <2>1, <3>2, SMT
    <3> QED BY <1>0, <3>1, <3>2
  <2> HIDE DEF r
  <2>3. r \in Int /\ 0 <= r /\ r < Span(w)
    BY <1>0, <2>2, SMT
  <2> QED BY <1>0, <2>2, <2>3, SMT DEF Word16, Operand
<1>2. Cut(x, w) = x /\ Cut(y, w) = y /\ Cut(r, w) = r
  <2>1. \A z \in Operand(w) : Cut(z, w) = z
    BY SMT DEF Operand, Span, Cut
  <2> QED BY <1>1, <2>1
<1>3. /\ f.c = IF Sign(x, w) + Sign(y, w) + (1 - Sign(r, w)) >= 2 THEN 1 ELSE 0
      /\ f.v = IF Sign(x, w) = Sign(y, w) /\ Sign(r, w) # Sign(x, w) THEN 1 ELSE 0
      /\ f.n = Sign(r, w)
      /\ f.z = IF r = 0 THEN 1 ELSE 0
  <2> HIDE DEF r
  <2> QED BY <1>1, <1>2, FlagTables
<1>4. /\ Sign(x, w) = IF 2 * x >= Span(w) THEN 1 ELSE 0
      /\ Sign(y, w) = IF 2 * y >= Span(w) THEN 1 ELSE 0
      /\ Sign(r, w) = IF 2 * r >= Span(w) THEN 1 ELSE 0
  <2> HIDE DEF r
  <2> QED BY <1>1, <1>2, SignOf
<1>5. Span(w) \in {256, 65536} /\ r = (x + y) % Span(w)
  BY SMT DEF Span, Cut, Operand
<1>6. IsSum(r, f, x + y, Signed(x, w) + Signed(y, w), w)
  <2> HIDE DEF r, f
  <2>1. x \in Nat /\ y \in Nat /\ r \in Nat /\ x < Span(w) /\ y < Span(w) /\ r < Span(w)
    BY <1>1 DEF Operand
  <2>2. f.c = 1 <=> x + y >= Span(w)
    BY <1>1, <1>3, <1>4, <1>5, <2>1, SMT
  <2>3. f.v = 1 <=> ~InRange(Signed(x, w) + Signed(y, w), w)
    BY <1>1, <1>3, <1>4, <1>5, <2>1, SMT DEF InRange, Signed
  <2>4. f.z = 1 <=> r = 0
    BY <1>3
  <2>5. f.n = 1 <=> Signed(r, w) < 0
    BY <1>3, <1>4, <1>5, <2>1, SMT DEF Signed
  <2> QED BY <1>5, <2>2, <2>3, <2>4, <2>5 DEF IsSum
<1> QED
  BY <1>6

(* CMP and SUB add the two's complement of the source, from whose sign the
   flags are taken: they compare unless the source is 0 or the number that
   is its own complement.                                                  *)
LEMMA DifferenceCompares ==
  ASSUME NEW w \in {0, 1}, NEW x \in Operand(w), NEW y \in Operand(w),
         2 * x \notin {0, Span(w)}
  PROVE  LET n == Plus(BitNot(x), 1)
         IN  Compares(update_psw(n, y, Cut(y + n, w), w), x, y, w)
<1> DEFINE n == Plus(BitNot(x), 1)
           r == Cut(y + n, w)
           f == update_psw(n, y, r, w)
<1>0. /\ Span(w) \in {256, 65536}
      /\ x \in Int /\ 0 < x /\ x < Span(w) /\ 2 * x # Span(w)
      /\ y \in Int /\ 0 <= y /\ y < Span(w)
  BY SMT DEF Operand, Span
<1>1. n = 65536 - x /\ n \in Word16
  <2>1. n = (65536 - x) % 65536
    BY <1>0, SMT DEF Plus, BitNot
  <2>2. n = 65536 - x
    BY <1>0, <2>1, SMT
  <2> HIDE DEF n
  <2> QED BY <1>0, <2>2, SMT DEF Word16
<1>2. /\ Cut(n, w) = Span(w) - x
      /\ r = IF y >= x THEN y - x ELSE y - x + Span(w)
  <2> HIDE DEF n
  <2>1. CASE w = 0
    <3>1. Span(w) = 65536 /\ Cut(n, w) = n % 65536 /\ r = (y + n) % 65536
      BY <2>1 DEF Span, Cut
    <3> QED BY <1>0, <1>1, <3>1, SMT
  <2>2. CASE w = 1
    <3>1. Span(w) = 256 /\ Cut(n, w) = n % 256 /\ r = (y + n) % 256
      BY <2>2 DEF Span, Cut
    <3> QED BY <1>0, <1>1, <3>1, SMT
  <2> QED BY <2>1, <2>2
<1>3. /\ x \in Word16 /\ y \in Word16 /\ r \in Word16 /\ r \in Operand(w)
      /\ Cut(x, w) = x /\ Cut(y, w) = y /\ Cut(r, w) = r
  <2> HIDE DEF r
  <2>1. r \in Int /\ 0 <= r /\ r < Span(w)
    BY <1>0, <1>2, SMT
  <2>2. \A z \in Operand(w) : Cut(z, w) = z
    BY SMT DEF Operand, Span, Cut
  <2>3. x \in Word16 /\ y \in Word16 /\ r \in Word16 /\ r \in Operand(w)
    BY <1>0, <2>1, SMT DEF Word16, Operand
  <2> QED BY <2>2, <2>3
<1> HIDE DEF n, r, f
<1>4. /\ f.c = IF Sign(n, w) + Sign(y, w) + (1 - Sign(r, w)) >= 2 THEN 1 ELSE 0
      /\ f.v = IF Sign(n, w) = Sign(y, w) /\ Sign(r, w) # Sign(n, w) THEN 1 ELSE 0
      /\ f.n = Sign(r, w)
      /\ f.z = IF r = 0 THEN 1 ELSE 0
  BY <1>1, <1>3, FlagTables DEF f
<1>5. /\ Sign(x, w) = IF 2 * x >= Span(w) THEN 1 ELSE 0
      /\ Sign(y, w) = IF 2 * y >= Span(w) THEN 1 ELSE 0
      /\ Sign(r, w) = IF 2 * r >= Span(w) THEN 1 ELSE 0
      /\ Sign(n, w) = IF 2 * (Span(w) - x) >= Span(w) THEN 1 ELSE 0
  BY <1>1, <1>2, <1>3, SignOf
<1>6. /\ f.z = 1 <=> y = x
      /\ f.c = 1 <=> y >= x
      /\ f.n # f.v <=> Signed(y, w) < Signed(x, w)
      /\ f.z \in {0, 1} /\ f.c \in {0, 1}
  <2>1. f.z = 1 <=> y = x
    BY <1>0, <1>2, <1>4, SMT
  <2>2. f.c = 1 <=> y >= x
    BY <1>0, <1>2, <1>4, <1>5, SMT
  <2>3. f.n # f.v <=> Signed(y, w) < Signed(x, w)
    BY <1>0, <1>2, <1>4, <1>5, SMT DEF Signed
  <2> QED BY <2>1, <2>2, <2>3, <1>4
<1>7. Signed(x, w) \in Int /\ Signed(y, w) \in Int
      /\ (Signed(x, w) = Signed(y, w) <=> x = y)
  BY <1>0, <1>5, SMT DEF Signed
<1>8. Compares(f, x, y, w)
  BY <1>0, <1>6, <1>7, SMT DEF Compares, Condition
<1> QED
  BY <1>8 DEF n, r, f

-----------------------------------------------------------------------------
(* What every state of the instance satisfies: operands of the width, and
   once executed what Alu computes from them.                              *)
Computed ==
  /\ op \in Operations /\ wb \in {0, 1} /\ c \in {0, 1}
  /\ s \in Operand(Width) /\ d \in Operand(Width)
  /\ result # -1 => /\ result = Result(op, s, d, c, wb)
                    /\ flags = Flags(op, s, d, c, wb)

LEMMA AlwaysComputed == Spec => []Computed
<1>1. Init => Computed
  <2> SUFFICES ASSUME Init PROVE Computed
    OBVIOUS
  <2>1. \A x \in Values : Cut(x, Width) \in Operand(Width)
    BY AluAssumption, SignOf DEF Init, Width
  <2> QED BY <2>1, AluAssumption DEF Init, Computed
<1>2. Computed /\ [Execute]_<<op, s, d, c, wb, result, flags>> => Computed'
  <2> SUFFICES ASSUME Computed, [Execute]_<<op, s, d, c, wb, result, flags>>
               PROVE  Computed'
    OBVIOUS
  <2>1. CASE Execute
    BY <2>1 DEF Computed, Execute, Width
  <2>2. CASE UNCHANGED <<op, s, d, c, wb, result, flags>>
    BY <2>2 DEF Computed, Width
  <2> QED BY <2>1, <2>2
<1> QED
  BY <1>1, <1>2, PTL DEF Spec

(* Cutting an operand again changes nothing. *)
LEMMA CutTwice ==
  ASSUME NEW w \in {0, 1}, NEW x \in Operand(w)
  PROVE  Cut(x, w) = x
BY SMT DEF Operand, Span, Cut

(* For every pair of operands of either width: the sum, carry, overflow,
   zero and negative flags of ADD and ADDC ("Arithmetic and Logic
   Execution.c" and the tables of "PSW code.c") are those of the integers. *)
THEOREM AddIsAddition == Spec => []AddRight
<1>1. Computed => AddRight
  <2> SUFFICES ASSUME Computed, result # -1, op \in {"ADD", "ADDC"}
               PROVE  AddRight
    BY DEF AddRight, Executed
  <2>0. /\ wb \in {0, 1} /\ c \in {0, 1} /\ s \in Operand(wb) /\ d \in Operand(wb)
        /\ Cut(s, wb) = s /\ Cut(d, wb) = d
        /\ result = Result(op, s, d, c, wb) /\ flags = Flags(op, s, d, c, wb)
    BY CutTwice DEF Computed, Width
  <2>1. ASSUME op = "ADD"
        PROVE  IsSum(result, flags, s + d, Signed(s, wb) + Signed(d, wb), wb)
    <3>1. /\ result = Cut(d + s, wb)
          /\ flags = update_psw(s, d, result, wb)
      BY <2>0, <2>1 DEF Result, Flags, Combine, Addend
    <3> QED BY <2>0, <3>1, SumIsSum
  <2>2. ASSUME op = "ADDC", 2 * (s + 1) \notin {Span(wb), 2 * Span(wb)}
        PROVE  IsSum(result, flags, s + d + c,
                     Signed(s, wb) + Signed(d, wb) + c, wb)
    <3> DEFINE a == s + c
    <3>0. /\ Span(wb) \in {256, 65536}
          /\ s \in Int /\ 0 <= s /\ s < Span(wb) /\ d \in Int
          /\ 2 * (s + 1) # Span(wb) /\ 2 * (s + 1) # 2 * Span(wb)
      BY <2>0, <2>2, SMT DEF Operand, Span
    <3>1. Plus(s, c) = a /\ a \in Operand(wb)
      BY <2>0, <3>0, SMT DEF Plus, Operand
    <3>2. /\ result = Cut(d + a, wb)
          /\ flags = update_psw(a, d, result, wb)
      BY <2>0, <2>2, <3>1 DEF Result, Flags, Combine, Addend
    <3>3. /\ Signed(a, wb) = Signed(s, wb) + c
          /\ Signed(s, wb) \in Int /\ Signed(d, wb) \in Int
      <4>1. s \in Word16 /\ a \in Word16 /\ d \in Word16
        BY <2>0, <3>0, <3>1, SMT DEF Word16, Operand
      <4>2. Cut(a, wb) = a
        BY <3>1, CutTwice, <2>0
      <4>3. /\ Sign(s, wb) = IF 2 * s >= Span(wb) THEN 1 ELSE 0
            /\ Sign(a, wb) = IF 2 * a >= Span(wb) THEN 1 ELSE 0
        BY <2>0, <4>1, <4>2, SignOf
      <4> QED BY <2>0, <3>0, <4>3, SMT DEF Signed
    <3>4. IsSum(result, flags, a + d, Signed(a, wb) + Signed(d, wb), wb)
      BY <2>0, <3>1, <3>2, SumIsSum
    <3>5. /\ a + d = s + d + c
          /\ Signed(a, wb) + Signed(d, wb) = Signed(s, wb) + Signed(d, wb) + c
      BY <2>0, <3>0, <3>3, SMT
    <3> QED BY <3>4, <3>5
  <2> QED BY <2>1, <2>2 DEF AddRight, Executed
<1> QED
  BY <1>1, AlwaysComputed, PTL

(* For every pair of operands of either width whose source is neither 0 nor
   the most negative number: after CMP or SUB the conditions of CEX
   (Register_Operations.c) compare the operands.                           *)
THEOREM CompareCompares == Spec => []CompareRight
<1>1. Computed => CompareRight
  <2> SUFFICES ASSUME Computed, result # -1, op \in {"CMP", "SUB"},
                      2 * s \notin {0, Span(wb)}
               PROVE  Compares(flags, s, d, wb)
    BY DEF CompareRight, Executed
  <2>0. /\ wb \in {0, 1} /\ c \in {0, 1} /\ s \in Operand(wb) /\ d \in Operand(wb)
        /\ Cut(s, wb) = s /\ Cut(d, wb) = d
        /\ flags = Flags(op, s, d, c, wb)
    BY CutTwice DEF Computed, Width
  <2>1. flags = update_psw(Plus(BitNot(s), 1), d,
                           Cut(d + Plus(BitNot(s), 1), wb), wb)
    BY <2>0 DEF Flags, Result, Combine, Addend
  <2> QED BY <2>0, <2>1, DifferenceCompares
<1> QED
  BY <1>1, AlwaysComputed, PTL

-----------------------------------------------------------------------------
(* One column of a decimal sum: the digit DADD leaves and the half carry it
   hands to the next column.                                               *)
LEMMA DecimalColumn ==
  ASSUME NEW x \in 0 .. 9, NEW y \in 0 .. 9, NEW h \in {0, 1}
  PROVE  /\ HalfCarry(x + y + h) \in {0, 1}
         /\ (x + y + h - 10 * HalfCarry(x + y + h)) % 16 \in 0 .. 9
         /\ x + y + h = ((x + y + h - 10 * HalfCarry(x + y + h)) % 16)
                          + 10 * HalfCarry(x + y + h)
BY SMT DEF HalfCarry

LEMMA SumIsDecimal ==
  ASSUME NEW x \in Word16, NEW y \in Word16, NEW h \in {0, 1},
         IsDecimal(x), IsDecimal(y)
  PROVE  /\ DecimalSum(x, y, h) \in Word16
         /\ IsDecimal(DecimalSum(x, y, h))
         /\ Decimal(DecimalSum(x, y, h)) = (Decimal(x) + Decimal(y) + h) % 10000
<1> DEFINE x0 == Nibble(x, 0)
           x1 == Nibble(x, 1)
           x2 == Nibble(x, 2)
           x3 == Nibble(x, 3)
           y0 == Nibble(y, 0)
           y1 == Nibble(y, 1)
           y2 == Nibble(y, 2)
           y3 == Nibble(y, 3)
           sum(k, g)   == Nibble(x, k) + Nibble(y, k) + g
           half(k, g)  == HalfCarry(sum(k, g))
           digit(k, g) == (sum(k, g) - 10 * half(k, g)) % 16
           h1 == half(0, h)
           h2 == half(1, h1)
           h3 == half(2, h2)
           h4 == half(3, h3)
           z0 == digit(0, h)
           z1 == digit(1, h1)
           z2 == digit(2, h2)
           z3 == digit(3, h3)
           z  == z0 + 16 * z1 + 256 * z2 + 4096 * z3
<1>1. /\ x0 \in 0 .. 9 /\ x1 \in 0 .. 9 /\ x2 \in 0 .. 9 /\ x3 \in 0 .. 9
      /\ y0 \in 0 .. 9 /\ y1 \in 0 .. 9 /\ y2 \in 0 .. 9 /\ y3 \in 0 .. 9
  <2>1. /\ x0 \in Nat /\ x1 \in Nat /\ x2 \in Nat /\ x3 \in Nat
        /\ y0 \in Nat /\ y1 \in Nat /\ y2 \in Nat /\ y3 \in Nat
    BY SMT DEF Nibble, Word16
  <2>2. 0 \in 0 .. 3 /\ 1 \in 0 .. 3 /\ 2 \in 0 .. 3 /\ 3 \in 0 .. 3
    BY SMT
  <2>3. /\ x0 <= 9 /\ x1 <= 9 /\ x2 <= 9 /\ x3 <= 9
        /\ y0 <= 9 /\ y1 <= 9 /\ y2 <= 9 /\ y3 <= 9
    BY <2>2 DEF IsDecimal
  <2> HIDE DEF x0, x1, x2, x3, y0, y1, y2, y3
  <2> QED BY <2>1, <2>3, SMT
<1>2. /\ h1 \in {0, 1} /\ z0 \in 0 .. 9 /\ x0 + y0 + h = z0 + 10 * h1
  BY <1>1, DecimalColumn
<1>3. /\ h2 \in {0, 1} /\ z1 \in 0 .. 9 /\ x1 + y1 + h1 = z1 + 10 * h2
  BY <1>1, <1>2, DecimalColumn
<1>4. /\ h3 \in {0, 1} /\ z2 \in 0 .. 9 /\ x2 + y2 + h2 = z2 + 10 * h3
  BY <1>1, <1>3, DecimalColumn
<1>5. /\ h4 \in {0, 1} /\ z3 \in 0 .. 9 /\ x3 + y3 + h3 = z3 + 10 * h4
  BY <1>1, <1>4, DecimalColumn
<1>6. DecimalSum(x, y, h) = z
  BY DEF DecimalSum
<1> DEFINE sums == Decimal(x) + Decimal(y) + h
           res  == z0 + 10 * z1 + 100 * z2 + 1000 * z3
<1>7. sums = (x0 + 10 * x1 + 100 * x2 + 1000 * x3)
               + (y0 + 10 * y1 + 100 * y2 + 1000 * y3) + h
  BY DEF Decimal
<1> HIDE DEF x0, x1, x2, x3, y0, y1, y2, y3, sum, half, digit, h1, h2, h3, h4,
             z0, z1, z2, z3, sums
<1>8. /\ z \in Word16
      /\ Nibble(z, 0) = z0 /\ Nibble(z, 1) = z1
      /\ Nibble(z, 2) = z2 /\ Nibble(z, 3) = z3
  <2>1. z \in Word16
    BY <1>2, <1>3, <1>4, <1>5, SMT DEF Word16
  <2>2. Nibble(z, 0) = z0
    BY <1>2, <1>3, <1>4, <1>5, SMT DEF Nibble
  <2>3. Nibble(z, 1) = z1
    BY <1>2, <1>3, <1>4, <1>5, SMT DEF Nibble
  <2>4. Nibble(z, 2) = z2
    BY <1>2, <1>3, <1>4, <1>5, SMT DEF Nibble
  <2>5. Nibble(z, 3) = z3
    BY <1>2, <1>3, <1>4, <1>5, SMT DEF Nibble
  <2> QED BY <2>1, <2>2, <2>3, <2>4, <2>5
<1>9. res \in 0 .. 9999 /\ sums = res + 10000 * h4
  BY <1>1, <1>2, <1>3, <1>4, <1>5, <1>7, SMT
<1>10. Decimal(z) = res
  BY <1>8 DEF Decimal
<1> HIDE DEF z, res
<1>11. IsDecimal(z)
  <2> SUFFICES ASSUME NEW k \in 0 .. 3 PROVE Nibble(z, k) <= 9
    BY DEF IsDecimal
  <2>1. k = 0 \/ k = 1 \/ k = 2 \/ k = 3
    BY SMT
  <2>2. /\ Nibble(z, 0) <= 9 /\ Nibble(z, 1) <= 9
        /\ Nibble(z, 2) <= 9 /\ Nibble(z, 3) <= 9
    BY <1>2, <1>3, <1>4, <1>5, <1>8
  <2> QED BY <2>1, <2>2
<1>12. Decimal(z) = sums % 10000
  <2>1. CASE h4 = 0
    <3>1. sums = res
      BY <1>9, <2>1, SMT
    <3>2. res % 10000 = res
      BY <1>9, SMT
    <3> QED BY <1>10, <3>1, <3>2
  <2>2. CASE h4 = 1
    BY <1>9, <1>10, <2>2, SMT
  <2> QED BY <1>5, <2>1, <2>2
<1> QED
  BY <1>6, <1>8, <1>11, <1>12 DEF sums

(* For every pair of words of four decimal digits and either carry: DADD
   ("Arithmetic and Logic Execution.c"), in the form that keeps the word,
   leaves the four low digits of their decimal sum.                        *)
THEOREM DecimalAdds == Spec => []DecimalRight
<1>1. Computed => DecimalRight
  <2> SUFFICES ASSUME Computed, result # -1, op = "DADD", wb = 1,
                      IsDecimal(s), IsDecimal(d)
               PROVE  /\ IsDecimal(result)
                      /\ Decimal(result) = (Decimal(s) + Decimal(d) + c) % 10000
    BY DEF DecimalRight, Executed
  <2>1. s \in Word16 /\ d \in Word16 /\ c \in {0, 1}
    BY SMT DEF Computed, Width, Operand, Span, Word16
  <2>2. result = Cut(DecimalSum(s, d, c), 0)
    BY SMT DEF Computed, Result
  <2>3. \A x \in Word16 : Cut(x, 0) = x
    BY SMT DEF Cut, Word16
  <2> QED BY <2>1, <2>2, <2>3, SumIsDecimal
<1> QED
  BY <1>1, AlwaysComputed, PTL
=============================================================================
