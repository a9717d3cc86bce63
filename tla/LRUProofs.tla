------------------------------ MODULE LRUProofs ------------------------------
(***************************************************************************)
(* For any number of lines and any accesses, the usage counters of the     *)
(* associative cache are least-recently-used replacement.                  *)
(***************************************************************************)
EXTENDS CacheLRU, CacheProofs, FiniteSetTheorems, SequenceTheorems

-----------------------------------------------------------------------------
(* Lists of addresses. *)

(* The list s with its p-th element moved to the front, where it is a. *)
LEMMA MovedToFront ==
  ASSUME NEW S, NEW s \in Seq(S), NEW a \in S, NEW p \in 1 .. Len(s)
  PROVE  LET t == <<a>> \o Recency!RemoveAt(s, p)
         IN  /\ t \in Seq(S) /\ Len(t) = Len(s) /\ t[1] = a
             /\ \A k \in 1 .. p - 1 : t[k + 1] = s[k]
             /\ \A k \in p + 1 .. Len(s) : t[k] = s[k]
<1> DEFINE u == SubSeq(s, 1, p - 1)
           v == SubSeq(s, p + 1, Len(s))
<1>1. Len(s) \in Nat /\ \A k \in 1 .. Len(s) : s[k] \in S
  BY LenProperties
<1>2. /\ u \in Seq(S) /\ Len(u) = p - 1
      /\ \A k \in 1 .. p - 1 : u[k] = s[k]
  BY <1>1, SubSeqProperties
<1>3. /\ v \in Seq(S) /\ Len(v) = Len(s) - p
      /\ \A k \in 1 .. Len(s) - p : v[k] = s[p + k]
  BY <1>1, SubSeqProperties
<1> HIDE DEF u, v
<1>4. /\ u \o v \in Seq(S) /\ Len(u \o v) = Len(s) - 1
      /\ \A k \in 1 .. Len(s) - 1 : (u \o v)[k] = IF k <= p - 1 THEN u[k] ELSE v[k - (p - 1)]
  <2>1. /\ u \o v \in Seq(S) /\ Len(u \o v) = Len(u) + Len(v)
        /\ \A k \in 1 .. Len(u) + Len(v) : (u \o v)[k] = IF k <= Len(u) THEN u[k] ELSE v[k - Len(u)]
    BY <1>2, <1>3, ConcatProperties
  <2>2. Len(u) + Len(v) = Len(s) - 1
    BY <1>1, <1>2, <1>3
  <2> QED BY <1>2, <2>1, <2>2
<1> DEFINE w == u \o v
           t == <<a>> \o w
<1>5. /\ <<a>> \in Seq(S) /\ Len(<<a>>) = 1 /\ <<a>>[1] = a
  OBVIOUS
<1> HIDE DEF w
<1>6. /\ t \in Seq(S) /\ Len(t) = Len(s)
      /\ \A k \in 1 .. Len(s) : t[k] = IF k <= 1 THEN a ELSE w[k - 1]
  BY <1>1, <1>4, <1>5, ConcatProperties DEF w
<1> HIDE DEF t
<1>7. t[1] = a
  BY <1>1, <1>6
<1>8. ASSUME NEW k \in 1 .. p - 1 PROVE t[k + 1] = s[k]
  <2>1. t[k + 1] = w[k]
    BY <1>1, <1>6
  <2> QED BY <1>1, <1>2, <1>4, <2>1 DEF w
<1>9. ASSUME NEW k \in p + 1 .. Len(s) PROVE t[k] = s[k]
  <2>1. t[k] = w[k - 1]
    BY <1>1, <1>6
  <2>2. w[k - 1] = v[k - p]
    BY <1>1, <1>4 DEF w
  <2> QED BY <1>1, <1>3, <2>1, <2>2
<1> QED BY <1>6, <1>7, <1>8, <1>9 DEF t, w, u, v, Recency!RemoveAt

LEMMA PutInFront ==
  ASSUME NEW S, NEW s \in Seq(S), NEW a \in S
  PROVE  LET t == <<a>> \o s
         IN  /\ t \in Seq(S) /\ Len(t) = Len(s) + 1 /\ t[1] = a
             /\ \A k \in 1 .. Len(s) : t[k + 1] = s[k]
<1>1. <<a>> \in Seq(S) /\ Len(<<a>>) = 1 /\ <<a>>[1] = a /\ Len(s) \in Nat
  BY LenProperties
<1> DEFINE t == <<a>> \o s
<1>2. /\ t \in Seq(S) /\ Len(t) = 1 + Len(s)
      /\ \A k \in 1 .. 1 + Len(s) : t[k] = IF k <= 1 THEN a ELSE s[k - 1]
  BY <1>1, ConcatProperties
<1> HIDE DEF t
<1>3. Len(t) = Len(s) + 1 /\ t[1] = a /\ \A k \in 1 .. Len(s) : t[k + 1] = s[k]
  BY <1>1, <1>2
<1> QED BY <1>2, <1>3 DEF t

LEMMA OldestDropped ==
  ASSUME NEW S, NEW s \in Seq(S), Len(s) > 0
  PROVE  LET f == Recency!Front(s)
         IN  /\ f \in Seq(S) /\ Len(f) = Len(s) - 1
             /\ \A k \in 1 .. Len(s) - 1 : f[k] = s[k]
<1>1. Len(s) \in Nat /\ \A k \in 1 .. Len(s) : s[k] \in S
  BY LenProperties
<1> DEFINE f == SubSeq(s, 1, Len(s) - 1)
<1>2. /\ f \in Seq(S) /\ Len(f) = Len(s) - 1
      /\ \A k \in 1 .. Len(s) - 1 : f[k] = s[k]
  <2> DEFINE n == Len(s) - 1
  <2>1. n \in Int /\ n >= 0 /\ \A k \in 1 .. n : s[k] \in S
    BY <1>1
  <2> HIDE DEF n
  <2>2. /\ SubSeq(s, 1, n) \in Seq(S)
        /\ Len(SubSeq(s, 1, n)) = IF 1 <= n THEN n - 1 + 1 ELSE 0
        /\ \A k \in 1 .. n - 1 + 1 : SubSeq(s, 1, n)[k] = s[1 + k - 1]
    BY <2>1, SubSeqProperties
  <2>3. n - 1 + 1 = n /\ \A k \in 1 .. n : 1 + k - 1 = k
    BY <2>1
  <2>4. Len(SubSeq(s, 1, n)) = n /\ \A k \in 1 .. n : SubSeq(s, 1, n)[k] = s[k]
    BY <2>1, <2>2, <2>3
  <2> QED BY <2>2, <2>4 DEF n
<1> QED BY <1>2 DEF Recency!Front

-----------------------------------------------------------------------------
(* The array c of lines holds the addresses s, the k-th at the line whose
   counter is Lines - k: the counters of the n filled lines are the top n of
   the range, each taken once.                                             *)
Taken(c, j) == ~c[j].empty

Listed(c, n, s) ==
  /\ n \in 0 .. Lines /\ s \in Seq(Address) /\ Len(s) = n
  /\ \A j \in Line : c[j].empty <=> n <= j
  /\ \A j \in Line : Taken(c, j) =>
       /\ c[j].usage \in Lines - n .. Lines - 1
       /\ s[Lines - c[j].usage] = c[j].address
  /\ \A j, k \in Line : Taken(c, j) /\ Taken(c, k) /\ c[j].usage = c[k].usage => j = k
  /\ \A k \in 1 .. n : \E j \in Line : Taken(c, j) /\ c[j].usage = Lines - k

ListOf(c) ==
  LET filled == {i \in Line : ~c[i].empty}
  IN  [k \in 1 .. Cardinality(filled) |->
         c[CHOOSE i \in filled : c[i].usage = Lines - k].address]

(* The list of the mapping is that list. *)
LEMMA ListIsListed ==
  ASSUME NEW c, NEW n, NEW s, Listed(c, n, s)
  PROVE  ListOf(c) = s
<1> DEFINE filled == {i \in Line : ~c[i].empty}
           l == [k \in 1 .. Cardinality(filled) |->
                   c[CHOOSE i \in filled : c[i].usage = Lines - k].address]
<1>0. n \in 0 .. Lines /\ n \in Nat /\ Lines \in Nat /\ s \in Seq(Address) /\ Len(s) = n
  BY CacheAssumption DEF Listed
<1>1. filled = 0 .. n - 1
  BY <1>0 DEF Listed, Line
<1>2. Cardinality(filled) = n
  <2>1. 0 \in Int /\ n - 1 \in Int
    BY <1>0
  <2>2. Cardinality(0 .. n - 1) = IF 0 > n - 1 THEN 0 ELSE n - 1 - 0 + 1
    BY <2>1, FS_Interval
  <2>3. (IF 0 > n - 1 THEN 0 ELSE n - 1 - 0 + 1) = n
    BY <1>0
  <2> HIDE DEF filled
  <2> QED BY <1>1, <2>2, <2>3
<1>3. ASSUME NEW k \in 1 .. n PROVE l[k] = s[k]
  <2> DEFINE i == CHOOSE j \in filled : c[j].usage = Lines - k
  <2>1. \E j \in filled : c[j].usage = Lines - k
    BY <1>3 DEF Listed, Taken
  <2>2. i \in filled /\ c[i].usage = Lines - k
    BY <2>1
  <2>3. l[k] = c[i].address
    BY <1>2
  <2> HIDE DEF i, l
  <2>4. s[Lines - c[i].usage] = c[i].address
    BY <2>2 DEF Listed, Taken
  <2>5. Lines - (Lines - k) = k
    BY <1>0
  <2> QED BY <2>2, <2>3, <2>4, <2>5
<1>4. l = [k \in 1 .. n |-> l[k]] /\ s = [k \in 1 .. n |-> s[k]]
  BY <1>0, <1>2, LenProperties
<1>5. l = s
  BY <1>3, <1>4
<1> QED BY <1>5 DEF ListOf

LEMMA RecencyListIs ==
  ASSUME NEW n, NEW s
  PROVE  /\ cache_type = "ASSOCIATIVE" /\ Listed(cache, n, s) => RecencyList = s
         /\ cache_type' = "ASSOCIATIVE" /\ Listed(cache', n, s) => RecencyList' = s
<1>1. cache_type = "ASSOCIATIVE" => RecencyList = ListOf(cache)
  BY DEF RecencyList, ListOf, Filled
<1>2. cache_type' = "ASSOCIATIVE" => RecencyList' = ListOf(cache')
  BY DEF RecencyList, ListOf, Filled
<1> QED BY <1>1, <1>2, ListIsListed

-----------------------------------------------------------------------------
(* What an access does to the list.                                        *)

LEMMA ListedFacts ==
  ASSUME NEW c, NEW n, NEW s, Listed(c, n, s)
  PROVE  /\ n \in Nat /\ Lines \in Nat /\ n <= Lines
         /\ \A j \in Line : Taken(c, j) =>
              /\ c[j].usage \in Nat /\ c[j].usage <= Lines - 1
              /\ Lines - c[j].usage \in 1 .. n
              /\ c[j].address \in Address
<1>1. n \in Nat /\ Lines \in Nat /\ n <= Lines /\ s \in Seq(Address) /\ Len(s) = n
  BY CacheAssumption DEF Listed
<1>2. ASSUME NEW j \in Line, Taken(c, j)
      PROVE  /\ c[j].usage \in Nat /\ c[j].usage <= Lines - 1
             /\ Lines - c[j].usage \in 1 .. n
             /\ c[j].address \in Address
  <2>1. /\ c[j].usage \in Lines - n .. Lines - 1
        /\ s[Lines - c[j].usage] = c[j].address
    BY <1>2 DEF Listed
  <2>2. /\ c[j].usage \in Nat /\ c[j].usage <= Lines - 1
        /\ Lines - c[j].usage \in 1 .. n
    BY <1>1, <2>1
  <2>3. s[Lines - c[j].usage] \in Address
    BY <1>1, <2>2, ElementOfSeq
  <2> QED BY <2>1, <2>2, <2>3
<1> QED BY <1>1, <1>2

(* A hit on line i, the p-th of the list. *)
LEMMA HitListed ==
  ASSUME NEW c, NEW e, NEW n, NEW s, Listed(c, n, s),
         NEW i \in Line, Taken(c, i),
         \A j \in Line : e[j].empty <=> c[j].empty,
         \A j \in Line : Taken(c, j) =>
           /\ e[j].address = c[j].address
           /\ e[j].usage = IF j = i THEN Lines - 1
                           ELSE IF c[j].usage > c[i].usage THEN c[j].usage - 1
                           ELSE c[j].usage
  PROVE  LET p == Lines - c[i].usage
         IN  /\ p \in DOMAIN s /\ s[p] = c[i].address
             /\ Listed(e, n, <<c[i].address>> \o Recency!RemoveAt(s, p))
<1> DEFINE p == Lines - c[i].usage
           a == c[i].address
           t == <<a>> \o Recency!RemoveAt(s, p)
<1>1. /\ n \in Nat /\ Lines \in Nat /\ n <= Lines
      /\ \A j \in Line : Taken(c, j) =>
           /\ c[j].usage \in Nat /\ c[j].usage <= Lines - 1
           /\ Lines - c[j].usage \in 1 .. n
  BY ListedFacts
<1>2. p \in 1 .. n /\ a \in Address /\ s[p] = a
  <2>1. p \in 1 .. n /\ a \in Address
    BY ListedFacts
  <2>2. s[p] = a
    BY DEF Listed
  <2> QED BY <2>1, <2>2
<1>3. s \in Seq(Address) /\ Len(s) = n /\ n \in 0 .. Lines /\ DOMAIN s = 1 .. n
  BY LenProperties DEF Listed
<1>4. /\ t \in Seq(Address) /\ Len(t) = n /\ t[1] = a
      /\ \A k \in 1 .. p - 1 : t[k + 1] = s[k]
      /\ \A k \in p + 1 .. n : t[k] = s[k]
  BY <1>2, <1>3, MovedToFront
<1>5. \A j \in Line : Taken(e, j) <=> Taken(c, j)
  BY DEF Taken
<1> HIDE DEF t
<1>6. ASSUME NEW j \in Line, Taken(c, j)
      PROVE  e[j].usage \in Lines - n .. Lines - 1 /\ t[Lines - e[j].usage] = e[j].address
  <2> DEFINE q == Lines - c[j].usage
  <2>1. /\ q \in 1 .. n /\ s[q] = c[j].address /\ e[j].address = c[j].address
        /\ c[j].usage \in Nat /\ c[i].usage \in Nat
    BY <1>1, <1>6 DEF Listed
  <2>2. CASE j = i
    BY <1>1, <1>2, <1>4, <1>6, <2>1, <2>2
  <2>3. CASE j # i /\ c[j].usage > c[i].usage
    <3>1. e[j].usage = c[j].usage - 1
      BY <1>6, <2>3
    <3>2. q \in 1 .. p - 1
      BY <1>1, <2>1, <2>3
    <3>3. Lines - e[j].usage = q + 1 /\ e[j].usage \in Lines - n .. Lines - 1
      BY <1>1, <1>2, <2>1, <3>1, <3>2
    <3> HIDE DEF q, p
    <3> QED BY <1>4, <2>1, <3>2, <3>3
  <2>4. CASE j # i /\ ~(c[j].usage > c[i].usage)
    <3>1. e[j].usage = c[j].usage
      BY <1>6, <2>4
    <3>2. c[j].usage # c[i].usage
      BY <1>6, <2>4 DEF Listed
    <3>3. q \in p + 1 .. n
      BY <1>1, <2>1, <2>4, <3>2
    <3>4. Lines - e[j].usage = q /\ e[j].usage \in Lines - n .. Lines - 1
      BY <1>1, <2>1, <3>1
    <3> HIDE DEF q, p
    <3> QED BY <1>4, <2>1, <3>3, <3>4
  <2> QED BY <2>2, <2>3, <2>4
<1>7. ASSUME NEW j \in Line, NEW k \in Line, Taken(c, j), Taken(c, k), e[j].usage = e[k].usage
      PROVE  j = k
  <2> DEFINE u == c[i].usage
             v == c[j].usage
             w == c[k].usage
  <2>1. (v = w => j = k) /\ (v = u => j = i) /\ (w = u => k = i)
    BY <1>7 DEF Listed
  <2>2. /\ Lines \in Nat /\ u \in Nat /\ v \in Nat /\ w \in Nat
        /\ u <= Lines - 1 /\ v <= Lines - 1 /\ w <= Lines - 1
    BY <1>1, <1>7
  <2>3. (IF j = i THEN Lines - 1 ELSE IF v > u THEN v - 1 ELSE v)
          = (IF k = i THEN Lines - 1 ELSE IF w > u THEN w - 1 ELSE w)
    BY <1>7
  <2> HIDE DEF u, v, w
  <2>4. CASE j = i
    BY ONLY <2>1, <2>2, <2>3, <2>4
  <2>5. CASE k = i
    BY ONLY <2>1, <2>2, <2>3, <2>5
  <2>6. CASE j # i /\ k # i
    BY ONLY <2>1, <2>2, <2>3, <2>6
  <2> QED BY <2>4, <2>5, <2>6
<1>8. ASSUME NEW k \in 1 .. n PROVE \E j \in Line : Taken(c, j) /\ e[j].usage = Lines - k
  <2>1. CASE k = 1
    BY <2>1
  <2>2. CASE k # 1 /\ k <= p
    <3>1. PICK j \in Line : Taken(c, j) /\ c[j].usage = Lines - (k - 1)
      <4>1. k - 1 \in 1 .. n
        BY <1>1, <2>2
      <4> QED BY <4>1 DEF Listed
    <3>2. c[j].usage > c[i].usage /\ c[i].usage \in Nat
      BY <1>1, <2>2, <3>1
    <3>3. e[j].usage = c[j].usage - 1
      BY <3>1, <3>2
    <3> QED BY <1>1, <3>1, <3>3
  <2>3. CASE k > p
    <3>1. PICK j \in Line : Taken(c, j) /\ c[j].usage = Lines - k
      BY DEF Listed
    <3>2. c[j].usage < c[i].usage /\ c[i].usage \in Nat
      BY <1>1, <2>3, <3>1
    <3>3. e[j].usage = c[j].usage
      BY <1>1, <3>1, <3>2
    <3> QED BY <3>1, <3>3
  <2> QED BY <1>1, <1>2, <2>1, <2>2, <2>3
<1>9. \A j \in Line : e[j].empty <=> n <= j
  BY DEF Listed
<1>10. Listed(e, n, t)
  BY <1>3, <1>4, <1>5, <1>6, <1>7, <1>8, <1>9 DEF Listed
<1> QED BY <1>2, <1>3, <1>10 DEF t

(* A miss that takes line i, the others holding the m addresses f. *)
LEMMA MissListed ==
  ASSUME NEW c, NEW e, NEW m, NEW f, NEW i \in Line, NEW a \in Address,
         m \in 0 .. Lines - 1, f \in Seq(Address), Len(f) = m,
         \A j \in Line \ {i} : Taken(c, j) =>
           /\ c[j].usage \in Lines - m .. Lines - 1
           /\ f[Lines - c[j].usage] = c[j].address,
         \A j, k \in Line \ {i} :
           Taken(c, j) /\ Taken(c, k) /\ c[j].usage = c[k].usage => j = k,
         \A k \in 1 .. m : \E j \in Line \ {i} : Taken(c, j) /\ c[j].usage = Lines - k,
         \A j \in Line : e[j].empty <=> m + 1 <= j,
         Taken(e, i) /\ e[i].address = a /\ e[i].usage = Lines - 1,
         \A j \in Line \ {i} :
           /\ Taken(e, j) <=> Taken(c, j)
           /\ Taken(c, j) => e[j].address = c[j].address /\ e[j].usage = c[j].usage - 1
  PROVE  Listed(e, m + 1, <<a>> \o f)
<1> DEFINE t == <<a>> \o f
<1>1. Lines \in Nat /\ m \in Nat /\ m + 1 \in 0 .. Lines
  BY CacheAssumption
<1>2. /\ t \in Seq(Address) /\ Len(t) = m + 1 /\ t[1] = a
      /\ \A k \in 1 .. m : t[k + 1] = f[k]
  BY PutInFront
<1> HIDE DEF t
<1>3. ASSUME NEW j \in Line, Taken(e, j)
      PROVE  /\ e[j].usage \in Lines - (m + 1) .. Lines - 1
             /\ t[Lines - e[j].usage] = e[j].address
  <2>1. CASE j = i
    <3>1. Lines - (Lines - 1) = 1 /\ Lines - 1 \in Lines - (m + 1) .. Lines - 1
      BY <1>1
    <3> QED BY <1>2, <2>1, <3>1
  <2>2. CASE j # i
    <3> DEFINE u == c[j].usage
    <3>1. /\ u \in Lines - m .. Lines - 1 /\ f[Lines - u] = e[j].address
          /\ e[j].usage = u - 1
      BY <1>3, <2>2
    <3> HIDE DEF u
    <3>2. /\ Lines - u \in 1 .. m /\ Lines - (u - 1) = (Lines - u) + 1
          /\ u - 1 \in Lines - (m + 1) .. Lines - 1
      BY <1>1, <3>1
    <3> QED BY <1>2, <3>1, <3>2
  <2> QED BY <2>1, <2>2
<1>4. ASSUME NEW j \in Line, NEW k \in Line, Taken(e, j), Taken(e, k), e[j].usage = e[k].usage
      PROVE  j = k
  <2>1. \A l \in Line \ {i} : Taken(e, l) => c[l].usage \in Int /\ e[l].usage = c[l].usage - 1
                                             /\ c[l].usage <= Lines - 1 /\ Taken(c, l)
    BY <1>1
  <2>2. CASE j # i /\ k # i
    <3>1. c[j].usage = c[k].usage /\ Taken(c, j) /\ Taken(c, k)
      BY <1>4, <2>1, <2>2
    <3> QED BY <2>2, <3>1
  <2>3. CASE j = i \/ k = i
    BY <1>1, <1>4, <2>1, <2>3
  <2> QED BY <2>2, <2>3
<1>5. ASSUME NEW k \in 1 .. m + 1 PROVE \E j \in Line : Taken(e, j) /\ e[j].usage = Lines - k
  <2>1. CASE k = 1
    BY <2>1
  <2>2. CASE k # 1
    <3>1. k - 1 \in 1 .. m
      BY <1>1, <2>2
    <3>2. PICK j \in Line \ {i} : Taken(c, j) /\ c[j].usage = Lines - (k - 1)
      BY <3>1
    <3>3. Lines - (k - 1) - 1 = Lines - k
      BY <1>1
    <3> QED BY <3>2, <3>3
  <2> QED BY <2>1, <2>2
<1>6. Listed(e, m + 1, t)
  BY <1>1, <1>2, <1>3, <1>4, <1>5 DEF Listed
<1> QED BY <1>6 DEF t

(* The list t after an access to a, of state st, if s was the list before. *)
Moves(s, t, a, st) ==
  \/ /\ st = "hit"
     /\ \E p \in DOMAIN s : s[p] = a /\ t = <<a>> \o Recency!RemoveAt(s, p)
  \/ /\ st = "miss"
     /\ ~Recency!Contains(s, a)
     /\ t = <<a>> \o (IF Len(s) = Lines THEN Recency!Front(s) ELSE s)

LEMMA AccessListed ==
  ASSUME FilledIsPrefix, cache_type = "ASSOCIATIVE",
         NEW n, NEW s, Listed(cache, n, s),
         NEW a \in Address, NEW op, NEW d, NEW i \in Line, NEW st \in CACHE_STATE,
         Lookup(a, i, st), cache' = update_cache(op, a, i, st, d)
  PROVE  \E m, t : Listed(cache', m, t) /\ Moves(s, t, a, st)
<1>1. LookupAS(a, i, st)
  BY DEF Lookup
<1>2. \A j \in Line :
        /\ cache'[j].empty = (cache[j].empty /\ (j # i \/ st = "hit"))
        /\ cache'[j].address = IF j = i /\ st = "miss" THEN a ELSE cache[j].address
        /\ cache'[j].usage = IF j = i THEN Lines - 1
                             ELSE IF ~cache[j].empty /\ cache[j].usage > cache[i].usage
                             THEN cache[j].usage - 1 ELSE cache[j].usage
  BY DEF update_cache, UsageAfter
<1>3. /\ n \in Nat /\ Lines \in Nat \ {0} /\ n <= Lines
      /\ s \in Seq(Address) /\ Len(s) = n /\ DOMAIN s = 1 .. n
      /\ \A j \in Line : cache[j].empty <=> n <= j
  BY CacheAssumption, LenProperties DEF Listed
<1>4. CASE st = "hit"
  <2>1. Taken(cache, i) /\ cache[i].address = a
    BY <1>1, <1>4 DEF LookupAS, IsFirst, Holding, Taken
  <2>2. \A j \in Line : cache'[j].empty <=> cache[j].empty
    BY <1>2, <1>4
  <2>3. \A j \in Line : Taken(cache, j) =>
           /\ cache'[j].address = cache[j].address
           /\ cache'[j].usage = IF j = i THEN Lines - 1
                                ELSE IF cache[j].usage > cache[i].usage
                                THEN cache[j].usage - 1 ELSE cache[j].usage
    BY <1>2, <1>4 DEF Taken
  <2> DEFINE p == Lines - cache[i].usage
  <2>4. /\ p \in DOMAIN s /\ s[p] = cache[i].address
        /\ Listed(cache', n, <<cache[i].address>> \o Recency!RemoveAt(s, p))
    BY <2>1, <2>2, <2>3, HitListed
  <2> HIDE DEF p
  <2> QED BY <1>4, <2>1, <2>4 DEF Moves
<1>5. CASE st = "miss"
  <2>1. Holding(a) = {}
    BY <1>1, <1>5 DEF LookupAS
  <2>2. ~Recency!Contains(s, a)
    <3>1. ASSUME NEW k \in 1 .. n PROVE s[k] # a
      <4>1. PICK j \in Line : Taken(cache, j) /\ cache[j].usage = Lines - k
        BY DEF Listed
      <4>2. s[Lines - cache[j].usage] = cache[j].address /\ Lines - (Lines - k) = k
        BY <1>3, <4>1 DEF Listed
      <4>3. cache[j].address # a
        BY <2>1, <4>1 DEF Holding, Taken
      <4> QED BY <4>1, <4>2, <4>3
    <3> QED BY <1>3, <3>1 DEF Recency!Contains
  <2>3. \A j \in Line \ {i} :
          /\ Taken(cache', j) <=> Taken(cache, j)
          /\ cache'[j].address = cache[j].address
          /\ Taken(cache, j) /\ cache[j].usage > cache[i].usage
               => cache'[j].usage = cache[j].usage - 1
    BY <1>2, <1>5 DEF Taken
  <2>4. Taken(cache', i) /\ cache'[i].address = a /\ cache'[i].usage = Lines - 1
    BY <1>2, <1>5 DEF Taken
  <2>5. CASE Unfilled # {}
    <3>1. IsFirst(i, Unfilled)
      BY <1>1, <1>5, <2>5 DEF LookupAS
    <3>2. i = n /\ n < Lines /\ cache[i].empty
      BY <1>3, <3>1 DEF IsFirst, Unfilled, Line
    <3>3. cache[i].usage = 0
      BY <3>2 DEF FilledIsPrefix
    <3>4. \A j \in Line : Taken(cache, j) =>
            /\ cache[j].usage \in Lines - n .. Lines - 1
            /\ s[Lines - cache[j].usage] = cache[j].address
            /\ j # i
      BY <3>2 DEF Listed, Taken
    <3>5. \A j \in Line : Taken(cache, j) => cache[j].usage > cache[i].usage
      BY <1>3, <3>2, <3>3, <3>4
    <3>6. \A j \in Line : cache'[j].empty <=> n + 1 <= j
      <4>1. \A j \in Line : cache'[j].empty <=> n <= j /\ j # n
        BY <1>2, <1>3, <1>5, <3>2
      <4>2. \A j \in Line : n <= j /\ j # n <=> n + 1 <= j
        BY <1>3 DEF Line
      <4> QED BY <4>1, <4>2
    <3>7. /\ \A j, k \in Line : Taken(cache, j) /\ Taken(cache, k)
                                 /\ cache[j].usage = cache[k].usage => j = k
          /\ \A k \in 1 .. n : \E j \in Line : Taken(cache, j) /\ cache[j].usage = Lines - k
      BY DEF Listed
    <3>8. n \in 0 .. Lines - 1
      BY <1>3, <3>2
    <3>9. Listed(cache', n + 1, <<a>> \o s)
      <4>1. \A j \in Line \ {i} : Taken(cache, j) =>
              /\ cache[j].usage \in Lines - n .. Lines - 1
              /\ s[Lines - cache[j].usage] = cache[j].address
        BY <3>4
      <4>2. \A j, k \in Line \ {i} :
              Taken(cache, j) /\ Taken(cache, k) /\ cache[j].usage = cache[k].usage => j = k
        BY <3>7
      <4>3. \A k \in 1 .. n : \E j \in Line \ {i} :
              Taken(cache, j) /\ cache[j].usage = Lines - k
        BY <3>4, <3>7
      <4>4. \A j \in Line \ {i} :
              /\ Taken(cache', j) <=> Taken(cache, j)
              /\ Taken(cache, j) => /\ cache'[j].address = cache[j].address
                                   /\ cache'[j].usage = cache[j].usage - 1
        BY <2>3, <3>5
      <4> QED BY ONLY <1>3, <2>4, <3>6, <3>8, <4>1, <4>2, <4>3, <4>4, MissListed,
                 i \in Line, a \in Address
    <3>10. Len(s) # Lines
      BY <1>3, <3>2
    <3> QED BY <1>5, <2>2, <3>9, <3>10 DEF Moves
  <2>6. CASE Unfilled = {}
    <3> DEFINE m == Lines - 1
               f == Recency!Front(s)
    <3>1. n = Lines /\ \A j \in Line : Taken(cache, j)
      BY <1>3, <2>6 DEF Unfilled, Taken, Line
    <3>2. m \in 0 .. Lines - 1 /\ Lines - m = 1
      BY <1>3
    <3>3. /\ f \in Seq(Address) /\ Len(f) = m
          /\ \A k \in 1 .. m : f[k] = s[k]
      BY <1>3, <3>1, OldestDropped
    <3> HIDE DEF f
    <3>4. /\ \A j \in Line : /\ cache[j].usage \in 0 .. Lines - 1
                             /\ s[Lines - cache[j].usage] = cache[j].address
          /\ \A j, k \in Line : cache[j].usage = cache[k].usage => j = k
          /\ \A k \in 1 .. n : \E j \in Line : cache[j].usage = Lines - k
      BY <1>3, <3>1 DEF Listed
    <3>5. cache[i].usage = 0
      <4>1. PICK j \in Line : cache[j].usage = 0
        <5>1. Lines \in 1 .. n /\ Lines - Lines = 0
          BY <1>3, <3>1
        <5> QED BY <3>4, <5>1
      <4>2. OldestUsed(i)
        BY <1>1, <1>5, <2>6 DEF LookupAS, IsFirst
      <4>3. cache[i].usage < cache[j].usage \/ cache[i].usage = cache[j].usage
        BY <4>2 DEF OldestUsed
      <4>4. cache[i].usage \in Nat /\ cache[i].usage >= 0
        BY <1>3, <3>4
      <4> QED BY <4>1, <4>3, <4>4
    <3>6. \A j \in Line \ {i} : cache[j].usage \in 1 .. Lines - 1
      BY <1>3, <3>4, <3>5
    <3>7. \A j \in Line \ {i} : /\ cache[j].usage \in Lines - m .. Lines - 1
                                /\ cache[j].usage > cache[i].usage
                                /\ f[Lines - cache[j].usage] = cache[j].address
      <4> SUFFICES ASSUME NEW j \in Line \ {i}
                   PROVE  /\ cache[j].usage \in Lines - m .. Lines - 1
                          /\ cache[j].usage > cache[i].usage
                          /\ f[Lines - cache[j].usage] = cache[j].address
        OBVIOUS
      <4> DEFINE u == cache[j].usage
      <4>1. u \in 1 .. Lines - 1 /\ s[Lines - u] = cache[j].address
        BY <3>4, <3>6
      <4> HIDE DEF u
      <4>2. Lines - u \in 1 .. m /\ u \in Lines - m .. Lines - 1 /\ u > 0
        BY <1>3, <3>2, <4>1
      <4> QED BY <3>3, <3>5, <4>1, <4>2 DEF u
    <3>8. ASSUME NEW k \in 1 .. m
          PROVE  \E j \in Line \ {i} : cache[j].usage = Lines - k
      <4>1. k \in 1 .. n /\ Lines - k # 0
        BY <1>3, <3>1, <3>2
      <4> QED BY <3>4, <3>5, <4>1
    <3>9. \A j \in Line : cache'[j].empty <=> m + 1 <= j
      <4>1. \A j \in Line : ~cache'[j].empty
        BY <2>3, <2>4, <3>1 DEF Taken
      <4>2. \A j \in Line : ~(m + 1 <= j)
        BY <1>3 DEF Line
      <4> QED BY <4>1, <4>2
    <3> HIDE DEF m
    <3>10. Listed(cache', m + 1, <<a>> \o f)
      <4>1. \A j \in Line \ {i} : Taken(cache, j) =>
              /\ cache[j].usage \in Lines - m .. Lines - 1
              /\ f[Lines - cache[j].usage] = cache[j].address
        BY <3>7
      <4>2. \A j, k \in Line \ {i} :
              Taken(cache, j) /\ Taken(cache, k) /\ cache[j].usage = cache[k].usage => j = k
        BY <3>4
      <4>3. \A k \in 1 .. m : \E j \in Line \ {i} :
              Taken(cache, j) /\ cache[j].usage = Lines - k
        BY <3>1, <3>8
      <4>4. \A j \in Line \ {i} :
              /\ Taken(cache', j) <=> Taken(cache, j)
              /\ Taken(cache, j) => /\ cache'[j].address = cache[j].address
                                   /\ cache'[j].usage = cache[j].usage - 1
        BY <2>3, <3>7
      <4>5. m \in 0 .. Lines - 1 /\ f \in Seq(Address) /\ Len(f) = m
        BY <3>2, <3>3
      <4> QED BY ONLY <2>4, <3>9, <4>1, <4>2, <4>3, <4>4, <4>5, MissListed,
                 i \in Line, a \in Address
    <3>11. Len(s) = Lines
      BY <1>3, <3>1
    <3> QED BY <1>5, <2>2, <3>10, <3>11 DEF Moves, f
  <2> QED BY <2>5, <2>6
<1> QED BY <1>4, <1>5 DEF CACHE_STATE

-----------------------------------------------------------------------------
(* The refinement.                                                         *)

(* The counters of the filled lines are a permutation of the top of the
   range; that they are different, which UsageOrdersLines says, would not
   give every position of the list its line without counting them.         *)
Ranked == cache_type = "ASSOCIATIVE" => \E n, s : Listed(cache, n, s)

LEMMA AccessIsUse ==
  ASSUME FilledIsPrefix, Ranked, NEW x \in Accesses, NEW op, NEW d,
         NEW i \in Line, NEW st \in CACHE_STATE, Lookup(x[1], i, st),
         cache' = update_cache(op, x[1], i, st, d),
         state' = st, cache_type' = cache_type
  PROVE  Ranked' /\ Recency!Next
<1> DEFINE a == x[1]
<1>1. a \in Address /\ a \in {y[1] : y \in Accesses}
  BY FlatAssumption
<1>2. CASE cache_type = "ASSOCIATIVE"
  <2>1. PICK n, s : Listed(cache, n, s)
    BY <1>2 DEF Ranked
  <2>2. PICK m, t : Listed(cache', m, t) /\ Moves(s, t, a, st)
    BY <1>1, <1>2, <2>1, AccessListed
  <2>3. RecencyList = s /\ RecencyList' = t
    BY <1>2, <2>1, <2>2, RecencyListIs
  <2>4. CASE st = "hit"
    <3>1. PICK p \in DOMAIN s : s[p] = a /\ t = <<a>> \o Recency!RemoveAt(s, p)
      BY <2>2, <2>4 DEF Moves
    <3>2. Recency!Hit(a)
      BY <2>3, <2>4, <3>1 DEF Recency!Hit
    <3> QED BY <1>1, <1>2, <2>2, <3>2 DEF Recency!Next, Ranked
  <2>5. CASE st = "miss"
    <3>1. /\ ~Recency!Contains(s, a)
          /\ t = <<a>> \o (IF Len(s) = Lines THEN Recency!Front(s) ELSE s)
      BY <2>2, <2>5 DEF Moves
    <3>2. Recency!Miss(a)
      BY <2>3, <2>5, <3>1 DEF Recency!Miss
    <3> QED BY <1>1, <1>2, <2>2, <3>2 DEF Recency!Next, Ranked
  <2> QED BY <2>4, <2>5 DEF CACHE_STATE
<1>3. CASE cache_type # "ASSOCIATIVE"
  <2>1. RecencyList = <<>> /\ RecencyList' = <<>>
    BY <1>3 DEF RecencyList
  <2> QED BY <1>3, <2>1 DEF Ranked, Recency!Next, Recency!Bypass, CACHE_STATE
<1> QED BY <1>2, <1>3

LEMMA ClearedIsListed ==
  ASSUME cache' = init_cache
  PROVE  Listed(cache', 0, <<>>)
<1>1. \A j \in Line : cache'[j].empty /\ 0 <= j
  BY CacheAssumption DEF init_cache, EmptyLine, Line
<1>2. 0 \in 0 .. Lines /\ <<>> \in Seq(Address) /\ Len(<<>>) = 0
  BY CacheAssumption
<1> QED BY <1>1, <1>2 DEF Listed, Taken

LEMMA LRUStep ==
  ASSUME FilledIsPrefix, Ranked, [CacheNext]_vars
  PROVE  Ranked' /\ [Recency!Next]_<<RecencyList, state>>
<1>1. ASSUME NEW x \in Accesses, CachedRead(x[1], x[2])
      PROVE  Ranked' /\ Recency!Next
  <2>1. PICK i \in Line, st \in CACHE_STATE :
          /\ Lookup(x[1], i, st)
          /\ \E d : cache' = update_cache("read", x[1], i, st, d)
          /\ state' = st /\ cache_type' = cache_type
    BY <1>1 DEF CachedRead
  <2> QED BY <2>1, AccessIsUse
<1>2. ASSUME NEW x \in Accesses, NEW d \in Data, CachedWrite(x[1], x[2], d)
      PROVE  Ranked' /\ Recency!Next
  <2>1. PICK i \in Line, st \in CACHE_STATE :
          /\ Lookup(x[1], i, st)
          /\ cache' = update_cache("write", x[1], i, st, d)
          /\ state' = st /\ cache_type' = cache_type
    BY <1>2 DEF CachedWrite
  <2> QED BY <2>1, AccessIsUse
<1>3. ASSUME \/ UNCHANGED <<cache, cache_type, state>>
             \/ \E x \in Accesses : BusOnlyRead(x[1], x[2])
             \/ \E x \in Accesses, d \in Data : BusOnlyWrite(x[1], x[2], d)
      PROVE  Ranked' /\ UNCHANGED <<RecencyList, state>>
  <2>1. UNCHANGED <<cache, cache_type, state>>
    BY <1>3 DEF BusOnlyRead, BusOnlyWrite
  <2> QED BY <2>1 DEF Ranked, RecencyList, Filled
<1>4. ASSUME NEW t \in CacheTypes, SelectCacheType(t)
      PROVE  Ranked' /\ Recency!Next
  <2>1. t = "ASSOCIATIVE" => Listed(cache', 0, <<>>)
    BY <1>4, ClearedIsListed DEF SelectCacheType
  <2>2. cache_type' = t /\ UNCHANGED state
    BY <1>4 DEF SelectCacheType
  <2>3. RecencyList' = <<>>
    <3>1. CASE t = "ASSOCIATIVE"
      BY <2>1, <2>2, <3>1, RecencyListIs
    <3>2. CASE t # "ASSOCIATIVE"
      BY <2>2, <3>2 DEF RecencyList
    <3> QED BY <3>1, <3>2
  <2> QED BY <2>1, <2>2, <2>3 DEF Ranked, Recency!Next, Recency!Clear
<1> QED BY <1>1, <1>2, <1>3, <1>4 DEF CacheNext, vars

(* Whatever is accessed and however the organisation is switched, the
   associative cache hits, misses and evicts as the recency list of LRU
   does, and forgets that list when it is selected again.                  *)
THEOREM CacheImplementsLRU == CacheSpec => ImplementsLRU
<1>1. CacheInit => Ranked /\ Recency!Init
  BY DEF CacheInit, Ranked, Recency!Init, RecencyList
<1>2. FilledIsPrefix /\ Ranked /\ [CacheNext]_vars
        => Ranked' /\ [Recency!Next]_<<RecencyList, state>>
  BY LRUStep
<1> QED
  BY <1>1, <1>2, FilledLinesArePrefix, PTL DEF CacheSpec, ImplementsLRU, Recency!Spec
=============================================================================
