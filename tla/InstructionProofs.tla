-------------------------- MODULE InstructionProofs -------------------------
(***************************************************************************)
(* The decoder against the RV32I encoding, for each of the 2^32 words: a   *)
(* word that is decoded holds what the format of its instruction says, and *)
(* those that are not decoded are in no row of the opcode tables.  And the *)
(* arithmetic against the gates, for words of up to 32 bits.               *)
(***************************************************************************)
EXTENDS DecoderReference, AluReference, Sums

-----------------------------------------------------------------------------
(* Powers of two *)

Pow(k) == 2^k     \* the provers know the numbers, not the operator

LEMMA Powers ==
  ASSUME NEW n \in Nat, n <= 31
  PROVE  Pow(0) = 1 /\ Pow(n) \in Nat \ {0} /\ Pow(n + 1) = 2 * Pow(n)
<1>0. Pow(0) = 1
  BY DEF Pow
<1>1. CASE n <= 15
  <2>1. /\ Pow(0) = 1 /\ Pow(1) = 2 /\ Pow(2) = 4 /\ Pow(3) = 8 /\ Pow(4) = 16
        /\ Pow(5) = 32 /\ Pow(6) = 64 /\ Pow(7) = 128 /\ Pow(8) = 256 /\ Pow(9) = 512
        /\ Pow(10) = 1024 /\ Pow(11) = 2048 /\ Pow(12) = 4096 /\ Pow(13) = 8192 /\ Pow(14) = 16384
        /\ Pow(15) = 32768 /\ Pow(16) = 65536
    BY DEF Pow
  <2>2. \/ n = 0 \/ n = 1 \/ n = 2 \/ n = 3 \/ n = 4 \/ n = 5 \/ n = 6 \/ n = 7
        \/ n = 8 \/ n = 9 \/ n = 10 \/ n = 11 \/ n = 12 \/ n = 13 \/ n = 14 \/ n = 15
    BY <1>1
  <2> QED
    BY <1>0, <2>1, <2>2
<1>2. CASE n > 15
  <2>1. /\ Pow(16) = 65536 /\ Pow(17) = 131072 /\ Pow(18) = 262144 /\ Pow(19) = 524288 /\ Pow(20) = 1048576
        /\ Pow(21) = 2097152 /\ Pow(22) = 4194304 /\ Pow(23) = 8388608 /\ Pow(24) = 16777216 /\ Pow(25) = 33554432
        /\ Pow(26) = 67108864 /\ Pow(27) = 134217728 /\ Pow(28) = 268435456 /\ Pow(29) = 536870912 /\ Pow(30) = 1073741824
        /\ Pow(31) = 2147483648 /\ Pow(32) = 4294967296
    BY DEF Pow
  <2>2. \/ n = 16 \/ n = 17 \/ n = 18 \/ n = 19 \/ n = 20 \/ n = 21 \/ n = 22 \/ n = 23
        \/ n = 24 \/ n = 25 \/ n = 26 \/ n = 27 \/ n = 28 \/ n = 29 \/ n = 30 \/ n = 31
    BY <1>2
  <2> QED
    BY <1>0, <2>1, <2>2
<1> QED
  BY <1>1, <1>2

LEMMA PowerType ==
  ASSUME NEW n \in Nat, n <= 32
  PROVE  Pow(n) \in Nat \ {0}
<1>1. CASE n <= 31
  BY <1>1, Powers
<1>2. CASE n = 32
  BY <1>2 DEF Pow
<1> QED
  BY <1>1, <1>2

LEMMA PowersAdd ==
  ASSUME NEW m \in Nat, NEW n \in Nat, m + n <= 32
  PROVE  Pow(m + n) = Pow(m) * Pow(n)
<1> DEFINE Bad == {k \in 0 .. n : Pow(m + k) # Pow(m) * Pow(k)}
<1>1. ASSUME Bad # {} PROVE FALSE
  <2> Bad \in SUBSET Nat
    OBVIOUS
  <2>1. PICK k \in Bad : \A j \in Bad : k <= j
    BY <1>1, LeastNat
  <2>2. k # 0
    <3>1. Pow(0) = 1 /\ Pow(m) \in Nat /\ m + 0 = m
      BY Powers, PowerType
    <3> QED
      BY <2>1, <3>1
  <2>3. k - 1 \in 0 .. n /\ ~(k <= k - 1)
    BY <2>1, <2>2
  <2>4. Pow(m + (k - 1)) = Pow(m) * Pow(k - 1)
    BY <2>1, <2>3
  <2>5. Pow(m + k) = 2 * Pow(m + (k - 1)) /\ Pow(k) = 2 * Pow(k - 1)
    <3>1. m + (k - 1) \in 0 .. 31 /\ k - 1 \in 0 .. 31 /\ (m + (k - 1)) + 1 = m + k /\ (k - 1) + 1 = k
      BY <2>1, <2>3
    <3> QED
      BY <3>1, Powers
  <2>6. Pow(m) \in Nat /\ Pow(k - 1) \in Nat
    <3>1. k - 1 \in 0 .. 31
      BY <2>3
    <3> QED
      BY <3>1, PowerType
  <2>7. 2 * (Pow(m) * Pow(k - 1)) = Pow(m) * (2 * Pow(k - 1))
    BY <2>6
  <2> QED
    BY <2>1, <2>4, <2>5, <2>7
<1>2. n \in 0 .. n
  OBVIOUS
<1> QED
  BY <1>1, <1>2

(* Quotients *)

LEMMA Quotient ==
  ASSUME NEW x \in Int, NEW P \in Nat \ {0}, NEW r \in 0 .. P - 1, NEW q \in Int, x = r + P * q
  PROVE  x \div P = q /\ x % P = r
OBVIOUS

LEMMA QuotientTwice ==
  ASSUME NEW x \in Int, NEW P \in Nat \ {0}, NEW Q \in Nat \ {0}
  PROVE  (x \div P) \div Q = x \div (P * Q)
<1> DEFINE q == x \div P
           r == x % P
           s == q \div Q
           t == q % Q
<1>1. x = r + P * q /\ q \in Int /\ r \in 0 .. P - 1
  OBVIOUS
<1>2. q = t + Q * s /\ s \in Int /\ t \in 0 .. Q - 1
  BY <1>1
<1> HIDE DEF q, r, s, t
<1>3. P * q = P * t + P * (Q * s)
  BY <1>2
<1>4. P * (Q * s) = (P * Q) * s
  BY <1>2
<1>5. P * t \in Nat /\ P * t <= P * (Q - 1)
  BY <1>2
<1>6. P * (Q - 1) = P * Q - P /\ P * Q \in Nat \ {0}
  OBVIOUS
<1>7. r + P * t \in 0 .. P * Q - 1
  BY <1>1, <1>5, <1>6
<1>8. x = (r + P * t) + (P * Q) * s
  <2>1. x = r + (P * t + (P * Q) * s)
    BY <1>1, <1>3, <1>4
  <2>2. (P * Q) * s \in Int
    BY <1>2
  <2> QED
    BY <1>1, <1>5, <2>1, <2>2
<1>9. x \div (P * Q) = s
  BY <1>2, <1>6, <1>7, <1>8, Quotient
<1> QED
  BY <1>9 DEF q, s

(* Bit k of a number, as the reference reads it. *)
LEMMA BitIs ==
  ASSUME NEW x \in Int, NEW k \in Nat, k <= 31
  PROVE  BitOf(x, k) = (x \div Pow(k)) % 2
<1> DEFINE m == k \div 2
<1>1. m \in 0 .. 31 /\ k - m \in 0 .. 31 /\ m + (k - m) = k
  OBVIOUS
<1> HIDE DEF m
<1>2. Pow(m) \in Nat \ {0} /\ Pow(k - m) \in Nat \ {0}
  BY <1>1, Powers
<1>3. Pow(k) = Pow(m) * Pow(k - m)
  BY <1>1, PowersAdd
<1>4. (x \div Pow(m)) \div Pow(k - m) = x \div Pow(k)
  BY <1>2, <1>3, QuotientTwice
<1> QED
  BY <1>4 DEF BitOf, Pow, m

-----------------------------------------------------------------------------
(* Fields of a word *)

(* A field has one bit more than the field below its highest.              *)
LEMMA FieldStep ==
  ASSUME NEW w \in Raw, NEW lo \in Nat, lo <= 31, NEW hi \in lo - 1 .. 31
  PROVE  /\ bitRange(w, hi, lo) \in Int
         /\ hi = lo - 1 => bitRange(w, hi, lo) = 0
         /\ hi >= lo => bitRange(w, hi, lo) = bitRange(w, hi - 1, lo) + w[hi] * Pow(hi - lo)
<1> DEFINE f == [k \in lo .. hi |-> w[k] * Pow(k - lo)]
           e == [k \in lo .. hi - 1 |-> w[k] * Pow(k - lo)]
<1>1. /\ bitRange(w, hi, lo) = SumFunctionOnSet(f, lo .. hi)
      /\ bitRange(w, hi - 1, lo) = SumFunctionOnSet(e, lo .. hi - 1)
  BY DEF bitRange, SumFunction, Pow
<1>2. ASSUME NEW k \in lo .. hi PROVE f[k] \in Int /\ f[k] = w[k] * Pow(k - lo)
  <2>1. k \in 0 .. 31 /\ k - lo \in 0 .. 31
    OBVIOUS
  <2>2. w[k] \in Int /\ Pow(k - lo) \in Int
    BY <2>1, Powers DEF Raw
  <2> QED
    BY <2>2
<1>3. IsFiniteSet(lo .. hi) /\ IsFiniteSet(lo .. hi - 1)
  BY FS_Interval
<1>4. bitRange(w, hi, lo) \in Int
  <2>1. \A k \in (lo .. hi) \cup {lo .. hi} : k \in lo .. hi => f[k] \in Int
    BY <1>2
  <2>2. CASE hi = lo - 1
    <3>1. lo .. hi = {}
      BY <2>2
    <3> QED
      BY <1>1, <3>1, SumOfNone
  <2>3. CASE hi # lo - 1
    <3>1. hi \in lo .. hi /\ (lo .. hi) \cup {hi} = lo .. hi
      BY <2>3
    <3> HIDE DEF f
    <3> QED
      BY <1>1, <1>2, <1>3, <3>1, SumMore
  <2> QED
    BY <2>2, <2>3
<1>5. ASSUME hi = lo - 1 PROVE bitRange(w, hi, lo) = 0
  <2>1. lo .. hi = {}
    BY <1>5
  <2> QED
    BY <1>1, <2>1, SumOfNone
<1>6. ASSUME hi >= lo
      PROVE  bitRange(w, hi, lo) = bitRange(w, hi - 1, lo) + w[hi] * Pow(hi - lo)
  <2>1. /\ lo .. hi = (lo .. hi - 1) \cup {hi} /\ hi \notin lo .. hi - 1
        /\ hi \in lo .. hi
    BY <1>6
  <2>2. \A k \in lo .. hi - 1 : f[k] \in Int /\ e[k] = f[k]
    BY <1>2, <2>1
  <2>3. f[hi] \in Int /\ f[hi] = w[hi] * Pow(hi - lo)
    BY <1>2, <2>1
  <2> HIDE DEF f, e
  <2>4. /\ SumFunctionOnSet(f, (lo .. hi - 1) \cup {hi}) = f[hi] + SumFunctionOnSet(f, lo .. hi - 1)
        /\ SumFunctionOnSet(f, lo .. hi - 1) \in Int
    BY <1>2, <1>3, <2>1, SumMore
  <2>5. SumFunctionOnSet(e, lo .. hi - 1) = SumFunctionOnSet(f, lo .. hi - 1)
    BY <1>3, <2>2, SumSame
  <2>6. bitRange(w, hi, lo) = f[hi] + bitRange(w, hi - 1, lo) /\ bitRange(w, hi - 1, lo) \in Int
    BY <1>1, <2>1, <2>4, <2>5
  <2> QED
    BY <2>3, <2>6
<1> QED
  BY <1>4, <1>5, <1>6

(* It is a number of as many bits. *)
LEMMA FieldRange ==
  ASSUME NEW w \in Raw, NEW lo \in Nat, lo <= 31, NEW hi \in lo - 1 .. 31
  PROVE  bitRange(w, hi, lo) \in 0 .. Pow(hi + 1 - lo) - 1
<1> DEFINE Fits(h) == bitRange(w, h, lo) \in 0 .. Pow(h + 1 - lo) - 1
           Bad == {n \in 0 .. 32 : lo - 1 + n \in lo - 1 .. 31 /\ ~Fits(lo - 1 + n)}
<1>1. ASSUME Bad # {} PROVE FALSE
  <2> Bad \in SUBSET Nat
    OBVIOUS
  <2>1. PICK n \in Bad : \A j \in Bad : n <= j
    BY <1>1, LeastNat
  <2> DEFINE h == lo - 1 + n
  <2>2. n \in 0 .. 32 /\ h \in lo - 1 .. 31 /\ ~Fits(h)
    BY <2>1
  <2>3. CASE n = 0
    <3>1. bitRange(w, h, lo) = 0 /\ h + 1 - lo = 0 /\ Pow(0) = 1
      BY <2>2, <2>3, FieldStep, Powers
    <3> QED
      BY <2>2, <3>1
  <2>4. CASE n # 0
    <3>1. h - 1 = lo - 1 + (n - 1) /\ n - 1 \in 0 .. 32 /\ h - 1 \in lo - 1 .. 31 /\ ~(n <= n - 1)
      BY <2>2, <2>4
    <3>2. Fits(h - 1)
      BY <2>1, <3>1
    <3>3. h \in lo .. 31 /\ h - lo \in 0 .. 31 /\ (h - 1) + 1 - lo = h - lo /\ h + 1 - lo = (h - lo) + 1
      BY <2>2, <2>4
    <3> HIDE DEF h
    <3>4. bitRange(w, h, lo) = bitRange(w, h - 1, lo) + w[h] * Pow(h - lo)
      BY <3>3, FieldStep
    <3>5. Pow(h - lo) \in Nat /\ Pow(h + 1 - lo) = 2 * Pow(h - lo) /\ w[h] \in {0, 1}
      BY <3>3, Powers DEF Raw
    <3>6. w[h] * Pow(h - lo) \in 0 .. Pow(h - lo)
      BY <3>5
    <3>7. bitRange(w, h - 1, lo) \in 0 .. Pow(h - lo) - 1
      BY <3>2, <3>3
    <3> QED
      BY <2>2, <3>4, <3>5, <3>6, <3>7
  <2> QED
    BY <2>3, <2>4
<1>2. hi - lo + 1 \in 0 .. 32 /\ lo - 1 + (hi - lo + 1) = hi
  OBVIOUS
<1>3. Fits(lo - 1 + (hi - lo + 1))
  BY <1>1, <1>2
<1> QED
  BY <1>2, <1>3

(* A field is made of its lower and its upper bits. *)
LEMMA FieldSplit ==
  ASSUME NEW w \in Raw, NEW lo \in Nat, lo <= 31, NEW hi \in lo .. 31, NEW m \in lo .. hi
  PROVE  bitRange(w, hi, lo) = bitRange(w, m - 1, lo) + Pow(m - lo) * bitRange(w, hi, m)
<1> DEFINE Splits(h) == bitRange(w, h, lo) = bitRange(w, m - 1, lo) + Pow(m - lo) * bitRange(w, h, m)
           Bad == {n \in 0 .. 32 : m - 1 + n \in m - 1 .. 31 /\ ~Splits(m - 1 + n)}
<1>0. /\ Pow(m - lo) \in Nat /\ m - lo \in Nat /\ m - lo <= 31 /\ m \in Nat /\ m <= 31
      /\ m - 1 \in lo - 1 .. 31
  BY Powers
<1>1. ASSUME Bad # {} PROVE FALSE
  <2> Bad \in SUBSET Nat
    OBVIOUS
  <2>1. PICK n \in Bad : \A j \in Bad : n <= j
    BY <1>1, LeastNat
  <2> DEFINE h == m - 1 + n
  <2>2. n \in 0 .. 32 /\ h \in m - 1 .. 31 /\ ~Splits(h)
    BY <2>1
  <2>3. CASE n = 0
    <3>1. bitRange(w, h, m) = 0 /\ h = m - 1
      BY <1>0, <2>2, <2>3, FieldStep
    <3>2. bitRange(w, m - 1, lo) \in Int
      BY <1>0, FieldStep
    <3> QED
      BY <1>0, <2>2, <3>1, <3>2
  <2>4. CASE n # 0
    <3>1. h - 1 = m - 1 + (n - 1) /\ n - 1 \in 0 .. 32 /\ h - 1 \in m - 1 .. 31 /\ ~(n <= n - 1)
      BY <2>2, <2>4
    <3>2. Splits(h - 1)
      BY <2>1, <3>1
    <3>3. /\ h \in 0 .. 31 /\ h - lo = (m - lo) + (h - m) /\ h - m \in Nat /\ h - m <= 31 /\ (m - lo) + (h - m) <= 31
          /\ h \in lo - 1 .. 31 /\ h >= lo /\ h \in m - 1 .. 31 /\ h >= m /\ h - 1 \in m - 1 .. 31
      BY <2>2, <2>4
    <3> HIDE DEF h
    <3>4. /\ bitRange(w, h, lo) = bitRange(w, h - 1, lo) + w[h] * Pow(h - lo)
          /\ bitRange(w, h, m) = bitRange(w, h - 1, m) + w[h] * Pow(h - m)
      BY <1>0, <3>3, FieldStep
    <3>5. /\ bitRange(w, h - 1, m) \in Int /\ bitRange(w, m - 1, lo) \in Int
          /\ Pow(h - m) \in Nat /\ w[h] \in Int
      <4>1. bitRange(w, h - 1, m) \in Int /\ bitRange(w, m - 1, lo) \in Int
        BY <1>0, <3>3, FieldStep
      <4>2. Pow(h - m) \in Nat /\ w[h] \in Int
        BY <3>3, Powers DEF Raw
      <4> QED
        BY <4>1, <4>2
    <3>6. Pow(h - lo) = Pow(m - lo) * Pow(h - m)
      BY <1>0, <3>3, PowersAdd
    <3>7. Pow(m - lo) * (bitRange(w, h - 1, m) + w[h] * Pow(h - m))
            = Pow(m - lo) * bitRange(w, h - 1, m) + w[h] * (Pow(m - lo) * Pow(h - m))
      BY <1>0, <3>5
    <3>8. Pow(m - lo) * bitRange(w, h - 1, m) \in Int /\ w[h] * (Pow(m - lo) * Pow(h - m)) \in Int
      BY <1>0, <3>5
    <3> QED
      BY <2>2, <3>2, <3>4, <3>5, <3>6, <3>7, <3>8
  <2> QED
    BY <2>3, <2>4
<1>2. hi - m + 1 \in 0 .. 32 /\ m - 1 + (hi - m + 1) = hi /\ hi \in m - 1 .. 31
  OBVIOUS
<1>3. Splits(m - 1 + (hi - m + 1))
  BY <1>1, <1>2
<1> QED
  BY <1>2, <1>3

(* Equal bits are equal fields, wherever they stand. *)
SameBits(w, lo, v, l, n) == \A k \in 0 .. n - 1 : w[lo + k] = v[l + k]

LEMMA FieldMoved ==
  ASSUME NEW w \in Raw, NEW v \in Raw, NEW lo \in Nat, lo <= 31, NEW l \in Nat, l <= 31,
         NEW n \in Nat, n <= 32, lo + n <= 32, l + n <= 32, SameBits(w, lo, v, l, n)
  PROVE  bitRange(w, lo + n - 1, lo) = bitRange(v, l + n - 1, l)
<1> DEFINE Same(k) == bitRange(w, lo + k - 1, lo) = bitRange(v, l + k - 1, l)
           Bad == {k \in 0 .. n : ~Same(k)}
<1>1. ASSUME Bad # {} PROVE FALSE
  <2> Bad \in SUBSET Nat
    OBVIOUS
  <2>1. PICK k \in Bad : \A j \in Bad : k <= j
    BY <1>1, LeastNat
  <2>2. k \in 0 .. n /\ ~Same(k)
    BY <2>1
  <2>3. CASE k = 0
    <3>1. lo + k - 1 = lo - 1 /\ l + k - 1 = l - 1
      BY <2>3
    <3> QED
      BY <2>2, <3>1, FieldStep
  <2>4. CASE k # 0
    <3>1. k - 1 \in 0 .. n /\ ~(k <= k - 1) /\ k - 1 \in 0 .. n - 1
      BY <2>2, <2>4
    <3>2. Same(k - 1)
      BY <2>1, <3>1
    <3> DEFINE h == lo + k - 1
               i == l + k - 1
    <3>3. /\ h \in lo - 1 .. 31 /\ h >= lo /\ i \in l - 1 .. 31 /\ i >= l
          /\ h - lo = k - 1 /\ i - l = k - 1
          /\ h = lo + (k - 1) /\ i = l + (k - 1)
          /\ h - 1 = lo + (k - 1) - 1 /\ i - 1 = l + (k - 1) - 1
      BY <2>2, <2>4
    <3>4. bitRange(w, h - 1, lo) = bitRange(v, i - 1, l) /\ w[h] = v[i]
      BY <3>1, <3>2, <3>3 DEF SameBits
    <3>5. bitRange(w, h, lo) # bitRange(v, i, l)
      BY <2>2
    <3> HIDE DEF h, i
    <3>6. /\ bitRange(w, h, lo) = bitRange(w, h - 1, lo) + w[h] * Pow(k - 1)
          /\ bitRange(v, i, l) = bitRange(v, i - 1, l) + v[i] * Pow(k - 1)
      BY <3>3, FieldStep
    <3> QED
      BY <3>4, <3>5, <3>6
  <2> QED
    BY <2>3, <2>4
<1>2. n \in 0 .. n
  OBVIOUS
<1> QED
  BY <1>1, <1>2

LEMMA OneBit ==
  ASSUME NEW w \in Raw, NEW k \in Nat, k <= 31
  PROVE  bitRange(w, k, k) = w[k]
<1>1. k \in k - 1 .. 31 /\ k >= k /\ k - 1 \in k - 1 .. 31 /\ k - k = 0
  OBVIOUS
<1>2. bitRange(w, k, k) = bitRange(w, k - 1, k) + w[k] * Pow(k - k) /\ bitRange(w, k - 1, k) = 0
  BY <1>1, FieldStep
<1>3. Pow(0) = 1 /\ w[k] \in {0, 1}
  BY Powers DEF Raw
<1> QED
  BY <1>1, <1>2, <1>3

(* The lowest bit of a field shows in its parity. *)
LEMMA LowBit ==
  ASSUME NEW w \in Raw, NEW m \in Nat, m <= 31, NEW hi \in m .. 31
  PROVE  bitRange(w, hi, m) % 2 = w[m] /\ bitRange(w, hi, m) \in Int
<1>1. bitRange(w, m, m) = w[m] /\ w[m] \in {0, 1}
  BY OneBit DEF Raw
<1>2. CASE m = hi
  BY <1>1, <1>2
<1>3. CASE m # hi
  <2>1. /\ m + 1 \in m .. hi /\ (m + 1) - 1 = m /\ (m + 1) - m = 1
        /\ m + 1 \in Nat /\ m + 1 <= 31 /\ hi \in (m + 1) - 1 .. 31
    BY <1>3
  <2>2. bitRange(w, hi, m) = bitRange(w, m, m) + Pow(1) * bitRange(w, hi, m + 1)
    BY <2>1, FieldSplit
  <2>3. bitRange(w, hi, m + 1) \in Int
    BY <2>1, FieldStep
  <2>4. Pow(1) = 2
    BY DEF Pow
  <2> QED
    BY <1>1, <2>2, <2>3, <2>4
<1> QED
  BY <1>2, <1>3

(* What stands above and below bit m. *)
LEMMA FieldBit ==
  ASSUME NEW w \in Raw, NEW lo \in Nat, lo <= 31, NEW hi \in lo .. 31, NEW m \in lo .. hi
  PROVE  /\ bitRange(w, hi, lo) = bitRange(w, m - 1, lo) + Pow(m - lo) * bitRange(w, hi, m)
         /\ bitRange(w, m - 1, lo) \in 0 .. Pow(m - lo) - 1 /\ bitRange(w, hi, m) \in Int
         /\ bitRange(w, hi, m) % 2 = w[m]
<1>1. /\ m - 1 \in lo - 1 .. 31 /\ (m - 1) + 1 - lo = m - lo /\ m \in Nat /\ m <= 31
      /\ hi \in m .. 31
  OBVIOUS
<1>2. bitRange(w, m - 1, lo) \in 0 .. Pow(m - lo) - 1
  BY <1>1, FieldRange
<1> QED
  BY <1>1, <1>2, FieldSplit, LowBit

LEMMA UnsignedBit ==
  ASSUME NEW w \in Raw, NEW lo \in Nat, lo <= 31, NEW hi \in lo .. 31, NEW m \in lo .. hi
  PROVE  (bitRange(w, hi, lo) \div Pow(m - lo)) % 2 = w[m]
<1> DEFINE r == bitRange(w, m - 1, lo)
           q == bitRange(w, hi, m)
           v == bitRange(w, hi, lo)
<1>1. v = r + Pow(m - lo) * q /\ r \in 0 .. Pow(m - lo) - 1 /\ q \in Int /\ q % 2 = w[m]
  BY FieldBit
<1>2. m - lo \in Nat /\ m - lo <= 31 /\ hi \in lo - 1 .. 31
  OBVIOUS
<1>3. Pow(m - lo) \in Nat \ {0} /\ v \in Int
  BY <1>2, Powers, FieldStep
<1> HIDE DEF r, q, v
<1>4. v \div Pow(m - lo) = q
  BY <1>1, <1>3, Quotient
<1> QED
  BY <1>1, <1>4 DEF v

(* Number x is signed, of n bits, and they are those of w from lo upwards. *)
SignedBits(x, n, half, w, lo) ==
  /\ x \in - half .. half - 1
  /\ \A j \in 0 .. n - 1 : BitOf(x, j) = w[lo + j]

(* Sign extension keeps the bits and centres the range. *)
LEMMA Extended ==
  ASSUME NEW w \in Raw, NEW lo \in Nat, lo <= 31, NEW hi \in lo .. 31, NEW n \in Nat \ {0}, n <= 32, n = hi - lo + 1,
         NEW half, half = Pow(n - 1)
  PROVE  SignedBits(signExtend(bitRange(w, hi, lo), n), n, half, w, lo)
<1> DEFINE v == bitRange(w, hi, lo)
           x == signExtend(v, n)
<1>1. /\ n - 1 \in Nat /\ n - 1 <= 31 /\ n - 1 = hi - lo /\ (n - 1) + 1 = n /\ hi \in lo - 1 .. 31
      /\ hi >= lo /\ hi - 1 \in lo - 1 .. 31 /\ (hi - 1) + 1 - lo = n - 1
  OBVIOUS
<1>2. Pow(n - 1) \in Nat \ {0} /\ Pow(n) = 2 * Pow(n - 1) /\ w[hi] \in {0, 1}
  BY <1>1, Powers DEF Raw
<1>3. v = bitRange(w, hi - 1, lo) + w[hi] * Pow(n - 1) /\ bitRange(w, hi - 1, lo) \in 0 .. Pow(n - 1) - 1
  BY <1>1, FieldStep, FieldRange
<1>4. x = IF v >= Pow(n - 1) THEN v - Pow(n) ELSE v
  BY DEF signExtend, Pow
<1> HIDE DEF v, x
<1>5. /\ x = v - Pow(n) * w[hi] /\ x \in - Pow(n - 1) .. Pow(n - 1) - 1
      /\ v \in Int /\ x \in Int
  BY <1>2, <1>3, <1>4
<1>6. ASSUME NEW j \in 0 .. n - 1 PROVE BitOf(x, j) = w[lo + j]
  <2> DEFINE m == lo + j
             r == bitRange(w, m - 1, lo)
             q == bitRange(w, hi, m)
  <2>1. v = r + Pow(j) * q /\ r \in 0 .. Pow(j) - 1 /\ q \in Int /\ q % 2 = w[lo + j]
    <3>1. m \in lo .. hi /\ m - lo = j
      BY <1>1
    <3> HIDE DEF m
    <3>2. bitRange(w, hi, lo) = r + Pow(j) * q /\ r \in 0 .. Pow(j) - 1 /\ q \in Int /\ q % 2 = w[m]
      BY <3>1, FieldBit
    <3> QED
      BY <3>2 DEF v, m
  <2> HIDE DEF m, r, q
  <2>2. /\ j \in Nat /\ j <= 31 /\ (n - 1) - j \in Nat /\ (n - 1) - j <= 31 /\ j + ((n - 1) - j) <= 31
        /\ j + ((n - 1) - j) = n - 1
    BY <1>1
  <2> DEFINE z == Pow((n - 1) - j)
  <2>3. Pow(n - 1) = Pow(j) * z /\ Pow(j) \in Nat \ {0} /\ z \in Nat
    <3>1. Pow(j) \in Nat \ {0} /\ z \in Nat
      BY <2>2, Powers
    <3>2. Pow(j + ((n - 1) - j)) = Pow(j) * z
      BY <2>2, PowersAdd
    <3> QED
      BY <2>2, <3>1, <3>2
  <2> HIDE DEF z
  <2>4. Pow(n) * w[hi] = Pow(j) * (2 * (z * w[hi]))
    BY <1>2, <2>3
  <2> DEFINE y == z * w[hi]
  <2>5. y \in Int /\ Pow(n) * w[hi] = Pow(j) * (2 * y)
    BY <1>2, <2>3, <2>4
  <2> HIDE DEF y
  <2>6. Pow(j) * (q - 2 * y) = Pow(j) * q - Pow(j) * (2 * y)
    BY <2>1, <2>3, <2>5
  <2>7. Pow(j) * (2 * y) \in Int /\ Pow(j) * q \in Int
    <3>1. Pow(j) \in Int /\ 2 * y \in Int /\ q \in Int
      BY <2>1, <2>3, <2>5
    <3>2. Pow(j) * q \in Int
      BY <3>1
    <3>3. Pow(j) * (2 * y) \in Int
      BY <3>1
    <3> QED
      BY <3>2, <3>3
  <2>8. x = r + Pow(j) * (q - 2 * y)
    BY <1>5, <2>1, <2>5, <2>6, <2>7
  <2>9. x \div Pow(j) = q - 2 * y
    <3>1. PICK c \in Int : c = q - 2 * y
      BY <2>1, <2>5
    <3>2. x = r + Pow(j) * c
      BY <2>8, <3>1
    <3>3. x \in Int /\ Pow(j) \in Nat \ {0}
      BY <1>5, <2>3
    <3>4. x \div Pow(j) = c
      BY <2>1, <3>2, <3>3, Quotient
    <3> QED
      BY <3>1, <3>4
  <2>10. (q - 2 * y) % 2 = q % 2
    BY <2>1, <2>5
  <2>11. BitOf(x, j) = (x \div Pow(j)) % 2
    BY <1>5, <2>2, BitIs
  <2> QED
    BY <2>1, <2>9, <2>10, <2>11
<1>7. SignedBits(x, n, half, w, lo)
  BY <1>5, <1>6 DEF SignedBits
<1> QED
  BY <1>7 DEF x, v

-----------------------------------------------------------------------------
(* Immediates *)

LEMMA SmallPowers ==
  /\ Pow(0) = 1 /\ Pow(1) = 2 /\ Pow(2) = 4 /\ Pow(4) = 16 /\ Pow(5) = 32 /\ Pow(6) = 64
  /\ Pow(8) = 256 /\ Pow(10) = 1024 /\ Pow(11) = 2048 /\ Pow(12) = 4096 /\ Pow(20) = 1048576
BY SMT DEF Pow

(* What these bits say of the number. *)
LEMMA SignedRange ==
  ASSUME NEW x, NEW n, NEW half \in Nat, NEW w, NEW lo, SignedBits(x, n, half, w, lo)
  PROVE  x \in Int /\ - half <= x /\ x <= half - 1
BY DEF SignedBits

LEMMA SignedBit ==
  ASSUME NEW x, NEW n, NEW half, NEW w, NEW lo, SignedBits(x, n, half, w, lo), NEW j \in 0 .. n - 1
  PROVE  BitOf(x, j) = w[lo + j]
BY DEF SignedBits

LEMMA ImmediateI ==
  ASSUME NEW w \in Raw
  PROVE  immI(w) \in Int /\ Within(immI(w), 2048) /\ \A k \in 20 .. 31 : w[k] = BitOf(immI(w), k - 20)
<1>1. SignedBits(immI(w), 12, 2048, w, 20)
  BY Extended, SmallPowers, SMT DEF immI
<1>2. immI(w) \in Int /\ Within(immI(w), 2048) /\ \A j \in 0 .. 11 : BitOf(immI(w), j) = w[20 + j]
  BY <1>1, SignedRange, SignedBit, SMT DEF Within
<1>3. \A k \in 20 .. 31 : k - 20 \in 0 .. 11 /\ 20 + (k - 20) = k
  OBVIOUS
<1> QED
  BY <1>2, <1>3

(* The bits of an immediate that are not side by side are put together.    *)
LEMMA ImmediateS ==
  ASSUME NEW w \in Raw
  PROVE  /\ immS(w) \in Int /\ Within(immS(w), 2048)
         /\ \A k \in 7 .. 11 \cup 25 .. 31 :
              w[k] = BitOf(immS(w), IF k <= 11 THEN k - 7 ELSE k - 20)
<1> DEFINE g == [j \in 0 .. 31 |-> IF j <= 4 THEN w[j + 7] ELSE IF j <= 11 THEN w[j + 20] ELSE 0]
<1>1. /\ g \in Raw
      /\ \A k \in 0 .. 4 : g[k] = w[k + 7]
      /\ \A k \in 5 .. 11 : g[k] = w[k + 20]
  BY DEF Raw
<1> HIDE DEF g
<1>2. bitRange(g, 4, 0) = bitRange(w, 11, 7) /\ bitRange(g, 11, 5) = bitRange(w, 31, 25)
  <2>1. SameBits(g, 0, w, 7, 5) /\ SameBits(g, 5, w, 25, 7)
    BY <1>1 DEF SameBits
  <2> QED
    BY <1>1, <2>1, FieldMoved
<1>3. bitRange(g, 11, 0) = bitRange(g, 4, 0) + Pow(5) * bitRange(g, 11, 5)
  <2>1. 0 \in 0 .. 31 /\ 11 \in 0 .. 31 /\ 5 \in 0 .. 11 /\ 5 - 1 = 4 /\ 5 - 0 = 5
    OBVIOUS
  <2> QED
    BY <1>1, <2>1, FieldSplit
<1>4. bitRange(g, 4, 0) \in Int /\ bitRange(g, 11, 5) \in Int
  BY <1>1, FieldStep
<1>5. bitRange(g, 11, 0) = 32 * bitRange(w, 31, 25) + bitRange(w, 11, 7)
  BY <1>2, <1>3, <1>4, SmallPowers, SMT
<1>6. SignedBits(immS(w), 12, 2048, g, 0)
  BY <1>1, <1>5, Extended, SmallPowers, SMT DEF immS
<1>7. ASSUME NEW k \in 7 .. 11 \cup 25 .. 31
      PROVE  w[k] = BitOf(immS(w), IF k <= 11 THEN k - 7 ELSE k - 20)
  <2> DEFINE j == IF k <= 11 THEN k - 7 ELSE k - 20
  <2>1. j \in 0 .. 12 - 1 /\ g[j] = w[k] /\ 0 + j = j
    BY <1>1
  <2> HIDE DEF j
  <2>2. BitOf(immS(w), j) = g[j]
    BY <1>6, <2>1 DEF SignedBits
  <2> QED
    BY <2>1, <2>2 DEF j
<1>8. immS(w) \in Int /\ Within(immS(w), 2048)
  BY <1>6, SignedRange, SMT DEF Within
<1> QED
  BY <1>7, <1>8

(* A number whose lowest bit is 0 is even. *)
LEMMA EvenSigned ==
  ASSUME NEW x, NEW n \in Nat \ {0}, NEW half \in Nat, half % 2 = 0, NEW w, w[0] = 0,
         SignedBits(x, n, half, w, 0)
  PROVE  x \in Int /\ - half <= x /\ x <= half - 2 /\ x % 2 = 0
<1>1. x \in Int /\ - half <= x /\ x <= half - 1
  BY SignedRange
<1>2. 0 \in 0 .. n - 1 /\ 0 + 0 = 0
  OBVIOUS
<1>3. BitOf(x, 0) = 0
  BY <1>2, SignedBit
<1>4. BitOf(x, 0) = (x \div Pow(0)) % 2 /\ Pow(0) = 1
  BY <1>1, BitIs, SmallPowers
<1>5. x % 2 = 0
  BY <1>1, <1>3, <1>4
<1> QED
  BY <1>1, <1>5

LEMMA ImmediateB ==
  ASSUME NEW w \in Raw
  PROVE  /\ immB(w) \in Int /\ - 4096 <= immB(w) /\ immB(w) <= 4094 /\ immB(w) % 2 = 0
         /\ \A k \in 7 .. 11 \cup 25 .. 31 :
              w[k] = BitOf(immB(w), CASE k = 7 -> 11 [] k \in 8 .. 11 -> k - 7
                                      [] k = 31 -> 12 [] OTHER -> k - 20)
<1> DEFINE g == [j \in 0 .. 31 |-> IF j \in 1 .. 4 THEN w[j + 7] ELSE
                                  IF j \in 5 .. 10 THEN w[j + 20] ELSE
                                  IF j = 11 THEN w[7] ELSE IF j = 12 THEN w[31] ELSE 0]
<1>1. /\ g \in Raw
      /\ \A k \in 1 .. 4 : g[k] = w[k + 7]
      /\ \A k \in 5 .. 10 : g[k] = w[k + 20]
      /\ g[0] = 0 /\ g[11] = w[7] /\ g[12] = w[31]
  BY DEF Raw
<1> HIDE DEF g
<1>2. bitRange(g, 4, 1) = bitRange(w, 11, 8) /\ bitRange(g, 10, 5) = bitRange(w, 30, 25)
  <2>1. SameBits(g, 1, w, 8, 4) /\ SameBits(g, 5, w, 25, 6)
    BY <1>1 DEF SameBits
  <2> QED
    BY <1>1, <2>1, FieldMoved
<1>3. /\ bitRange(g, 0, 0) = 0 /\ bitRange(g, 11, 11) = w[7] /\ bitRange(g, 12, 12) = w[31]
      /\ w[7] \in Int /\ w[31] \in Int
  BY <1>1, OneBit DEF Raw
<1>4. /\ bitRange(g, 12, 0) = bitRange(g, 0, 0) + Pow(1) * bitRange(g, 12, 1)
      /\ bitRange(g, 12, 1) = bitRange(g, 4, 1) + Pow(4) * bitRange(g, 12, 5)
      /\ bitRange(g, 12, 5) = bitRange(g, 10, 5) + Pow(6) * bitRange(g, 12, 11)
      /\ bitRange(g, 12, 11) = bitRange(g, 11, 11) + Pow(1) * bitRange(g, 12, 12)
  BY <1>1, FieldSplit
<1>5. bitRange(g, 4, 1) \in Int /\ bitRange(g, 10, 5) \in Int
  BY <1>1, FieldStep
<1>6. bitRange(g, 12, 0) = 4096 * w[31] + 2048 * w[7] + 32 * bitRange(w, 30, 25) + 2 * bitRange(w, 11, 8)
  BY <1>2, <1>3, <1>4, <1>5, SmallPowers, SMT
<1>7. SignedBits(immB(w), 13, 4096, g, 0)
  BY <1>1, <1>6, Extended, SmallPowers, SMT DEF immB
<1>8. immB(w) \in Int /\ - 4096 <= immB(w) /\ immB(w) <= 4094 /\ immB(w) % 2 = 0
  <2>1. 4096 \in Nat /\ 4096 % 2 = 0 /\ 13 \in Nat \ {0}
    BY SMT
  <2> QED
    BY <1>1, <1>7, <2>1, EvenSigned
<1>10. ASSUME NEW k \in 7 .. 11 \cup 25 .. 31
       PROVE  w[k] = BitOf(immB(w), CASE k = 7 -> 11 [] k \in 8 .. 11 -> k - 7
                                      [] k = 31 -> 12 [] OTHER -> k - 20)
  <2> DEFINE j == CASE k = 7 -> 11 [] k \in 8 .. 11 -> k - 7 [] k = 31 -> 12 [] OTHER -> k - 20
  <2>1. j \in 0 .. 13 - 1 /\ g[j] = w[k] /\ 0 + j = j
    BY <1>1
  <2> HIDE DEF j
  <2>2. BitOf(immB(w), j) = g[j]
    BY <1>7, <2>1 DEF SignedBits
  <2> QED
    BY <2>1, <2>2 DEF j
<1> QED
  BY <1>8, <1>10, SMT

LEMMA ImmediateJ ==
  ASSUME NEW w \in Raw
  PROVE  /\ immJ(w) \in Int /\ - Pow(20) <= immJ(w) /\ immJ(w) <= Pow(20) - 2 /\ immJ(w) % 2 = 0
         /\ \A k \in 12 .. 31 :
              w[k] = BitOf(immJ(w), CASE k <= 19 -> k [] k = 20 -> 11
                                      [] k = 31 -> 20 [] OTHER -> k - 20)
<1> DEFINE g == [j \in 0 .. 31 |-> IF j \in 1 .. 10 THEN w[j + 20] ELSE
                                  IF j = 11 THEN w[20] ELSE IF j \in 12 .. 19 THEN w[j] ELSE
                                  IF j = 20 THEN w[31] ELSE 0]
<1>1. /\ g \in Raw
      /\ \A k \in 1 .. 10 : g[k] = w[k + 20]
      /\ \A k \in 12 .. 19 : g[k] = w[k]
      /\ g[0] = 0 /\ g[11] = w[20] /\ g[20] = w[31]
  BY DEF Raw
<1> HIDE DEF g
<1>2. bitRange(g, 10, 1) = bitRange(w, 30, 21) /\ bitRange(g, 19, 12) = bitRange(w, 19, 12)
  <2>1. SameBits(g, 1, w, 21, 10) /\ SameBits(g, 12, w, 12, 8)
    BY <1>1 DEF SameBits
  <2> QED
    BY <1>1, <2>1, FieldMoved
<1>3. /\ bitRange(g, 0, 0) = 0 /\ bitRange(g, 11, 11) = w[20] /\ bitRange(g, 20, 20) = w[31]
      /\ w[20] \in Int /\ w[31] \in Int
  BY <1>1, OneBit DEF Raw
<1>4. /\ bitRange(g, 20, 0) = bitRange(g, 0, 0) + Pow(1) * bitRange(g, 20, 1)
      /\ bitRange(g, 20, 1) = bitRange(g, 10, 1) + Pow(10) * bitRange(g, 20, 11)
      /\ bitRange(g, 20, 11) = bitRange(g, 11, 11) + Pow(1) * bitRange(g, 20, 12)
      /\ bitRange(g, 20, 12) = bitRange(g, 19, 12) + Pow(8) * bitRange(g, 20, 20)
  BY <1>1, FieldSplit
<1>5. bitRange(g, 10, 1) \in Int /\ bitRange(g, 19, 12) \in Int
  BY <1>1, FieldStep
<1>6. bitRange(g, 20, 0) = 1048576 * w[31] + 4096 * bitRange(w, 19, 12)
                             + 2048 * w[20] + 2 * bitRange(w, 30, 21)
  BY <1>2, <1>3, <1>4, <1>5, SmallPowers, SMT
<1>7. SignedBits(immJ(w), 21, Pow(20), g, 0)
  <2>1. immJ(w) = signExtend(bitRange(g, 20, 0), 21)
    BY <1>6, SMT DEF immJ
  <2> QED
    BY <1>1, <2>1, Extended
<1>8. immJ(w) \in Int /\ - Pow(20) <= immJ(w) /\ immJ(w) <= Pow(20) - 2 /\ immJ(w) % 2 = 0
  <2>1. Pow(20) \in Nat /\ Pow(20) % 2 = 0 /\ 21 \in Nat \ {0}
    BY SmallPowers, SMT
  <2> QED
    BY <1>1, <1>7, <2>1, EvenSigned
<1>9. ASSUME NEW k \in 12 .. 31
       PROVE  w[k] = BitOf(immJ(w), CASE k <= 19 -> k [] k = 20 -> 11
                                      [] k = 31 -> 20 [] OTHER -> k - 20)
  <2> DEFINE j == CASE k <= 19 -> k [] k = 20 -> 11 [] k = 31 -> 20 [] OTHER -> k - 20
  <2>1. j \in 0 .. 21 - 1 /\ g[j] = w[k] /\ 0 + j = j
    BY <1>1
  <2> HIDE DEF j
  <2>2. BitOf(immJ(w), j) = g[j]
    BY <1>7, <2>1, SignedBit
  <2> QED
    BY <2>1, <2>2 DEF j
<1> QED
  BY <1>8, <1>9

LEMMA ImmediateU ==
  ASSUME NEW w \in Raw
  PROVE  immU(w) \in Int /\ immU(w) % 4096 = 0 /\ \A k \in 12 .. 31 : w[k] = BitOf(immU(w), k)
<1> DEFINE s == signExtend(bitRange(w, 31, 12), 20)
           x == immU(w)
<1>1. SignedBits(s, 20, Pow(19), w, 12)
  BY Extended
<1>2. Pow(19) \in Nat /\ Pow(12) = 4096
  BY Powers, SmallPowers, SMT
<1>3. s \in Int
  BY <1>1, <1>2, SMT DEF SignedBits
<1>4. x = 4096 * s
  BY DEF immU
<1> HIDE DEF s, x
<1>5. x \in Int /\ x % 4096 = 0 /\ x \div 4096 = s
  BY <1>3, <1>4, SMT
<1>6. ASSUME NEW k \in 12 .. 31 PROVE w[k] = BitOf(x, k)
  <2> DEFINE j == k - 12
  <2>1. /\ j \in Nat /\ j <= 31 /\ 12 + j = k /\ 12 + j <= 31 /\ j \in 0 .. 20 - 1
        /\ k \in Nat /\ k <= 31
    OBVIOUS
  <2> HIDE DEF j
  <2>2. Pow(12 + j) = Pow(12) * Pow(j) /\ Pow(j) \in Nat \ {0}
    BY <2>1, PowersAdd, Powers
  <2>3. (x \div 4096) \div Pow(j) = x \div (4096 * Pow(j))
    BY <1>5, <2>2, QuotientTwice, SMT
  <2>4. BitOf(x, k) = (x \div Pow(k)) % 2 /\ BitOf(s, j) = (s \div Pow(j)) % 2
    BY <1>3, <1>5, <2>1, BitIs
  <2>5. BitOf(s, j) = w[12 + j]
    BY <1>1, <2>1, SMT DEF SignedBits
  <2>6. x \div Pow(k) = s \div Pow(j)
    BY <1>2, <1>5, <2>1, <2>2, <2>3, SMT
  <2> QED
    BY <2>1, <2>4, <2>5, <2>6
<1> QED
  BY <1>5, <1>6, SMT DEF x

-----------------------------------------------------------------------------
(* Numbers and the bits that hold them *)

(* The remainder by the next power has one bit more. *)
LEMMA NextRemainder ==
  ASSUME NEW c \in Nat, NEW k \in Nat, k <= 31
  PROVE  c % Pow(k + 1) = (c % Pow(k)) + ((c \div Pow(k)) % 2) * Pow(k)
<1> DEFINE P == Pow(k)
           r == c % P
           q == c \div P
           e == q % 2
           s == q \div 2
<1>1. P \in Nat \ {0} /\ Pow(k + 1) = 2 * P
  BY Powers
<1> HIDE DEF P
<1>2. c = r + P * q /\ q \in Int /\ r \in 0 .. P - 1
  BY <1>1
<1>3. q = e + 2 * s /\ s \in Int /\ e \in {0, 1}
  BY <1>2
<1> HIDE DEF r, q, e, s
<1>4. P * q = P * e + (2 * P) * s
  BY <1>1, <1>3
<1>5. P * e \in {0, P} /\ P * e = e * P
  BY <1>1, <1>3
<1>6. (2 * P) * s \in Int /\ 2 * P \in Nat \ {0}
  BY <1>1, <1>3
<1>7. r + P * e \in 0 .. 2 * P - 1 /\ c = (r + P * e) + (2 * P) * s
  BY <1>1, <1>2, <1>4, <1>5, <1>6
<1>8. c % (2 * P) = r + P * e
  <2>1. PICK M \in Nat \ {0} : M = 2 * P
    BY <1>6
  <2>2. PICK u \in 0 .. M - 1 : u = r + P * e
    BY <1>7, <2>1
  <2>3. c = u + M * s
    BY <1>7, <2>1, <2>2
  <2>4. c % M = u
    BY <1>3, <2>3, Quotient
  <2> QED
    BY <2>1, <2>2, <2>4
<1> QED
  BY <1>1, <1>5, <1>8 DEF r, q, e, P

(* A field that holds the bits of a number is that number. *)
LEMMA HeldValue ==
  ASSUME NEW w \in Raw, NEW lo \in Nat, NEW n \in Nat, n <= 31, lo <= 31, lo + n <= 32,
         NEW c \in Nat, c < Pow(n), Holds(w, c, lo, n)
  PROVE  bitRange(w, lo + n - 1, lo) = c
<1> DEFINE Same(k) == bitRange(w, lo + k - 1, lo) = c % Pow(k)
           Bad == {k \in 0 .. n : ~Same(k)}
<1>1. ASSUME NEW k \in 0 .. n - 1 PROVE w[lo + k] = (c \div Pow(k)) % 2
  BY DEF Holds, Free, Pow
<1>2. ASSUME Bad # {} PROVE FALSE
  <2> Bad \in SUBSET Nat
    OBVIOUS
  <2>1. PICK k \in Bad : \A j \in Bad : k <= j
    BY <1>2, LeastNat
  <2>2. k \in 0 .. n /\ ~Same(k)
    BY <2>1
  <2>3. CASE k = 0
    <3>1. lo + k - 1 = lo - 1 /\ Pow(0) = 1 /\ c % 1 = 0 /\ lo - 1 \in lo - 1 .. 31
      BY <2>3, Powers
    <3>2. bitRange(w, lo - 1, lo) = 0
      BY <3>1, FieldStep
    <3> QED
      BY <2>2, <2>3, <3>1, <3>2
  <2>4. CASE k # 0
    <3> DEFINE p == k - 1
               h == lo + p
    <3>1. /\ p \in 0 .. n /\ ~(k <= p) /\ p \in 0 .. n - 1 /\ k = p + 1 /\ p \in Nat /\ p <= 31
          /\ h \in lo - 1 .. 31 /\ h >= lo /\ h - lo = p /\ h = lo + p
          /\ h = lo + k - 1 /\ h - 1 = lo + p - 1
      BY <2>2, <2>4
    <3> HIDE DEF p, h
    <3>2. Same(p)
      BY <2>1, <3>1
    <3>3. bitRange(w, h, lo) = bitRange(w, h - 1, lo) + w[h] * Pow(p)
      BY <3>1, FieldStep
    <3>4. w[h] = (c \div Pow(p)) % 2
      BY <1>1, <3>1
    <3>5. c % Pow(p + 1) = (c % Pow(p)) + ((c \div Pow(p)) % 2) * Pow(p)
      BY <3>1, NextRemainder
    <3>6. bitRange(w, h, lo) = c % Pow(k)
      BY <3>1, <3>2, <3>3, <3>4, <3>5
    <3> QED
      BY <2>2, <3>1, <3>6
  <2> QED
    BY <2>3, <2>4
<1>3. n \in 0 .. n /\ Pow(n) \in Nat \ {0}
  BY Powers
<1>4. c % Pow(n) = c
  BY <1>3
<1> QED
  BY <1>2, <1>3, <1>4

LEMMA FieldHeld ==
  ASSUME NEW w \in Raw, NEW lo \in Nat, NEW n \in Nat \ {0}, n <= 31, lo <= 31, lo + n <= 32,
         NEW c, c = bitRange(w, lo + n - 1, lo)
  PROVE  Holds(w, c, lo, n)
<1> DEFINE hi == lo + n - 1
<1>1. ASSUME NEW k \in 0 .. n - 1 PROVE w[lo + k] = (c \div 2^k) % 2
  <2> DEFINE m == lo + k
  <2>1. hi \in lo .. 31 /\ m \in lo .. hi /\ m - lo = k
    OBVIOUS
  <2> HIDE DEF hi, m
  <2>2. (bitRange(w, hi, lo) \div Pow(m - lo)) % 2 = w[m]
    BY <2>1, UnsignedBit
  <2> QED
    BY <2>1, <2>2 DEF hi, m, Pow
<1> QED
  BY <1>1 DEF Holds

(* The opcode and function fields hold a constant when they are equal to it. *)
LEMMA OpcodeHeld ==
  ASSUME NEW w \in Raw
  PROVE  /\ \A c \in Nat : c < 128 => (Holds(w, c, 0, 7) <=> opcode(w) = c)
         /\ \A c \in Nat : c < 8 => (Holds(w, c, 12, 3) <=> funct3(w) = c)
         /\ \A c \in Nat : c < 128 => (Holds(w, c, 25, 7) <=> funct7(w) = c)
<1>1. Pow(7) = 128 /\ Pow(3) = 8
  BY DEF Pow
<1>2. ASSUME NEW c \in Nat, c < 128 PROVE Holds(w, c, 0, 7) <=> opcode(w) = c
  BY <1>1, <1>2, HeldValue, FieldHeld DEF opcode
<1>3. ASSUME NEW c \in Nat, c < 8 PROVE Holds(w, c, 12, 3) <=> funct3(w) = c
  BY <1>1, <1>3, HeldValue, FieldHeld DEF funct3
<1>4. ASSUME NEW c \in Nat, c < 128 PROVE Holds(w, c, 25, 7) <=> funct7(w) = c
  BY <1>1, <1>4, HeldValue, FieldHeld DEF funct7
<1> QED
  BY <1>2, <1>3, <1>4

-----------------------------------------------------------------------------
(* The opcode tables *)

(* The word has the fields of the row. *)
Matches(row, w) ==
  /\ opcode(w) = row.opc
  /\ row.f3 = Free \/ funct3(w) = row.f3
  /\ row.f7 = Free \/ funct7(w) = row.f7
  /\ row.op = "Ecall" => \A k \in 7 .. 24 : w[k] = 0

RowFits(row) ==
  /\ row.opc \in Nat /\ row.opc < 128
  /\ row.f3 = Free \/ (row.f3 \in Nat /\ row.f3 < 8)
  /\ row.f7 = Free \/ (row.f7 \in Nat /\ row.f7 < 128)

LEMMA EncodesMatches ==
  ASSUME NEW w \in Raw, NEW row, RowFits(row)
  PROVE  Encodes(row, w) <=> Matches(row, w)
<1>1. Holds(w, row.opc, 0, 7) <=> opcode(w) = row.opc
  BY OpcodeHeld DEF RowFits
<1>2. Holds(w, row.f3, 12, 3) <=> (row.f3 = Free \/ funct3(w) = row.f3)
  <2>1. CASE row.f3 = Free
    BY <2>1 DEF Holds
  <2>2. CASE row.f3 \in Nat /\ row.f3 < 8
    BY <2>2, OpcodeHeld DEF Free
  <2> QED
    BY <2>1, <2>2 DEF RowFits
<1>3. Holds(w, row.f7, 25, 7) <=> (row.f7 = Free \/ funct7(w) = row.f7)
  <2>1. CASE row.f7 = Free
    BY <2>1 DEF Holds
  <2>2. CASE row.f7 \in Nat /\ row.f7 < 128
    BY <2>2, OpcodeHeld DEF Free
  <2> QED
    BY <2>1, <2>2 DEF RowFits
<1> QED
  BY <1>1, <1>2, <1>3 DEF Encodes, Matches

(* The groups of rows that share an opcode. *)
LoneRows ==
  {Row("Lui", 55, Free, Free), Row("Auipc", 23, Free, Free), Row("Jal", 111, Free, Free),
   Row("Jalr", 103, 0, Free), Row("Fence", 15, 0, Free), Row("Ecall", 115, 0, 0)}
BranchRows == Rows(<<"Beq", "Bne", "Blt", "Bge", "Bltu", "Bgeu">>, 99, <<0, 1, 4, 5, 6, 7>>, Free)
LoadRows == Rows(<<"Lb", "Lh", "Lw", "Lbu", "Lhu">>, 3, <<0, 1, 2, 4, 5>>, Free)
StoreRows == Rows(<<"Sb", "Sh", "Sw">>, 35, <<0, 1, 2>>, Free)
ImmediateRows ==
  Rows(<<"Addi", "Slti", "Sltiu", "Xori", "Ori", "Andi">>, 19, <<0, 2, 3, 4, 6, 7>>, Free)
ShiftRows == Rows(<<"Slli", "Srli">>, 19, <<1, 5>>, 0) \cup {Row("Srai", 19, 5, 32)}
RegisterRows ==
  Rows(<<"Add", "Sll", "Slt", "Sltu", "Xor", "Srl", "Or", "And">>, 51, <<0, 1, 2, 3, 4, 5, 6, 7>>, 0)
    \cup {Row("Sub", 51, 0, 32), Row("Sra", 51, 5, 32)}

LEMMA TableGroups ==
  Table = LoneRows \cup BranchRows \cup LoadRows \cup StoreRows \cup ImmediateRows
            \cup ShiftRows \cup RegisterRows
BY Zenon DEF Table, LoneRows, BranchRows, LoadRows, StoreRows, ImmediateRows, ShiftRows, RegisterRows

LEMMA InGroups ==
  ASSUME NEW row
  PROVE  /\ row \in BranchRows <=>
              \E p \in {<<"Beq", 0>>, <<"Bne", 1>>, <<"Blt", 4>>, <<"Bge", 5>>, <<"Bltu", 6>>, <<"Bgeu", 7>>} :
                row = Row(p[1], 99, p[2], Free)
         /\ row \in LoadRows <=>
              \E p \in {<<"Lb", 0>>, <<"Lh", 1>>, <<"Lw", 2>>, <<"Lbu", 4>>, <<"Lhu", 5>>} :
                row = Row(p[1], 3, p[2], Free)
         /\ row \in StoreRows <=>
              \E p \in {<<"Sb", 0>>, <<"Sh", 1>>, <<"Sw", 2>>} : row = Row(p[1], 35, p[2], Free)
         /\ row \in ImmediateRows <=>
              \E p \in {<<"Addi", 0>>, <<"Slti", 2>>, <<"Sltiu", 3>>, <<"Xori", 4>>, <<"Ori", 6>>, <<"Andi", 7>>} :
                row = Row(p[1], 19, p[2], Free)
         /\ row \in ShiftRows <=>
              \E p \in {<<"Slli", 1, 0>>, <<"Srli", 5, 0>>, <<"Srai", 5, 32>>} : row = Row(p[1], 19, p[2], p[3])
         /\ row \in RegisterRows <=>
              \E p \in {<<"Add", 0, 0>>, <<"Sll", 1, 0>>, <<"Slt", 2, 0>>, <<"Sltu", 3, 0>>, <<"Xor", 4, 0>>,
                        <<"Srl", 5, 0>>, <<"Or", 6, 0>>, <<"And", 7, 0>>, <<"Sub", 0, 32>>, <<"Sra", 5, 32>>} :
                row = Row(p[1], 51, p[2], p[3])
<1>1. row \in BranchRows <=>
              \E p \in {<<"Beq", 0>>, <<"Bne", 1>>, <<"Blt", 4>>, <<"Bge", 5>>, <<"Bltu", 6>>, <<"Bgeu", 7>>} :
                row = Row(p[1], 99, p[2], Free)
  BY DEF BranchRows, Rows
<1>2. row \in LoadRows <=>
              \E p \in {<<"Lb", 0>>, <<"Lh", 1>>, <<"Lw", 2>>, <<"Lbu", 4>>, <<"Lhu", 5>>} :
                row = Row(p[1], 3, p[2], Free)
  BY DEF LoadRows, Rows
<1>3. row \in StoreRows <=>
              \E p \in {<<"Sb", 0>>, <<"Sh", 1>>, <<"Sw", 2>>} : row = Row(p[1], 35, p[2], Free)
  BY DEF StoreRows, Rows
<1>4. row \in ImmediateRows <=>
              \E p \in {<<"Addi", 0>>, <<"Slti", 2>>, <<"Sltiu", 3>>, <<"Xori", 4>>, <<"Ori", 6>>, <<"Andi", 7>>} :
                row = Row(p[1], 19, p[2], Free)
  BY DEF ImmediateRows, Rows
<1>5. row \in ShiftRows <=>
              \E p \in {<<"Slli", 1, 0>>, <<"Srli", 5, 0>>, <<"Srai", 5, 32>>} : row = Row(p[1], 19, p[2], p[3])
  BY DEF ShiftRows, Rows
<1>6. row \in RegisterRows <=>
              \E p \in {<<"Add", 0, 0>>, <<"Sll", 1, 0>>, <<"Slt", 2, 0>>, <<"Sltu", 3, 0>>, <<"Xor", 4, 0>>,
                        <<"Srl", 5, 0>>, <<"Or", 6, 0>>, <<"And", 7, 0>>, <<"Sub", 0, 32>>, <<"Sra", 5, 32>>} :
                row = Row(p[1], 51, p[2], p[3])
  BY DEF RegisterRows, Rows
<1> QED
  BY <1>1, <1>2, <1>3, <1>4, <1>5, <1>6

(* A row that the word matches names what the decoder makes of the word. *)
Decides(row, w) ==
  RowFits(row) /\ row.op # "Illegal" /\ (Matches(row, w) => opcodeOf(w) = row.op)

LEMMA RowDecides ==
  ASSUME NEW w \in Raw, NEW row \in Table
  PROVE  Decides(row, w)
<1>1. CASE row \in LoneRows
  <2>1. CASE row = Row("Ecall", 115, 0, 0)
    <3>1. RowFits(row) /\ row.op # "Illegal"
      BY <2>1 DEF RowFits, Row, Free
    <3>2. ASSUME Matches(row, w) PROVE opcodeOf(w) = "Ecall"
      <4>1. /\ opcode(w) = 115 /\ funct3(w) = 0 /\ funct7(w) = 0
            /\ \A k \in 7 .. 24 : w[k] = 0
        BY <2>1, <3>2 DEF Matches, Row, Free
      <4>2. Holds(w, 0, 25, 7)
        BY <4>1, OpcodeHeld
      <4>3. ASSUME NEW k \in 25 .. 31 PROVE w[k] = 0
        <5> DEFINE j == k - 25
        <5>1. j \in 0 .. 7 - 1 /\ 25 + j = k /\ j \in Nat /\ j <= 31
          OBVIOUS
        <5> HIDE DEF j
        <5>2. Pow(j) \in Nat \ {0} /\ w[k] = (0 \div Pow(j)) % 2
          BY <4>2, <5>1, Powers DEF Holds, Free, Pow
        <5>3. 0 \div Pow(j) = 0
          BY <5>2
        <5> QED
          BY <5>2, <5>3
      <4>4. \A k \in 7 .. 31 : w[k] = 0
        BY <4>1, <4>3
      <4> QED
        BY <4>1, <4>4 DEF opcodeOf
    <3>3. row.op = "Ecall"
      BY <2>1 DEF Row
    <3> QED
      BY <3>1, <3>2, <3>3 DEF Decides
  <2>2. CASE row # Row("Ecall", 115, 0, 0)
    <3>1. row \in {Row("Lui", 55, Free, Free), Row("Auipc", 23, Free, Free), Row("Jal", 111, Free, Free),
                   Row("Jalr", 103, 0, Free), Row("Fence", 15, 0, Free)}
      BY <1>1, <2>2 DEF LoneRows
    <3> QED
      BY <3>1 DEF Decides, RowFits, Row, Free, Matches, opcodeOf
  <2> QED
    BY <2>1, <2>2
<1>2. CASE row \in BranchRows
  BY <1>2, InGroups DEF Decides, RowFits, Row, Free, Matches, opcodeOf, branchOf
<1>3. CASE row \in LoadRows
  BY <1>3, InGroups DEF Decides, RowFits, Row, Free, Matches, opcodeOf, loadOf
<1>4. CASE row \in StoreRows
  BY <1>4, InGroups DEF Decides, RowFits, Row, Free, Matches, opcodeOf, storeOf
<1>5. CASE row \in ImmediateRows
  BY <1>5, InGroups DEF Decides, RowFits, Row, Free, Matches, opcodeOf, immediateOf
<1>6. CASE row \in ShiftRows
  BY <1>6, InGroups DEF Decides, RowFits, Row, Free, Matches, opcodeOf, immediateOf
<1>7. CASE row \in RegisterRows
  BY <1>7, InGroups DEF Decides, RowFits, Row, Free, Matches, opcodeOf, registerOf
<1> QED
  BY <1>1, <1>2, <1>3, <1>4, <1>5, <1>6, <1>7, TableGroups

(* What the decoder makes of a word is named by a row that the word matches. *)
LEMMA DecodedRow ==
  ASSUME NEW w \in Raw, opcodeOf(w) # "Illegal"
  PROVE  \E row \in Table : row.op = opcodeOf(w) /\ Matches(row, w)
<1> DEFINE opc == opcode(w)
           f3 == funct3(w)
           f7 == funct7(w)
<1>0. f3 \in 0 .. 7
  <2>1. Pow(14 + 1 - 12) = 8 /\ 12 \in Nat /\ 14 \in 12 - 1 .. 31
    BY DEF Pow
  <2>2. bitRange(w, 14, 12) \in 0 .. Pow(14 + 1 - 12) - 1
    BY <2>1, FieldRange
  <2> QED
    BY <2>1, <2>2 DEF funct3
<1>1. CASE opc = 99
  <2>1. opcodeOf(w) = branchOf(f3)
    BY <1>1 DEF opcodeOf
  <2>2. PICK p \in {<<"Beq", 0>>, <<"Bne", 1>>, <<"Blt", 4>>, <<"Bge", 5>>, <<"Bltu", 6>>, <<"Bgeu", 7>>} :
          opcodeOf(w) = p[1] /\ f3 = p[2]
    BY <2>1 DEF branchOf
  <2>3. Row(p[1], 99, p[2], Free) \in BranchRows
    BY InGroups
  <2>4. Row(p[1], 99, p[2], Free).op = opcodeOf(w) /\ Matches(Row(p[1], 99, p[2], Free), w)
    BY <1>1, <2>2 DEF Matches, Row, Free
  <2> QED
    BY <2>3, <2>4, TableGroups
<1>2. CASE opc = 3
  <2>1. opcodeOf(w) = loadOf(f3)
    BY <1>2 DEF opcodeOf
  <2>2. PICK p \in {<<"Lb", 0>>, <<"Lh", 1>>, <<"Lw", 2>>, <<"Lbu", 4>>, <<"Lhu", 5>>} :
          opcodeOf(w) = p[1] /\ f3 = p[2]
    BY <2>1 DEF loadOf
  <2>3. Row(p[1], 3, p[2], Free) \in LoadRows
    BY InGroups
  <2>4. Row(p[1], 3, p[2], Free).op = opcodeOf(w) /\ Matches(Row(p[1], 3, p[2], Free), w)
    BY <1>2, <2>2 DEF Matches, Row, Free
  <2> QED
    BY <2>3, <2>4, TableGroups
<1>3. CASE opc = 35
  <2>1. opcodeOf(w) = storeOf(f3)
    BY <1>3 DEF opcodeOf
  <2>2. PICK p \in {<<"Sb", 0>>, <<"Sh", 1>>, <<"Sw", 2>>} : opcodeOf(w) = p[1] /\ f3 = p[2]
    BY <2>1 DEF storeOf
  <2>3. Row(p[1], 35, p[2], Free) \in StoreRows
    BY InGroups
  <2>4. Row(p[1], 35, p[2], Free).op = opcodeOf(w) /\ Matches(Row(p[1], 35, p[2], Free), w)
    BY <1>3, <2>2 DEF Matches, Row, Free
  <2> QED
    BY <2>3, <2>4, TableGroups
<1>4. CASE opc = 19 /\ f3 \notin {1, 5}
  <2>1. opcodeOf(w) = immediateOf(f3, f7)
    BY <1>4 DEF opcodeOf
  <2>2. PICK p \in {<<"Addi", 0>>, <<"Slti", 2>>, <<"Sltiu", 3>>, <<"Xori", 4>>, <<"Ori", 6>>, <<"Andi", 7>>} :
          opcodeOf(w) = p[1] /\ f3 = p[2]
    BY <1>4, <2>1 DEF immediateOf
  <2>3. Row(p[1], 19, p[2], Free) \in ImmediateRows
    BY InGroups
  <2>4. Row(p[1], 19, p[2], Free).op = opcodeOf(w) /\ Matches(Row(p[1], 19, p[2], Free), w)
    BY <1>4, <2>2 DEF Matches, Row, Free
  <2> QED
    BY <2>3, <2>4, TableGroups
<1>5. CASE opc = 19 /\ f3 \in {1, 5}
  <2>1. opcodeOf(w) = immediateOf(f3, f7)
    BY <1>5 DEF opcodeOf
  <2>2. PICK p \in {<<"Slli", 1, 0>>, <<"Srli", 5, 0>>, <<"Srai", 5, 32>>} :
          opcodeOf(w) = p[1] /\ f3 = p[2] /\ f7 = p[3]
    BY <1>5, <2>1 DEF immediateOf
  <2>3. Row(p[1], 19, p[2], p[3]) \in ShiftRows
    BY InGroups
  <2>4. Row(p[1], 19, p[2], p[3]).op = opcodeOf(w) /\ Matches(Row(p[1], 19, p[2], p[3]), w)
    BY <1>5, <2>2 DEF Matches, Row, Free
  <2> QED
    BY <2>3, <2>4, TableGroups
<1>6. CASE opc = 51
  <2>1. opcodeOf(w) = registerOf(f3, f7)
    BY <1>6 DEF opcodeOf
  <2>2. PICK p \in {<<"Add", 0, 0>>, <<"Sll", 1, 0>>, <<"Slt", 2, 0>>, <<"Sltu", 3, 0>>, <<"Xor", 4, 0>>,
                    <<"Srl", 5, 0>>, <<"Or", 6, 0>>, <<"And", 7, 0>>, <<"Sub", 0, 32>>, <<"Sra", 5, 32>>} :
          opcodeOf(w) = p[1] /\ f3 = p[2] /\ f7 = p[3]
    <3>1. \/ f3 = 0 \/ f3 = 1 \/ f3 = 2 \/ f3 = 3 \/ f3 = 4 \/ f3 = 5 \/ f3 = 6 \/ f3 = 7
      BY <1>0
    <3> QED
      BY <2>1, <3>1 DEF registerOf
  <2>3. Row(p[1], 51, p[2], p[3]) \in RegisterRows
    BY InGroups
  <2>4. Row(p[1], 51, p[2], p[3]).op = opcodeOf(w) /\ Matches(Row(p[1], 51, p[2], p[3]), w)
    BY <1>6, <2>2 DEF Matches, Row, Free
  <2> QED
    BY <2>3, <2>4, TableGroups
<1>7. CASE opcodeOf(w) = "Ecall" /\ opc = 115
  <2>1. \A k \in 7 .. 31 : w[k] = 0
    BY <1>7 DEF opcodeOf
  <2>2. funct3(w) = 0 /\ funct7(w) = 0
    <3>1. ASSUME NEW lo \in Nat, lo >= 7, NEW n \in Nat \ {0}, n <= 31, lo + n <= 32
          PROVE  Holds(w, 0, lo, n)
      <4>1. ASSUME NEW k \in 0 .. n - 1 PROVE w[lo + k] = (0 \div Pow(k)) % 2
        <5>1. k \in Nat /\ k <= 31 /\ lo + k \in 7 .. 31
          BY <3>1
        <5>2. Pow(k) \in Nat \ {0}
          BY <5>1, Powers
        <5>3. 0 \div Pow(k) = 0 /\ w[lo + k] = 0
          BY <2>1, <5>1, <5>2
        <5> QED
          BY <5>3
      <4> QED
        BY <4>1 DEF Holds, Pow
    <3> QED
      BY <3>1, OpcodeHeld
  <2>3. Row("Ecall", 115, 0, 0) \in LoneRows
    BY DEF LoneRows
  <2>4. Row("Ecall", 115, 0, 0).op = opcodeOf(w) /\ Matches(Row("Ecall", 115, 0, 0), w)
    BY <1>7, <2>1, <2>2 DEF Matches, Row, Free
  <2> QED
    BY <2>3, <2>4, TableGroups
<1>8. CASE opc \notin {99, 3, 35, 19, 51, 115}
  <2>1. PICK row \in {Row("Lui", 55, Free, Free), Row("Auipc", 23, Free, Free), Row("Jal", 111, Free, Free),
                      Row("Jalr", 103, 0, Free), Row("Fence", 15, 0, Free)} :
          row.op = opcodeOf(w) /\ Matches(row, w)
    <3>1. \/ opc = 55 /\ opcodeOf(w) = "Lui"
          \/ opc = 23 /\ opcodeOf(w) = "Auipc"
          \/ opc = 111 /\ opcodeOf(w) = "Jal"
          \/ opc = 103 /\ f3 = 0 /\ opcodeOf(w) = "Jalr"
          \/ opc = 15 /\ f3 = 0 /\ opcodeOf(w) = "Fence"
      BY <1>8 DEF opcodeOf
    <3> QED
      BY <3>1 DEF Matches, Row, Free
  <2>2. row \in LoneRows
    BY DEF LoneRows
  <2> QED
    BY <2>1, <2>2, TableGroups
<1>9. opc = 115 => opcodeOf(w) = "Ecall"
  BY DEF opcodeOf
<1> QED
  BY <1>1, <1>2, <1>3, <1>4, <1>5, <1>6, <1>7, <1>8, <1>9

-----------------------------------------------------------------------------
(* Decoded words *)

(* The immediate of an opcode, bit by bit, and its range.                  *)
ImmediateFits(op, w) ==
  /\ \A k \in DOMAIN Places(op) : w[k] = BitOf(Immediate(op, w), Places(op)[k])
  /\ InRange(op, Immediate(op, w))

LEMMA ImmediateOfOpcode ==
  ASSUME NEW w \in Raw, NEW op
  PROVE  ImmediateFits(op, w)
<1> DEFINE Bare == RegOps \cup {"Fence", "Ecall"}
           Signed == Loads \cup (ImmOps \ Shifts) \cup {"Jalr"}
<1>0. /\ op \in UpperOps => op # "Jal" /\ op \notin Branches \cup Stores \cup Shifts \cup Signed \cup Bare
      /\ op = "Jal" => op \notin UpperOps \cup Branches \cup Stores \cup Shifts \cup Signed \cup Bare
      /\ op \in Branches => op # "Jal" /\ op \notin UpperOps \cup Stores \cup Shifts \cup Signed \cup Bare
      /\ op \in Stores => op # "Jal" /\ op \notin UpperOps \cup Branches \cup Shifts \cup Signed \cup Bare
      /\ op \in Shifts => op # "Jal" /\ op \notin UpperOps \cup Branches \cup Stores \cup Signed \cup Bare
      /\ op \in Signed => op # "Jal" /\ op \notin UpperOps \cup Branches \cup Stores \cup Shifts \cup Bare
  BY DEF UpperOps, Branches, Stores, Shifts, Loads, ImmOps, RegOps
<1>1. CASE op \in UpperOps
  <2>1. Places(op) = [k \in 12 .. 31 |-> k] /\ Immediate(op, w) = immU(w)
    BY <1>0, <1>1, SMT DEF Places, Immediate
  <2>2. InRange(op, immU(w))
    BY <1>0, <1>1, ImmediateU, SMT DEF InRange
  <2> QED
    BY <2>1, <2>2, ImmediateU, SMT DEF ImmediateFits
<1>2. CASE op = "Jal"
  <2> DEFINE place(k) == CASE k <= 19 -> k [] k = 20 -> 11 [] k = 31 -> 20 [] OTHER -> k - 20
  <2>1. Places(op) = [k \in 12 .. 31 |-> place(k)] /\ Immediate(op, w) = immJ(w)
    BY <1>0, <1>2, SMT DEF Places, Immediate
  <2>2. /\ immJ(w) \in Int /\ - Pow(20) <= immJ(w) /\ immJ(w) <= Pow(20) - 2 /\ immJ(w) % 2 = 0
        /\ \A k \in 12 .. 31 : w[k] = BitOf(immJ(w), place(k))
    BY ImmediateJ
  <2>3. InRange(op, immJ(w))
    BY <1>0, <1>2, <2>2, SmallPowers, SMT DEF InRange, Within
  <2> HIDE DEF place
  <2> QED
    BY <2>1, <2>2, <2>3, SMT DEF ImmediateFits
<1>3. CASE op \in Branches
  <2> DEFINE place(k) == CASE k = 7 -> 11 [] k \in 8 .. 11 -> k - 7 [] k = 31 -> 12 [] OTHER -> k - 20
  <2>1. Places(op) = [k \in 7 .. 11 \cup 25 .. 31 |-> place(k)] /\ Immediate(op, w) = immB(w)
    BY <1>0, <1>3, SMT DEF Places, Immediate
  <2>2. /\ immB(w) \in Int /\ - 4096 <= immB(w) /\ immB(w) <= 4094 /\ immB(w) % 2 = 0
        /\ \A k \in 7 .. 11 \cup 25 .. 31 : w[k] = BitOf(immB(w), place(k))
    BY ImmediateB
  <2>3. InRange(op, immB(w))
    BY <1>0, <1>3, <2>2, SMT DEF InRange, Within
  <2> HIDE DEF place
  <2> QED
    BY <2>1, <2>2, <2>3, SMT DEF ImmediateFits
<1>4. CASE op \in Stores
  <2> DEFINE place(k) == IF k <= 11 THEN k - 7 ELSE k - 20
  <2>1. Places(op) = [k \in 7 .. 11 \cup 25 .. 31 |-> place(k)] /\ Immediate(op, w) = immS(w)
    BY <1>0, <1>4, SMT DEF Places, Immediate
  <2>2. /\ immS(w) \in Int /\ Within(immS(w), 2048)
        /\ \A k \in 7 .. 11 \cup 25 .. 31 : w[k] = BitOf(immS(w), place(k))
    BY ImmediateS
  <2>3. InRange(op, immS(w))
    BY <1>0, <1>4, <2>2, SMT DEF InRange, Within
  <2> HIDE DEF place
  <2> QED
    BY <2>1, <2>2, <2>3, SMT DEF ImmediateFits
<1>5. CASE op \in Shifts
  <2> DEFINE v == bitRange(w, 24, 20)
  <2>1. Places(op) = [k \in 20 .. 24 |-> k - 20] /\ Immediate(op, w) = v
    BY <1>0, <1>5, SMT DEF Places, Immediate
  <2>2. v \in 0 .. 31
    <3>1. Pow(24 + 1 - 20) = 32 /\ 20 \in Nat /\ 24 \in 20 - 1 .. 31
      BY DEF Pow
    <3>2. v \in 0 .. Pow(24 + 1 - 20) - 1
      BY <3>1, FieldRange
    <3> QED
      BY <3>1, <3>2
  <2>3. ASSUME NEW k \in 20 .. 24 PROVE w[k] = BitOf(v, k - 20)
    <3>1. (v \div Pow(k - 20)) % 2 = w[k]
      BY UnsignedBit
    <3> DEFINE j == k - 20
    <3>2. j \in Nat /\ j <= 31
      OBVIOUS
    <3>3. v \in Int
      BY <2>2
    <3> HIDE DEF j, v
    <3>4. BitOf(v, j) = (v \div Pow(j)) % 2
      BY <3>2, <3>3, BitIs
    <3> QED
      BY <3>1, <3>4 DEF j
  <2>4. InRange(op, v)
    BY <1>0, <1>5, <2>2, SMT DEF InRange, Within
  <2> HIDE DEF v
  <2> QED
    BY <2>1, <2>3, <2>4, SMT DEF ImmediateFits
<1>6. CASE /\ op \in Loads \cup (ImmOps \ Shifts) \cup {"Jalr"}
           /\ op \notin UpperOps /\ op # "Jal" /\ op \notin Branches /\ op \notin Stores /\ op \notin Shifts
  <2>1. Places(op) = [k \in 20 .. 31 |-> k - 20] /\ Immediate(op, w) = immI(w)
    BY <1>0, <1>6, SMT DEF Places, Immediate
  <2>2. immI(w) \in Int /\ Within(immI(w), 2048) /\ \A k \in 20 .. 31 : w[k] = BitOf(immI(w), k - 20)
    BY ImmediateI
  <2>3. InRange(op, immI(w))
    BY <1>0, <1>6, <2>2, SMT DEF InRange, Within
  <2> QED
    BY <2>1, <2>2, <2>3, SMT DEF ImmediateFits
<1>7. CASE /\ op \notin Loads \cup (ImmOps \ Shifts) \cup {"Jalr"}
           /\ op \notin UpperOps /\ op # "Jal" /\ op \notin Branches /\ op \notin Stores /\ op \notin Shifts
  <2>1. Places(op) = [k \in {} |-> k] /\ Immediate(op, w) = 0
    BY <1>0, <1>7, SMT DEF Places, Immediate
  <2>2. InRange(op, 0)
    BY <1>0, <1>7, SMT DEF InRange, Within
  <2>3. DOMAIN Places(op) = {}
    BY <2>1
  <2> QED
    BY <2>1, <2>2, <2>3 DEF ImmediateFits
<1> QED
  BY <1>1, <1>2, <1>3, <1>4, <1>5, <1>6, <1>7

LEMMA RegistersHeld ==
  ASSUME NEW w \in Raw
  PROVE  /\ Holds(w, bitRange(w, 11, 7), 7, 5)
         /\ Holds(w, bitRange(w, 19, 15), 15, 5)
         /\ Holds(w, bitRange(w, 24, 20), 20, 5)
BY FieldHeld

LEMMA WordDecoded ==
  ASSUME NEW w \in Raw, decode(w).op # "Illegal"
  PROVE  LET d == decode(w) IN
         /\ \E row \in Table : row.op = d.op /\ Encodes(row, w)
         /\ writesRegister(d.op) => Holds(w, d.rd, 7, 5)
         /\ HasRs1(d.op) => Holds(w, d.rs1, 15, 5)
         /\ HasRs2(d.op) => Holds(w, d.rs2, 20, 5)
         /\ \A k \in DOMAIN Places(d.op) : w[k] = BitOf(d.imm, Places(d.op)[k])
         /\ InRange(d.op, d.imm)
<1> DEFINE d == decode(w)
<1>1. /\ d.op = opcodeOf(w) /\ d.imm = Immediate(d.op, w)
      /\ d.rd = IF writesRegister(d.op) THEN bitRange(w, 11, 7) ELSE 0
      /\ d.rs1 = IF HasRs1(d.op) THEN bitRange(w, 19, 15) ELSE 0
      /\ d.rs2 = IF HasRs2(d.op) THEN bitRange(w, 24, 20) ELSE 0
      /\ d.op # "Illegal"
  BY DEF decode
<1> HIDE DEF d
<1>2. \E row \in Table : row.op = d.op /\ Encodes(row, w)
  <2>1. PICK row \in Table : row.op = opcodeOf(w) /\ Matches(row, w)
    BY <1>1, DecodedRow
  <2>2. RowFits(row)
    BY RowDecides DEF Decides
  <2> QED
    BY <1>1, <2>1, <2>2, EncodesMatches
<1>3. ImmediateFits(d.op, w)
  BY ImmediateOfOpcode
<1>4. /\ writesRegister(d.op) => Holds(w, d.rd, 7, 5)
      /\ HasRs1(d.op) => Holds(w, d.rs1, 15, 5)
      /\ HasRs2(d.op) => Holds(w, d.rs2, 20, 5)
  BY <1>1, RegistersHeld, Zenon
<1>5. /\ \A k \in DOMAIN Places(d.op) : w[k] = BitOf(d.imm, Places(d.op)[k])
      /\ InRange(d.op, d.imm)
  BY <1>1, <1>3, Zenon DEF ImmediateFits
<1> QED
  BY <1>2, <1>4, <1>5, Zenon DEF d

LEMMA WordRejected ==
  ASSUME NEW w \in Raw
  PROVE  decode(w).op = "Illegal" <=> ~\E row \in Table : Encodes(row, w)
<1>1. decode(w).op = opcodeOf(w)
  BY DEF decode
<1>2. ASSUME opcodeOf(w) # "Illegal" PROVE \E row \in Table : Encodes(row, w)
  <2>1. PICK row \in Table : row.op = opcodeOf(w) /\ Matches(row, w)
    BY <1>2, DecodedRow
  <2>2. RowFits(row)
    BY RowDecides DEF Decides
  <2> QED
    BY <2>1, <2>2, EncodesMatches
<1>3. ASSUME NEW row \in Table, Encodes(row, w) PROVE opcodeOf(w) # "Illegal"
  BY <1>3, RowDecides, EncodesMatches DEF Decides
<1> QED
  BY <1>1, <1>2, <1>3

-----------------------------------------------------------------------------
(* Words and their bits *)

LEMMA WordShape ==
  /\ WordBits \in 1 .. 32 /\ WordMod = Pow(WordBits) /\ WordMod \in Nat \ {0}
  /\ Word = 0 .. WordMod - 1
  /\ WordMod = 2 * Pow(WordBits - 1) /\ Pow(WordBits - 1) \in Nat \ {0}
<1>1. WordBits \in 1 .. 32 /\ WordMod = Pow(WordBits)
  BY WordBitsAssumption DEF Pow
<1>2. WordBits - 1 \in Nat /\ WordBits - 1 <= 31 /\ (WordBits - 1) + 1 = WordBits
  BY <1>1
<1>3. Pow(WordBits) = 2 * Pow(WordBits - 1) /\ Pow(WordBits - 1) \in Nat \ {0}
  BY <1>2, Powers
<1> QED
  BY <1>1, <1>3 DEF Word

LEMMA BitPow ==
  ASSUME NEW x \in Int, NEW k \in Nat, k <= 32
  PROVE  Bit(x, k) = (x \div Pow(k)) % 2 /\ x \div Pow(k) \in Int /\ Bit(x, k) \in {0, 1}
<1>1. Pow(k) \in Nat \ {0}
  BY PowerType
<1>2. Bit(x, k) = (x \div Pow(k)) % 2
  BY DEF Bit, Pow
<1> QED
  BY <1>1, <1>2

(* A multiple of the next power does not show in a bit. *)
LEMMA BitBelow ==
  ASSUME NEW x \in Int, NEW k \in Nat, k <= 31, NEW q \in Int, NEW y \in Int,
         y = x + Pow(k) * (2 * q)
  PROVE  Bit(y, k) = Bit(x, k)
<1> DEFINE P == Pow(k)
           r == x % P
           s == x \div P
<1>1. P \in Nat \ {0}
  BY PowerType
<1>2. Bit(y, k) = (y \div P) % 2 /\ Bit(x, k) = s % 2
  BY BitPow
<1>3. y = x + P * (2 * q)
  OBVIOUS
<1> HIDE DEF P
<1>4. x = r + P * s /\ s \in Int /\ r \in 0 .. P - 1
  BY <1>1
<1> HIDE DEF r, s
<1>5. PICK u \in Int : u = s + 2 * q
  BY <1>4
<1>6. P * u = P * s + P * (2 * q) /\ P * s \in Int /\ P * (2 * q) \in Int
  <2>1. P \in Int /\ s \in Int /\ 2 * q \in Int
    BY <1>1, <1>4
  <2> QED
    BY <1>5, <2>1
<1>7. y = r + P * u
  BY <1>3, <1>4, <1>6
<1>8. y \div P = u
  <2>1. r \in 0 .. P - 1
    BY <1>4
  <2> QED
    BY <1>1, <1>7, <2>1, Quotient
<1>9. u % 2 = s % 2
  BY <1>4, <1>5
<1> QED
  BY <1>2, <1>8, <1>9

LEMMA ModParts ==
  ASSUME NEW k \in 0 .. WordBits - 1
  PROVE  /\ k \in Nat /\ k <= 31 /\ Pow(WordBits - 1 - k) \in Nat \ {0}
         /\ WordMod = Pow(k) * (2 * Pow(WordBits - 1 - k))
<1> DEFINE j == WordBits - 1 - k
<1>1. k \in Nat /\ k <= 31 /\ j \in Nat /\ j <= 31 /\ k + (j + 1) = WordBits /\ k + (j + 1) <= 32
  BY WordShape
<1> HIDE DEF j
<1>2. Pow(j + 1) = 2 * Pow(j) /\ Pow(j) \in Nat \ {0}
  BY <1>1, Powers
<1>3. Pow(k + (j + 1)) = Pow(k) * Pow(j + 1)
  BY <1>1, PowersAdd
<1> QED
  BY <1>1, <1>2, <1>3, WordShape DEF j

(* Reduction to a word keeps the bits it has. *)
LEMMA BitReduced ==
  ASSUME NEW x \in Int, NEW k \in 0 .. WordBits - 1
  PROVE  Bit(x % WordMod, k) = Bit(x, k)
<1> DEFINE P == Pow(k)
           z == Pow(WordBits - 1 - k)
           r == x % WordMod
           q == x \div WordMod
<1>1. /\ k \in Nat /\ k <= 31 /\ z \in Nat \ {0} /\ WordMod = P * (2 * z)
      /\ P \in Nat \ {0} /\ WordMod \in Nat \ {0}
  <2>1. k \in Nat /\ k <= 31 /\ z \in Nat \ {0} /\ WordMod = P * (2 * z)
    BY ModParts
  <2>2. P \in Nat \ {0} /\ WordMod \in Nat \ {0}
    BY <2>1, PowerType, WordShape
  <2> QED
    BY <2>1, <2>2
<1>2. x = r + WordMod * q /\ q \in Int /\ r \in Int
  <2>1. WordMod \in Nat \ {0}
    BY <1>1
  <2> QED
    BY <2>1
<1>3. Pow(k) = P
  OBVIOUS
<1> HIDE DEF P, z, r, q
<1>4. WordMod * q = P * (2 * (z * q)) /\ z * q \in Int
  BY <1>1, <1>2
<1>5. Bit(x, k) = Bit(r, k)
  <2>1. PICK u \in Int : u = z * q
    BY <1>4
  <2>2. x = r + Pow(k) * (2 * u) /\ r \in Int /\ k \in Nat /\ k <= 31
    BY <1>1, <1>2, <1>3, <1>4, <2>1
  <2> QED
    BY <2>1, <2>2, BitBelow
<1> QED
  BY <1>5 DEF r

(* Words with the same bits are the same word. *)
LEMMA SameWord ==
  ASSUME NEW x \in Word, NEW y \in Word, \A k \in Positions : Bit(x, k) = Bit(y, k)
  PROVE  x = y
<1> DEFINE Bad == {k \in 0 .. WordBits : x % Pow(k) # y % Pow(k)}
<1>0. x \in Nat /\ y \in Nat /\ WordBits \in 1 .. 32
  BY WordShape
<1>1. ASSUME Bad # {} PROVE FALSE
  <2> Bad \in SUBSET Nat
    BY <1>0
  <2>1. PICK k \in Bad : \A j \in Bad : k <= j
    BY <1>1, LeastNat
  <2>2. CASE k = 0
    <3>1. Pow(0) = 1
      BY Powers
    <3> QED
      BY <1>0, <2>1, <2>2, <3>1
  <2>3. CASE k # 0
    <3>1. PICK p \in Nat : k = p + 1
      BY <1>0, <2>1, <2>3
    <3>2. p \in 0 .. WordBits /\ ~(k <= p) /\ p <= 31 /\ p \in Positions
      BY <1>0, <2>1, <3>1 DEF Positions
    <3>3. x % Pow(p) = y % Pow(p) /\ Bit(x, p) = Bit(y, p)
      BY <2>1, <3>2
    <3>4. /\ x % Pow(p + 1) = (x % Pow(p)) + Bit(x, p) * Pow(p)
          /\ y % Pow(p + 1) = (y % Pow(p)) + Bit(y, p) * Pow(p)
      BY <1>0, <3>1, <3>2, NextRemainder, BitPow
    <3>5. x % Pow(k) = y % Pow(k)
      BY <3>1, <3>3, <3>4
    <3> QED
      BY <2>1, <3>5
  <2> QED
    BY <2>2, <2>3
<1>2. WordBits \in 0 .. WordBits /\ x % WordMod = x /\ y % WordMod = y
  <2>1. WordMod \in Nat \ {0} /\ x \in 0 .. WordMod - 1 /\ y \in 0 .. WordMod - 1
    BY WordShape
  <2> QED
    BY <1>0, <2>1
<1> QED
  BY <1>1, <1>2, WordShape

-----------------------------------------------------------------------------
(* Carries *)

(* The lower k bits of two numbers, and a carry, added up. *)
LowSum(x, y, e, k) == (x % Pow(k)) + (y % Pow(k)) + e

LEMMA LowSumStep ==
  ASSUME NEW x \in Nat, NEW y \in Nat, NEW e \in {0, 1}, NEW k \in Nat, k <= 31
  PROVE  LowSum(x, y, e, k + 1) \div Pow(k + 1)
           = (Bit(x, k) + Bit(y, k) + LowSum(x, y, e, k) \div Pow(k)) \div 2
<1> DEFINE P == Pow(k)
           T == LowSum(x, y, e, k)
           U == LowSum(x, y, e, k + 1)
           c == T \div P
           r == T % P
           p == Bit(x, k)
           q == Bit(y, k)
<1>1. P \in Nat \ {0} /\ Pow(k + 1) = P * 2
  BY Powers
<1>2. p \in {0, 1} /\ q \in {0, 1}
  BY BitPow
<1>3. x % Pow(k + 1) = (x % P) + p * P /\ y % Pow(k + 1) = (y % P) + q * P
  BY NextRemainder, BitPow
<1>4. T = (x % P) + (y % P) + e /\ U = (x % Pow(k + 1)) + (y % Pow(k + 1)) + e
  BY DEF LowSum
<1> HIDE DEF P, p, q, T, U
<1>5. T \in Nat /\ U = T + p * P + q * P /\ x % P \in Nat /\ y % P \in Nat
  <2>1. x % P \in Nat /\ y % P \in Nat /\ p * P \in Nat /\ q * P \in Nat
    BY <1>1, <1>2
  <2> QED
    BY <1>3, <1>4, <2>1
<1>6. T = r + P * c /\ c \in Int /\ r \in 0 .. P - 1
  BY <1>1, <1>5
<1> HIDE DEF c, r
<1>7. PICK u \in Int : u = p + q + c
  BY <1>2, <1>6
<1>8. P * u = p * P + q * P + P * c /\ P * c \in Int
  BY <1>1, <1>2, <1>6, <1>7
<1>9. U = r + P * u /\ U \in Int
  BY <1>1, <1>2, <1>5, <1>6, <1>8
<1>10. U \div P = u
  <2>1. r \in 0 .. P - 1
    BY <1>6
  <2> QED
    BY <1>1, <1>9, <2>1, Quotient
<1>11. U \div (P * 2) = u \div 2
  <2>1. U \in Int /\ P \in Nat \ {0} /\ 2 \in Nat \ {0}
    BY <1>1, <1>9
  <2>2. (U \div P) \div 2 = U \div (P * 2)
    BY <2>1, QuotientTwice
  <2> QED
    BY <1>10, <2>2
<1> QED
  BY <1>1, <1>7, <1>11 DEF U, p, q, c, T, P

LEMMA CarryIs ==
  ASSUME NEW x \in Word, NEW y \in Word, NEW e \in {0, 1}
  PROVE  \A k \in 0 .. WordBits : Carry(x, y, e)[k] = LowSum(x, y, e, k) \div Pow(k)
<1> DEFINE Chain(c) == c = [k \in 0 .. WordBits |->
                              IF k = 0 THEN e ELSE (Bit(x, k - 1) + Bit(y, k - 1) + c[k - 1]) \div 2]
           t == [k \in 0 .. WordBits |-> LowSum(x, y, e, k) \div Pow(k)]
<1>0. x \in Nat /\ y \in Nat /\ WordBits \in 1 .. 32
  BY WordShape
<1>1. LowSum(x, y, e, 0) \div Pow(0) = e
  BY <1>0, SmallPowers DEF LowSum
<1>2. ASSUME NEW k \in 0 .. WordBits, k # 0
      PROVE  LowSum(x, y, e, k) \div Pow(k)
               = (Bit(x, k - 1) + Bit(y, k - 1) + LowSum(x, y, e, k - 1) \div Pow(k - 1)) \div 2
  <2>1. PICK p \in Nat : k = p + 1 /\ p <= 31
    BY <1>0, <1>2
  <2>2. k - 1 = p
    BY <2>1
  <2> QED
    BY <1>0, <2>1, <2>2, LowSumStep
<1>3. Chain(t)
  <2>1. ASSUME NEW k \in 0 .. WordBits
        PROVE  t[k] = IF k = 0 THEN e ELSE (Bit(x, k - 1) + Bit(y, k - 1) + t[k - 1]) \div 2
    <3>1. CASE k = 0
      BY <1>1, <3>1
    <3>2. CASE k # 0
      <4>1. k - 1 \in 0 .. WordBits
        BY <1>0, <3>2
      <4> QED
        BY <1>2, <3>2, <4>1
    <3> QED
      BY <3>1, <3>2
  <2> QED
    BY <2>1
<1>4. Chain(Carry(x, y, e))
  <2>1. Carry(x, y, e) = CHOOSE c : Chain(c)
    BY DEF Carry
  <2> HIDE DEF Chain, t
  <2> QED
    BY <1>3, <2>1
<1> DEFINE d == Carry(x, y, e)
<1>5. \A k \in 0 .. WordBits : d[k] = IF k = 0 THEN e ELSE (Bit(x, k - 1) + Bit(y, k - 1) + d[k - 1]) \div 2
  BY <1>4
<1> DEFINE Bad == {k \in 0 .. WordBits : d[k] # LowSum(x, y, e, k) \div Pow(k)}
<1> HIDE DEF d
<1>6. ASSUME Bad # {} PROVE FALSE
  <2> Bad \in SUBSET Nat
    BY <1>0
  <2>1. PICK k \in Bad : \A j \in Bad : k <= j
    BY <1>6, LeastNat
  <2>2. k # 0
    BY <1>1, <1>5, <2>1
  <2>3. k - 1 \in 0 .. WordBits /\ ~(k <= k - 1)
    BY <1>0, <2>1, <2>2
  <2>4. d[k - 1] = LowSum(x, y, e, k - 1) \div Pow(k - 1)
    BY <2>1, <2>3
  <2> QED
    BY <1>2, <1>5, <2>1, <2>2, <2>4
<1> QED
  BY <1>6 DEF d

(* The bits of a sum come from the bits of its parts and the carries. *)
LEMMA SumBits ==
  ASSUME NEW x \in Word, NEW y \in Word, NEW e \in {0, 1}, NEW k \in 0 .. WordBits - 1
  PROVE  Bit((x + y + e) % WordMod, k) = SumBit(x, y, Carry(x, y, e), k)
<1> DEFINE P == Pow(k)
           T == LowSum(x, y, e, k)
           s == x + y + e
           c == T \div P
           r == T % P
           p == x \div P
           q == y \div P
<1>0. x \in Nat /\ y \in Nat /\ k \in Nat /\ k <= 31 /\ k \in 0 .. WordBits
  BY WordShape
<1>1. P \in Nat \ {0} /\ Bit(s, k) = (s \div P) % 2 /\ Bit(x, k) = p % 2 /\ Bit(y, k) = q % 2
  BY <1>0, PowerType, BitPow
<1>2. Carry(x, y, e)[k] = c
  BY <1>0, CarryIs
<1>3. T = (x % P) + (y % P) + e
  BY DEF LowSum
<1>4. Bit(s % WordMod, k) = Bit(s, k)
  BY <1>0, BitReduced
<1> HIDE DEF P, T
<1>5. /\ x = (x % P) + P * p /\ p \in Int /\ x % P \in Nat
      /\ y = (y % P) + P * q /\ q \in Int /\ y % P \in Nat
  BY <1>0, <1>1
<1>6. T = r + P * c /\ c \in Int /\ r \in 0 .. P - 1
  <2>1. T \in Int
    BY <1>3, <1>5
  <2> QED
    BY <1>1, <2>1
<1> HIDE DEF p, q, c, r
<1>7. PICK u \in Int : u = p + q + c
  BY <1>5, <1>6
<1>8. P * u = P * p + P * q + P * c /\ P * p \in Int /\ P * q \in Int /\ P * c \in Int
  BY <1>1, <1>5, <1>6, <1>7
<1>9. s = r + P * u
  BY <1>0, <1>3, <1>5, <1>6, <1>8
<1>10. s \div P = u
  <2>1. r \in 0 .. P - 1 /\ P \in Nat \ {0} /\ s \in Int
    BY <1>0, <1>1, <1>6
  <2> HIDE DEF s
  <2> QED
    BY <1>9, <2>1, Quotient
<1>11. Bit(s, k) = (p + q + c) % 2
  BY <1>1, <1>7, <1>10
<1>12. (p + q + c) % 2 = ((p % 2) + (q % 2) + c) % 2
  BY <1>5, <1>6
<1>13. SumBit(x, y, Carry(x, y, e), k) = ((p % 2) + (q % 2) + c) % 2
  BY <1>1, <1>2 DEF SumBit
<1> QED
  BY <1>4, <1>11, <1>12, <1>13

-----------------------------------------------------------------------------
(* Comparisons *)

LEMMA ComplementWord ==
  ASSUME NEW y \in Word
  PROVE  Complement(y) \in Word /\ Complement(y) = WordMod - 1 - y
BY WordShape DEF Complement

(* No carry leaves the top when the difference is negative. *)
LEMMA BorrowIs ==
  ASSUME NEW x \in Word, NEW y \in Word
  PROVE  Borrow(x, y)[WordBits] = IF x >= y THEN 1 ELSE 0
<1> DEFINE d == Complement(y)
           M == WordMod
<1>1. /\ d \in Word /\ d = M - 1 - y /\ M \in Nat \ {0} /\ x \in 0 .. M - 1 /\ y \in 0 .. M - 1
      /\ d \in 0 .. M - 1 /\ M = Pow(WordBits) /\ WordBits \in 0 .. WordBits
  BY ComplementWord, WordShape
<1>2. Carry(x, d, 1)[WordBits] = LowSum(x, d, 1, WordBits) \div M
  BY <1>1, CarryIs
<1>3. LowSum(x, d, 1, WordBits) = (x % M) + (d % M) + 1
  BY <1>1 DEF LowSum
<1> HIDE DEF d, M
<1>4. x % M = x /\ d % M = d
  BY <1>1
<1>5. LowSum(x, d, 1, WordBits) = x - y + M
  BY <1>1, <1>3, <1>4
<1>6. CASE x >= y
  <2>1. x - y + M = (x - y) + M * 1 /\ x - y \in 0 .. M - 1 /\ x - y + M \in Int
    BY <1>1, <1>6
  <2>2. (x - y + M) \div M = 1
    BY <1>1, <2>1
  <2> QED
    BY <1>2, <1>5, <1>6, <2>2 DEF Borrow, d
<1>7. CASE ~(x >= y)
  <2>1. x - y + M \in 0 .. M - 1
    BY <1>1, <1>7
  <2>2. (x - y + M) \div M = 0
    BY <1>1, <2>1
  <2> QED
    BY <1>2, <1>5, <1>7, <2>2 DEF Borrow, d
<1> QED
  BY <1>6, <1>7

LEMMA LessUnsignedIs ==
  ASSUME NEW x \in Word, NEW y \in Word
  PROVE  LessUnsigned(x, y) <=> x < y
<1>1. x \in Int /\ y \in Int
  BY WordShape
<1> QED
  BY <1>1, BorrowIs DEF LessUnsigned

(* The sign of a word, and what is below it. *)
LEMMA SignBit ==
  ASSUME NEW x \in Word, NEW H, H = Pow(WordBits - 1)
  PROVE  /\ H \in Nat \ {0} /\ WordMod = 2 * H /\ WordMod \div 2 = H /\ x \in 0 .. 2 * H - 1
         /\ Bit(x, WordBits - 1) = IF x >= H THEN 1 ELSE 0
         /\ x % H = IF x >= H THEN x - H ELSE x
<1>1. /\ H \in Nat \ {0} /\ WordMod = 2 * H /\ x \in 0 .. 2 * H - 1
      /\ WordBits - 1 \in Nat /\ WordBits - 1 <= 32
  BY WordShape
<1>2. Bit(x, WordBits - 1) = (x \div H) % 2
  BY <1>1, BitPow
<1>3. CASE x >= H
  <2>1. x = (x - H) + H * 1 /\ x - H \in 0 .. H - 1 /\ x \in Int
    BY <1>1, <1>3
  <2>2. x \div H = 1 /\ x % H = x - H
    BY <1>1, <2>1
  <2> QED
    BY <1>1, <1>2, <1>3, <2>2
<1>4. CASE ~(x >= H)
  <2>1. x \in 0 .. H - 1
    BY <1>1, <1>4
  <2>2. x \div H = 0 /\ x % H = x
    BY <1>1, <2>1
  <2> QED
    BY <1>1, <1>2, <1>4, <2>2
<1> QED
  BY <1>3, <1>4

LEMMA LessSignedIs ==
  ASSUME NEW x \in Word, NEW y \in Word
  PROVE  LessSigned(x, y) <=> signedLess(x, y)
<1> DEFINE H == Pow(WordBits - 1)
           d == Complement(y)
           c == Borrow(x, y)
           p == IF x >= H THEN 1 ELSE 0
           q == IF y >= H THEN 1 ELSE 0
           u == IF x >= H THEN x - H ELSE x
           v == IF y >= H THEN y - H ELSE y
           g == c[WordBits - 1]
           h == c[WordBits]
<1>1. /\ H \in Nat \ {0} /\ WordMod = 2 * H /\ WordMod \div 2 = H
      /\ x \in 0 .. 2 * H - 1 /\ y \in 0 .. 2 * H - 1
      /\ Bit(x, WordBits - 1) = p /\ x % H = u
  BY SignBit
<1>2. d \in Word /\ d = 2 * H - 1 - y
  BY <1>1, ComplementWord
<1>3. Bit(d, WordBits - 1) = 1 - q /\ d % H = H - 1 - v
  <2>1. Bit(d, WordBits - 1) = (IF d >= H THEN 1 ELSE 0) /\ d % H = IF d >= H THEN d - H ELSE d
    BY <1>2, SignBit
  <2>2. d >= H <=> ~(y >= H)
    BY <1>1, <1>2
  <2> HIDE DEF d, H
  <2> QED
    BY <1>1, <1>2, <2>1, <2>2
<1>4. h = IF x >= y THEN 1 ELSE 0
  BY BorrowIs
<1>5. g = IF u >= v THEN 1 ELSE 0
  <2>1. WordBits - 1 \in 0 .. WordBits
    BY WordShape
  <2>2. g = LowSum(x, d, 1, WordBits - 1) \div H
    BY <1>2, <2>1, CarryIs DEF Borrow
  <2>3. LowSum(x, d, 1, WordBits - 1) = u + (H - 1 - v) + 1
    BY <1>1, <1>3 DEF LowSum
  <2> HIDE DEF g, H, d
  <2>4. u \in 0 .. H - 1 /\ v \in 0 .. H - 1
    BY <1>1
  <2> HIDE DEF u, v
  <2>5. CASE u >= v
    <3>1. u + (H - 1 - v) + 1 = (u - v) + H * 1 /\ u - v \in 0 .. H - 1 /\ u + (H - 1 - v) + 1 \in Int
      BY <1>1, <2>4, <2>5
    <3>2. (u + (H - 1 - v) + 1) \div H = 1
      BY <1>1, <3>1
    <3> QED
      BY <2>2, <2>3, <2>5, <3>2
  <2>6. CASE ~(u >= v)
    <3>1. u + (H - 1 - v) + 1 \in 0 .. H - 1
      BY <1>1, <2>4, <2>6
    <3>2. (u + (H - 1 - v) + 1) \div H = 0
      BY <1>1, <3>1
    <3> QED
      BY <2>2, <2>3, <2>6, <3>2
  <2> QED
    BY <2>5, <2>6
<1>6. SumBit(x, d, c, WordBits - 1) = (p + (1 - q) + g) % 2
  BY <1>1, <1>3 DEF SumBit
<1>7. LessSigned(x, y) <=> ~((p + (1 - q) + g) % 2 = 1 <=> h # g)
  BY <1>6 DEF LessSigned
<1>8. signedLess(x, y) <=> (IF p = 1 THEN x - 2 * H ELSE x) < (IF q = 1 THEN y - 2 * H ELSE y)
  BY <1>1 DEF signedLess, signed
<1> HIDE DEF H, d, c, g, h
<1> QED
  BY <1>1, <1>4, <1>5, <1>7, <1>8

(* Equality of truth values. *)
LEMMA Agree ==
  ASSUME NEW p \in BOOLEAN, NEW q \in BOOLEAN, NEW r \in BOOLEAN, p <=> (q <=> r)
  PROVE  p = (q = r)
OBVIOUS

(* A branch is taken when the gates say so. *)
LEMMA ConditionsByGates ==
  ASSUME NEW x \in Word, NEW y \in Word, NEW op \in Branches
  PROVE  Condition(op, x, y) = (Less(op, x, y) = (op \in {"Bne", "Blt", "Bltu"}))
<1> DEFINE Agrees == Condition(op, x, y) <=> (Less(op, x, y) <=> op \in {"Bne", "Blt", "Bltu"})
<1>1. x \in Int /\ y \in Int
  BY WordShape
<1>2. (x = y) <=> ~\E k \in Positions : Bit(x, k) # Bit(y, k)
  BY SameWord
<1>3. signedGreaterEqual(x, y) <=> ~signedLess(x, y)
  BY <1>1, WordShape DEF signedGreaterEqual, signedLess, signed
<1>4. ASSUME op \in {"Blt", "Bge"} PROVE Agrees
  <2>1. Less(op, x, y) <=> signedLess(x, y)
    BY <1>4, LessSignedIs DEF Less
  <2>2. CASE op = "Blt"
    <3>1. (Condition(op, x, y) <=> (signedLess(x, y))) /\ op \in {"Bne", "Blt", "Bltu"}
      BY <1>1, <1>3, <2>2 DEF Condition
    <3> QED
      BY <2>1, <3>1, Zenon
  <2>3. CASE op = "Bge"
    <3>1. (Condition(op, x, y) <=> ~(signedLess(x, y))) /\ op \notin {"Bne", "Blt", "Bltu"}
      BY <1>1, <1>3, <2>3 DEF Condition
    <3> QED
      BY <2>1, <3>1, Zenon
  <2> QED
    BY <1>4, <2>2, <2>3
<1>5. ASSUME op \in {"Bltu", "Bgeu"} PROVE Agrees
  <2>1. Less(op, x, y) <=> x < y
    BY <1>5, LessUnsignedIs DEF Less
  <2>2. CASE op = "Bltu"
    <3>1. (Condition(op, x, y) <=> (x < y)) /\ op \in {"Bne", "Blt", "Bltu"}
      BY <1>1, <1>3, <2>2 DEF Condition
    <3> QED
      BY <2>1, <3>1, Zenon
  <2>3. CASE op = "Bgeu"
    <3>1. (Condition(op, x, y) <=> ~(x < y)) /\ op \notin {"Bne", "Blt", "Bltu"}
      BY <1>1, <1>3, <2>3 DEF Condition
    <3> QED
      BY <2>1, <3>1, Zenon
  <2> QED
    BY <1>5, <2>2, <2>3
<1>6. ASSUME op \in {"Beq", "Bne"} PROVE Agrees
  <2>1. Less(op, x, y) <=> x # y
    BY <1>2, <1>6 DEF Less
  <2>2. CASE op = "Beq"
    <3>1. (Condition(op, x, y) <=> ~(x # y)) /\ op \notin {"Bne", "Blt", "Bltu"}
      BY <1>1, <1>3, <2>2 DEF Condition
    <3> QED
      BY <2>1, <3>1, Zenon
  <2>3. CASE op = "Bne"
    <3>1. (Condition(op, x, y) <=> (x # y)) /\ op \in {"Bne", "Blt", "Bltu"}
      BY <1>1, <1>3, <2>3 DEF Condition
    <3> QED
      BY <2>1, <3>1, Zenon
  <2> QED
    BY <1>6, <2>2, <2>3
<1>7. Agrees
  BY <1>4, <1>5, <1>6 DEF Branches
<1>8. Condition(op, x, y) \in BOOLEAN
  <2>1. signedLess(x, y) \in BOOLEAN /\ signedGreaterEqual(x, y) \in BOOLEAN
    BY DEF signedLess, signedGreaterEqual
  <2>2. /\ op = "Blt"  => Condition(op, x, y) = signedLess(x, y)
        /\ op = "Bge"  => Condition(op, x, y) = signedGreaterEqual(x, y)
        /\ op = "Bltu" => Condition(op, x, y) = (x < y)
        /\ op = "Bgeu" => Condition(op, x, y) = (x >= y)
        /\ op = "Beq"  => Condition(op, x, y) = (x = y)
        /\ op = "Bne"  => Condition(op, x, y) = (x # y)
    BY DEF Condition
  <2>3. /\ (x < y) \in BOOLEAN /\ (x >= y) \in BOOLEAN
        /\ (x = y) \in BOOLEAN /\ (x # y) \in BOOLEAN
    OBVIOUS
  <2> QED
    BY <2>1, <2>2, <2>3, Zenon DEF Branches
<1>9. Less(op, x, y) \in BOOLEAN
  <2>1. LessSigned(x, y) \in BOOLEAN
    BY Zenon DEF LessSigned
  <2>2. LessUnsigned(x, y) \in BOOLEAN
    BY Zenon DEF LessUnsigned
  <2> QED
    BY <2>1, <2>2 DEF Less
<1>10. PICK p \in BOOLEAN, q \in BOOLEAN, r \in BOOLEAN :
         p = Condition(op, x, y) /\ q = Less(op, x, y) /\ r = (op \in {"Bne", "Blt", "Bltu"})
  <2>1. (op \in {"Bne", "Blt", "Bltu"}) \in BOOLEAN
    OBVIOUS
  <2> QED
    BY <1>8, <1>9, <2>1, Zenon
<1>11. p = (q = r)
  <2>1. p <=> (q <=> r)
    BY <1>7, <1>10, Zenon
  <2> QED
    BY <2>1, Agree
<1> QED
  BY <1>10, <1>11, Zenon

-----------------------------------------------------------------------------
(* Values *)

LEMMA PositionsAre == Positions = 0 .. WordBits - 1
BY DEF Positions

LEMMA Reduced ==
  ASSUME NEW x \in Int
  PROVE  x % WordMod \in Word
BY WordShape

LEMMA AddByGates ==
  ASSUME NEW x \in Word, NEW y \in Word
  PROVE  /\ WordAdd(x, y) \in Word
         /\ \A k \in Positions : Bit(WordAdd(x, y), k) = SumBit(x, y, Carry(x, y, 0), k)
<1>1. x \in Int /\ y \in Int /\ x + y + 0 = x + y
  BY WordShape
<1>2. WordAdd(x, y) = (x + y + 0) % WordMod
  BY <1>1 DEF WordAdd
<1> QED
  BY <1>1, <1>2, PositionsAre, Reduced, SumBits

LEMMA SubtractByGates ==
  ASSUME NEW x \in Word, NEW y \in Word
  PROVE  /\ (x - y) % WordMod \in Word
         /\ \A k \in Positions :
              Bit((x - y) % WordMod, k) = SumBit(x, Complement(y), Borrow(x, y), k)
<1> DEFINE M == WordMod
<1>1. /\ x \in Int /\ y \in Int /\ M \in Nat \ {0}
      /\ Complement(y) \in Word /\ Complement(y) = M - 1 - y
  BY WordShape, ComplementWord
<1>2. x - y \in Int /\ x + Complement(y) + 1 = (x - y) + M
  BY <1>1
<1>3. ((x - y) + M) % M = (x - y) % M
  <2>1. PICK z \in Int : z = x - y
    BY <1>2
  <2> HIDE DEF M
  <2>2. z = (z % M) + M * (z \div M) /\ z % M \in 0 .. M - 1 /\ z \div M \in Int
    BY <1>1
  <2>3. z + M = (z % M) + M * (z \div M + 1)
    BY <1>1, <2>2
  <2>4. (z + M) % M = z % M
    <3>1. PICK u \in Int : u = z \div M + 1
      BY <2>2
    <3>2. z + M = (z % M) + M * u /\ z + M \in Int
      BY <1>1, <2>3, <3>1
    <3>3. PICK r \in 0 .. M - 1 : r = z % M
      BY <2>2
    <3>4. z + M = r + M * u /\ M \in Nat \ {0}
      BY <1>1, <3>2, <3>3
    <3>5. (z + M) % M = r
      <4>1. PICK v \in Int : v = z + M
        BY <3>2
      <4> QED
        BY <3>4, <4>1, Quotient
    <3> QED
      BY <3>3, <3>5
  <2> QED
    BY <2>1, <2>4
<1>4. (x - y) % M = (x + Complement(y) + 1) % M
  BY <1>2, <1>3
<1>5. ASSUME NEW k \in Positions
      PROVE  Bit((x - y) % M, k) = SumBit(x, Complement(y), Borrow(x, y), k)
  <2>1. k \in 0 .. WordBits - 1
    BY PositionsAre
  <2>2. Bit((x + Complement(y) + 1) % WordMod, k) = SumBit(x, Complement(y), Carry(x, Complement(y), 1), k)
    BY <1>1, <2>1, SumBits
  <2> QED
    BY <1>4, <2>2 DEF Borrow
<1> QED
  BY <1>2, <1>5, Reduced

(* A comparison sets the lowest bit or none. *)
LEMMA FlagByGates ==
  ASSUME NEW v \in BOOLEAN
  PROVE  /\ asBool(v) \in Word
         /\ \A k \in Positions : Bit(asBool(v), k) = IF k = 0 /\ v THEN 1 ELSE 0
<1> DEFINE f == asBool(v)
<1>1. f \in {0, 1} /\ (f = 1 <=> v) /\ WordMod >= 2 /\ f \in Word
  BY WordShape DEF asBool
<1> HIDE DEF f
<1>2. ASSUME NEW k \in Positions PROVE Bit(f, k) = IF k = 0 /\ v THEN 1 ELSE 0
  <2>1. k \in Nat /\ k <= 31
    BY PositionsAre, WordShape
  <2>2. Bit(f, k) = (f \div Pow(k)) % 2
    BY <1>1, <2>1, BitPow
  <2>3. CASE k = 0
    BY <1>1, <2>2, <2>3, SmallPowers
  <2>4. CASE k # 0
    <3>1. PICK p \in Nat : k = p + 1 /\ p <= 31
      BY <2>1, <2>4
    <3>2. Pow(k) = 2 * Pow(p) /\ Pow(p) \in Nat \ {0}
      BY <3>1, Powers
    <3>3. f \div Pow(k) = 0
      BY <1>1, <3>2
    <3> QED
      BY <2>2, <2>4, <3>3
  <2> QED
    BY <2>3, <2>4
<1> QED
  BY <1>1, <1>2 DEF f

LEMMA ShiftLeftByGates ==
  ASSUME NEW x \in Word, NEW s \in 0 .. WordBits - 1
  PROVE  /\ (x * Pow(s)) % WordMod \in Word
         /\ \A k \in Positions :
              Bit((x * Pow(s)) % WordMod, k) = IF k >= s THEN Bit(x, k - s) ELSE 0
<1>1. x \in Int /\ s \in Nat /\ s <= 31
  BY WordShape
<1>2. Pow(s) \in Nat \ {0} /\ x * Pow(s) \in Int
  BY <1>1, PowerType
<1>3. ASSUME NEW k \in Positions
      PROVE  Bit((x * Pow(s)) % WordMod, k) = IF k >= s THEN Bit(x, k - s) ELSE 0
  <2>1. k \in 0 .. WordBits - 1 /\ k \in Nat /\ k <= 31
    BY PositionsAre, WordShape
  <2>2. Bit((x * Pow(s)) % WordMod, k) = Bit(x * Pow(s), k)
    BY <1>2, <2>1, BitReduced
  <2>3. CASE k >= s
    <3>1. PICK m \in Nat : m = k - s
      BY <1>1, <2>1, <2>3
    <3>2. s + m = k /\ m <= 31
      BY <1>1, <2>1, <3>1
    <3>3. Pow(k) = Pow(s) * Pow(m) /\ Pow(m) \in Nat \ {0}
      <4>1. Pow(m) \in Nat \ {0}
        BY <3>2, PowerType
      <4>2. s + m <= 32
        BY <2>1, <3>2
      <4>3. Pow(s + m) = Pow(s) * Pow(m)
        BY <1>1, <4>2, PowersAdd
      <4> QED
        BY <3>2, <4>1, <4>3
    <3> DEFINE P == Pow(s)
    <3>4. x * P = 0 + P * x /\ 0 \in 0 .. P - 1
      BY <1>1, <1>2
    <3>5. (x * P) \div P = x
      <4>1. P \in Nat \ {0} /\ x * P \in Int
        BY <1>2
      <4> HIDE DEF P
      <4> QED
        BY <1>1, <3>4, <4>1, Quotient
    <3>6. (x * P) \div Pow(k) = x \div Pow(m)
      BY <1>2, <3>3, <3>5, QuotientTwice
    <3>7. Bit(x * P, k) = ((x * P) \div Pow(k)) % 2
      BY <1>2, <2>1, BitPow
    <3>8. Bit(x, m) = (x \div Pow(m)) % 2
      BY <1>1, <3>2, BitPow
    <3> QED
      BY <2>2, <2>3, <3>1, <3>6, <3>7, <3>8
  <2>4. CASE ~(k >= s)
    <3>1. PICK m \in Nat : s = k + (m + 1)
      <4>1. s - k - 1 \in Nat /\ s = k + ((s - k - 1) + 1)
        BY <1>1, <2>1, <2>4
      <4> QED
        BY <4>1
    <3>2. m <= 31 /\ k + (m + 1) <= 32 /\ m + 1 \in Nat
      BY <1>1, <2>1, <3>1
    <3>3. Pow(s) = Pow(k) * (2 * Pow(m)) /\ Pow(m) \in Int /\ Pow(k) \in Int
      <4>1. Pow(m + 1) = 2 * Pow(m)
        BY <3>2, Powers
      <4>2. Pow(m) \in Int /\ Pow(k) \in Int
        BY <2>1, <3>2, PowerType
      <4>3. Pow(s) = Pow(k) * Pow(m + 1)
        BY <2>1, <3>1, <3>2, PowersAdd
      <4> QED
        BY <4>1, <4>2, <4>3
    <3>4. PICK u \in Int : u = x * Pow(m)
      BY <1>1, <3>3
    <3>5. x * Pow(s) = Pow(k) * (2 * u)
      <4>1. x * (Pow(k) * (2 * Pow(m))) = Pow(k) * (2 * (x * Pow(m)))
        BY <1>1, <3>3
      <4> QED
        BY <3>3, <3>4, <4>1
    <3>6. x * Pow(s) = 0 + Pow(k) * (2 * u)
      BY <1>2, <3>5
    <3>7. Bit(x * Pow(s), k) = Bit(0, k)
      BY <1>2, <2>1, <3>6, BitBelow
    <3>8. Bit(0, k) = 0
      <4>1. Bit(0, k) = (0 \div Pow(k)) % 2 /\ Pow(k) \in Nat \ {0}
        BY <2>1, BitPow, PowerType
      <4> QED
        BY <4>1
    <3> QED
      BY <2>2, <2>4, <3>7, <3>8
  <2> QED
    BY <2>3, <2>4
<1> QED
  BY <1>2, <1>3, Reduced

(* Every bit above the highest is that of the sign. *)
LEMMA SignStays ==
  ASSUME NEW t \in {0, - 1}, NEW P \in Nat \ {0}
  PROVE  t \div P = t
<1>1. t = (IF t = 0 THEN 0 ELSE P - 1) + P * t /\ (IF t = 0 THEN 0 ELSE P - 1) \in 0 .. P - 1 /\ t \in Int
  OBVIOUS
<1> DEFINE r == IF t = 0 THEN 0 ELSE P - 1
<1>2. t = r + P * t /\ r \in 0 .. P - 1 /\ t \in Int
  BY <1>1
<1> HIDE DEF r
<1> QED
  BY <1>2, Quotient

LEMMA ShiftedBits ==
  ASSUME NEW z \in Int, NEW t \in {0, - 1}, z \div WordMod = t,
         NEW s \in 0 .. WordBits - 1, NEW k \in Positions
  PROVE  Bit(z \div Pow(s), k) = IF k + s < WordBits THEN Bit(z, k + s) ELSE t % 2
<1>1. k \in Nat /\ k <= 31 /\ s \in Nat /\ s <= 31 /\ k \in 0 .. WordBits - 1 /\ WordBits \in 1 .. 32
  BY PositionsAre, WordShape
<1>2. Pow(s) \in Nat \ {0} /\ Pow(k) \in Nat \ {0}
  BY <1>1, PowerType
<1>3. z \div Pow(s) \in Int
  BY <1>2
<1>4. Bit(z \div Pow(s), k) = ((z \div Pow(s)) \div Pow(k)) % 2
  BY <1>1, <1>3, BitPow
<1>5. CASE k + s < WordBits
  <2>1. k + s \in Nat /\ s + k = k + s /\ k + s <= 31
    BY <1>1, <1>5
  <2>2. Pow(k + s) = Pow(s) * Pow(k)
    BY <1>1, <2>1, PowersAdd
  <2>3. (z \div Pow(s)) \div Pow(k) = z \div Pow(k + s)
    BY <1>2, <2>2, QuotientTwice
  <2>4. Bit(z, k + s) = (z \div Pow(k + s)) % 2
    BY <2>1, BitPow
  <2> QED
    BY <1>4, <1>5, <2>3, <2>4
<1>6. CASE ~(k + s < WordBits)
  <2>1. PICK n \in Nat : n = WordBits - s /\ n <= k
    <3>1. WordBits - s \in Nat /\ WordBits - s <= k
      BY <1>1, <1>6
    <3> QED
      BY <3>1
  <2>2. PICK m \in Nat : m = k - n
    BY <1>1, <2>1
  <2>3. s + n = WordBits /\ n + m = k /\ n <= 32 /\ m <= 32 /\ s + n <= 32
    BY <1>1, <2>1, <2>2
  <2>4. WordMod = Pow(s) * Pow(n) /\ Pow(k) = Pow(n) * Pow(m)
    <3>1. n + m <= 32
      BY <1>1, <2>3
    <3>2. Pow(s + n) = Pow(s) * Pow(n)
      BY <1>1, <2>3, PowersAdd
    <3>3. Pow(n + m) = Pow(n) * Pow(m)
      BY <3>1, PowersAdd
    <3>4. WordMod = Pow(WordBits)
      BY WordShape
    <3> QED
      BY <2>3, <3>2, <3>3, <3>4
  <2>5. Pow(n) \in Nat \ {0} /\ Pow(m) \in Nat \ {0}
    BY <2>3, PowerType
  <2>6. (z \div Pow(s)) \div Pow(n) = t
    BY <1>2, <2>4, <2>5, QuotientTwice
  <2>7. ((z \div Pow(s)) \div Pow(n)) \div Pow(m) = (z \div Pow(s)) \div Pow(k)
    BY <1>3, <2>4, <2>5, QuotientTwice
  <2>8. t \div Pow(m) = t
    BY <2>5, SignStays
  <2> QED
    BY <1>4, <1>6, <2>6, <2>7, <2>8
<1> QED
  BY <1>5, <1>6

LEMMA ShiftRightByGates ==
  ASSUME NEW x \in Word, NEW s \in 0 .. WordBits - 1
  PROVE  /\ x \div Pow(s) \in Word
         /\ \A k \in Positions :
              Bit(x \div Pow(s), k) = IF k + s < WordBits THEN Bit(x, k + s) ELSE 0
<1>1. x \in 0 .. WordMod - 1 /\ x \in Int /\ WordMod \in Nat \ {0} /\ s \in Nat /\ s <= 32
  BY WordShape
<1>2. x \div WordMod = 0 /\ 0 \in {0, - 1} /\ 0 % 2 = 0
  BY <1>1
<1>3. x \div Pow(s) \in Word
  <2> DEFINE P == Pow(s)
             q == x \div P
  <2>1. P \in Nat \ {0}
    BY <1>1, PowerType
  <2> HIDE DEF P
  <2>2. q \in Nat /\ x = (x % P) + P * q /\ x % P \in Nat
    BY <1>1, <2>1
  <2> HIDE DEF q
  <2>3. P * q = q + (P - 1) * q /\ (P - 1) * q \in Nat
    BY <2>1, <2>2
  <2>4. q \in 0 .. WordMod - 1
    BY <1>1, <2>2, <2>3
  <2> QED
    BY <2>4, WordShape DEF q, P
<1> QED
  BY <1>1, <1>2, <1>3, ShiftedBits

LEMMA ArithmeticShiftByGates ==
  ASSUME NEW x \in Word, NEW s \in 0 .. WordBits - 1
  PROVE  /\ (signed(x) \div Pow(s)) % WordMod \in Word
         /\ \A k \in Positions :
              Bit((signed(x) \div Pow(s)) % WordMod, k)
                = IF k + s < WordBits THEN Bit(x, k + s) ELSE Bit(x, WordBits - 1)
<1> DEFINE H == Pow(WordBits - 1)
           z == signed(x)
           t == IF x >= H THEN - 1 ELSE 0
           M == WordMod
<1>1. /\ H \in Nat \ {0} /\ M = 2 * H /\ M \div 2 = H /\ x \in 0 .. 2 * H - 1
      /\ Bit(x, WordBits - 1) = IF x >= H THEN 1 ELSE 0
  BY SignBit
<1>2. z = IF x >= H THEN x - M ELSE x
  BY <1>1 DEF signed
<1>3. z \in Int /\ z = x + M * t /\ x \in 0 .. M - 1 /\ M \in Nat \ {0} /\ t \in {0, - 1}
  <2> HIDE DEF H, z, M
  <2> QED
    BY <1>1, <1>2
<1>4. t % 2 = Bit(x, WordBits - 1)
  BY <1>1
<1> HIDE DEF H, z, t, M
<1>5. z \div M = t /\ z % M = x
  <2>1. t \in Int
    BY <1>3
  <2> QED
    BY <1>3, <2>1, Quotient
<1>6. Pow(s) \in Nat \ {0} /\ z \div Pow(s) \in Int
  <2>1. s \in Nat /\ s <= 32
    BY WordShape
  <2>2. Pow(s) \in Nat \ {0}
    BY <2>1, PowerType
  <2> QED
    BY <1>3, <2>2
<1>7. ASSUME NEW k \in Positions
      PROVE  Bit((z \div Pow(s)) % M, k)
               = IF k + s < WordBits THEN Bit(x, k + s) ELSE Bit(x, WordBits - 1)
  <2>1. k \in 0 .. WordBits - 1
    BY PositionsAre
  <2>2. Bit((z \div Pow(s)) % M, k) = Bit(z \div Pow(s), k)
    BY <1>6, <2>1, BitReduced DEF M
  <2>3. Bit(z \div Pow(s), k) = IF k + s < WordBits THEN Bit(z, k + s) ELSE t % 2
    BY <1>3, <1>5, ShiftedBits DEF M
  <2>4. CASE k + s < WordBits
    <3>1. k + s \in 0 .. WordBits - 1
      <4>1. WordBits \in 1 .. 32
        BY WordShape
      <4> QED
        BY <2>1, <2>4, <4>1
    <3>2. Bit(z % M, k + s) = Bit(z, k + s)
      BY <1>3, <3>1, BitReduced DEF M
    <3> QED
      BY <1>5, <2>2, <2>3, <2>4, <3>2
  <2>5. CASE ~(k + s < WordBits)
    BY <1>4, <2>2, <2>3, <2>5
  <2> QED
    BY <2>4, <2>5
<1> QED
  BY <1>6, <1>7, Reduced DEF z, M

(* Every operation, by its gates. *)
ByGates(op, x, y, v) == v \in Word /\ \A k \in Positions : Bit(v, k) = ResultBits(op, x, y)[k]

LEMMA AluByGates ==
  ASSUME NEW x \in Word, NEW y \in Word, NEW op \in ImmOps \cup RegOps
  PROVE  ByGates(op, x, y, AluValue(op, x, y))
<1> DEFINE s == y % WordBits
           v == AluValue(op, x, y)
<1>1. s \in 0 .. WordBits - 1 /\ shiftFactor(y) = Pow(s)
  <2>1. y \in Int /\ WordBits \in Nat \ {0}
    BY WordShape
  <2> QED
    BY <2>1 DEF shiftFactor, Pow
<1>2. CASE op \in {"Add", "Addi"}
  <2>1. v = WordAdd(x, y)
    BY <1>2 DEF AluValue
  <2>2. \A k \in Positions : ResultBits(op, x, y)[k] = SumBit(x, y, Carry(x, y, 0), k)
    BY <1>2 DEF ResultBits
  <2> QED
    BY <2>1, <2>2, AddByGates DEF ByGates
<1>3. CASE op = "Sub"
  <2>1. v = (x - y) % WordMod
    BY <1>3 DEF AluValue
  <2>2. \A k \in Positions : ResultBits(op, x, y)[k] = SumBit(x, Complement(y), Borrow(x, y), k)
    BY <1>3 DEF ResultBits
  <2> QED
    BY <2>1, <2>2, SubtractByGates DEF ByGates
<1>4. CASE op \in {"Slt", "Slti", "Sltu", "Sltiu"}
  <2> DEFINE less == IF op \in {"Slt", "Slti"} THEN signedLess(x, y) ELSE x < y
  <2>1. less \in BOOLEAN
    <3>1. signedLess(x, y) \in BOOLEAN /\ (x < y) \in BOOLEAN
      BY DEF signedLess
    <3> QED
      BY <3>1, Zenon
  <2>2. v = asBool(less)
    BY <1>4 DEF AluValue
  <2>3. less <=> IF op \in {"Slt", "Slti"} THEN LessSigned(x, y) ELSE LessUnsigned(x, y)
    BY LessSignedIs, LessUnsignedIs
  <2>4. \A k \in Positions : ResultBits(op, x, y)[k] = IF k = 0 /\ less THEN 1 ELSE 0
    BY <1>4, <2>3 DEF ResultBits
  <2> HIDE DEF less
  <2> QED
    BY <2>1, <2>2, <2>4, FlagByGates DEF ByGates
<1>5. CASE op \in {"Xor", "Xori"}
  <2>1. v = WordXor(x, y)
    BY <1>5 DEF AluValue
  <2>2. \A k \in Positions : ResultBits(op, x, y)[k] = (Bit(x, k) + Bit(y, k)) % 2
    BY <1>5 DEF ResultBits
  <2> QED
    BY <2>1, <2>2, BitwiseAssumption DEF ByGates
<1>6. CASE op \in {"Or", "Ori"}
  <2>1. v = WordOr(x, y)
    BY <1>6 DEF AluValue
  <2>2. \A k \in Positions : ResultBits(op, x, y)[k] = IF Bit(x, k) + Bit(y, k) > 0 THEN 1 ELSE 0
    BY <1>6 DEF ResultBits
  <2> QED
    BY <2>1, <2>2, BitwiseAssumption DEF ByGates
<1>7. CASE op \in {"And", "Andi"}
  <2>1. v = WordAnd(x, y)
    BY <1>7 DEF AluValue
  <2>2. \A k \in Positions : ResultBits(op, x, y)[k] = Bit(x, k) * Bit(y, k)
    BY <1>7 DEF ResultBits
  <2> QED
    BY <2>1, <2>2, BitwiseAssumption DEF ByGates
<1>8. CASE op \in {"Sll", "Slli"}
  <2>1. v = (x * Pow(s)) % WordMod
    BY <1>1, <1>8 DEF AluValue
  <2>2. \A k \in Positions : ResultBits(op, x, y)[k] = IF k >= s THEN Bit(x, k - s) ELSE 0
    BY <1>8 DEF ResultBits
  <2> HIDE DEF s
  <2> QED
    BY <1>1, <2>1, <2>2, ShiftLeftByGates DEF ByGates
<1>9. CASE op \in {"Srl", "Srli"}
  <2>1. v = x \div Pow(s)
    BY <1>1, <1>9 DEF AluValue
  <2>2. \A k \in Positions :
          ResultBits(op, x, y)[k] = IF k + s < WordBits THEN Bit(x, k + s) ELSE 0
    BY <1>9 DEF ResultBits
  <2> HIDE DEF s
  <2> QED
    BY <1>1, <2>1, <2>2, ShiftRightByGates DEF ByGates
<1>10. CASE op \in {"Sra", "Srai"}
  <2>1. v = (signed(x) \div Pow(s)) % WordMod
    BY <1>1, <1>10 DEF AluValue
  <2>2. \A k \in Positions :
          ResultBits(op, x, y)[k]
            = IF k + s < WordBits THEN Bit(x, k + s) ELSE Bit(x, WordBits - 1)
    BY <1>10 DEF ResultBits
  <2> HIDE DEF s
  <2> QED
    BY <1>1, <2>1, <2>2, ArithmeticShiftByGates DEF ByGates
<1> QED
  BY <1>2, <1>3, <1>4, <1>5, <1>6, <1>7, <1>8, <1>9, <1>10 DEF ImmOps, RegOps

-----------------------------------------------------------------------------
(* Every run of words *)

WordSpec == WordInit /\ [][FlipBit]_<<raw, varying>>

WordInv == raw \in Raw /\ varying \subseteq 0 .. 31

LEMMA WordsAreWords == WordSpec => []WordInv
<1>1. WordInit => WordInv
  BY WordSetsAssumption DEF WordInit, WordInv
<1>2. WordInv /\ [FlipBit]_<<raw, varying>> => WordInv'
  <2> SUFFICES ASSUME WordInv, [FlipBit]_<<raw, varying>> PROVE WordInv'
    OBVIOUS
  <2>1. CASE FlipBit
    <3>1. PICK k \in varying : raw' = [raw EXCEPT ![k] = 1 - @]
      BY <2>1 DEF FlipBit
    <3>2. raw \in Raw /\ k \in 0 .. 31 /\ varying' = varying
      BY <2>1 DEF WordInv, FlipBit
    <3>3. 1 - raw[k] \in {0, 1}
      BY <3>2 DEF Raw
    <3> QED
      BY <3>1, <3>2, <3>3 DEF WordInv, Raw
  <2>2. CASE UNCHANGED <<raw, varying>>
    BY <2>2 DEF WordInv
  <2> QED
    BY <2>1, <2>2
<1> QED
  BY <1>1, <1>2, PTL DEF WordSpec

(* Whatever bits of a word change, from any sample: a word that is decoded *)
(* carries what the format of its instruction says (Decoder.cpp).          *)
THEOREM DecodesEveryWord == WordSpec => []DecodesItsEncoding
<1>1. WordInv => DecodesItsEncoding
  BY WordDecoded, Zenon DEF WordInv, DecodesItsEncoding
<1> QED
  BY <1>1, WordsAreWords, PTL

(* The decoder rejects exactly the words that no row of the tables encodes. *)
THEOREM RejectsEveryOtherWord == WordSpec => []RejectsTheRest
<1>1. WordInv => RejectsTheRest
  BY WordRejected, Zenon DEF WordInv, RejectsTheRest
<1> QED
  BY <1>1, WordsAreWords, PTL

-----------------------------------------------------------------------------
(* Every run of operands *)

OperandsSpec == OperandsInit /\ [][ShiftIn]_<<a, b>>

OperandsInv == a \in Word /\ b \in Word

LEMMA OperandsAreWords == OperandsSpec => []OperandsInv
<1>1. OperandsInit => OperandsInv
  BY WordShape DEF OperandsInit, OperandsInv
<1>2. OperandsInv /\ [ShiftIn]_<<a, b>> => OperandsInv'
  <2> SUFFICES ASSUME OperandsInv, [ShiftIn]_<<a, b>> PROVE OperandsInv'
    OBVIOUS
  <2>1. CASE ShiftIn
    <3>1. PICK bit \in {0, 1} : \/ a' = WordAdd(2 * a, bit) /\ b' = b
                                \/ b' = WordAdd(2 * b, bit) /\ a' = a
      BY <2>1, Zenon DEF ShiftIn
    <3>2. a \in Int /\ b \in Int
      BY WordShape DEF OperandsInv
    <3>3. WordAdd(2 * a, bit) \in Word /\ WordAdd(2 * b, bit) \in Word
      <4>1. 2 * a + bit \in Int /\ 2 * b + bit \in Int
        BY <3>2
      <4> QED
        BY <4>1, Reduced DEF WordAdd
    <3> QED
      BY <3>1, <3>3 DEF OperandsInv
  <2>2. CASE UNCHANGED <<a, b>>
    BY <2>2 DEF OperandsInv
  <2> QED
    BY <2>1, <2>2
<1> QED
  BY <1>1, <1>2, PTL DEF OperandsSpec

(* Any two words, of any width up to that of the code: each operation of   *)
(* executeInstruction gives the bits of the gates.                         *)
THEOREM ArithmeticIsBitwise == OperandsSpec => []AluIsBitwise
<1>1. OperandsInv => AluIsBitwise
  <2> SUFFICES ASSUME OperandsInv, NEW op \in ImmOps \cup RegOps
               PROVE  /\ AluValue(op, a, b) \in Word
                      /\ [k \in Positions |-> Bit(AluValue(op, a, b), k)] = ResultBits(op, a, b)
    BY Zenon DEF AluIsBitwise
  <2> DEFINE v == AluValue(op, a, b)
  <2>1. v \in Word /\ \A k \in Positions : Bit(v, k) = ResultBits(op, a, b)[k]
    BY AluByGates DEF OperandsInv, ByGates
  <2>2. ResultBits(op, a, b) = [k \in Positions |-> ResultBits(op, a, b)[k]]
    <3> DEFINE f == ResultBits(op, a, b)
               T == {f[k] : k \in Positions}
    <3>1. f \in [Positions -> T]
      BY Zenon DEF ResultBits
    <3> HIDE DEF f, T
    <3>2. f = [k \in Positions |-> f[k]]
      BY <3>1
    <3> QED
      BY <3>2 DEF f
  <2> HIDE DEF v
  <2>3. [k \in Positions |-> Bit(v, k)] = [k \in Positions |-> ResultBits(op, a, b)[k]]
    BY <2>1
  <2> QED
    BY <2>1, <2>2, <2>3 DEF v
<1> QED
  BY <1>1, OperandsAreWords, PTL

(* And each branch is decided as the difference of its operands says.      *)
THEOREM BranchesAreBitwise == OperandsSpec => []ConditionsAreBitwise
<1>1. OperandsInv => ConditionsAreBitwise
  BY ConditionsByGates, Zenon DEF OperandsInv, ConditionsAreBitwise
<1> QED
  BY <1>1, OperandsAreWords, PTL
=============================================================================
