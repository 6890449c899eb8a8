---------------------------- MODULE CacheProofs -----------------------------
(***************************************************************************)
(* The cache hierarchy, for levels of every size and policy and for all    *)
(* traffic: what is where, that no store is lost, that the lines used last *)
(* are kept, and that the counters and the time add up.                    *)
(***************************************************************************)
EXTENDS CacheTraffic, Sums

-----------------------------------------------------------------------------
(* Numbers *)

(* Quotient and remainder are unique. *)
LEMMA DivModOf ==
  ASSUME NEW n \in Nat \ {0}, NEW t \in Nat, NEW r \in 0 .. n - 1
  PROVE  (t * n + r) \div n = t /\ (t * n + r) % n = r
<1> DEFINE x == t * n + r
           a == x \div n
           b == x % n
<1>1. x \in Nat
  OBVIOUS
<1>2. a \in Int /\ b \in 0 .. n - 1 /\ x = (n * a) + b
  BY <1>1
<1>3. x = (n * t) + r
  OBVIOUS
<1> HIDE DEF a, b, x
<1>4. \A i, j \in Int : i < j => n * i + n <= n * j
  OBVIOUS
<1>5. ~(a < t) /\ ~(t < a)
  BY <1>2, <1>3, <1>4
<1>6. a = t
  BY <1>2, <1>5
<1> QED
  BY <1>2, <1>3, <1>6 DEF a, b, x

LEMMA DivModParts ==
  ASSUME NEW n \in Nat \ {0}, NEW x \in Nat
  PROVE  /\ x \div n \in Nat /\ x % n \in 0 .. n - 1
         /\ x = (x \div n) * n + (x % n)
<1>1. x \div n \in Int /\ x % n \in 0 .. n - 1 /\ x = n * (x \div n) + (x % n)
  OBVIOUS
<1> DEFINE a == x \div n
           b == x % n
<1> HIDE DEF a, b
<1>2. a \in Int /\ b \in 0 .. n - 1 /\ x = n * a + b
  BY <1>1 DEF a, b
<1>3. ~(a < 0)
  <2>1. \A i, j \in Int : i < j => n * i + n <= n * j
    OBVIOUS
  <2> QED
    BY <1>2, <2>1
<1>4. n * a = a * n
  BY <1>2
<1> QED
  BY <1>2, <1>3, <1>4 DEF a, b

(* A greater dividend has no lesser quotient. *)
LEMMA DivMonotone ==
  ASSUME NEW n \in Nat \ {0}, NEW x \in Nat, NEW y \in Nat, x <= y
  PROVE  x \div n <= y \div n
<1>1. /\ x \div n \in Nat /\ x % n \in 0 .. n - 1 /\ x = (x \div n) * n + (x % n)
      /\ y \div n \in Nat /\ y % n \in 0 .. n - 1 /\ y = (y \div n) * n + (y % n)
  BY DivModParts
<1> DEFINE a == x \div n
           b == y \div n
<1>2. /\ a \in Nat /\ b \in Nat
      /\ \E i, j \in 0 .. n - 1 : x = a * n + i /\ y = b * n + j
  BY <1>1
<1> HIDE DEF a, b
<1>3. \A i, j \in Nat : i < j => i * n + n <= j * n
  OBVIOUS
<1>4. ~(b < a)
  BY <1>2, <1>3
<1> QED
  BY <1>2, <1>4 DEF a, b

(* Dividing by a product is dividing twice. *)
LEMMA DivTwice ==
  ASSUME NEW n \in Nat \ {0}, NEW m \in Nat \ {0}, NEW x \in Nat
  PROVE  (x \div n) \div m = x \div (n * m)
<1> DEFINE q == x \div n
           r == x % n
           a == q \div m
           b == q % m
           k == n * m
           z == b * n + r
<1>1. q \in Nat /\ r \in 0 .. n - 1 /\ x = q * n + r
  BY DivModParts
<1>2. a \in Nat /\ b \in 0 .. m - 1 /\ q = a * m + b
  BY <1>1, DivModParts
<1>3. k \in Nat \ {0}
  OBVIOUS
<1> HIDE DEF q, r, a, b
<1>4. x = a * k + z
  <2>1. q * n = (a * m) * n + b * n
    BY <1>2
  <2>2. (a * m) * n = a * k
    BY <1>2
  <2> QED
    BY <1>1, <1>2, <2>1, <2>2
<1>5. z \in 0 .. k - 1
  <2>1. b * n + n <= m * n
    BY <1>2
  <2>2. b * n \in Nat /\ m * n = k
    BY <1>2
  <2> QED
    BY <1>1, <2>1, <2>2
<1> HIDE DEF k, z
<1>6. x \div k = a
  BY <1>2, <1>3, <1>4, <1>5, DivModOf
<1> QED
  BY <1>6 DEF a, q, k

-----------------------------------------------------------------------------
(* Powers of two, and the tree of the PLRU bits *)

LEMMA HalfPower ==
  ASSUME NEW n \in Nat, n >= 2, PowerOfTwo(n)
  PROVE  \E h \in Nat \ {0} : n = 2 * h /\ PowerOfTwo(h)
<1> DEFINE h == n \div 2
<1>1. n % n = 0
  <2>1. n \in Nat \ {0} /\ 1 \in Nat /\ 0 \in 0 .. n - 1
    OBVIOUS
  <2>2. (1 * n + 0) % n = 0
    BY <2>1, DivModOf
  <2> QED
    BY <2>2
<1>2. n % 2 = 0
  BY <1>1 DEF PowerOfTwo
<1>3. n = 2 * h /\ h \in Nat \ {0}
  BY <1>2
<1> HIDE DEF h
<1>4. ASSUME NEW d \in 2 .. h, h % d = 0
      PROVE  d % 2 = 0
  <2> DEFINE q == h \div d
  <2>1. q \in Nat /\ h = q * d
    <3>0. h \in Nat /\ d \in Nat \ {0}
      BY <1>3
    <3>1. h \div d \in Nat /\ h = (h \div d) * d + (h % d)
      BY <3>0, DivModParts
    <3> QED
      BY <1>4, <3>1
  <2> HIDE DEF q
  <2>2. n = (2 * q) * d + 0 /\ 2 * q \in Nat /\ d \in Nat \ {0} /\ 0 \in 0 .. d - 1
    BY <1>3, <2>1
  <2>3. n % d = 0
    BY <2>2, DivModOf
  <2>4. d \in 2 .. n
    BY <1>3
  <2> QED
    BY <2>3, <2>4 DEF PowerOfTwo
<1> QED
  BY <1>3, <1>4 DEF PowerOfTwo

(* Of two powers of two the lesser divides the greater. *)
LEMMA PowersDivide ==
  ASSUME NEW r \in Nat \ {0}, NEW s \in Nat \ {0},
         PowerOfTwo(r), PowerOfTwo(s), s <= r
  PROVE  \E k \in Nat \ {0} : r = k * s
<1> DEFINE Divides(x, y) == \E k \in Nat \ {0} : y = k * x
           T == {x \in Nat \ {0} : /\ PowerOfTwo(x)
                                   /\ \E y \in Nat \ {0} : /\ x <= y
                                                           /\ PowerOfTwo(y)
                                                           /\ ~Divides(x, y)}
           x == Min(T)
<1>1. SUFFICES ASSUME T # {} PROVE FALSE
  OBVIOUS
<1>2. x \in T /\ \A m \in T : x <= m
  <2>1. T \in SUBSET Nat
    OBVIOUS
  <2> HIDE DEF T
  <2> QED
    BY <1>1, <2>1, LeastNat
<1> HIDE DEF x
<1>3. PICK y \in Nat \ {0} : x <= y /\ PowerOfTwo(y) /\ ~Divides(x, y)
  BY <1>2
<1>4. x >= 2
  <2>1. x = 1 => y = y * x
    BY <1>3
  <2> QED
    BY <1>2, <1>3, <2>1
<1>5. PICK h \in Nat \ {0} : x = 2 * h /\ PowerOfTwo(h)
  BY <1>2, <1>4, HalfPower
<1>6. PICK j \in Nat \ {0} : y = 2 * j /\ PowerOfTwo(j)
  BY <1>2, <1>3, <1>4, HalfPower
<1>7. h <= j /\ h < x
  BY <1>3, <1>5, <1>6
<1>8. Divides(h, j)
  BY <1>2, <1>5, <1>6, <1>7
<1>9. PICK k \in Nat \ {0} : j = k * h
  BY <1>8
<1>10. y = k * x
  BY <1>5, <1>6, <1>9
<1> QED
  BY <1>3, <1>10

(* The loop's spans are the powers of two up to the associativity. *)
LEMMA SpanPower ==
  ASSUME NEW n \in Nat \ {0}, PowerOfTwo(n), NEW s \in 1 .. n, n % s = 0
  PROVE  PowerOfTwo(s)
<1> SUFFICES ASSUME NEW d \in 2 .. s, s % d = 0
             PROVE  d % 2 = 0
  BY DEF PowerOfTwo
<1> DEFINE a == n \div s
           b == s \div d
<1>1. a \in Nat /\ n = a * s
  <2>0. n \in Nat /\ s \in Nat \ {0}
    OBVIOUS
  <2>1. n \div s \in Nat /\ n = (n \div s) * s + (n % s)
    BY <2>0, DivModParts
  <2> QED
    BY <2>1
<1>2. b \in Nat /\ s = b * d
  <2>0. s \in Nat /\ d \in Nat \ {0}
    OBVIOUS
  <2>1. s \div d \in Nat /\ s = (s \div d) * d + (s % d)
    BY <2>0, DivModParts
  <2> QED
    BY <2>1
<1> HIDE DEF a, b
<1>3. n = (a * b) * d + 0 /\ a * b \in Nat /\ d \in Nat \ {0} /\ 0 \in 0 .. d - 1
  BY <1>1, <1>2
<1>4. n % d = 0
  BY <1>3, DivModOf
<1> QED
  BY <1>4 DEF PowerOfTwo

(* The right half is the odd half. *)
LEMMA RightIsOdd ==
  ASSUME NEW j \in Nat \ {0}, NEW w \in Nat
  PROVE  Right(2 * j, w) <=> (w \div j) % 2 = 1
<1> DEFINE m == 2 * j
           a == w \div m
           b == w % m
<1>1. a \in Nat /\ b \in 0 .. m - 1 /\ w = a * m + b
  <2>1. m \in Nat \ {0}
    OBVIOUS
  <2> HIDE DEF m
  <2> QED
    BY <2>1, DivModParts
<1>2. m \div 2 = j
  OBVIOUS
<1> HIDE DEF a, b
<1>3. CASE b < j
  <2>1. w = (2 * a) * j + b /\ 2 * a \in Nat /\ b \in 0 .. j - 1
    BY <1>1, <1>3
  <2>2. w \div j = 2 * a
    BY <2>1, DivModOf
  <2>3. (2 * a) % 2 = 0
    BY <1>1
  <2> QED
    BY <1>1, <1>2, <1>3, <2>2, <2>3 DEF Right, b
<1>4. CASE b >= j
  <2>1. w = (2 * a + 1) * j + (b - j) /\ 2 * a + 1 \in Nat /\ b - j \in 0 .. j - 1
    BY <1>1, <1>4
  <2>2. w \div j = 2 * a + 1
    BY <2>1, DivModOf
  <2>3. (2 * a + 1) % 2 = 1
    BY <1>1
  <2> QED
    BY <1>1, <1>2, <1>4, <2>2, <2>3 DEF Right, b
<1> QED
  BY <1>1, <1>3, <1>4

(* Two ways under one node take the same path above it. *)
LEMMA SamePath ==
  ASSUME NEW s \in Nat \ {0}, NEW span \in Nat \ {0},
         PowerOfTwo(s), PowerOfTwo(span), s <= span,
         NEW v \in Nat, NEW w \in Nat, v \div s = w \div s
  PROVE  /\ v \div span = w \div span
         /\ s < span => (Right(span, v) <=> Right(span, w))
<1>1. \A r \in Nat \ {0} : PowerOfTwo(r) /\ s <= r => v \div r = w \div r
  <2> SUFFICES ASSUME NEW r \in Nat \ {0}, PowerOfTwo(r), s <= r
               PROVE  v \div r = w \div r
    OBVIOUS
  <2>1. PICK k \in Nat \ {0} : r = k * s
    BY PowersDivide
  <2>2. r = s * k
    BY <2>1
  <2>3. (v \div s) \div k = v \div r /\ (w \div s) \div k = w \div r
    BY <2>2, DivTwice
  <2> QED
    BY <2>3
<1>2. ASSUME s < span
      PROVE  Right(span, v) <=> Right(span, w)
  <2>1. PICK j \in Nat \ {0} : span = 2 * j /\ PowerOfTwo(j)
    BY <1>2, HalfPower
  <2>2. s <= j
    <3>1. CASE j < s
      <4>1. PICK k \in Nat \ {0} : s = k * j
        BY <2>1, <3>1, PowersDivide
      <4>2. k < 2
        BY <1>2, <2>1, <4>1
      <4>3. s = j
        BY <4>1, <4>2
      <4> QED
        BY <3>1, <4>3
    <3> QED
      BY <3>1
  <2>3. v \div j = w \div j
    BY <1>1, <2>1, <2>2
  <2> QED
    BY <2>1, <2>3, RightIsOdd
<1> QED
  BY <1>1, <1>2

LEMMA ValidSizes ==
  ASSUME NEW g, ValidConfig(g)
  PROVE  /\ g.lineBytes \in Nat \ {0} /\ g.associativity \in Nat \ {0}
         /\ setCount(g) \in Nat \ {0}
         /\ g.latency \in Nat
<1>1. g.lineBytes \in Nat \ {0} /\ g.associativity \in Nat \ {0} /\ g.sizeBytes \in Nat
      /\ g.latency \in Nat
  BY DEF ValidConfig, CacheLevelConfig
<1> DEFINE m == g.lineBytes * g.associativity
           z == g.sizeBytes
<1>2. m \in Nat \ {0} /\ z \in Nat /\ m <= z
  BY <1>1 DEF ValidConfig
<1>3. setCount(g) = z \div m
  BY DEF setCount
<1> HIDE DEF m, z
<1>4. z \div m \in Nat /\ z % m \in 0 .. m - 1 /\ z = (z \div m) * m + (z % m)
  BY <1>2, DivModParts
<1>5. z \div m # 0
  BY <1>2, <1>4
<1> QED
  BY <1>1, <1>3, <1>4, <1>5

(* A span of the loop divides the ways into blocks. *)
LEMMA SpanIs ==
  ASSUME NEW g, ValidConfig(g), PowerOfTwo(g.associativity), NEW span \in Spans(g)
  PROVE  /\ span \in Nat \ {0, 1} /\ span <= g.associativity
         /\ PowerOfTwo(span)
         /\ g.associativity \div span \in Nat \ {0}
         /\ g.associativity = (g.associativity \div span) * span
         /\ PowerOfTwo(g.associativity \div span)
<1> DEFINE n == g.associativity
           k == n \div span
<1>1. n \in Nat \ {0}
  BY ValidSizes
<1>2. span \in 2 .. n /\ n % span = 0
  BY DEF Spans
<1> HIDE DEF n
<1>3. span \in 1 .. n /\ span \in Nat \ {0}
  BY <1>1, <1>2
<1>4. PowerOfTwo(n)
  BY DEF n
<1>5. PowerOfTwo(span)
  BY <1>1, <1>2, <1>3, <1>4, SpanPower
<1>6. k \in Nat /\ n = k * span
  <2>1. n \div span \in Nat /\ n = (n \div span) * span + (n % span)
    BY <1>1, <1>3, DivModParts
  <2> QED
    BY <1>2, <2>1
<1> HIDE DEF k
<1>7. k \in 1 .. n
  BY <1>1, <1>3, <1>6
<1>8. n % k = 0
  <2>1. n = span * k + 0 /\ 0 \in 0 .. k - 1 /\ k \in Nat \ {0}
    BY <1>3, <1>6, <1>7
  <2> QED
    BY <1>3, <2>1, DivModOf
<1>9. PowerOfTwo(k)
  BY <1>1, <1>4, <1>7, <1>8, SpanPower
<1> QED
  BY <1>2, <1>3, <1>5, <1>6, <1>7, <1>9 DEF k, n

(* The node the loop is at has a bit. *)
LEMMA NodeIs ==
  ASSUME NEW g, ValidConfig(g), PowerOfTwo(g.associativity), NEW span \in Spans(g),
         NEW way \in WaysOf(g)
  PROVE  /\ NodeAt(g, span, way) \in PlruNodes(g)
         /\ way \div span \in 0 .. (g.associativity \div span) - 1
<1> DEFINE n == g.associativity
           k == n \div span
           b == way \div span
<1>1. /\ n \in Nat \ {0} /\ span \in Nat \ {0, 1} /\ span <= n
      /\ k \in Nat \ {0} /\ n = k * span
  BY SpanIs, ValidSizes
<1>2. way \in Nat /\ way < n /\ span \in Nat \ {0}
  BY <1>1 DEF WaysOf
<1>3. NodeAt(g, span, way) = k - 1 + b
  BY DEF NodeAt
<1>4. PlruNodes(g) = 0 .. (IF n > 2 THEN n - 2 ELSE 0)
  BY DEF PlruNodes
<1>5. b \in Nat /\ way % span \in Nat /\ way = b * span + (way % span)
  BY <1>2, DivModParts
<1> HIDE DEF n, k, b
<1>6. b < k
  <2>1. b >= k => b * span >= k * span
    BY <1>1, <1>5
  <2> QED
    BY <1>1, <1>2, <1>5, <2>1
<1>7. 2 * k <= n
  BY <1>1
<1>8. k - 1 + b \in 0 .. (IF n > 2 THEN n - 2 ELSE 0)
  <2>1. k - 1 + b >= 0 /\ k - 1 + b <= n - 2
    BY <1>1, <1>5, <1>6, <1>7
  <2> QED
    BY <1>1, <1>5, <2>1
<1> QED
  BY <1>3, <1>4, <1>5, <1>6, <1>8, <1>1 DEF k, b, n

(* A node belongs to one block. *)
LEMMA NodeOfBlock ==
  ASSUME NEW g, ValidConfig(g), PowerOfTwo(g.associativity),
         NEW s \in Spans(g), NEW t \in Spans(g), NEW v \in WaysOf(g), NEW w \in WaysOf(g),
         NodeAt(g, s, v) = NodeAt(g, t, w)
  PROVE  s = t /\ v \div s = w \div t
<1> DEFINE n == g.associativity
           k == n \div s
           l == n \div t
           b == v \div s
           c == w \div t
<1>1. /\ n \in Nat \ {0} /\ s \in Nat \ {0} /\ t \in Nat \ {0}
      /\ k \in Nat \ {0} /\ n = k * s /\ PowerOfTwo(k)
      /\ l \in Nat \ {0} /\ n = l * t /\ PowerOfTwo(l)
  BY SpanIs, ValidSizes
<1>2. b \in 0 .. k - 1 /\ c \in 0 .. l - 1
  BY NodeIs
<1>3. k - 1 + b = l - 1 + c
  BY DEF NodeAt
<1> HIDE DEF n, k, l, b, c
<1>4. \A x, y \in Nat \ {0} : PowerOfTwo(x) /\ PowerOfTwo(y) /\ x < y => 2 * x <= y
  <2> SUFFICES ASSUME NEW x \in Nat \ {0}, NEW y \in Nat \ {0},
                      PowerOfTwo(x), PowerOfTwo(y), x < y
               PROVE  2 * x <= y
    OBVIOUS
  <2>1. PICK m \in Nat \ {0} : y = m * x
    BY PowersDivide
  <2>2. m >= 2
    BY <2>1
  <2> QED
    BY <2>1, <2>2
<1>5. ~(k < l) /\ ~(l < k)
  <2>1. k < l => 2 * k <= l
    BY <1>1, <1>4
  <2>2. l < k => 2 * l <= k
    BY <1>1, <1>4
  <2> QED
    BY <1>1, <1>2, <1>3, <2>1, <2>2
<1>6. k = l /\ b = c
  BY <1>1, <1>2, <1>3, <1>5
<1>7. s = t
  BY <1>1, <1>6
<1> QED
  BY <1>6, <1>7 DEF b, c

(* The bits lead to a way. *)
LEMMA VictimOfTree ==
  ASSUME NEW g, ValidConfig(g), PowerOfTwo(g.associativity), NEW bits
  PROVE  /\ plruVictim(g, bits) \in WaysOf(g)
         /\ \A span \in Spans(g) :
              (bits[NodeAt(g, span, plruVictim(g, bits))] # 0)
                <=> Right(span, plruVictim(g, bits))
<1> DEFINE n == g.associativity
           Leads(span, w) == (bits[NodeAt(g, span, w)] # 0) <=> Right(span, w)
           T == {s \in 1 .. n : n % s = 0 /\ \E w \in WaysOf(g) :
                                   \A span \in Spans(g) : s < span => Leads(span, w)}
           m == Min(T)
<1>0. n \in Nat \ {0} /\ WaysOf(g) = 0 .. n - 1 /\ PowerOfTwo(n)
      /\ Spans(g) = {span \in 2 .. n : n % span = 0}
  BY ValidSizes DEF WaysOf, Spans
<1>1. n \in T
  <2>1. n % n = 0
    <3>1. n = 1 * n + 0 /\ 0 \in 0 .. n - 1
      BY <1>0
    <3> QED
      BY <1>0, <3>1, DivModOf
  <2>2. 0 \in WaysOf(g) /\ \A span \in Spans(g) : ~(n < span)
    BY <1>0
  <2> QED
    BY <1>0, <2>1, <2>2
<1>2. m \in T /\ \A s \in T : m <= s
  <2>1. T \in SUBSET Nat /\ T # {}
    BY <1>0, <1>1
  <2> HIDE DEF T
  <2> QED
    BY <2>1, LeastNat
<1>3. m \in 1 .. n /\ n % m = 0
  BY <1>2
<1>4. PICK w \in WaysOf(g) : \A span \in Spans(g) : m < span => Leads(span, w)
  BY <1>2
<1> HIDE DEF m, n
<1>5. CASE m = 1
  <2>1. \A span \in Spans(g) : Leads(span, w)
    BY <1>0, <1>4, <1>5
  <2> QED
    BY <2>1 DEF plruVictim
<1>6. CASE m # 1
  <2>1. m \in Spans(g) /\ m \in Nat \ {0} /\ m >= 2
    BY <1>0, <1>3, <1>6
  <2>2. PowerOfTwo(m) /\ n = (n \div m) * m /\ n \div m \in Nat
    BY <2>1, SpanIs DEF n
  <2>3. PICK h \in Nat \ {0} : m = 2 * h /\ PowerOfTwo(h)
    BY <2>1, <2>2, HalfPower
  <2> DEFINE b == w \div m
             r == IF bits[NodeAt(g, m, w)] # 0 THEN h ELSE 0
             x == b * m + r
  <2>4. b \in 0 .. (n \div m) - 1
    BY <2>1, NodeIs DEF n
  <2>5. r \in 0 .. m - 1
    BY <2>3
  <2>6. x \in Nat /\ x < n
    <3> DEFINE k == n \div m
    <3>1. b \in Nat /\ k \in Nat /\ b + 1 <= k /\ n = k * m
      BY <2>2, <2>4
    <3> HIDE DEF b, k, r
    <3>2. (b + 1) * m <= k * m
      BY <2>1, <3>1
    <3>3. (b + 1) * m = b * m + m /\ b * m \in Nat
      BY <2>1, <3>1
    <3> QED
      BY <1>0, <2>1, <2>5, <3>1, <3>2, <3>3
  <2>7. x \in WaysOf(g)
    BY <1>0, <2>6
  <2>8. x \div m = w \div m /\ x % m = r
    <3>1. b \in Nat
      BY <2>4
    <3> HIDE DEF r
    <3>2. (b * m + r) \div m = b /\ (b * m + r) % m = r
      BY <2>1, <2>5, <3>1, DivModOf
    <3> QED
      BY <3>2
  <2> HIDE DEF b, x
  <2>9. Leads(m, x)
    <3>1. NodeAt(g, m, x) = NodeAt(g, m, w)
      BY <2>8 DEF NodeAt
    <3>2. Right(m, x) <=> r >= h
      BY <2>3, <2>8 DEF Right
    <3> QED
      BY <2>3, <3>1, <3>2
  <2> HIDE DEF r
  <2>10. ASSUME NEW span \in Spans(g), m < span
         PROVE  Leads(span, x)
    <3>1. span \in Nat \ {0} /\ PowerOfTwo(span) /\ m <= span /\ w \in Nat /\ x \in Nat
      <4>1. span \in Nat \ {0} /\ PowerOfTwo(span)
        BY <1>0, SpanIs DEF n
      <4>2. w \in Nat
        BY <1>0
      <4> QED
        BY <2>1, <2>6, <2>10, <4>1, <4>2
    <3>2. x \div span = w \div span /\ (Right(span, x) <=> Right(span, w))
      BY <2>1, <2>2, <2>8, <2>10, <3>1, SamePath
    <3> QED
      BY <1>4, <2>10, <3>2 DEF NodeAt
  <2>11. ASSUME NEW span \in Spans(g), h < span
         PROVE  Leads(span, x)
    <3>1. span \in Nat \ {0} /\ PowerOfTwo(span)
      BY <1>0, SpanIs DEF n
    <3>2. PICK k \in Nat \ {0} : span = k * h
      BY <2>3, <2>11, <3>1, PowersDivide
    <3>3. k >= 2
      BY <2>3, <2>11, <3>2
    <3>4. m <= span
      BY <2>3, <3>2, <3>3
    <3> QED
      BY <2>1, <2>9, <2>10, <3>1, <3>4
  <2>12. h \in T
    <3>1. h \in 1 .. n
      BY <1>0, <1>3, <2>3
    <3>2. n % h = 0
      <4> DEFINE k == n \div m
      <4>1. n = k * m /\ k \in Nat
        BY <2>2
      <4> HIDE DEF k
      <4>2. n = (2 * k) * h + 0 /\ 2 * k \in Nat /\ 0 \in 0 .. h - 1
        BY <2>3, <4>1
      <4> QED
        BY <2>3, <4>2, DivModOf
    <3> QED
      BY <2>7, <2>11, <3>1, <3>2
  <2> QED
    BY <1>2, <2>3, <2>12
<1> QED
  BY <1>5, <1>6

-----------------------------------------------------------------------------
(* One level *)

(* The lines that addresses are in. *)
Lines(g) == 0 .. LineOf(g, WordMod - 1)

LevelRecord(g) ==
  [lines : [SetIndices(g) -> [WaysOf(g) -> CacheLine]],
   plruBits : [SetIndices(g) -> [PlruNodes(g) -> {0, 1}]],
   clock : Nat, stats : CacheStats]

(* A level is typed, holds lines of the address space, each once, and an   *)
(* invalid line was never filled.                                          *)
LevelOK(g, c) ==
  /\ c \in LevelRecord(g)
  /\ Cached(g, c) \subseteq Lines(g)
  /\ \A s \in SetIndices(g), w \in WaysOf(g) :
       ~c.lines[s][w].valid => c.lines[s][w].tag = 0
  /\ \A p, q \in Held(g, c) : LineIn(g, c, p) = LineIn(g, c, q) => p = q

LEMMA LinesAre ==
  ASSUME NEW g, ValidConfig(g), NEW address \in Word
  PROVE  /\ LineOf(g, address) \in Lines(g) /\ Lines(g) \subseteq Nat
         /\ setIndex(g, address) = LineOf(g, address) % setCount(g)
         /\ tag(g, address) = LineOf(g, address) \div setCount(g)
<1>1. g.lineBytes \in Nat \ {0}
  BY ValidSizes
<1>2. address \in Nat /\ WordMod - 1 \in Nat /\ address <= WordMod - 1
  BY WordAssumption DEF Word
<1>3. /\ LineOf(g, address) \in Nat /\ LineOf(g, WordMod - 1) \in Nat
      /\ LineOf(g, address) <= LineOf(g, WordMod - 1)
  BY <1>1, <1>2, DivModParts, DivMonotone DEF LineOf
<1> QED
  BY <1>3 DEF Lines, setIndex, tag, LineOf

(* Set and tag of a line. *)
LEMMA LineParts ==
  ASSUME NEW g, ValidConfig(g), NEW x \in Nat
  PROVE  /\ x % setCount(g) \in SetIndices(g) /\ x \div setCount(g) \in Nat
         /\ x = (x \div setCount(g)) * setCount(g) + (x % setCount(g))
BY ValidSizes, DivModParts DEF SetIndices

(* The line in a place tells the place's set and tag. *)
LEMMA LineInPlace ==
  ASSUME NEW g, ValidConfig(g), NEW c, c \in LevelRecord(g),
         NEW s \in SetIndices(g), NEW w \in WaysOf(g), NEW x \in Nat
  PROVE  /\ LineIn(g, c, <<s, w>>) \in Nat
         /\ LineIn(g, c, <<s, w>>) = x
              <=> s = x % setCount(g) /\ c.lines[s][w].tag = x \div setCount(g)
<1> DEFINE n == setCount(g)
           t == c.lines[s][w].tag
<1>1. n \in Nat \ {0} /\ s \in 0 .. n - 1
  BY ValidSizes DEF SetIndices
<1>2. t \in Nat
  BY DEF LevelRecord, CacheLine
<1>3. LineIn(g, c, <<s, w>>) = t * n + s
  BY DEF LineIn
<1> HIDE DEF t, n
<1>4. (t * n + s) \div n = t /\ (t * n + s) % n = s
  BY <1>1, <1>2, DivModOf
<1>5. x = (x \div n) * n + (x % n)
  BY <1>1, DivModParts
<1>6. t * n + s \in Nat
  BY <1>1, <1>2
<1> QED
  BY <1>3, <1>4, <1>5, <1>6 DEF t, n

LEMMA HitWaysAre ==
  ASSUME NEW g, ValidConfig(g), NEW c, LevelOK(g, c), NEW address \in Word,
         NEW x, x = LineOf(g, address)
  PROVE  /\ HitWays(g, c, address) =
              {w \in WaysOf(g) : /\ <<x % setCount(g), w>> \in Held(g, c)
                                 /\ LineIn(g, c, <<x % setCount(g), w>>) = x}
         /\ HitWays(g, c, address) # {} <=> x \in Cached(g, c)
<1> DEFINE s == x % setCount(g)
<1>1. /\ x \in Nat /\ setIndex(g, address) = s /\ s \in SetIndices(g)
      /\ tag(g, address) = x \div setCount(g)
  BY LinesAre, LineParts
<1>2. c \in LevelRecord(g)
  BY DEF LevelOK
<1>3. \A v \in SetIndices(g), w \in WaysOf(g) :
        LineIn(g, c, <<v, w>>) = x <=> v = s /\ c.lines[v][w].tag = x \div setCount(g)
  BY <1>1, <1>2, LineInPlace
<1>4. \A v \in SetIndices(g), w \in WaysOf(g) :
        <<v, w>> \in Held(g, c) <=> c.lines[v][w].valid
  BY DEF Held
<1> HIDE DEF s
<1>5. HitWays(g, c, address) =
        {w \in WaysOf(g) : <<s, w>> \in Held(g, c) /\ LineIn(g, c, <<s, w>>) = x}
  BY <1>1, <1>3, <1>4 DEF HitWays
<1>6. ASSUME x \in Cached(g, c)
      PROVE  \E w \in WaysOf(g) : <<s, w>> \in Held(g, c) /\ LineIn(g, c, <<s, w>>) = x
  <2>1. PICK p \in Held(g, c) : LineIn(g, c, p) = x
    BY <1>6 DEF Cached
  <2>2. PICK v \in SetIndices(g), w \in WaysOf(g) : p = <<v, w>>
    BY <2>1 DEF Held
  <2>3. v = s
    BY <1>3, <2>1, <2>2
  <2> QED
    BY <2>1, <2>2, <2>3
<1>7. ASSUME NEW w \in WaysOf(g), <<s, w>> \in Held(g, c), LineIn(g, c, <<s, w>>) = x
      PROVE  x \in Cached(g, c)
  BY <1>7 DEF Cached
<1> QED
  BY <1>5, <1>6, <1>7 DEF s

(* A line is put in a place. *)
LEMMA LinePut ==
  ASSUME NEW g, NEW c, c \in LevelRecord(g), NEW cc,
         NEW s \in SetIndices(g), NEW w \in WaysOf(g),
         NEW line \in CacheLine, line.valid,
         cc.lines = [c.lines EXCEPT ![s][w] = line]
  PROVE  /\ cc.lines \in [SetIndices(g) -> [WaysOf(g) -> CacheLine]]
         /\ cc.lines[s][w] = line
         /\ Held(g, cc) = Held(g, c) \cup {<<s, w>>}
         /\ LineIn(g, cc, <<s, w>>) = line.tag * setCount(g) + s
         /\ \A p \in Held(g, cc) \ {<<s, w>>} :
              /\ cc.lines[p[1]][p[2]] = c.lines[p[1]][p[2]]
              /\ LineIn(g, cc, p) = LineIn(g, c, p)
<1>1. c.lines \in [SetIndices(g) -> [WaysOf(g) -> CacheLine]]
  BY DEF LevelRecord
<1>2. cc.lines \in [SetIndices(g) -> [WaysOf(g) -> CacheLine]]
  BY <1>1
<1>3. cc.lines[s][w] = line
  BY <1>1
<1>4. \A u \in SetIndices(g), v \in WaysOf(g) :
        <<u, v>> # <<s, w>> => cc.lines[u][v] = c.lines[u][v]
  BY <1>1
<1>5. \A p \in SetIndices(g) \X WaysOf(g) :
        p # <<s, w>> => cc.lines[p[1]][p[2]] = c.lines[p[1]][p[2]]
  BY <1>4
<1>6. <<s, w>>[1] = s /\ <<s, w>>[2] = w /\ <<s, w>> \in SetIndices(g) \X WaysOf(g)
  OBVIOUS
<1>7. Held(g, cc) = Held(g, c) \cup {<<s, w>>}
  BY <1>3, <1>5, <1>6 DEF Held
<1>8. LineIn(g, cc, <<s, w>>) = line.tag * setCount(g) + s
  BY <1>3, <1>6 DEF LineIn
<1>9. ASSUME NEW p \in Held(g, cc) \ {<<s, w>>}
      PROVE  /\ cc.lines[p[1]][p[2]] = c.lines[p[1]][p[2]]
             /\ LineIn(g, cc, p) = LineIn(g, c, p)
  BY <1>5 DEF LineIn, Held
<1> QED
  BY <1>2, <1>3, <1>7, <1>8, <1>9

-----------------------------------------------------------------------------
(* An access of one level *)

(* Counting n of the counters. *)
Up(stats, names, n) == IF n \in names THEN stats[n] + 1 ELSE stats[n]

LEMMA Counts ==
  ASSUME NEW stats \in CacheStats, NEW names
  PROVE  Count(stats, names) =
           [accesses |-> Up(stats, names, "accesses"), hits |-> Up(stats, names, "hits"),
            misses |-> Up(stats, names, "misses"),
            evictions |-> Up(stats, names, "evictions"),
            writebacks |-> Up(stats, names, "writebacks"),
            totalLatency |-> Up(stats, names, "totalLatency")]
<1>1. DOMAIN stats = {"accesses", "hits", "misses", "evictions", "writebacks",
                      "totalLatency"}
  BY DEF CacheStats
<1>2. Count(stats, names) = [n \in DOMAIN stats |-> Up(stats, names, n)]
  BY DEF Count, Up
<1> QED
  BY <1>1, <1>2

LEMMA TouchTyped ==
  ASSUME NEW g, NEW bits \in [PlruNodes(g) -> {0, 1}], NEW way
  PROVE  plruTouch(g, bits, way) \in [PlruNodes(g) -> {0, 1}]
BY DEF plruTouch

(* The PLRU bits of set s after way w was touched. *)
BitsAfter(g, c, s, w) ==
  [c.plruBits EXCEPT ![s] = IF UsesPlru(g) THEN plruTouch(g, @, w) ELSE @]

LEMMA TouchedIs ==
  ASSUME NEW g, NEW c \in LevelRecord(g), NEW s \in SetIndices(g), NEW w \in WaysOf(g),
         NEW line \in CacheLine
  PROVE  LET t == Touched(g, c, s, w, line) IN
         /\ t.lines = [c.lines EXCEPT ![s][w] = [line EXCEPT !.age = c.clock + 1]]
         /\ t.plruBits = BitsAfter(g, c, s, w)
         /\ t.clock = c.clock + 1
         /\ t.stats = c.stats
         /\ t \in LevelRecord(g)
<1> DEFINE t == Touched(g, c, s, w, line)
           new == [line EXCEPT !.age = c.clock + 1]
           lines == [c.lines EXCEPT ![s][w] = new]
           bits == BitsAfter(g, c, s, w)
           now == c.clock + 1
<1>1. t = [c EXCEPT !.lines = lines, !.clock = now, !.plruBits = bits]
  BY DEF Touched, BitsAfter
<1>2. new \in CacheLine
  BY DEF CacheLine, LevelRecord
<1>3. lines \in [SetIndices(g) -> [WaysOf(g) -> CacheLine]]
  <2> HIDE DEF new
  <2> QED
    BY <1>2 DEF LevelRecord
<1>4. bits \in [SetIndices(g) -> [PlruNodes(g) -> {0, 1}]]
  <2>1. c.plruBits \in [SetIndices(g) -> [PlruNodes(g) -> {0, 1}]]
    BY DEF LevelRecord
  <2>2. c.plruBits[s] \in [PlruNodes(g) -> {0, 1}]
    BY <2>1
  <2>3. plruTouch(g, c.plruBits[s], w) \in [PlruNodes(g) -> {0, 1}]
    BY <2>2, TouchTyped
  <2> QED
    BY <2>1, <2>2, <2>3 DEF BitsAfter
<1>5. now \in Nat
  BY DEF LevelRecord
<1> HIDE DEF lines, bits, now, t
<1>6. /\ t.lines = lines /\ t.plruBits = bits /\ t.clock = now /\ t.stats = c.stats
      /\ t \in LevelRecord(g)
  BY <1>1, <1>3, <1>4, <1>5 DEF LevelRecord
<1> QED
  BY <1>6 DEF lines, bits, now, t, new

(* The level cc is c after its clock ticked and 'line' was touched in way w of set s. *)
PutsLine(g, c, cc, s, w, line) ==
  /\ s \in SetIndices(g) /\ w \in WaysOf(g)
  /\ line \in CacheLine /\ line.valid /\ line.age = c.clock + 1
  /\ cc \in LevelRecord(g)
  /\ cc.lines = [c.lines EXCEPT ![s][w] = line]
  /\ cc.plruBits = BitsAfter(g, c, s, w)
  /\ cc.clock = c.clock + 1

HitCounted(g, c, cc) ==
  cc.stats = [accesses |-> c.stats.accesses + 1, hits |-> c.stats.hits + 1,
              misses |-> c.stats.misses, evictions |-> c.stats.evictions,
              writebacks |-> c.stats.writebacks,
              totalLatency |-> c.stats.totalLatency + g.latency]

(* ... when v was the victim and the levels below took 'lower'. *)
MissCounted(g, c, cc, v, lower) ==
  cc.stats = [accesses |-> c.stats.accesses + 1, hits |-> c.stats.hits,
              misses |-> c.stats.misses + 1,
              evictions |-> c.stats.evictions + (IF v.valid THEN 1 ELSE 0),
              writebacks |-> c.stats.writebacks + (IF v.valid /\ v.dirty THEN 1 ELSE 0),
              totalLatency |-> c.stats.totalLatency + g.latency + lower]

(* A hit sets the line's dirty bit, age and tree path and counts itself. *)
LEMMA HitIs ==
  ASSUME NEW g, ValidConfig(g), NEW c, LevelOK(g, c), NEW address \in Word,
         NEW write \in BOOLEAN, HitWays(g, c, address) # {}
  PROVE  /\ \E s, w, line :
              /\ PutsLine(g, c, Hit(g, c, address, write), s, w, line)
              /\ <<s, w>> \in Held(g, c) /\ LineIn(g, c, <<s, w>>) = LineOf(g, address)
              /\ line.tag = c.lines[s][w].tag
              /\ line.dirty <=> c.lines[s][w].dirty \/ write
         /\ HitCounted(g, c, Hit(g, c, address, write))
<1> DEFINE h    == Hit(g, c, address, write)
           s    == setIndex(g, address)
           w    == Min(HitWays(g, c, address))
           line == c.lines[s][w]
           d    == line.dirty \/ write
<1>0. /\ d \in BOOLEAN /\ (d <=> line.dirty \/ write)
      /\ h = Hit(g, c, address, write) /\ s = setIndex(g, address)
      /\ w = Min(HitWays(g, c, address)) /\ line = c.lines[s][w]
  OBVIOUS
<1> HIDE DEF h, s, w, line, d
<1> USE <1>0
<1> DEFINE new == [line EXCEPT !.dirty = @ \/ write]
           t == Touched(g, c, s, w, new)
           st == [Count(c.stats, {"accesses", "hits"}) EXCEPT !.totalLatency = @ + g.latency]
<1>1. h = [t EXCEPT !.stats = st]
  BY DEF Hit
<1>2. c \in LevelRecord(g) /\ c.stats \in CacheStats
  BY DEF LevelOK, LevelRecord
<1>3. s \in SetIndices(g) /\ s = LineOf(g, address) % setCount(g)
  BY LinesAre, LineParts
<1>4. w \in HitWays(g, c, address)
  <2>1. HitWays(g, c, address) \in SUBSET Nat
    BY ValidSizes DEF HitWays, WaysOf
  <2> QED
    BY <2>1, LeastNat
<1>5. w \in WaysOf(g) /\ <<s, w>> \in Held(g, c) /\ LineIn(g, c, <<s, w>>) = LineOf(g, address)
  BY <1>3, <1>4, HitWaysAre
<1>6. line \in CacheLine /\ line.valid
  <2>1. line.valid
    BY <1>4 DEF HitWays
  <2> QED
    BY <1>2, <1>3, <1>5, <2>1 DEF LevelRecord
<1>7. new = [valid |-> line.valid, dirty |-> d, tag |-> line.tag, age |-> line.age]
  <2>1. new = [line EXCEPT !.dirty = d]
    <3>1. (line.dirty \/ write) = d
      OBVIOUS
    <3> QED
      BY <3>1
  <2> HIDE DEF new
  <2> QED
    BY <1>6, <2>1 DEF CacheLine
<1>8. new \in CacheLine
  <2> HIDE DEF new
  <2> QED
    BY <1>6, <1>7 DEF CacheLine
<1>9. [new EXCEPT !.age = c.clock + 1] =
        [valid |-> TRUE, dirty |-> d, tag |-> line.tag, age |-> c.clock + 1]
  <2> DEFINE a == c.clock + 1
             b == line.valid
             k == line.tag
             e == line.age
  <2> HIDE DEF new, a, b, k, e
  <2>1. new = [valid |-> b, dirty |-> d, tag |-> k, age |-> e]
    BY <1>7 DEF b, k, e
  <2>2. [new EXCEPT !.age = a] = [valid |-> b, dirty |-> d, tag |-> k, age |-> a]
    BY <2>1
  <2>3. b = TRUE
    BY <1>6 DEF b, CacheLine
  <2> QED
    BY <2>2, <2>3 DEF a, k
<1> HIDE DEF new
<1>10. /\ t.lines = [c.lines EXCEPT ![s][w] = [new EXCEPT !.age = c.clock + 1]]
       /\ t.plruBits = BitsAfter(g, c, s, w)
       /\ t.clock = c.clock + 1
       /\ t.stats = c.stats
       /\ t \in LevelRecord(g)
  BY <1>2, <1>3, <1>5, <1>8, TouchedIs
<1>11. st = [accesses |-> c.stats.accesses + 1, hits |-> c.stats.hits + 1,
             misses |-> c.stats.misses, evictions |-> c.stats.evictions,
             writebacks |-> c.stats.writebacks,
             totalLatency |-> c.stats.totalLatency + g.latency]
  BY <1>2, Counts DEF Up
<1>12. st \in CacheStats
  <2>1. g.latency \in Nat
    BY ValidSizes
  <2> HIDE DEF st
  <2> QED
    BY <1>2, <1>11, <2>1 DEF CacheStats
<1> HIDE DEF t, st
<1>13. /\ h.lines = t.lines /\ h.plruBits = t.plruBits /\ h.clock = t.clock /\ h.stats = st
       /\ h \in LevelRecord(g)
  BY <1>1, <1>10, <1>12 DEF LevelRecord
<1>14. h.lines = [c.lines EXCEPT ![s][w] =
                    [valid |-> TRUE, dirty |-> d, tag |-> line.tag, age |-> c.clock + 1]]
  BY <1>9, <1>10, <1>13
<1> DEFINE put == [valid |-> TRUE, dirty |-> d, tag |-> line.tag, age |-> c.clock + 1]
<1>15. put \in CacheLine /\ put.valid /\ put.age = c.clock + 1 /\ put.tag = line.tag
       /\ (put.dirty <=> line.dirty \/ write)
  <2> DEFINE a == c.clock + 1
  <2>1. a \in Nat
    BY <1>2 DEF LevelRecord
  <2> HIDE DEF a
  <2>2. [valid |-> TRUE, dirty |-> d, tag |-> line.tag, age |-> a] \in CacheLine
    BY <1>6, <2>1 DEF CacheLine
  <2> QED
    BY <2>2 DEF a
<1>16. h.lines = [c.lines EXCEPT ![s][w] = put] /\ h.clock = c.clock + 1
       /\ h.plruBits = BitsAfter(g, c, s, w) /\ h.stats = st
  BY <1>10, <1>13, <1>14
<1> HIDE DEF put
<1>17. PutsLine(g, c, h, s, w, put)
  BY <1>3, <1>5, <1>13, <1>15, <1>16 DEF PutsLine
<1>18. HitCounted(g, c, h)
  BY <1>11, <1>16 DEF HitCounted
<1> QED
  BY <1>5, <1>15, <1>17, <1>18

(* The line a miss replaces is in the line's set; it is valid only if all *)
(* of the set is.                                                         *)
LEMMA VictimIs ==
  ASSUME NEW g, ValidConfig(g), NEW c, c \in LevelRecord(g), NEW s \in SetIndices(g)
  PROVE  /\ chooseVictim(g, c, s) \in WaysOf(g)
         /\ c.lines[s][chooseVictim(g, c, s)].valid =>
              /\ \A w \in WaysOf(g) : c.lines[s][w].valid
              /\ UsesPlru(g) => chooseVictim(g, c, s) = plruVictim(g, c.plruBits[s])
              /\ ~UsesPlru(g) =>
                   \A w \in WaysOf(g) :
                     c.lines[s][chooseVictim(g, c, s)].age <= c.lines[s][w].age
<1> DEFINE set == c.lines[s]
           invalid == {w \in WaysOf(g) : ~set[w].valid}
           oldest == {w \in WaysOf(g) : \A x \in WaysOf(g) : set[w].age <= set[x].age}
           v == chooseVictim(g, c, s)
<1>1. v = IF invalid # {} THEN Min(invalid)
          ELSE IF UsesPlru(g) THEN plruVictim(g, c.plruBits[s])
          ELSE Min(oldest)
  BY DEF chooseVictim
<1>2. WaysOf(g) \subseteq Nat /\ 0 \in WaysOf(g)
  BY ValidSizes DEF WaysOf
<1>3. set \in [WaysOf(g) -> CacheLine]
  BY DEF LevelRecord
<1> HIDE DEF set
<1>4. CASE invalid # {}
  <2>1. invalid \in SUBSET Nat
    BY <1>2
  <2>2. v \in invalid
    BY <1>1, <1>4, <2>1, LeastNat
  <2> HIDE DEF v
  <2> QED
    BY <2>2 DEF set, v
<1>5. CASE invalid = {} /\ UsesPlru(g)
  <2>1. v = plruVictim(g, c.plruBits[s])
    BY <1>1, <1>5
  <2>2. plruVictim(g, c.plruBits[s]) \in WaysOf(g)
    BY <1>5, VictimOfTree DEF UsesPlru
  <2> HIDE DEF v
  <2> QED
    BY <1>5, <2>1, <2>2 DEF set, v
<1>6. CASE invalid = {} /\ ~UsesPlru(g)
  <2> DEFINE ages == {set[w].age : w \in WaysOf(g)}
  <2>1. ages \in SUBSET Nat /\ ages # {}
    BY <1>2, <1>3 DEF CacheLine
  <2>2. Min(ages) \in ages /\ \A a \in ages : Min(ages) <= a
    <3> HIDE DEF ages
    <3> QED
      BY <2>1, LeastNat
  <2>3. oldest # {}
    <3> DEFINE least == Min(ages)
    <3> HIDE DEF least
    <3>1. least \in ages /\ \A a \in ages : least <= a
      BY <2>2 DEF least
    <3>2. PICK w \in WaysOf(g) : set[w].age = least
      BY <3>1
    <3> QED
      BY <3>1, <3>2
  <2>4. v \in oldest
    <3>1. oldest \in SUBSET Nat
      BY <1>2
    <3> QED
      BY <1>1, <1>6, <2>3, <3>1, LeastNat
  <2> HIDE DEF v
  <2> QED
    BY <1>6, <2>4 DEF set, v
<1> QED
  BY <1>4, <1>5, <1>6

(* A miss fills the victim's place and counts what it threw out. *)
LEMMA MissIs ==
  ASSUME NEW g, ValidConfig(g), NEW c, LevelOK(g, c), NEW address \in Word,
         NEW write \in BOOLEAN, NEW lower \in Nat
  PROVE  LET v == Victim(g, c, address) IN
         /\ \E s, w, line :
              /\ PutsLine(g, c, Miss(g, c, address, write, lower), s, w, line)
              /\ s = LineOf(g, address) % setCount(g)
              /\ w = chooseVictim(g, c, s) /\ v = c.lines[s][w]
              /\ line.tag = LineOf(g, address) \div setCount(g)
              /\ line.dirty <=> write
         /\ v \in CacheLine
         /\ MissCounted(g, c, Miss(g, c, address, write, lower), v, lower)
<1> DEFINE m == Miss(g, c, address, write, lower)
           s == setIndex(g, address)
           w == VictimWay(g, c, address)
           v == Victim(g, c, address)
<1>0. /\ m = Miss(g, c, address, write, lower) /\ s = setIndex(g, address)
      /\ w = VictimWay(g, c, address) /\ v = Victim(g, c, address)
  OBVIOUS
<1> HIDE DEF m, s, w, v
<1> USE <1>0
<1> DEFINE counted == {"accesses", "misses"}
                        \cup {n \in {"evictions"} : v.valid}
                        \cup {n \in {"writebacks"} : v.valid /\ v.dirty}
           new == [valid |-> TRUE, dirty |-> write, tag |-> tag(g, address), age |-> 0]
           t == Touched(g, c, s, w, new)
           st == [Count(c.stats, counted) EXCEPT !.totalLatency = @ + g.latency + lower]
<1>1. m = [t EXCEPT !.stats = st]
  BY DEF Miss
<1>2. c \in LevelRecord(g) /\ c.stats \in CacheStats
  BY DEF LevelOK, LevelRecord
<1>3. s \in SetIndices(g) /\ tag(g, address) \in Nat
  BY LinesAre, LineParts
<1>4. w \in WaysOf(g)
  BY <1>2, <1>3, VictimIs DEF VictimWay
<1>5. v = c.lines[s][w]
  BY DEF Victim
<1>6. v \in CacheLine /\ (v.valid <=> <<s, w>> \in Held(g, c))
  BY <1>2, <1>3, <1>4, <1>5 DEF LevelRecord, Held
<1>7. new \in CacheLine
  BY <1>3 DEF CacheLine
<1>8. [new EXCEPT !.age = c.clock + 1] =
        [valid |-> TRUE, dirty |-> write, tag |-> tag(g, address), age |-> c.clock + 1]
  <2> DEFINE a == c.clock + 1
             b == TRUE
             d == write
             k == tag(g, address)
             z == 0
  <2>1. new = [valid |-> b, dirty |-> d, tag |-> k, age |-> z]
    OBVIOUS
  <2> HIDE DEF a, b, d, k, z, new
  <2>2. [new EXCEPT !.age = a] = [valid |-> b, dirty |-> d, tag |-> k, age |-> a]
    BY <2>1
  <2> QED
    BY <2>2 DEF a, b, d, k
<1> HIDE DEF new
<1>9. /\ t.lines = [c.lines EXCEPT ![s][w] = [new EXCEPT !.age = c.clock + 1]]
      /\ t.plruBits = BitsAfter(g, c, s, w)
      /\ t.clock = c.clock + 1
      /\ t \in LevelRecord(g)
  BY <1>2, <1>3, <1>4, <1>7, TouchedIs
<1>10. /\ Up(c.stats, counted, "accesses") = c.stats.accesses + 1
       /\ Up(c.stats, counted, "hits") = c.stats.hits
       /\ Up(c.stats, counted, "misses") = c.stats.misses + 1
       /\ Up(c.stats, counted, "evictions") = c.stats.evictions + (IF v.valid THEN 1 ELSE 0)
       /\ Up(c.stats, counted, "writebacks") = c.stats.writebacks
                                                 + (IF v.valid /\ v.dirty THEN 1 ELSE 0)
       /\ Up(c.stats, counted, "totalLatency") = c.stats.totalLatency
  <2>1. /\ "accesses" \in counted /\ "hits" \notin counted /\ "misses" \in counted
        /\ "totalLatency" \notin counted
        /\ "evictions" \in counted <=> v.valid
        /\ "writebacks" \in counted <=> v.valid /\ v.dirty
    OBVIOUS
  <2> HIDE DEF counted
  <2>2. c.stats.evictions \in Nat /\ c.stats.writebacks \in Nat
    BY <1>2 DEF CacheStats
  <2>3. Up(c.stats, counted, "evictions") = c.stats.evictions + (IF v.valid THEN 1 ELSE 0)
    BY <2>1, <2>2 DEF Up
  <2>4. Up(c.stats, counted, "writebacks") = c.stats.writebacks
                                               + (IF v.valid /\ v.dirty THEN 1 ELSE 0)
    BY <2>1, <2>2 DEF Up
  <2> QED
    BY <2>1, <2>3, <2>4 DEF Up
<1>11. st = [accesses |-> c.stats.accesses + 1, hits |-> c.stats.hits,
             misses |-> c.stats.misses + 1,
             evictions |-> c.stats.evictions + (IF v.valid THEN 1 ELSE 0),
             writebacks |-> c.stats.writebacks + (IF v.valid /\ v.dirty THEN 1 ELSE 0),
             totalLatency |-> c.stats.totalLatency + g.latency + lower]
  <2> HIDE DEF counted
  <2> QED
    BY <1>2, <1>10, Counts
<1>12. st \in CacheStats
  <2> DEFINE e == c.stats.evictions + (IF v.valid THEN 1 ELSE 0)
             b == c.stats.writebacks + (IF v.valid /\ v.dirty THEN 1 ELSE 0)
             l == c.stats.totalLatency + g.latency + lower
  <2>1. e \in Nat /\ b \in Nat /\ l \in Nat
    BY <1>2, ValidSizes DEF CacheStats
  <2>2. /\ c.stats.accesses + 1 \in Nat /\ c.stats.hits \in Nat /\ c.stats.misses + 1 \in Nat
    BY <1>2 DEF CacheStats
  <2>3. st = [accesses |-> c.stats.accesses + 1, hits |-> c.stats.hits,
              misses |-> c.stats.misses + 1, evictions |-> e, writebacks |-> b,
              totalLatency |-> l]
    BY <1>11
  <2> HIDE DEF e, b, l, st
  <2> QED
    BY <2>1, <2>2, <2>3 DEF CacheStats
<1> HIDE DEF t, st
<1>13. /\ m.lines = t.lines /\ m.plruBits = t.plruBits /\ m.clock = t.clock /\ m.stats = st
       /\ m \in LevelRecord(g)
  BY <1>1, <1>9, <1>12 DEF LevelRecord
<1>14. m.lines = [c.lines EXCEPT ![s][w] =
                    [valid |-> TRUE, dirty |-> write, tag |-> tag(g, address),
                     age |-> c.clock + 1]]
  BY <1>8, <1>9, <1>13
<1> DEFINE put == [valid |-> TRUE, dirty |-> write, tag |-> tag(g, address),
                   age |-> c.clock + 1]
<1>15. put \in CacheLine /\ put.valid /\ put.age = c.clock + 1 /\ put.tag = tag(g, address)
       /\ (put.dirty <=> write)
  <2> DEFINE a == c.clock + 1
  <2>1. a \in Nat
    BY <1>2 DEF LevelRecord
  <2> HIDE DEF a
  <2>2. [valid |-> TRUE, dirty |-> write, tag |-> tag(g, address), age |-> a] \in CacheLine
    BY <1>3, <2>1 DEF CacheLine
  <2> QED
    BY <2>2 DEF a
<1>16. m.lines = [c.lines EXCEPT ![s][w] = put] /\ m.clock = c.clock + 1
       /\ m.plruBits = BitsAfter(g, c, s, w)
  BY <1>9, <1>13, <1>14
<1> HIDE DEF put
<1>17. PutsLine(g, c, m, s, w, put)
  BY <1>3, <1>4, <1>13, <1>15, <1>16 DEF PutsLine
<1>18. /\ s = LineOf(g, address) % setCount(g) /\ w = chooseVictim(g, c, s)
       /\ put.tag = LineOf(g, address) \div setCount(g)
  BY <1>15, LinesAre DEF VictimWay
<1>19. \E u, x, line :
         /\ PutsLine(g, c, m, u, x, line)
         /\ u = LineOf(g, address) % setCount(g)
         /\ x = chooseVictim(g, c, u) /\ v = c.lines[u][x]
         /\ line.tag = LineOf(g, address) \div setCount(g)
         /\ line.dirty <=> write
  BY <1>5, <1>15, <1>17, <1>18
<1>20. m.stats = st
  BY <1>13
<1>21. MissCounted(g, c, m, v, lower)
  BY <1>11, <1>20 DEF MissCounted
<1> QED
  BY <1>6, <1>19, <1>21

(* What an access of line x does to the lines a level holds: x is held     *)
(* afterwards, the lines in 'gone', at most one, no longer.                *)
Moves(g, c, cc, x, write, gone) ==
  /\ gone \subseteq Cached(g, c) /\ x \notin gone
  /\ \A y, z \in gone : y = z
  /\ Cached(g, cc) = (Cached(g, c) \ gone) \cup {x}
  /\ Dirty(g, cc) = (Dirty(g, c) \ gone) \cup {y \in {x} : write}

(* Held and dirty lines, place by place. *)
LEMMA HeldLines ==
  ASSUME NEW g, NEW c
  PROVE  /\ \A y : y \in Cached(g, c) <=> \E p \in Held(g, c) : LineIn(g, c, p) = y
         /\ \A y : y \in Dirty(g, c) <=> \E p \in Held(g, c) : /\ LineIn(g, c, p) = y
                                                               /\ c.lines[p[1]][p[2]].dirty
         /\ Dirty(g, c) \subseteq Cached(g, c)
<1>1. \A y : y \in Cached(g, c) <=> \E p \in Held(g, c) : LineIn(g, c, p) = y
  BY DEF Cached
<1>2. \A y : y \in Dirty(g, c) <=> \E p \in Held(g, c) : /\ LineIn(g, c, p) = y
                                                         /\ c.lines[p[1]][p[2]].dirty
  BY DEF Dirty
<1> QED
  BY <1>1, <1>2

LEMMA HitMoves ==
  ASSUME NEW g, ValidConfig(g), NEW c, LevelOK(g, c), NEW address \in Word,
         NEW write \in BOOLEAN, HitWays(g, c, address) # {}
  PROVE  /\ Moves(g, c, Hit(g, c, address, write), LineOf(g, address), write, {})
         /\ LevelOK(g, Hit(g, c, address, write))
<1> DEFINE h == Hit(g, c, address, write)
           x == LineOf(g, address)
<1>1. PICK s, w, new :
        /\ PutsLine(g, c, h, s, w, new)
        /\ <<s, w>> \in Held(g, c) /\ LineIn(g, c, <<s, w>>) = x
        /\ new.tag = c.lines[s][w].tag
        /\ new.dirty <=> c.lines[s][w].dirty \/ write
  BY HitIs
<1> HIDE DEF h, x
<1>2. c \in LevelRecord(g)
  BY DEF LevelOK
<1>3. /\ s \in SetIndices(g) /\ w \in WaysOf(g) /\ new \in CacheLine /\ new.valid
      /\ h \in LevelRecord(g) /\ h.lines = [c.lines EXCEPT ![s][w] = new]
  BY <1>1 DEF PutsLine
<1>5. x = new.tag * setCount(g) + s
  BY <1>1 DEF LineIn
<1>6. /\ h.lines[s][w] = new
      /\ Held(g, h) = Held(g, c) \cup {<<s, w>>}
      /\ LineIn(g, h, <<s, w>>) = new.tag * setCount(g) + s
      /\ \A p \in Held(g, h) \ {<<s, w>>} :
           /\ h.lines[p[1]][p[2]] = c.lines[p[1]][p[2]]
           /\ LineIn(g, h, p) = LineIn(g, c, p)
  BY <1>2, <1>3, LinePut
<1>7. Held(g, h) = Held(g, c) /\ \A p \in Held(g, c) : LineIn(g, h, p) = LineIn(g, c, p)
  BY <1>1, <1>5, <1>6
<1>8. Cached(g, h) = Cached(g, c) /\ x \in Cached(g, c)
  BY <1>1, <1>7 DEF Cached
<1> DEFINE at == <<s, w>>
<1>9. /\ at \in Held(g, c) /\ LineIn(g, c, at) = x
      /\ h.lines[at[1]][at[2]].dirty <=> c.lines[at[1]][at[2]].dirty \/ write
      /\ \A p \in Held(g, c) \ {at} : h.lines[p[1]][p[2]] = c.lines[p[1]][p[2]]
  BY <1>1, <1>6, <1>7
<1> HIDE DEF at
<1>10. ASSUME NEW y
       PROVE  y \in Dirty(g, h) <=> y \in Dirty(g, c) \cup {z \in {x} : write}
  <2>1. y \in Dirty(g, h) <=> \E p \in Held(g, c) : LineIn(g, c, p) = y /\ h.lines[p[1]][p[2]].dirty
    BY <1>7, HeldLines
  <2>2. y \in Dirty(g, c) <=> \E p \in Held(g, c) : LineIn(g, c, p) = y /\ c.lines[p[1]][p[2]].dirty
    BY HeldLines
  <2> QED
    BY <1>9, <2>1, <2>2
<1>11. Moves(g, c, h, x, write, {})
  BY <1>8, <1>10 DEF Moves
<1>12. LevelOK(g, h)
  <2>1. \A u \in SetIndices(g), v \in WaysOf(g) : ~h.lines[u][v].valid => h.lines[u][v].tag = 0
    <3> SUFFICES ASSUME NEW u \in SetIndices(g), NEW v \in WaysOf(g), ~h.lines[u][v].valid
                 PROVE  h.lines[u][v].tag = 0
      OBVIOUS
    <3>1. <<u, v>> # <<s, w>>
      BY <1>3, <1>6
    <3>2. h.lines[u][v] = c.lines[u][v]
      BY <1>2, <1>3, <3>1 DEF LevelRecord
    <3> QED
      BY <3>2 DEF LevelOK
  <2> QED
    BY <1>3, <1>7, <1>8, <2>1 DEF LevelOK
<1> QED
  BY <1>11, <1>12 DEF h, x

(* The line a miss throws out, if any. *)
Gone(g, c, address) ==
  {LineIn(g, c, p) : p \in Held(g, c) \cap {<<setIndex(g, address), VictimWay(g, c, address)>>}}

LEMMA MissMoves ==
  ASSUME NEW g, ValidConfig(g), NEW c, LevelOK(g, c), NEW address \in Word,
         NEW write \in BOOLEAN, NEW lower \in Nat, HitWays(g, c, address) = {}
  PROVE  /\ Moves(g, c, Miss(g, c, address, write, lower), LineOf(g, address), write,
                  Gone(g, c, address))
         /\ LevelOK(g, Miss(g, c, address, write, lower))
<1> DEFINE h == Miss(g, c, address, write, lower)
           x == LineOf(g, address)
           n == setCount(g)
           gone == Gone(g, c, address)
<1>1. PICK s, w, new :
        /\ PutsLine(g, c, h, s, w, new)
        /\ s = x % n
        /\ w = chooseVictim(g, c, s)
        /\ new.tag = x \div n
        /\ new.dirty <=> write
  BY MissIs
<1>2. /\ s \in SetIndices(g) /\ w \in WaysOf(g) /\ new \in CacheLine /\ new.valid
      /\ h \in LevelRecord(g) /\ h.lines = [c.lines EXCEPT ![s][w] = new]
  BY <1>1 DEF PutsLine
<1> DEFINE at == <<s, w>>
<1>3. gone = {LineIn(g, c, p) : p \in Held(g, c) \cap {at}}
  <2>1. setIndex(g, address) = s /\ VictimWay(g, c, address) = w
    BY <1>1, LinesAre DEF VictimWay
  <2> QED
    BY <2>1 DEF Gone
<1>4. x \in Lines(g) /\ x \in Nat /\ x = new.tag * n + s /\ x \notin Cached(g, c)
  <2>1. x \in Lines(g) /\ x \in Nat
    BY LinesAre
  <2>2. x = (x \div n) * n + (x % n)
    BY <2>1, LineParts
  <2>3. x \notin Cached(g, c)
    BY HitWaysAre
  <2> HIDE DEF x, n
  <2> QED
    BY <1>1, <2>1, <2>2, <2>3
<1>5. c \in LevelRecord(g)
  BY DEF LevelOK
<1> HIDE DEF h, x, n, gone
<1>6. /\ h.lines[s][w] = new
      /\ Held(g, h) = Held(g, c) \cup {<<s, w>>}
      /\ LineIn(g, h, <<s, w>>) = x
      /\ \A p \in Held(g, h) \ {<<s, w>>} :
           /\ h.lines[p[1]][p[2]] = c.lines[p[1]][p[2]]
           /\ LineIn(g, h, p) = LineIn(g, c, p)
  BY <1>2, <1>4, <1>5, LinePut DEF n
<1>7. /\ Held(g, h) = Held(g, c) \cup {at} /\ LineIn(g, h, at) = x
      /\ h.lines[at[1]][at[2]].dirty <=> write
      /\ \A p \in Held(g, c) \ {at} : /\ h.lines[p[1]][p[2]] = c.lines[p[1]][p[2]]
                                      /\ LineIn(g, h, p) = LineIn(g, c, p)
  BY <1>1, <1>6
<1> HIDE DEF at
<1>8. /\ \A p, q \in Held(g, c) : LineIn(g, c, p) = LineIn(g, c, q) => p = q
      /\ \A p \in Held(g, c) : LineIn(g, c, p) # x
  BY <1>4 DEF LevelOK, Cached
<1>9. ASSUME NEW y
      PROVE  y \in Cached(g, h) <=> y \in (Cached(g, c) \ gone) \cup {x}
  <2>1. y \in Cached(g, h) <=> \E p \in Held(g, h) : LineIn(g, h, p) = y
    BY HeldLines
  <2>2. y \in Cached(g, c) <=> \E p \in Held(g, c) : LineIn(g, c, p) = y
    BY HeldLines
  <2> QED
    BY <1>3, <1>7, <1>8, <2>1, <2>2
<1>10. ASSUME NEW y
       PROVE  y \in Dirty(g, h) <=> y \in (Dirty(g, c) \ gone) \cup {z \in {x} : write}
  <2>1. y \in Dirty(g, h) <=> \E p \in Held(g, h) : LineIn(g, h, p) = y /\ h.lines[p[1]][p[2]].dirty
    BY HeldLines
  <2>2. y \in Dirty(g, c) <=> \E p \in Held(g, c) : LineIn(g, c, p) = y /\ c.lines[p[1]][p[2]].dirty
    BY HeldLines
  <2>3. (\E p \in Held(g, h) : LineIn(g, h, p) = y /\ h.lines[p[1]][p[2]].dirty)
          <=> \/ y = x /\ write
              \/ \E p \in Held(g, c) \ {at} : LineIn(g, c, p) = y /\ c.lines[p[1]][p[2]].dirty
    BY <1>7
  <2>4. (\E p \in Held(g, c) \ {at} : LineIn(g, c, p) = y /\ c.lines[p[1]][p[2]].dirty)
          <=> y \in Dirty(g, c) \ gone
    BY <1>3, <1>8, <2>2
  <2> QED
    BY <2>1, <2>3, <2>4
<1>11. gone \subseteq Cached(g, c) /\ x \notin gone /\ \A y, z \in gone : y = z
  BY <1>3, <1>8 DEF Cached
<1>12. Moves(g, c, h, x, write, gone)
  BY <1>9, <1>10, <1>11 DEF Moves
<1>13. LevelOK(g, h)
  <2>1. \A u \in SetIndices(g), v \in WaysOf(g) : ~h.lines[u][v].valid => h.lines[u][v].tag = 0
    <3> SUFFICES ASSUME NEW u \in SetIndices(g), NEW v \in WaysOf(g), ~h.lines[u][v].valid
                 PROVE  h.lines[u][v].tag = 0
      OBVIOUS
    <3>1. <<u, v>> # <<s, w>>
      BY <1>2, <1>6
    <3>2. h.lines[u][v] = c.lines[u][v]
      BY <1>2, <1>5, <3>1 DEF LevelRecord
    <3> QED
      BY <3>2 DEF LevelOK
  <2>2. Cached(g, h) \subseteq Lines(g)
    BY <1>4, <1>9 DEF LevelOK
  <2>3. \A p, q \in Held(g, h) : LineIn(g, h, p) = LineIn(g, h, q) => p = q
    BY <1>7, <1>8
  <2> QED
    BY <1>2, <2>1, <2>2, <2>3 DEF LevelOK
<1> QED
  BY <1>12, <1>13 DEF h, x, gone

(* The address a victim is written back to is in the line it was. *)
LEMMA VictimLeaves ==
  ASSUME NEW g, ValidConfig(g), NEW c, LevelOK(g, c), NEW address \in Word,
         Victim(g, c, address).valid
  PROVE  /\ victimAddress(g, c, address) \in Word
         /\ Gone(g, c, address) = {LineOf(g, victimAddress(g, c, address))}
         /\ Victim(g, c, address).dirty
              <=> LineOf(g, victimAddress(g, c, address)) \in Dirty(g, c)
<1> DEFINE s == setIndex(g, address)
           w == VictimWay(g, c, address)
           v == Victim(g, c, address)
           at == <<s, w>>
           y == LineIn(g, c, at)
           b == g.lineBytes
           top == WordMod - 1
<1>1. c \in LevelRecord(g)
  BY DEF LevelOK
<1>2. s \in SetIndices(g) /\ w \in WaysOf(g)
  <2>1. s \in SetIndices(g)
    BY LinesAre, LineParts
  <2> QED
    BY <1>1, <2>1, VictimIs DEF VictimWay
<1>3. v = c.lines[s][w]
  BY DEF Victim
<1>4. at \in Held(g, c)
  BY <1>2, <1>3 DEF Held
<1>5. Gone(g, c, address) = {y}
  BY <1>4 DEF Gone
<1>6. y \in Lines(g) /\ y \in Nat
  BY <1>1, <1>2, <1>4, LineInPlace DEF LevelOK, Cached
<1>7. y = v.tag * setCount(g) + s
  BY <1>3 DEF LineIn
<1>8. victimAddress(g, c, address) = (y * b) % WordMod
  BY <1>7 DEF victimAddress, lineAddress
<1>9. b \in Nat \ {0} /\ top \in Nat /\ WordMod = top + 1
  BY ValidSizes, WordAssumption
<1>10. y <= top \div b
  BY <1>6 DEF Lines, LineOf
<1>11. v.dirty <=> y \in Dirty(g, c)
  <2>1. \A p \in Held(g, c) : LineIn(g, c, p) = y => p = at
    BY <1>4 DEF LevelOK
  <2>2. y \in Dirty(g, c) <=> \E p \in Held(g, c) : LineIn(g, c, p) = y /\ c.lines[p[1]][p[2]].dirty
    BY HeldLines
  <2>3. c.lines[at[1]][at[2]] = v
    BY <1>3
  <2> HIDE DEF y, at, v
  <2> QED
    BY <1>4, <2>1, <2>2, <2>3 DEF y
<1> HIDE DEF y, b, top, s, w, v
<1>12. y * b \in Nat /\ y * b <= top
  <2> DEFINE q == top \div b
             r == top % b
  <2>1. q \in Nat /\ r \in 0 .. b - 1 /\ top = q * b + r
    BY <1>9, DivModParts
  <2>2. y <= q
    BY <1>10
  <2> HIDE DEF q, r
  <2>3. y * b <= q * b
    BY <1>6, <1>9, <2>1, <2>2
  <2>4. y * b \in Nat /\ q * b \in Nat
    BY <1>6, <1>9, <2>1
  <2> QED
    BY <1>9, <2>1, <2>3, <2>4
<1>13. (y * b) % WordMod = y * b
  BY <1>9, <1>12
<1>14. (y * b) \div b = y
  <2>1. y * b = y * b + 0 /\ 0 \in 0 .. b - 1
    BY <1>9, <1>12
  <2> QED
    BY <1>6, <1>9, <2>1, DivModOf
<1>15. LineOf(g, victimAddress(g, c, address)) = y
  BY <1>8, <1>13, <1>14 DEF LineOf, b
<1>16. victimAddress(g, c, address) \in Word
  BY <1>8, <1>9, <1>12, <1>13 DEF Word
<1> QED
  BY <1>5, <1>11, <1>15, <1>16 DEF v

LEMMA NothingLeaves ==
  ASSUME NEW g, ValidConfig(g), NEW c, LevelOK(g, c), NEW address \in Word,
         ~Victim(g, c, address).valid
  PROVE  Gone(g, c, address) = {}
<1>1. <<setIndex(g, address), VictimWay(g, c, address)>> \notin Held(g, c)
  BY DEF Victim, Held
<1> QED
  BY <1>1 DEF Gone

LEMMA EmptyIs ==
  ASSUME NEW g, ValidConfig(g)
  PROVE  /\ LevelOK(g, EmptyLevel(g)) /\ Cached(g, EmptyLevel(g)) = {}
         /\ Dirty(g, EmptyLevel(g)) = {}
<1> DEFINE e == EmptyLevel(g)
           none == [valid |-> FALSE, dirty |-> FALSE, tag |-> 0, age |-> 0]
           zero == [accesses |-> 0, hits |-> 0, misses |-> 0, evictions |-> 0,
                    writebacks |-> 0, totalLatency |-> 0]
           lines == [s \in SetIndices(g) |-> [w \in WaysOf(g) |-> none]]
           bits == [s \in SetIndices(g) |-> [n \in PlruNodes(g) |-> 0]]
           noTime == 0
<1>1. e = [lines |-> lines, plruBits |-> bits, clock |-> noTime, stats |-> zero]
  BY DEF EmptyLevel
<1>2. none \in CacheLine /\ ~none.valid /\ none.tag = 0
  BY DEF CacheLine
<1>3. zero \in CacheStats /\ noTime \in Nat
  BY DEF CacheStats
<1> HIDE DEF none, zero, noTime
<1>4. /\ lines \in [SetIndices(g) -> [WaysOf(g) -> CacheLine]]
      /\ bits \in [SetIndices(g) -> [PlruNodes(g) -> {0, 1}]]
      /\ \A s \in SetIndices(g), w \in WaysOf(g) : lines[s][w] = none
  BY <1>2
<1> HIDE DEF lines, bits, e
<1>5. e \in LevelRecord(g) /\ e.lines = lines
  BY <1>1, <1>3, <1>4 DEF LevelRecord
<1>6. Held(g, e) = {}
  BY <1>2, <1>4, <1>5 DEF Held
<1>7. Cached(g, e) = {} /\ Dirty(g, e) = {}
  BY <1>6 DEF Cached, Dirty
<1>8. \A s \in SetIndices(g), w \in WaysOf(g) : e.lines[s][w].tag = 0
  BY <1>2, <1>4, <1>5
<1>9. LevelOK(g, e)
  BY <1>5, <1>6, <1>7, <1>8 DEF LevelOK
<1> QED
  BY <1>7, <1>9 DEF e

-----------------------------------------------------------------------------
(* An access of the hierarchy *)

LEMMA ConfigsValid ==
  ASSUME hierarchy \in Hierarchies
  PROVE  ValidConfig(L1I) /\ ValidConfig(L1D) /\ ValidConfig(L2)
BY CacheAssumption DEF L1I, L1D, L2

LEMMA LastMoves ==
  ASSUME NEW g, ValidConfig(g), NEW c, LevelOK(g, c), NEW address \in Word,
         NEW write \in BOOLEAN
  PROVE  LET r == LastAccess(g, c, address, write) IN
         /\ LevelOK(g, r.level)
         /\ r.latency \in Nat
         /\ \E gone : Moves(g, c, r.level, LineOf(g, address), write, gone)
<1>1. g.latency \in Nat /\ MemoryLatency \in Nat
  BY ValidSizes, CacheAssumption
<1>2. CASE HitWays(g, c, address) # {}
  <2>1. /\ LastAccess(g, c, address, write).level = Hit(g, c, address, write)
        /\ LastAccess(g, c, address, write).latency = g.latency
    BY <1>2 DEF LastAccess
  <2> QED
    BY <1>1, <1>2, <2>1, HitMoves
<1>3. CASE HitWays(g, c, address) = {}
  <2>1. /\ LastAccess(g, c, address, write).level = Miss(g, c, address, write, MemoryLatency)
        /\ LastAccess(g, c, address, write).latency = g.latency + MemoryLatency
    BY <1>3 DEF LastAccess
  <2> QED
    BY <1>1, <1>3, <2>1, MissMoves
<1> QED
  BY <1>2, <1>3

(* An access of a first-level cache: it moves its line there; a miss moves *)
(* the line in L2, and the write-back of a dirty victim then moves that.   *)
FirstMoves(g, c, lower, r, address, write) ==
  IF r.hit
    THEN /\ Moves(g, c, r.level, LineOf(g, address), write, {})
         /\ r.lower = lower
    ELSE /\ Moves(g, c, r.level, LineOf(g, address), write, Gone(g, c, address))
         /\ \E gone : Moves(L2, lower, r.fill, LineOf(L2, address), FALSE, gone)
         /\ IF WritesBack(g, c, address)
              THEN \E gone : Moves(L2, r.fill, r.lower,
                                   LineOf(L2, victimAddress(g, c, address)), TRUE, gone)
              ELSE r.lower = r.fill

LEMMA FirstLevelMoves ==
  ASSUME hierarchy \in Hierarchies,
         NEW g, ValidConfig(g), NEW c, LevelOK(g, c), NEW lower, LevelOK(L2, lower),
         NEW address \in Word, NEW write \in BOOLEAN
  PROVE  LET r == FirstAccess(g, c, lower, address, write) IN
         /\ LevelOK(g, r.level) /\ LevelOK(L2, r.lower) /\ LevelOK(L2, r.fill)
         /\ r.hit \in BOOLEAN
         /\ r.hit <=> LineOf(g, address) \in Cached(g, c)
         /\ FirstMoves(g, c, lower, r, address, write)
<1> DEFINE r == FirstAccess(g, c, lower, address, write)
           fill == LastAccess(L2, lower, address, FALSE)
           back == IF WritesBack(g, c, address)
                     THEN LastAccess(L2, fill.level, victimAddress(g, c, address), TRUE)
                     ELSE [latency |-> 0, level |-> fill.level]
           wait == fill.latency + back.latency
<1>1. ValidConfig(L2)
  BY ConfigsValid
<1>2. HitWays(g, c, address) # {} <=> LineOf(g, address) \in Cached(g, c)
  BY HitWaysAre
<1>3. CASE HitWays(g, c, address) # {}
  <2>1. /\ r.hit = TRUE /\ r.level = Hit(g, c, address, write)
        /\ r.lower = lower /\ r.fill = lower
    BY <1>3 DEF FirstAccess
  <2>2. /\ Moves(g, c, r.level, LineOf(g, address), write, {})
        /\ LevelOK(g, r.level)
    BY <1>3, <2>1, HitMoves
  <2> HIDE DEF r
  <2>3. FirstMoves(g, c, lower, r, address, write)
    BY <2>1, <2>2 DEF FirstMoves
  <2> QED
    BY <1>2, <1>3, <2>1, <2>2, <2>3 DEF r
<1>4. CASE HitWays(g, c, address) = {}
  <2>1. /\ r.hit = FALSE /\ r.level = Miss(g, c, address, write, wait)
        /\ r.fill = fill.level /\ r.lower = back.level
    BY <1>4 DEF FirstAccess
  <2>2. /\ LevelOK(L2, fill.level) /\ fill.latency \in Nat
        /\ \E gone : Moves(L2, lower, fill.level, LineOf(L2, address), FALSE, gone)
    BY <1>1, LastMoves
  <2> HIDE DEF fill
  <2>5. /\ LevelOK(L2, back.level) /\ back.latency \in Nat
        /\ IF WritesBack(g, c, address)
             THEN \E gone : Moves(L2, fill.level, back.level,
                                  LineOf(L2, victimAddress(g, c, address)), TRUE, gone)
             ELSE back.level = fill.level
    <3>1. CASE WritesBack(g, c, address)
      <4>1. victimAddress(g, c, address) \in Word
        BY <3>1, VictimLeaves DEF WritesBack
      <4>2. back = LastAccess(L2, fill.level, victimAddress(g, c, address), TRUE)
        BY <3>1
      <4>3. /\ LevelOK(L2, back.level) /\ back.latency \in Nat
            /\ \E gone : Moves(L2, fill.level, back.level,
                               LineOf(L2, victimAddress(g, c, address)), TRUE, gone)
        BY <1>1, <2>2, <4>1, <4>2, LastMoves
      <4> QED
        BY <3>1, <4>3
    <3>2. CASE ~WritesBack(g, c, address)
      <4>1. back.level = fill.level /\ back.latency = 0
        BY <3>2
      <4> QED
        BY <2>2, <3>2, <4>1
    <3> QED
      BY <3>1, <3>2
  <2> HIDE DEF back
  <2>6. wait \in Nat
    BY <2>2, <2>5
  <2> HIDE DEF wait
  <2>7. /\ Moves(g, c, r.level, LineOf(g, address), write, Gone(g, c, address))
        /\ LevelOK(g, r.level)
    BY <1>4, <2>1, <2>6, MissMoves
  <2> HIDE DEF r
  <2>8. FirstMoves(g, c, lower, r, address, write)
    BY <2>1, <2>2, <2>5, <2>7 DEF FirstMoves
  <2> QED
    BY <1>2, <1>4, <2>1, <2>2, <2>5, <2>7, <2>8 DEF r
<1> QED
  BY <1>3, <1>4

-----------------------------------------------------------------------------
(* The hierarchy *)

(* Every level is as above and no instruction line is ever dirty. *)
CacheInv ==
  /\ hierarchy \in Hierarchies
  /\ LevelOK(L1I, l1i) /\ LevelOK(L1D, l1d) /\ LevelOK(L2, l2)
  /\ Dirty(L1I, l1i) = {}

LEMMA CacheInvInit == Init => CacheInv
<1> SUFFICES ASSUME Init PROVE CacheInv
  OBVIOUS
<1>1. hierarchy \in Hierarchies /\ l1i = EmptyLevel(L1I) /\ l1d = EmptyLevel(L1D)
      /\ l2 = EmptyLevel(L2)
  BY DEF Init, CacheInit
<1>2. ValidConfig(L1I) /\ ValidConfig(L1D) /\ ValidConfig(L2)
  BY <1>1, ConfigsValid
<1> QED
  BY <1>1, <1>2, EmptyIs DEF CacheInv

(* What the accesses of the two first-level caches do. *)
LEMMA InstructionMoves ==
  ASSUME CacheInv, NEW a \in Word, accessInstruction(a)
  PROVE  LET r == InstructionAccess(a) IN
         /\ l1i' = r.level /\ l2' = r.lower /\ UNCHANGED <<hierarchy, l1d>>
         /\ LevelOK(L1I, r.level) /\ LevelOK(L2, r.lower) /\ LevelOK(L2, r.fill)
         /\ r.hit \in BOOLEAN
         /\ r.hit <=> LineOf(L1I, a) \in Cached(L1I, l1i)
         /\ FirstMoves(L1I, l1i, l2, r, a, FALSE)
         /\ Dirty(L1I, r.level) = {}
<1> DEFINE r == InstructionAccess(a)
<1>1. l1i' = r.level /\ l2' = r.lower /\ UNCHANGED <<hierarchy, l1d>>
  BY DEF accessInstruction
<1>2. ValidConfig(L1I) /\ ValidConfig(L2)
  BY ConfigsValid DEF CacheInv
<1>3. /\ LevelOK(L1I, r.level) /\ LevelOK(L2, r.lower) /\ LevelOK(L2, r.fill)
      /\ r.hit \in BOOLEAN
      /\ r.hit <=> LineOf(L1I, a) \in Cached(L1I, l1i)
      /\ FirstMoves(L1I, l1i, l2, r, a, FALSE)
  BY <1>2, FirstLevelMoves DEF CacheInv, InstructionAccess
<1> HIDE DEF r
<1>4. Dirty(L1I, r.level) = {}
  BY <1>3 DEF FirstMoves, Moves, CacheInv
<1> QED
  BY <1>1, <1>3, <1>4 DEF r

LEMMA DataMoves ==
  ASSUME CacheInv, NEW a \in Word, NEW write \in BOOLEAN, accessData(a, write)
  PROVE  LET r == DataAccess(a, write) IN
         /\ l1d' = r.level /\ l2' = r.lower /\ UNCHANGED <<hierarchy, l1i>>
         /\ LevelOK(L1D, r.level) /\ LevelOK(L2, r.lower) /\ LevelOK(L2, r.fill)
         /\ r.hit \in BOOLEAN
         /\ r.hit <=> LineOf(L1D, a) \in Cached(L1D, l1d)
         /\ FirstMoves(L1D, l1d, l2, r, a, write)
<1>1. LET r == DataAccess(a, write) IN
      l1d' = r.level /\ l2' = r.lower /\ UNCHANGED <<hierarchy, l1i>>
  BY DEF accessData
<1>2. ValidConfig(L1D) /\ ValidConfig(L2)
  BY ConfigsValid DEF CacheInv
<1> QED
  BY <1>1, <1>2, FirstLevelMoves DEF CacheInv, DataAccess

(* The steps of the traffic are such accesses of words. *)
LEMMA TrafficSteps ==
  ASSUME CacheInv, Next
  PROVE  \/ \E a \in Word : FetchLine(a)
         \/ \E a \in Word, write \in BOOLEAN : AccessLine(a, write)
BY TrafficAssumption DEF Next, CacheInv

LEMMA CacheInvStep ==
  ASSUME CacheInv, [Next]_vars
  PROVE  CacheInv'
<1>1. ASSUME NEW a \in Word, FetchLine(a) PROVE CacheInv'
  <2>1. accessInstruction(a)
    BY <1>1 DEF FetchLine
  <2> QED
    BY <2>1, InstructionMoves DEF CacheInv, L1I, L1D, L2
<1>2. ASSUME NEW a \in Word, NEW write \in BOOLEAN, AccessLine(a, write) PROVE CacheInv'
  <2>1. accessData(a, write)
    BY <1>2 DEF AccessLine
  <2> QED
    BY <2>1, DataMoves DEF CacheInv, L1I, L1D, L2
<1>3. CASE UNCHANGED vars
  BY <1>3 DEF CacheInv, vars, cacheVars, L1I, L1D, L2
<1> QED
  BY <1>1, <1>2, <1>3, TrafficSteps

LEMMA CacheInvHolds == Spec => []CacheInv
BY CacheInvInit, CacheInvStep, PTL DEF Spec

(* A level in order keeps its tags in range. *)
LEMMA LevelIsTyped ==
  ASSUME NEW g, ValidConfig(g), NEW c, LevelOK(g, c)
  PROVE  LevelTypeOK(g, c)
<1> DEFINE n == setCount(g)
           b == g.lineBytes
           top == WordMod - 1
<1>1. n \in Nat \ {0} /\ b \in Nat \ {0} /\ top \in Nat
  BY ValidSizes, WordAssumption
<1>2. c \in LevelRecord(g)
  BY DEF LevelOK
<1>3. ASSUME NEW s \in SetIndices(g), NEW w \in WaysOf(g)
      PROVE  c.lines[s][w].tag <= top \div (b * n)
  <2>1. (top \div b) \div n = top \div (b * n) /\ top \div b \in Nat
    BY <1>1, DivTwice, DivModParts
  <2>2. top \div (b * n) \in Nat
    BY <1>1, <2>1, DivModParts
  <2>3. CASE ~c.lines[s][w].valid
    BY <2>2, <2>3 DEF LevelOK
  <2>4. CASE c.lines[s][w].valid
    <3> DEFINE x == LineIn(g, c, <<s, w>>)
    <3>1. <<s, w>> \in Held(g, c)
      BY <2>4 DEF Held
    <3>2. x \in Lines(g)
      BY <3>1 DEF LevelOK, Cached
    <3>3. x \in Nat /\ x <= top \div b
      BY <2>1, <3>2 DEF Lines, LineOf
    <3>4. c.lines[s][w].tag = x \div n
      BY <1>2, <3>3, LineInPlace
    <3> HIDE DEF x, top, n, b
    <3>5. x \div n <= (top \div b) \div n
      BY <1>1, <2>1, <3>3, DivMonotone
    <3> QED
      BY <2>1, <3>4, <3>5
  <2> QED
    BY <2>3, <2>4
<1> QED
  BY <1>2, <1>3 DEF LevelTypeOK, LevelRecord

(* Whatever the sizes, the policies and the traffic, the tags, ways and    *)
(* tree nodes of every level stay in range, also those a write-back puts   *)
(* into L2 under the address lineAddress rebuilds.                         *)
THEOREM CachesTyped == Spec => []CacheTypeOK
<1>1. CacheInv => CacheTypeOK
  BY LevelIsTyped, ConfigsValid DEF CacheInv, CacheTypeOK
<1> QED
  BY <1>1, CacheInvHolds, PTL

-----------------------------------------------------------------------------
(* Versions *)

(* The versions in h fit the lines that the second level c holds: a clean  *)
(* line there is the one in memory.                                        *)
Stored(h, c) ==
  /\ h = [d |-> h.d, low |-> h.low, mem |-> h.mem]
  /\ DOMAIN h.low = Cached(L2, c)
  /\ h.low \in [Cached(L2, c) -> Nat]
  /\ h.mem \in [MemoryLines -> Nat]
  /\ \A y \in Cached(L2, c) \ Dirty(L2, c) : h.low[y] = h.mem[y]

LEMMA BelowIs ==
  ASSUME NEW c, LevelOK(L2, c), NEW h, Stored(h, c), NEW y \in MemoryLines
  PROVE  /\ Below(h, y) = IF y \in Cached(L2, c) THEN h.low[y] ELSE h.mem[y]
         /\ Below(h, y) \in Nat
         /\ Cached(L2, c) \subseteq MemoryLines /\ Dirty(L2, c) \subseteq Cached(L2, c)
<1>1. Cached(L2, c) \subseteq MemoryLines /\ Dirty(L2, c) \subseteq Cached(L2, c)
  BY HeldLines DEF LevelOK, Lines, MemoryLines
<1>2. Below(h, y) = IF y \in Cached(L2, c) THEN h.low[y] ELSE h.mem[y]
  BY <1>1 DEF Below, Stored
<1> QED
  BY <1>1, <1>2 DEF Stored

(* When L2 moves a line, reads below the first level see the new version   *)
(* of that line and the old ones of all others.                            *)
LEMMA LowAfterIs ==
  ASSUME NEW c, LevelOK(L2, c), NEW cc, LevelOK(L2, cc), NEW h, Stored(h, c),
         NEW x \in MemoryLines, NEW v \in Nat, NEW write \in BOOLEAN,
         ~write => v = Below(h, x),
         NEW gone, Moves(L2, c, cc, x, write, gone)
  PROVE  LET k == LowAfter(h, c, cc, x, v) IN
         /\ Stored(k, cc) /\ k.d = h.d
         /\ \A y \in MemoryLines : Below(k, y) = IF y = x THEN v ELSE Below(h, y)
<1> DEFINE k == LowAfter(h, c, cc, x, v)
           held == Cached(L2, cc)
           left == Dirty(L2, c) \ held
           low == [y \in held |-> IF y = x THEN v ELSE Below(h, y)]
           mem == [y \in MemoryLines |-> IF y \in left THEN h.low[y] ELSE h.mem[y]]
<1>1. /\ \A y \in MemoryLines : /\ Below(h, y) = IF y \in Cached(L2, c) THEN h.low[y] ELSE h.mem[y]
                                /\ Below(h, y) \in Nat
      /\ Dirty(L2, c) \subseteq Cached(L2, c) /\ Cached(L2, c) \subseteq MemoryLines
  BY BelowIs
<1>2. held \subseteq MemoryLines
  BY DEF LevelOK, Lines, MemoryLines
<1>3. /\ x \in held
      /\ \A y : y \in held <=> y = x \/ (y \in Cached(L2, c) /\ y \notin gone)
      /\ \A y : y \in Dirty(L2, cc) <=> (y = x /\ write) \/ (y \in Dirty(L2, c) /\ y \notin gone)
      /\ x \notin gone
  BY DEF Moves
<1>4. h.low \in [Cached(L2, c) -> Nat] /\ h.mem \in [MemoryLines -> Nat]
      /\ \A y \in Cached(L2, c) \ Dirty(L2, c) : h.low[y] = h.mem[y]
  BY DEF Stored
<1>5. k.d = h.d /\ k.low = low /\ k.mem = mem /\ k = [d |-> k.d, low |-> k.low, mem |-> k.mem]
  <2>1. h = [d |-> h.d, low |-> h.low, mem |-> h.mem] /\ DOMAIN h.mem = MemoryLines
    BY <1>4 DEF Stored
  <2>2. k = [h EXCEPT !.low = low, !.mem = mem]
    BY <2>1 DEF LowAfter
  <2> HIDE DEF k, low, mem
  <2>3. k = [d |-> h.d, low |-> low, mem |-> mem]
    BY <2>1, <2>2
  <2> QED
    BY <2>3
<1> HIDE DEF k
<1>6. \A y \in held : low[y] = IF y = x THEN v ELSE Below(h, y)
  OBVIOUS
<1>7. \A y \in MemoryLines : mem[y] = IF y \in left THEN h.low[y] ELSE h.mem[y]
  OBVIOUS
<1>8. low \in [held -> Nat]
  BY <1>1, <1>2
<1>9. mem \in [MemoryLines -> Nat]
  BY <1>1, <1>4
<1> HIDE DEF low, mem
<1>10. \A y : y \in left <=> y \in Dirty(L2, c) /\ y \notin held
  OBVIOUS
<1> HIDE DEF left, held
<1>11. ASSUME NEW y \in held, y \notin Dirty(L2, cc) PROVE low[y] = mem[y]
  <2>1. y \in MemoryLines /\ y \notin left /\ mem[y] = h.mem[y]
    BY <1>2, <1>7, <1>10, <1>11
  <2>2. low[y] = Below(h, y) /\ y \notin Dirty(L2, c)
    <3>1. CASE y = x
      BY <1>3, <1>6, <1>11, <3>1
    <3>2. CASE y # x
      BY <1>3, <1>6, <1>11, <3>2
    <3> QED
      BY <3>1, <3>2
  <2> QED
    BY <1>1, <1>4, <2>1, <2>2
<1>12. Stored(k, cc)
  BY <1>5, <1>8, <1>9, <1>11 DEF Stored, held
<1>13. ASSUME NEW y \in MemoryLines
       PROVE  Below(k, y) = IF y = x THEN v ELSE Below(h, y)
  <2>1. Below(k, y) = IF y \in held THEN low[y] ELSE mem[y]
    BY <1>5, <1>12, BelowIs DEF held
  <2>2. CASE y \in held
    BY <1>6, <2>1, <2>2
  <2>3. CASE y \notin held
    BY <1>1, <1>3, <1>4, <1>7, <1>10, <2>1, <2>3
  <2> QED
    BY <2>2, <2>3
<1> QED
  BY <1>5, <1>12, <1>13 DEF k

(* What is in memory and in L2 decides what a read returns. *)
LEMMA BelowSame ==
  ASSUME NEW h, NEW k, h.low = k.low, h.mem = k.mem, NEW x
  PROVE  Below(h, x) = Below(k, x)
BY DEF Below

(* Every level fits its versions; a clean line of L1D is the one below it. *)
DataInv ==
  /\ CacheInv
  /\ Stored(data, l2)
  /\ DOMAIN data.d = Cached(L1D, l1d) /\ data.d \in [Cached(L1D, l1d) -> Nat]
  /\ latest \in [MemoryLines -> Nat]
  /\ \A x \in Cached(L1D, l1d) \ Dirty(L1D, l1d) : data.d[x] = Below(data, x)
  /\ NothingLost

LEMMA DataInvInit == Init => DataInv
<1> SUFFICES ASSUME Init PROVE DataInv
  OBVIOUS
<1>1. CacheInv /\ ValidConfig(L1D) /\ ValidConfig(L2) /\ l1d = EmptyLevel(L1D) /\ l2 = EmptyLevel(L2)
  BY CacheInvInit, ConfigsValid DEF CacheInv, Init, CacheInit
<1>2. Cached(L1D, l1d) = {} /\ Cached(L2, l2) = {}
  BY <1>1, EmptyIs
<1>3. data = [d |-> NoEntries, low |-> NoEntries, mem |-> [x \in MemoryLines |-> 0]]
      /\ latest = [x \in MemoryLines |-> 0]
  BY DEF Init
<1>4. DOMAIN NoEntries = {} /\ NoEntries \in [{} -> Nat]
  BY DEF NoEntries
<1>5. Stored(data, l2)
  BY <1>2, <1>3, <1>4 DEF Stored
<1>6. \A x \in MemoryLines : Below(data, x) = 0
  BY <1>3, <1>4 DEF Below
<1>7. NothingLost
  BY <1>2, <1>3, <1>6 DEF NothingLost
<1> QED
  BY <1>1, <1>2, <1>3, <1>4, <1>5, <1>7 DEF DataInv

(* The same, of the next state in terms of this one's configuration. *)
LEMMA DataInvNext ==
  ASSUME CacheInv', UNCHANGED hierarchy, Stored(data', l2'),
         DOMAIN data'.d = Cached(L1D, l1d'), data'.d \in [Cached(L1D, l1d') -> Nat],
         latest' \in [MemoryLines -> Nat],
         \A x \in Cached(L1D, l1d') \ Dirty(L1D, l1d') : data'.d[x] = Below(data', x),
         \A x \in MemoryLines :
           latest'[x] = IF x \in Cached(L1D, l1d') THEN data'.d[x] ELSE Below(data', x)
  PROVE  DataInv'
<1>1. L1D' = L1D /\ L2' = L2
  BY DEF L1D, L2
<1>2. MemoryLines' = MemoryLines
  BY <1>1 DEF MemoryLines
<1>3. Stored(data, l2)'
  BY <1>1, <1>2 DEF Stored
<1>4. \A x : Below(data, x)' = Below(data', x)
  BY <1>2 DEF Below
<1>5. NothingLost'
  BY <1>1, <1>2, <1>4 DEF NothingLost
<1> QED
  BY <1>1, <1>2, <1>3, <1>4, <1>5 DEF DataInv

LEMMA SameMemoryLines ==
  ASSUME hierarchy \in Hierarchies, NEW address \in Word
  PROVE  /\ LineOf(L1D, address) = LineOf(L2, address)
         /\ LineOf(L2, address) \in MemoryLines
         /\ Lines(L1D) = MemoryLines /\ Lines(L2) = MemoryLines
<1>1. L1D.lineBytes = L2.lineBytes
  BY TrafficAssumption DEF L1D, L2
<1>2. ValidConfig(L2)
  BY ConfigsValid
<1>3. Lines(L1D) = MemoryLines /\ Lines(L2) = MemoryLines
  BY <1>1 DEF Lines, MemoryLines, LineOf
<1> QED
  BY <1>1, <1>2, <1>3, LinesAre DEF LineOf

(* The fill of a miss changes no version. *)
LEMMA FillKeepsVersions ==
  ASSUME LevelOK(L2, l2), NEW r, LevelOK(L2, r.fill), Stored(data, l2),
         NEW x \in MemoryLines, \E gone : Moves(L2, l2, r.fill, x, FALSE, gone)
  PROVE  /\ Stored(AfterFill(r, x), r.fill) /\ AfterFill(r, x).d = data.d
         /\ \A y \in MemoryLines : Below(AfterFill(r, x), y) = Below(data, y)
<1> DEFINE write == FALSE
           v == Below(data, x)
<1>1. PICK gone : Moves(L2, l2, r.fill, x, FALSE, gone)
  OBVIOUS
<1>2. write \in BOOLEAN /\ ~write /\ Moves(L2, l2, r.fill, x, write, gone)
  BY <1>1
<1>3. v \in Nat /\ v = Below(data, x)
  BY BelowIs
<1>4. AfterFill(r, x) = LowAfter(data, l2, r.fill, x, v)
  BY DEF AfterFill
<1> HIDE DEF v, write
<1>5. LET k == LowAfter(data, l2, r.fill, x, v) IN
      /\ Stored(k, r.fill) /\ k.d = data.d
      /\ \A y \in MemoryLines : Below(k, y) = IF y = x THEN v ELSE Below(data, y)
  BY <1>2, <1>3, LowAfterIs
<1> QED
  BY <1>3, <1>4, <1>5

(* A fetch moves lines through L2 and changes no version. *)
LEMMA FetchKeepsData ==
  ASSUME DataInv, CacheInv', NEW a \in Word, FetchLine(a)
  PROVE  DataInv'
<1> DEFINE r == InstructionAccess(a)
           x == LineOf(L2, a)
<1>1. accessInstruction(a) /\ UNCHANGED latest
      /\ data' = IF r.hit THEN data ELSE AfterFill(r, x)
  BY DEF FetchLine
<1>2. CacheInv
  BY DEF DataInv
<1>3. /\ l1i' = r.level /\ l2' = r.lower /\ UNCHANGED <<hierarchy, l1d>>
      /\ LevelOK(L1I, r.level) /\ LevelOK(L2, r.lower) /\ LevelOK(L2, r.fill)
      /\ r.hit \in BOOLEAN
      /\ FirstMoves(L1I, l1i, l2, r, a, FALSE)
  BY <1>1, <1>2, InstructionMoves
<1>4. ValidConfig(L1I) /\ LevelOK(L1I, l1i) /\ LevelOK(L2, l2) /\ hierarchy \in Hierarchies
  BY <1>2, ConfigsValid DEF CacheInv
<1>5. ~WritesBack(L1I, l1i, a)
  BY <1>2, <1>4, VictimLeaves DEF WritesBack, CacheInv
<1>6. x \in MemoryLines
  BY <1>4, SameMemoryLines
<1> HIDE DEF r, x
<1>7. /\ Stored(data', l2') /\ data'.d = data.d
      /\ \A y \in MemoryLines : Below(data', y) = Below(data, y)
  <2>1. CASE r.hit
    BY <1>1, <1>3, <2>1 DEF FirstMoves, DataInv
  <2>2. CASE ~r.hit
    <3>1. l2' = r.fill /\ \E gone : Moves(L2, l2, r.fill, x, FALSE, gone)
      BY <1>3, <1>5, <2>2 DEF FirstMoves, x
    <3>2. data' = AfterFill(r, x)
      BY <1>1, <2>2
    <3>3. /\ Stored(AfterFill(r, x), r.fill) /\ AfterFill(r, x).d = data.d
          /\ \A y \in MemoryLines : Below(AfterFill(r, x), y) = Below(data, y)
      BY <1>3, <1>4, <1>6, <3>1, FillKeepsVersions DEF DataInv
    <3> QED
      BY <3>1, <3>2, <3>3
  <2> QED
    BY <1>3, <2>1, <2>2
<1>8. Cached(L1D, l1d) \subseteq MemoryLines
  BY <1>2, <1>4, SameMemoryLines, WordAssumption DEF CacheInv, LevelOK, Lines, MemoryLines, Word
<1> QED
  BY <1>1, <1>2, <1>3, <1>7, <1>8, DataInvNext DEF DataInv, NothingLost

(* A data access reads and writes the versions of the addressed line; the  *)
(* write-back of the dropped line gives its version to the level below.    *)
LEMMA AccessMovesVersions ==
  ASSUME DataInv, NEW a \in Word, NEW write \in BOOLEAN, accessData(a, write)
  PROVE  LET r == DataAccess(a, write)
             low == IF r.hit THEN data ELSE AfterWriteBack(r, a)
             gone == Dropped(r)
         IN  /\ Stored(low, r.lower)
             /\ gone \subseteq Cached(L1D, l1d) /\ LineOf(L1D, a) \notin gone
             /\ \A y \in MemoryLines :
                  Below(low, y) = IF y \in gone THEN data.d[y] ELSE Below(data, y)
             /\ Cached(L1D, r.level) = (Cached(L1D, l1d) \ gone) \cup {LineOf(L1D, a)}
             /\ Dirty(L1D, r.level) = (Dirty(L1D, l1d) \ gone) \cup {y \in {LineOf(L1D, a)} : write}
<1> DEFINE r == DataAccess(a, write)
           x == LineOf(L1D, a)
           gone == Dropped(r)
           held == Cached(L1D, l1d)
           back == victimAddress(L1D, l1d, a)
<1>1. CacheInv /\ Stored(data, l2) /\ LevelOK(L1D, l1d) /\ LevelOK(L2, l2)
      /\ hierarchy \in Hierarchies
  BY DEF DataInv, CacheInv
<1>2. /\ LevelOK(L1D, r.level) /\ LevelOK(L2, r.lower) /\ LevelOK(L2, r.fill)
      /\ r.hit \in BOOLEAN
      /\ r.hit <=> x \in held
      /\ FirstMoves(L1D, l1d, l2, r, a, write)
  BY <1>1, DataMoves
<1>3. x = LineOf(L2, a) /\ x \in MemoryLines /\ ValidConfig(L1D) /\ held \subseteq MemoryLines
  BY <1>1, SameMemoryLines, ConfigsValid DEF LevelOK
<1>4. gone = held \ Cached(L1D, r.level)
  BY DEF Dropped
<1> HIDE DEF r, gone, x
<1>5. CASE r.hit
  <2>1. Moves(L1D, l1d, r.level, x, write, {}) /\ r.lower = l2
    BY <1>2, <1>5 DEF FirstMoves, x
  <2>2. gone = {}
    BY <1>4, <2>1 DEF Moves
  <2> QED
    BY <1>1, <1>5, <2>1, <2>2 DEF Moves, r, x, gone
<1>6. CASE ~r.hit
  <2> DEFINE lost == Gone(L1D, l1d, a)
             fill == AfterFill(r, x)
             low == AfterWriteBack(r, a)
  <2>1. /\ Moves(L1D, l1d, r.level, x, write, lost)
        /\ \E g : Moves(L2, l2, r.fill, x, FALSE, g)
        /\ IF WritesBack(L1D, l1d, a)
             THEN \E g : Moves(L2, r.fill, r.lower, LineOf(L2, back), TRUE, g)
             ELSE r.lower = r.fill
    BY <1>2, <1>3, <1>6 DEF FirstMoves, x
  <2>2. gone = lost
    BY <1>2, <1>4, <1>6, <2>1 DEF Moves
  <2>3. /\ gone \subseteq held /\ x \notin gone
        /\ Cached(L1D, r.level) = (held \ gone) \cup {x}
        /\ Dirty(L1D, r.level) = (Dirty(L1D, l1d) \ gone) \cup {y \in {x} : write}
    BY <2>1, <2>2 DEF Moves
  <2>4. /\ Stored(fill, r.fill) /\ fill.d = data.d
        /\ \A y \in MemoryLines : Below(fill, y) = Below(data, y)
    BY <1>1, <1>2, <1>3, <2>1, FillKeepsVersions
  <2>5. Stored(low, r.lower) /\ \A y \in MemoryLines :
                   Below(low, y) = IF y \in gone THEN data.d[y] ELSE Below(data, y)
    <3>1. CASE WritesBack(L1D, l1d, a)
      <4> DEFINE y0 == LineOf(L2, back)
                 v == data.d[y0]
                 dirty == TRUE
                 k == LowAfter(fill, r.fill, r.lower, y0, v)
      <4>1. /\ back \in Word /\ lost = {LineOf(L1D, back)}
        BY <1>1, <1>3, <3>1, VictimLeaves DEF WritesBack
      <4>2. gone = {y0} /\ y0 \in MemoryLines
        BY <1>1, <2>2, <4>1, SameMemoryLines
      <4>3. v \in Nat
        BY <2>3, <4>2 DEF DataInv
      <4>4. low = k
        <5>1. (CHOOSE y \in gone : TRUE) = y0
          BY <4>2
        <5>2. low = LowAfter(fill, r.fill, r.lower, y0, data.d[CHOOSE y \in gone : TRUE])
          BY <1>3, <1>6, <3>1 DEF AfterWriteBack, gone
        <5> QED
          BY <5>1, <5>2
      <4>5. PICK g : Moves(L2, r.fill, r.lower, y0, TRUE, g)
        BY <2>1, <3>1
      <4>6. /\ dirty \in BOOLEAN /\ Moves(L2, r.fill, r.lower, y0, dirty, g)
            /\ ~dirty => v = Below(fill, y0)
        BY <4>5
      <4> HIDE DEF v, dirty, y0, fill
      <4>7. LevelOK(L2, r.fill) /\ LevelOK(L2, r.lower) /\ Stored(fill, r.fill)
            /\ y0 \in MemoryLines
        BY <1>2, <2>4, <4>2
      <4>9. /\ Stored(k, r.lower)
            /\ \A y \in MemoryLines : Below(k, y) = IF y = y0 THEN v ELSE Below(fill, y)
        BY <4>3, <4>6, <4>7, LowAfterIs
      <4> HIDE DEF k, low
      <4>8. v = data.d[y0]
        BY DEF v
      <4> QED
        BY <2>4, <4>2, <4>4, <4>8, <4>9
    <3>2. CASE ~WritesBack(L1D, l1d, a)
      <4>1. low = fill /\ r.lower = r.fill
        BY <1>3, <2>1, <3>2 DEF AfterWriteBack
      <4>2. \A y \in gone : y \in held \ Dirty(L1D, l1d)
        <5>1. CASE Victim(L1D, l1d, a).valid
          <6>1. gone = {LineOf(L1D, back)} /\ LineOf(L1D, back) \notin Dirty(L1D, l1d)
            BY <1>1, <1>3, <2>2, <3>2, <5>1, VictimLeaves DEF WritesBack
          <6> QED
            BY <2>3, <6>1
        <5>2. CASE ~Victim(L1D, l1d, a).valid
          BY <1>1, <1>3, <2>2, <5>2, NothingLeaves
        <5> QED
          BY <5>1, <5>2
      <4>3. \A y \in gone : data.d[y] = Below(data, y)
        BY <4>2 DEF DataInv
      <4> HIDE DEF low, fill
      <4> QED
        BY <2>4, <4>1, <4>3
    <3> QED
      BY <3>1, <3>2
  <2> HIDE DEF low
  <2> QED
    BY <1>6, <2>3, <2>5 DEF low, r, x, gone
<1> QED
  BY <1>2, <1>5, <1>6

LEMMA AccessKeepsData ==
  ASSUME DataInv, CacheInv', NEW a \in Word, NEW write \in BOOLEAN, AccessLine(a, write)
  PROVE  DataInv'
<1> DEFINE r == DataAccess(a, write)
           x == LineOf(L1D, a)
           low == IF r.hit THEN data ELSE AfterWriteBack(r, a)
           seen == IF r.hit THEN data.d[x] ELSE Below(data, x)
           gone == Dropped(r)
           held == Cached(L1D, l1d)
           now == Cached(L1D, r.level)
           d == [y \in now |-> IF y # x THEN data.d[y] ELSE IF write THEN latest[x] + 1 ELSE seen]
<1>1. /\ accessData(a, write)
      /\ latest' = IF write THEN [latest EXCEPT ![x] = @ + 1] ELSE latest
      /\ data' = [low EXCEPT !.d = d]
  BY DEF AccessLine
<1>2. /\ CacheInv /\ hierarchy \in Hierarchies /\ LevelOK(L1D, l1d)
      /\ held \subseteq MemoryLines /\ x \in MemoryLines
  BY SameMemoryLines DEF DataInv, CacheInv, LevelOK
<1>3. /\ l1d' = r.level /\ l2' = r.lower /\ UNCHANGED hierarchy
      /\ LevelOK(L2, r.lower) /\ LevelOK(L2, l2)
      /\ r.hit <=> x \in held
  BY <1>1, <1>2, DataMoves DEF CacheInv
<1>4. /\ Stored(low, r.lower)
      /\ gone \subseteq held /\ x \notin gone
      /\ \A y \in MemoryLines :
           Below(low, y) = IF y \in gone THEN data.d[y] ELSE Below(data, y)
      /\ now = (held \ gone) \cup {x}
      /\ Dirty(L1D, r.level) = (Dirty(L1D, l1d) \ gone) \cup {y \in {x} : write}
  BY <1>1, AccessMovesVersions
<1>5. data' = [d |-> d, low |-> low.low, mem |-> low.mem]
  <2>1. low = [d |-> low.d, low |-> low.low, mem |-> low.mem]
    BY <1>4 DEF Stored
  <2> HIDE DEF d, low
  <2> QED
    BY <1>1, <2>1
<1>6. /\ data.d \in [held -> Nat] /\ latest \in [MemoryLines -> Nat]
      /\ \A y \in held \ Dirty(L1D, l1d) : data.d[y] = Below(data, y)
      /\ \A y \in MemoryLines : latest[y] = IF y \in held THEN data.d[y] ELSE Below(data, y)
      /\ Stored(data, l2)
  BY DEF DataInv, NothingLost
<1>7. seen \in Nat /\ seen = latest[x]
  BY <1>2, <1>3, <1>6
<1>8. d \in [now -> Nat]
  <2>1. \A y \in now : y # x => y \in held
    BY <1>4
  <2> HIDE DEF seen, now
  <2> QED
    BY <1>2, <1>6, <1>7, <2>1
<1>9. \A y \in now : d[y] = IF y # x THEN data.d[y] ELSE IF write THEN latest[x] + 1 ELSE seen
  OBVIOUS
<1> HIDE DEF d, low, seen, now, gone, held, r, x
<1>10. Stored(data', l2') /\ data'.d = d
  <2>1. data'.d = d /\ data'.low = low.low /\ data'.mem = low.mem
    BY <1>5
  <2> QED
    BY <1>3, <1>4, <1>5, <2>1 DEF Stored
<1>11. \A y \in MemoryLines :
         Below(data', y) = IF y \in gone THEN data.d[y] ELSE Below(data, y)
  <2>1. data'.low = low.low /\ data'.mem = low.mem
    BY <1>5
  <2>2. \A y : Below(data', y) = Below(low, y)
    BY <2>1, BelowSame
  <2> QED
    BY <1>4, <2>2
<1>12. now = Cached(L1D, l1d') /\ Dirty(L1D, l1d') = Dirty(L1D, r.level)
  BY <1>3 DEF now
<1>13. latest' \in [MemoryLines -> Nat]
       /\ \A y \in MemoryLines : latest'[y] = IF y = x /\ write THEN latest[x] + 1 ELSE latest[y]
  BY <1>1, <1>2, <1>6 DEF x
<1>14. ASSUME NEW y \in now \ Dirty(L1D, l1d') PROVE data'.d[y] = Below(data', y)
  <2>1. y \in MemoryLines /\ y \notin gone
    BY <1>2, <1>4, <1>14
  <2>2. CASE y = x
    <3>1. ~write /\ d[y] = seen /\ (x \in held => x \notin Dirty(L1D, l1d))
      BY <1>4, <1>9, <1>12, <1>14, <2>1, <2>2
    <3> QED
      BY <1>2, <1>6, <1>7, <1>10, <1>11, <2>1, <2>2, <3>1
  <2>3. CASE y # x
    BY <1>4, <1>6, <1>9, <1>10, <1>11, <1>12, <1>14, <2>1, <2>3
  <2> QED
    BY <2>2, <2>3
<1>15. ASSUME NEW y \in MemoryLines
       PROVE  latest'[y] = IF y \in now THEN data'.d[y] ELSE Below(data', y)
  <2>1. CASE y = x
    BY <1>4, <1>7, <1>9, <1>10, <1>13, <2>1
  <2>2. CASE y # x /\ y \in now
    BY <1>4, <1>6, <1>9, <1>10, <1>13, <2>2
  <2>3. CASE y \notin now
    BY <1>4, <1>6, <1>11, <1>13, <2>3
  <2> QED
    BY <2>1, <2>2, <2>3
<1> QED
  BY <1>3, <1>8, <1>10, <1>12, <1>13, <1>14, <1>15, DataInvNext

LEMMA DataInvStep ==
  ASSUME DataInv, [Next]_vars
  PROVE  DataInv'
<1>1. CacheInv /\ CacheInv'
  BY CacheInvStep DEF DataInv
<1>2. CASE UNCHANGED vars
  <2>1. data' = data /\ latest' = latest /\ hierarchy' = hierarchy /\ l1d' = l1d /\ l2' = l2
    BY <1>2 DEF vars, cacheVars
  <2> QED
    BY <1>1, <2>1, SameMemoryLines, DataInvNext DEF DataInv, NothingLost
<1> QED
  BY <1>1, <1>2, FetchKeepsData, AccessKeepsData, TrafficSteps

LEMMA DataInvHolds == Spec => []DataInv
BY DataInvInit, DataInvStep, PTL DEF Spec

(* Whatever the sizes, the policies and the traffic, a load reads the last *)
(* store to its line: a line is written back before it is dropped, to the  *)
(* address it came from, and L2 never has a stale copy in front of it.     *)
THEOREM NoStoreLost == Spec => []NothingLost
BY DataInvHolds, PTL DEF DataInv

-----------------------------------------------------------------------------
(* Counters *)

(* An access took c to cc: what it added to the counters, in the report    *)
(* and in the set of lines held. *)
Counted(g, c, cc, miss, out, back, time) ==
  /\ miss \in {0, 1} /\ out \in {0, 1} /\ back \in {0, 1} /\ back <= out
  /\ cc.stats.accesses = c.stats.accesses + 1
  /\ cc.stats.hits = c.stats.hits + 1 - miss
  /\ cc.stats.misses = c.stats.misses + miss
  /\ cc.stats.evictions = c.stats.evictions + out
  /\ cc.stats.writebacks = c.stats.writebacks + back
  /\ cc.stats.totalLatency = c.stats.totalLatency + time
  /\ Cardinality(Cached(g, cc)) = Cardinality(Cached(g, c)) + miss - out

LEMMA StatsAre ==
  ASSUME NEW g, NEW c, LevelOK(g, c)
  PROVE  /\ c.stats.accesses \in Nat /\ c.stats.hits \in Nat /\ c.stats.misses \in Nat
         /\ c.stats.evictions \in Nat /\ c.stats.writebacks \in Nat
         /\ c.stats.totalLatency \in Nat
<1>1. c.stats \in CacheStats
  BY DEF LevelOK, LevelRecord
<1> QED
  BY <1>1 DEF CacheStats

LEMMA CachedFinite ==
  ASSUME NEW g, ValidConfig(g), NEW c, LevelOK(g, c)
  PROVE  IsFiniteSet(Cached(g, c)) /\ Cardinality(Cached(g, c)) \in Nat
<1>1. LineOf(g, WordMod - 1) \in Int
  BY ValidSizes, WordAssumption DEF LineOf
<1>2. IsFiniteSet(Lines(g))
  BY <1>1, FS_Interval DEF Lines
<1>3. IsFiniteSet(Cached(g, c))
  BY <1>2, FS_Subset DEF LevelOK
<1> QED
  BY <1>3, FS_CardinalityType

LEMMA HitCounts ==
  ASSUME NEW g, ValidConfig(g), NEW c, LevelOK(g, c), NEW address \in Word,
         NEW write \in BOOLEAN, HitWays(g, c, address) # {}
  PROVE  Counted(g, c, Hit(g, c, address, write), 0, 0, 0, g.latency)
<1> DEFINE h == Hit(g, c, address, write)
<1>1. HitCounted(g, c, h)
  BY HitIs
<1>2. Moves(g, c, h, LineOf(g, address), write, {}) /\ LineOf(g, address) \in Cached(g, c)
  BY HitMoves, HitWaysAre
<1> HIDE DEF h
<1>3. Cached(g, h) = Cached(g, c)
  BY <1>2 DEF Moves
<1>4. Cardinality(Cached(g, c)) \in Nat
  BY CachedFinite
<1>5. /\ h.stats.accesses = c.stats.accesses + 1
      /\ h.stats.hits = c.stats.hits + 1
      /\ h.stats.misses = c.stats.misses
      /\ h.stats.evictions = c.stats.evictions
      /\ h.stats.writebacks = c.stats.writebacks
      /\ h.stats.totalLatency = c.stats.totalLatency + g.latency
  BY <1>1 DEF HitCounted
<1>6. Counted(g, c, h, 0, 0, 0, g.latency)
  BY <1>3, <1>4, <1>5, StatsAre DEF Counted
<1> QED
  BY <1>6 DEF h

LEMMA MissCounts ==
  ASSUME NEW g, ValidConfig(g), NEW c, LevelOK(g, c), NEW address \in Word,
         NEW write \in BOOLEAN, NEW lower \in Nat, HitWays(g, c, address) = {}
  PROVE  \E out \in {0, 1} :
           Counted(g, c, Miss(g, c, address, write, lower), 1, out,
                   IF WritesBack(g, c, address) THEN 1 ELSE 0, g.latency + lower)
<1> DEFINE m == Miss(g, c, address, write, lower)
           v == Victim(g, c, address)
           x == LineOf(g, address)
           gone == Gone(g, c, address)
           held == Cached(g, c)
           out == IF v.valid THEN 1 ELSE 0
           back == IF WritesBack(g, c, address) THEN 1 ELSE 0
<1>1. MissCounted(g, c, m, v, lower) /\ v \in CacheLine
  BY MissIs
<1>2. Moves(g, c, m, x, write, gone) /\ x \notin held
  BY MissMoves, HitWaysAre
<1>3. v.valid \in BOOLEAN /\ v.dirty \in BOOLEAN
  BY <1>1 DEF CacheLine
<1>4. back = IF v.valid /\ v.dirty THEN 1 ELSE 0
  BY DEF WritesBack
<1>5. out \in {0, 1} /\ back \in {0, 1} /\ back <= out
  BY <1>3, <1>4
<1>6. IsFiniteSet(held) /\ Cardinality(held) \in Nat
  BY CachedFinite
<1>7. gone \subseteq held /\ Cached(g, m) = (held \ gone) \cup {x}
  BY <1>2 DEF Moves
<1>8. IsFiniteSet(held \ gone) /\ Cardinality(held \ gone) = Cardinality(held) - out
  <2>1. CASE v.valid
    <3>1. PICK y : gone = {y}
      BY <2>1, VictimLeaves
    <3>2. held \ gone = held \ {y} /\ y \in held
      BY <1>7, <3>1
    <3> QED
      BY <1>6, <2>1, <3>2, FS_RemoveElement
  <2>2. CASE ~v.valid
    <3>1. gone = {}
      BY <2>2, NothingLeaves
    <3>2. held \ gone = held
      BY <3>1
    <3> QED
      BY <1>6, <2>2, <3>2
  <2> QED
    BY <2>1, <2>2
<1>9. Cardinality(Cached(g, m)) = Cardinality(held) - out + 1
  <2> DEFINE kept == held \ gone
  <2>1. x \notin kept /\ Cached(g, m) = kept \cup {x}
    BY <1>2, <1>7
  <2>2. IsFiniteSet(kept) /\ Cardinality(kept) = Cardinality(held) - out
    BY <1>8
  <2> HIDE DEF kept, x, out, m
  <2>3. Cardinality(kept \cup {x}) = Cardinality(kept) + 1
    BY <2>1, <2>2, FS_AddElement
  <2> QED
    BY <2>1, <2>2, <2>3
<1> HIDE DEF m, out, back, held
<1>10. /\ m.stats.accesses = c.stats.accesses + 1
       /\ m.stats.hits = c.stats.hits
       /\ m.stats.misses = c.stats.misses + 1
       /\ m.stats.totalLatency = c.stats.totalLatency + g.latency + lower
  BY <1>1 DEF MissCounted
<1>11. m.stats.evictions = c.stats.evictions + out
  BY <1>1 DEF MissCounted, out
<1>12. m.stats.writebacks = c.stats.writebacks + back
  BY <1>1, <1>4 DEF MissCounted
<1>13. g.latency \in Nat
  BY ValidSizes
<1>14. Counted(g, c, m, 1, out, back, g.latency + lower)
  BY <1>5, <1>6, <1>9, <1>10, <1>11, <1>12, <1>13, StatsAre DEF Counted, held
<1> QED
  BY <1>5, <1>14 DEF m, back

LEMMA LevelCounted ==
  ASSUME NEW g, ValidConfig(g), NEW c, LevelOK(g, c), NEW cc, NEW miss, NEW out, NEW back,
         NEW time, Counted(g, c, cc, miss, out, back, time), LevelAddsUp(g, c)
  PROVE  LevelAddsUp(g, cc)
BY StatsAre, CachedFinite DEF Counted, LevelAddsUp

(* The second level adds up, and its time is that of its accesses. *)
LowerAddsUp(c) ==
  /\ LevelAddsUp(L2, c)
  /\ c.stats.totalLatency = L2.latency * c.stats.accesses + MemoryLatency * c.stats.misses

(* It still does after one more access, which took 'time'. *)
LowerCounted(c, cc, time) ==
  /\ time \in Nat
  /\ cc.stats.accesses = c.stats.accesses + 1
  /\ cc.stats.totalLatency = c.stats.totalLatency + time
  /\ LowerAddsUp(cc)

LEMMA LowerCounts ==
  ASSUME hierarchy \in Hierarchies, NEW c, LevelOK(L2, c), NEW address \in Word,
         NEW write \in BOOLEAN, LowerAddsUp(c)
  PROVE  LowerCounted(c, LastAccess(L2, c, address, write).level,
                      LastAccess(L2, c, address, write).latency)
<1> DEFINE r == LastAccess(L2, c, address, write)
<1>1. ValidConfig(L2) /\ L2.latency \in Nat /\ MemoryLatency \in Nat
  BY ConfigsValid, ValidSizes, CacheAssumption
<1>2. \E miss, out, back :
        /\ miss \in {0, 1}
        /\ Counted(L2, c, r.level, miss, out, back, r.latency)
        /\ r.latency = L2.latency + (IF miss = 1 THEN MemoryLatency ELSE 0)
  <2>1. CASE HitWays(L2, c, address) # {}
    <3>1. r.level = Hit(L2, c, address, write) /\ r.latency = L2.latency
      BY <2>1 DEF LastAccess
    <3>2. Counted(L2, c, r.level, 0, 0, 0, r.latency)
      BY <1>1, <2>1, <3>1, HitCounts
    <3> HIDE DEF r
    <3> QED
      BY <1>1, <3>1, <3>2
  <2>2. CASE HitWays(L2, c, address) = {}
    <3>1. /\ r.level = Miss(L2, c, address, write, MemoryLatency)
          /\ r.latency = L2.latency + MemoryLatency
      BY <2>2 DEF LastAccess
    <3>2. PICK out \in {0, 1} :
            Counted(L2, c, Miss(L2, c, address, write, MemoryLatency), 1, out,
                    IF WritesBack(L2, c, address) THEN 1 ELSE 0, L2.latency + MemoryLatency)
      BY <1>1, <2>2, MissCounts
    <3> DEFINE back == IF WritesBack(L2, c, address) THEN 1 ELSE 0
    <3>3. Counted(L2, c, r.level, 1, out, back, r.latency)
      BY <3>1, <3>2
    <3> HIDE DEF r, back
    <3> QED
      BY <3>1, <3>3
  <2> QED
    BY <2>1, <2>2
<1> DEFINE cc == r.level
           time == r.latency
<1>3. PICK miss, out, back :
        /\ miss \in {0, 1}
        /\ Counted(L2, c, cc, miss, out, back, time)
        /\ time = L2.latency + (IF miss = 1 THEN MemoryLatency ELSE 0)
  BY <1>2
<1>4. LevelAddsUp(L2, cc)
  <2> HIDE DEF cc, time
  <2> QED
    BY <1>1, <1>3, LevelCounted DEF LowerAddsUp
<1> HIDE DEF cc, time
<1>5. /\ cc.stats.accesses = c.stats.accesses + 1
      /\ cc.stats.misses = c.stats.misses + miss
      /\ cc.stats.totalLatency = c.stats.totalLatency + time
  BY <1>3 DEF Counted
<1>6. /\ c.stats.accesses \in Nat /\ c.stats.misses \in Nat /\ c.stats.totalLatency \in Nat
      /\ time \in Nat
  BY <1>1, <1>3, StatsAre
<1>7. cc.stats.totalLatency
        = L2.latency * cc.stats.accesses + MemoryLatency * cc.stats.misses
  <2> DEFINE n == c.stats.accesses
             k == c.stats.misses
             l == L2.latency
  <2>1. c.stats.totalLatency = l * n + MemoryLatency * k
    BY DEF LowerAddsUp
  <2>2. n \in Nat /\ k \in Nat /\ l \in Nat
    BY <1>1, <1>6
  <2> HIDE DEF n, k, l
  <2>3. l * (n + 1) = l * n + l /\ MemoryLatency * (k + 1) = MemoryLatency * k + MemoryLatency
        /\ l * n \in Nat /\ MemoryLatency * k \in Nat
    BY <1>1, <2>2
  <2>4. CASE miss = 1
    <3>1. time = l + MemoryLatency
      BY <1>1, <1>3, <2>4 DEF l
    <3>2. cc.stats.totalLatency = l * (n + 1) + MemoryLatency * (k + 1)
      BY <1>1, <1>5, <2>1, <2>2, <2>3, <3>1
    <3> QED
      BY <1>5, <2>4, <3>2 DEF n, k, l
  <2>5. CASE miss = 0
    <3>1. time = l
      BY <1>1, <1>3, <2>5 DEF l
    <3>2. cc.stats.totalLatency = l * (n + 1) + MemoryLatency * k
      BY <1>1, <1>5, <2>1, <2>2, <2>3, <3>1
    <3>3. cc.stats.misses = k
      BY <1>5, <1>6, <2>5 DEF k
    <3> QED
      BY <1>5, <3>2, <3>3 DEF n, l
  <2> QED
    BY <1>3, <2>4, <2>5
<1>8. LowerCounted(c, cc, time)
  BY <1>4, <1>5, <1>6, <1>7 DEF LowerCounted, LowerAddsUp
<1> QED
  BY <1>8 DEF cc, time

(* What an access of a first-level cache adds, there and to the second.    *)
FirstCounted(g, c, lower, r) ==
  /\ LevelAddsUp(g, r.level) /\ LowerAddsUp(r.lower)
  /\ r.level.stats.accesses = c.stats.accesses + 1
  /\ Dirty(g, c) = {} => r.level.stats.writebacks = c.stats.writebacks
  /\ r.lower.stats.accesses - lower.stats.accesses
       = (r.level.stats.misses - c.stats.misses)
           + (r.level.stats.writebacks - c.stats.writebacks)
  /\ r.level.stats.totalLatency - c.stats.totalLatency
       = g.latency + (r.lower.stats.totalLatency - lower.stats.totalLatency)

LEMMA FirstCounts ==
  ASSUME hierarchy \in Hierarchies,
         NEW g, ValidConfig(g), NEW c, LevelOK(g, c), NEW lower, LevelOK(L2, lower),
         NEW address \in Word, NEW write \in BOOLEAN,
         LevelAddsUp(g, c), LowerAddsUp(lower)
  PROVE  FirstCounted(g, c, lower, FirstAccess(g, c, lower, address, write))
<1> DEFINE r == FirstAccess(g, c, lower, address, write)
<1>1. ValidConfig(L2) /\ g.latency \in Nat
  BY ConfigsValid, ValidSizes
<1>2. LevelOK(g, r.level) /\ LevelOK(L2, r.lower)
  BY FirstLevelMoves
<1>3. /\ c.stats.accesses \in Nat /\ c.stats.misses \in Nat /\ c.stats.writebacks \in Nat
      /\ c.stats.totalLatency \in Nat
      /\ lower.stats.accesses \in Nat /\ lower.stats.totalLatency \in Nat
  BY StatsAre
<1>4. CASE HitWays(g, c, address) # {}
  <2>1. r.level = Hit(g, c, address, write) /\ r.lower = lower
    BY <1>4 DEF FirstAccess
  <2>2. Counted(g, c, r.level, 0, 0, 0, g.latency)
    BY <1>4, <2>1, HitCounts
  <2> HIDE DEF r
  <2>3. LevelAddsUp(g, r.level)
    BY <2>2, LevelCounted
  <2>4. FirstCounted(g, c, lower, r)
    BY <1>1, <1>3, <2>1, <2>2, <2>3 DEF FirstCounted, Counted
  <2> QED
    BY <2>4 DEF r
<1>5. CASE HitWays(g, c, address) = {}
  <2> DEFINE fill == LastAccess(L2, lower, address, FALSE)
             back == IF WritesBack(g, c, address)
                       THEN LastAccess(L2, fill.level, victimAddress(g, c, address), TRUE)
                       ELSE [latency |-> 0, level |-> fill.level]
             backs == IF WritesBack(g, c, address) THEN 1 ELSE 0
             wait == fill.latency + back.latency
  <2>1. r.level = Miss(g, c, address, write, wait) /\ r.lower = back.level
    BY <1>5 DEF FirstAccess
  <2>2. LevelOK(L2, fill.level)
    BY <1>1, LastMoves
  <2>3. LowerCounted(lower, fill.level, fill.latency)
    BY LowerCounts
  <2> HIDE DEF fill
  <2>4. /\ fill.latency \in Nat /\ LowerAddsUp(fill.level)
        /\ fill.level.stats.accesses = lower.stats.accesses + 1
        /\ fill.level.stats.totalLatency = lower.stats.totalLatency + fill.latency
    BY <2>3 DEF LowerCounted
  <2>5. /\ back.latency \in Nat /\ LowerAddsUp(back.level)
        /\ back.level.stats.accesses = fill.level.stats.accesses + backs
        /\ back.level.stats.totalLatency = fill.level.stats.totalLatency + back.latency
    <3>1. CASE WritesBack(g, c, address)
      <4>1. victimAddress(g, c, address) \in Word
        BY <3>1, VictimLeaves DEF WritesBack
      <4>2. back = LastAccess(L2, fill.level, victimAddress(g, c, address), TRUE) /\ backs = 1
        BY <3>1
      <4>3. LowerCounted(fill.level, back.level, back.latency)
        BY <2>2, <2>4, <4>1, <4>2, LowerCounts
      <4> HIDE DEF back, backs
      <4> QED
        BY <4>2, <4>3 DEF LowerCounted
    <3>2. CASE ~WritesBack(g, c, address)
      <4>1. back.level = fill.level /\ back.latency = 0 /\ backs = 0
        BY <3>2
      <4>2. fill.level.stats.accesses \in Nat /\ fill.level.stats.totalLatency \in Nat
        BY <1>3, <2>4
      <4> HIDE DEF back, backs
      <4> QED
        BY <2>4, <4>1, <4>2
    <3> QED
      BY <3>1, <3>2
  <2> HIDE DEF back
  <2>6. wait \in Nat
    BY <2>4, <2>5
  <2> HIDE DEF wait
  <2>7. PICK out \in {0, 1} : Counted(g, c, r.level, 1, out, backs, g.latency + wait)
    BY <1>5, <2>1, <2>6, MissCounts
  <2>8. Dirty(g, c) = {} => backs = 0
    BY VictimLeaves DEF WritesBack
  <2> HIDE DEF r, backs
  <2>9. LevelAddsUp(g, r.level)
    BY <2>7, LevelCounted
  <2>10. wait = fill.latency + back.latency
    BY DEF wait
  <2>11. /\ r.level.stats.accesses = c.stats.accesses + 1
         /\ r.level.stats.misses = c.stats.misses + 1
         /\ r.level.stats.writebacks = c.stats.writebacks + backs
         /\ r.level.stats.totalLatency = c.stats.totalLatency + (g.latency + wait)
         /\ backs \in {0, 1}
    BY <2>7 DEF Counted
  <2>12. FirstCounted(g, c, lower, r)
    BY <1>1, <1>3, <2>1, <2>4, <2>5, <2>8, <2>9, <2>10, <2>11 DEF FirstCounted
  <2> QED
    BY <2>12 DEF r
<1> QED
  BY <1>4, <1>5

CountsInv == CacheInv /\ TrafficAddsUp

LEMMA CountsInvInit == Init => CountsInv
<1> SUFFICES ASSUME Init PROVE CountsInv
  OBVIOUS
<1>1. CacheInv /\ ValidConfig(L1I) /\ ValidConfig(L1D) /\ ValidConfig(L2)
  BY CacheInvInit, ConfigsValid DEF CacheInv
<1>2. L1I.latency \in Nat /\ L1D.latency \in Nat /\ L2.latency \in Nat /\ MemoryLatency \in Nat
  BY <1>1, ValidSizes, CacheAssumption
<1>3. \A g : ValidConfig(g) =>
        /\ EmptyLevel(g).stats.accesses = 0 /\ EmptyLevel(g).stats.hits = 0
        /\ EmptyLevel(g).stats.misses = 0 /\ EmptyLevel(g).stats.evictions = 0
        /\ EmptyLevel(g).stats.writebacks = 0 /\ EmptyLevel(g).stats.totalLatency = 0
  BY DEF EmptyLevel
<1>4. \A g : ValidConfig(g) => Cardinality(Cached(g, EmptyLevel(g))) = 0
  BY EmptyIs, FS_EmptySet
<1>5. l1i = EmptyLevel(L1I) /\ l1d = EmptyLevel(L1D) /\ l2 = EmptyLevel(L2)
  BY DEF Init, CacheInit
<1>6. LevelAddsUp(L1I, l1i) /\ LevelAddsUp(L1D, l1d) /\ LevelAddsUp(L2, l2)
  BY <1>1, <1>3, <1>4, <1>5 DEF LevelAddsUp
<1> QED
  BY <1>1, <1>2, <1>3, <1>5, <1>6 DEF CountsInv, TrafficAddsUp

(* Two numbers that grow by the same. *)
LEMMA GrowAlike ==
  ASSUME NEW a \in Nat, NEW aa \in Nat, NEW b \in Nat, NEW bb \in Nat, NEW rest \in Nat,
         a = b + rest, aa - a = bb - b
  PROVE  aa = bb + rest
OBVIOUS

LEMMA CountsInvStep ==
  ASSUME CountsInv, [Next]_vars
  PROVE  CountsInv'
<1>1. /\ CacheInv /\ CacheInv' /\ hierarchy \in Hierarchies
      /\ LevelOK(L1I, l1i) /\ LevelOK(L1D, l1d) /\ LevelOK(L2, l2) /\ Dirty(L1I, l1i) = {}
      /\ ValidConfig(L1I) /\ ValidConfig(L1D)
  BY CacheInvStep, ConfigsValid DEF CountsInv, CacheInv
<1>2. /\ LevelAddsUp(L1I, l1i) /\ LevelAddsUp(L1D, l1d) /\ LowerAddsUp(l2)
      /\ l1i.stats.writebacks = 0
      /\ l2.stats.accesses = l1i.stats.misses + l1d.stats.misses + l1d.stats.writebacks
      /\ l1i.stats.totalLatency + l1d.stats.totalLatency
           = L1I.latency * l1i.stats.accesses + L1D.latency * l1d.stats.accesses
               + l2.stats.totalLatency
  BY DEF CountsInv, TrafficAddsUp, LowerAddsUp
<1>3. /\ l1i.stats.accesses \in Nat /\ l1i.stats.misses \in Nat /\ l1i.stats.totalLatency \in Nat
      /\ l1d.stats.accesses \in Nat /\ l1d.stats.misses \in Nat /\ l1d.stats.totalLatency \in Nat
      /\ l1d.stats.writebacks \in Nat
      /\ l2.stats.accesses \in Nat /\ l2.stats.totalLatency \in Nat
      /\ L1I.latency \in Nat /\ L1D.latency \in Nat
  BY <1>1, StatsAre, ValidSizes
<1>7. l2.stats.accesses = l1i.stats.misses + l1d.stats.misses + l1d.stats.writebacks
  BY <1>2
<1>4. ASSUME NEW a \in Word, FetchLine(a) PROVE TrafficAddsUp'
  <2> DEFINE r == InstructionAccess(a)
  <2>1. accessInstruction(a)
    BY <1>4 DEF FetchLine
  <2>2. /\ l1i' = r.level /\ l2' = r.lower /\ UNCHANGED <<hierarchy, l1d>>
        /\ LevelOK(L1I, r.level) /\ LevelOK(L2, r.lower)
    BY <1>1, <2>1, InstructionMoves
  <2>3. FirstCounted(L1I, l1i, l2, r)
    BY <1>1, <1>2, FirstCounts DEF InstructionAccess
  <2> HIDE DEF r
  <2>4. /\ LevelAddsUp(L1I, l1i') /\ LowerAddsUp(l2')
        /\ l1i'.stats.accesses = l1i.stats.accesses + 1
        /\ l1i'.stats.writebacks = 0
        /\ l2'.stats.accesses - l2.stats.accesses = l1i'.stats.misses - l1i.stats.misses
        /\ l1i'.stats.totalLatency - l1i.stats.totalLatency
             = L1I.latency + (l2'.stats.totalLatency - l2.stats.totalLatency)
    BY <1>1, <1>2, <1>3, <2>2, <2>3, StatsAre DEF FirstCounted
  <2>5. /\ l1i'.stats.misses \in Nat /\ l1i'.stats.totalLatency \in Nat
        /\ l2'.stats.accesses \in Nat /\ l2'.stats.totalLatency \in Nat
    BY <2>2, StatsAre
  <2>6. l2'.stats.accesses = l1i'.stats.misses + l1d.stats.misses + l1d.stats.writebacks
    <3> DEFINE rest == l1d.stats.misses + l1d.stats.writebacks
               m == l1i.stats.misses
               mm == l1i'.stats.misses
               k == l2.stats.accesses
               kk == l2'.stats.accesses
    <3>1. rest \in Nat /\ m \in Nat /\ mm \in Nat /\ k \in Nat /\ kk \in Nat
      BY <1>3, <2>5
    <3>2. k = m + rest
      BY <1>3, <1>7
    <3>3. kk - k = mm - m
      BY <2>4
    <3> HIDE DEF rest, m, mm, k, kk
    <3>4. kk = mm + rest
      BY <3>1, <3>2, <3>3, GrowAlike
    <3> QED
      BY <1>3, <3>1, <3>4 DEF rest, mm, kk
  <2>7. l1i'.stats.totalLatency + l1d.stats.totalLatency
          = L1I.latency * l1i'.stats.accesses + L1D.latency * l1d.stats.accesses
              + l2'.stats.totalLatency
    <3> DEFINE n == l1i.stats.accesses
               l == L1I.latency
               rest == L1D.latency * l1d.stats.accesses
    <3>1. n \in Nat /\ l \in Nat /\ rest \in Nat
      BY <1>3
    <3>2. l1i.stats.totalLatency + l1d.stats.totalLatency = l * n + rest + l2.stats.totalLatency
      BY <1>2
    <3>3. l1i'.stats.accesses = n + 1
          /\ l1i'.stats.totalLatency - l1i.stats.totalLatency
               = l + (l2'.stats.totalLatency - l2.stats.totalLatency)
      BY <2>4
    <3> HIDE DEF n, l, rest
    <3> DEFINE k == l * n
               j == l * (n + 1)
    <3>4. j = k + l /\ k \in Nat /\ j \in Nat
      BY <3>1
    <3>6. l1i.stats.totalLatency + l1d.stats.totalLatency = rest + k + l2.stats.totalLatency
      BY <1>3, <3>1, <3>2, <3>4
    <3> HIDE DEF j, k
    <3>5. l1i'.stats.totalLatency + l1d.stats.totalLatency
            = j + rest + l2'.stats.totalLatency
      <4> DEFINE x == l1i.stats.totalLatency
                 aa == l1i'.stats.totalLatency
                 b == l2.stats.totalLatency
                 bb == l2'.stats.totalLatency
                 c == l1d.stats.totalLatency
      <4>1. x \in Nat /\ aa \in Nat /\ b \in Nat /\ bb \in Nat /\ c \in Nat
        BY <1>3, <2>5
      <4>2. x + c = rest + k + b
        BY <3>6
      <4>3. aa - x = l + (bb - b)
        BY <3>3
      <4> HIDE DEF x, aa, b, bb, c
      <4>4. aa + c = rest + j + bb /\ j + rest = rest + j
        BY <3>1, <3>4, <4>1, <4>2, <4>3
      <4> QED
        BY <4>4 DEF aa, bb, c
    <3> QED
      BY <3>3, <3>5 DEF j, l, rest
  <2>8. L1I' = L1I /\ L1D' = L1D /\ L2' = L2
    BY <2>2 DEF L1I, L1D, L2
  <2> QED
    BY <1>2, <2>2, <2>4, <2>6, <2>7, <2>8 DEF TrafficAddsUp, LowerAddsUp
<1>5. ASSUME NEW a \in Word, NEW write \in BOOLEAN, AccessLine(a, write) PROVE TrafficAddsUp'
  <2> DEFINE r == DataAccess(a, write)
  <2>1. accessData(a, write)
    BY <1>5 DEF AccessLine
  <2>2. /\ l1d' = r.level /\ l2' = r.lower /\ UNCHANGED <<hierarchy, l1i>>
        /\ LevelOK(L1D, r.level) /\ LevelOK(L2, r.lower)
    BY <1>1, <2>1, DataMoves
  <2>3. FirstCounted(L1D, l1d, l2, r)
    BY <1>1, <1>2, FirstCounts DEF DataAccess
  <2> HIDE DEF r
  <2>4. /\ LevelAddsUp(L1D, l1d') /\ LowerAddsUp(l2')
        /\ l1d'.stats.accesses = l1d.stats.accesses + 1
        /\ l2'.stats.accesses - l2.stats.accesses
             = (l1d'.stats.misses - l1d.stats.misses)
                 + (l1d'.stats.writebacks - l1d.stats.writebacks)
        /\ l1d'.stats.totalLatency - l1d.stats.totalLatency
             = L1D.latency + (l2'.stats.totalLatency - l2.stats.totalLatency)
    BY <2>2, <2>3 DEF FirstCounted
  <2>5. /\ l1d'.stats.misses \in Nat /\ l1d'.stats.totalLatency \in Nat
        /\ l1d'.stats.writebacks \in Nat
        /\ l2'.stats.accesses \in Nat /\ l2'.stats.totalLatency \in Nat
    BY <2>2, StatsAre
  <2>6. l2'.stats.accesses = l1i.stats.misses + l1d'.stats.misses + l1d'.stats.writebacks
    <3> DEFINE rest == l1i.stats.misses
               m == l1d.stats.misses + l1d.stats.writebacks
               mm == l1d'.stats.misses + l1d'.stats.writebacks
               k == l2.stats.accesses
               kk == l2'.stats.accesses
    <3>1. rest \in Nat /\ m \in Nat /\ mm \in Nat /\ k \in Nat /\ kk \in Nat
      BY <1>3, <2>5
    <3>2. k = m + rest
      BY <1>3, <1>7
    <3>3. kk - k = mm - m
      BY <1>3, <2>4, <2>5
    <3> HIDE DEF rest, m, mm, k, kk
    <3>4. kk = mm + rest
      BY <3>1, <3>2, <3>3, GrowAlike
    <3> QED
      BY <1>3, <2>5, <3>1, <3>4 DEF rest, mm, kk
  <2>7. l1i.stats.totalLatency + l1d'.stats.totalLatency
          = L1I.latency * l1i.stats.accesses + L1D.latency * l1d'.stats.accesses
              + l2'.stats.totalLatency
    <3> DEFINE n == l1d.stats.accesses
               l == L1D.latency
               rest == L1I.latency * l1i.stats.accesses
    <3>1. n \in Nat /\ l \in Nat /\ rest \in Nat
      BY <1>3
    <3>2. l1i.stats.totalLatency + l1d.stats.totalLatency = rest + l * n + l2.stats.totalLatency
      BY <1>2
    <3>3. l1d'.stats.accesses = n + 1
          /\ l1d'.stats.totalLatency - l1d.stats.totalLatency
               = l + (l2'.stats.totalLatency - l2.stats.totalLatency)
      BY <2>4
    <3> HIDE DEF n, l, rest
    <3> DEFINE k == l * n
               j == l * (n + 1)
    <3>4. j = k + l /\ k \in Nat /\ j \in Nat
      BY <3>1
    <3>6. l1i.stats.totalLatency + l1d.stats.totalLatency = rest + k + l2.stats.totalLatency
      BY <1>3, <3>1, <3>2, <3>4
    <3> HIDE DEF j, k
    <3>5. l1i.stats.totalLatency + l1d'.stats.totalLatency
            = rest + j + l2'.stats.totalLatency
      <4> DEFINE x == l1d.stats.totalLatency
                 aa == l1d'.stats.totalLatency
                 b == l2.stats.totalLatency
                 bb == l2'.stats.totalLatency
                 c == l1i.stats.totalLatency
      <4>1. x \in Nat /\ aa \in Nat /\ b \in Nat /\ bb \in Nat /\ c \in Nat
        BY <1>3, <2>5
      <4>2. c + x = rest + k + b
        BY <3>6
      <4>3. aa - x = l + (bb - b)
        BY <3>3
      <4> HIDE DEF x, aa, b, bb, c
      <4>4. c + aa = rest + j + bb /\ j + rest = rest + j
        BY <3>1, <3>4, <4>1, <4>2, <4>3
      <4> QED
        BY <4>4 DEF aa, bb, c
    <3> QED
      BY <3>3, <3>5 DEF j, l, rest
  <2>8. L1I' = L1I /\ L1D' = L1D /\ L2' = L2
    BY <2>2 DEF L1I, L1D, L2
  <2> QED
    BY <1>2, <2>2, <2>4, <2>6, <2>7, <2>8 DEF TrafficAddsUp, LowerAddsUp
<1>6. ASSUME UNCHANGED vars PROVE TrafficAddsUp'
  <2>1. L1I' = L1I /\ L1D' = L1D /\ L2' = L2 /\ l1i' = l1i /\ l1d' = l1d /\ l2' = l2
    BY <1>6 DEF vars, cacheVars, L1I, L1D, L2
  <2> QED
    BY <1>2, <2>1 DEF TrafficAddsUp, LowerAddsUp
<1> QED
  BY <1>1, <1>4, <1>5, <1>6, TrafficSteps DEF CountsInv

(* The report adds up for all traffic: L2 is accessed once per miss and    *)
(* once per write-back above it and never else, a level holds the lines it *)
(* missed and did not evict, and every cycle charged below is charged to   *)
(* the access that caused it.                                              *)
THEOREM TrafficCounted == Spec => []TrafficAddsUp
<1>1. CountsInv => TrafficAddsUp
  BY DEF CountsInv
<1> QED
  BY <1>1, CountsInvInit, CountsInvStep, PTL DEF Spec

-----------------------------------------------------------------------------
(* What is kept *)

(* The way used last among those of its block of 'span' ways. *)
Youngest(g, set, span, w) ==
  /\ w \in WaysOf(g) /\ set[w].valid
  /\ \A v \in WaysOf(g) : set[v].valid /\ v \div span = w \div span => set[v].age <= set[w].age

(* Every node of the tree points away from the half that holds the way     *)
(* used last of those below it. *)
TreePoints(g, set, bits) ==
  \A span \in Spans(g), w \in WaysOf(g) :
    Youngest(g, set, span, w) => bits[NodeAt(g, span, w)] = IF Right(span, w) THEN 0 ELSE 1

LEMMA TouchKeepsTree ==
  ASSUME NEW g, ValidConfig(g), PowerOfTwo(g.associativity),
         NEW set \in [WaysOf(g) -> CacheLine], NEW bits \in [PlruNodes(g) -> {0, 1}],
         TreePoints(g, set, bits),
         NEW clock \in Nat, \A w \in WaysOf(g) : set[w].valid => set[w].age <= clock,
         NEW x \in WaysOf(g), NEW line \in CacheLine, line.valid, line.age = clock + 1,
         NEW new, new = [set EXCEPT ![x] = line]
  PROVE  TreePoints(g, new, plruTouch(g, bits, x))
<1> DEFINE after == plruTouch(g, bits, x)
<1> SUFFICES ASSUME NEW span \in Spans(g), NEW w \in WaysOf(g), Youngest(g, new, span, w)
             PROVE  after[NodeAt(g, span, w)] = IF Right(span, w) THEN 0 ELSE 1
  BY DEF TreePoints
<1> DEFINE n == NodeAt(g, span, w)
<1>1. n \in PlruNodes(g)
  BY NodeIs
<1>2. after[n] = IF n \in NodesPassed(g, x, TRUE) THEN 0
                 ELSE IF n \in NodesPassed(g, x, FALSE) THEN 1
                 ELSE bits[n]
  BY <1>1 DEF plruTouch
<1>3. \A r \in BOOLEAN : n \in NodesPassed(g, x, r)
                           => x \div span = w \div span /\ (Right(span, x) <=> r)
  <2> SUFFICES ASSUME NEW r \in BOOLEAN, n \in NodesPassed(g, x, r)
               PROVE  x \div span = w \div span /\ (Right(span, x) <=> r)
    OBVIOUS
  <2>1. PICK t \in Spans(g) : (Right(t, x) = r) /\ NodeAt(g, t, x) = n
    BY DEF NodesPassed
  <2>4. NodeAt(g, t, x) = NodeAt(g, span, w) /\ t \in Spans(g)
    BY <2>1
  <2>2. t = span /\ x \div t = w \div span
    <3> HIDE DEF n, after
    <3>1. \A a, b \in Spans(g), y, z \in WaysOf(g) :
            NodeAt(g, a, y) = NodeAt(g, b, z) => a = b /\ y \div a = z \div b
      BY NodeOfBlock
    <3> QED
      BY <2>4, <3>1, Zenon
  <2>3. Right(t, x) \in BOOLEAN
    BY DEF Right
  <2> QED
    BY <2>1, <2>2, <2>3
<1>4. new[x] = line /\ \A v \in WaysOf(g) : v # x => new[v] = set[v]
  OBVIOUS
<1>5. \A v \in WaysOf(g) : set[v].age \in Nat
  BY DEF CacheLine
<1>6. CASE x \div span = w \div span
  <2>1. line.age <= new[w].age
    BY <1>4, <1>6 DEF Youngest
  <2>2. w = x
    <3>1. SUFFICES ASSUME w # x PROVE FALSE
      OBVIOUS
    <3>2. new[w] = set[w] /\ set[w].valid
      BY <1>4, <3>1 DEF Youngest
    <3>3. set[w].age <= clock /\ set[w].age \in Nat
      BY <1>5, <3>2
    <3> QED
      BY <2>1, <3>2, <3>3
  <2>3. CASE Right(span, x)
    <3>1. n \in NodesPassed(g, x, TRUE)
      BY <2>2, <2>3 DEF NodesPassed
    <3> QED
      BY <1>2, <2>2, <2>3, <3>1
  <2>4. CASE ~Right(span, x)
    <3>1. n \in NodesPassed(g, x, FALSE)
      BY <2>2, <2>4 DEF NodesPassed, Right
    <3>2. n \notin NodesPassed(g, x, TRUE)
      BY <1>3, <2>4
    <3> QED
      BY <1>2, <2>2, <2>4, <3>1, <3>2
  <2> QED
    BY <2>3, <2>4
<1>7. CASE x \div span # w \div span
  <2>1. after[n] = bits[n]
    BY <1>2, <1>3, <1>7
  <2>2. Youngest(g, set, span, w)
    BY <1>4, <1>7 DEF Youngest
  <2> QED
    BY <2>1, <2>2 DEF TreePoints
<1> QED
  BY <1>6, <1>7

(* Of the ways with a property, one has the largest age. *)
LEMMA OldestBound ==
  ASSUME NEW W, NEW age \in [W -> Nat], NEW clock \in Nat, \A w \in W : age[w] <= clock,
         NEW v \in W
  PROVE  \E w \in W : \A u \in W : age[u] <= age[w]
<1> DEFINE T == {clock - age[w] : w \in W}
<1>1. T \in SUBSET Nat /\ T # {}
  OBVIOUS
<1>2. Min(T) \in T /\ \A m \in T : Min(T) <= m
  BY <1>1, LeastNat
<1>3. PICK w \in W : Min(T) = clock - age[w]
  BY <1>2
<1>4. \A u \in W : clock - age[w] <= clock - age[u]
  BY <1>2, <1>3
<1>5. \A u \in W : age[u] \in Nat
  OBVIOUS
<1>6. \A u \in W : age[u] <= age[w]
  BY <1>4, <1>5
<1> QED
  BY <1>6

(* The way the tree leads to is, on every level of the tree, in the half   *)
(* that was not used last.                                                 *)
LEMMA VictimAvoided ==
  ASSUME NEW g, ValidConfig(g), PowerOfTwo(g.associativity),
         NEW set \in [WaysOf(g) -> CacheLine], NEW bits, TreePoints(g, set, bits),
         NEW clock \in Nat, \A w \in WaysOf(g) : set[w].valid /\ set[w].age <= clock,
         NEW span \in Spans(g)
  PROVE  LET v == plruVictim(g, bits) IN
         \E w \in WaysOf(g) : /\ w \div span = v \div span
                              /\ ~(Right(span, w) <=> Right(span, v))
                              /\ set[v].age <= set[w].age
<1> DEFINE v == plruVictim(g, bits)
           W == {w \in WaysOf(g) : w \div span = v \div span}
           age == [w \in W |-> set[w].age]
<1>1. v \in WaysOf(g) /\ ((bits[NodeAt(g, span, v)] # 0) <=> Right(span, v))
  BY VictimOfTree
<1> HIDE DEF v
<1>2. v \in W /\ age \in [W -> Nat] /\ \A w \in W : age[w] <= clock
  BY <1>1 DEF CacheLine
<1>3. \E w \in W : \A u \in W : age[u] <= age[w]
  <2> HIDE DEF W, age
  <2> QED
    BY <1>2, OldestBound
<1>4. PICK w \in W : \A u \in W : set[u].age <= set[w].age
  BY <1>3
<1>5. Youngest(g, set, span, w)
  BY <1>4 DEF Youngest
<1>6. bits[NodeAt(g, span, w)] = IF Right(span, w) THEN 0 ELSE 1
  BY <1>5 DEF TreePoints
<1>7. NodeAt(g, span, w) = NodeAt(g, span, v)
  BY <1>4 DEF NodeAt
<1>8. ~(Right(span, w) <=> Right(span, v))
  BY <1>1, <1>6, <1>7
<1> QED
  BY <1>2, <1>4, <1>8 DEF v

(* The lines used in the set of line y. *)
InSetOf(g, u, y) == {x \in DOMAIN u : x % setCount(g) = y % setCount(g)}

Later(g, u, y) == UsedAfter(u, InSetOf(g, u, y), y)

Outlived(g, u, y) == Kept(g) <= Cardinality(Later(g, u, y))

(* The uses u of the lines of level c: distinct accesses, none to come; a  *)
(* line that is held has its use as age. *)
UsesTyped(g, c, u) ==
  /\ DOMAIN u \subseteq Lines(g) /\ Cached(g, c) \subseteq DOMAIN u
  /\ \A y \in DOMAIN u : u[y] \in Nat /\ u[y] <= c.clock
  /\ \A y, z \in DOMAIN u : u[y] = u[z] => y = z
  /\ \A p \in Held(g, c) : c.lines[p[1]][p[2]].age = u[LineIn(g, c, p)]

LEMMA LaterAre ==
  ASSUME NEW g, ValidConfig(g), NEW u, DOMAIN u \subseteq Lines(g), NEW clock \in Nat,
         \A z \in DOMAIN u : u[z] \in Nat /\ u[z] <= clock,
         NEW x \in Lines(g), NEW y \in DOMAIN u, y # x
  PROVE  LET uu == Put(u, x, clock + 1) IN
         /\ DOMAIN uu \subseteq Lines(g) /\ y \in DOMAIN uu
         /\ IsFiniteSet(Later(g, uu, y))
         /\ Later(g, u, y) \subseteq Later(g, uu, y)
         /\ x % setCount(g) = y % setCount(g) => x \in Later(g, uu, y)
<1> DEFINE uu == Put(u, x, clock + 1)
<1>1. /\ DOMAIN uu = DOMAIN u \cup {x} /\ uu[x] = clock + 1
      /\ \A z \in DOMAIN u : z # x => uu[z] = u[z]
  BY DEF Put
<1> HIDE DEF uu
<1>2. DOMAIN uu \subseteq Lines(g) /\ y \in DOMAIN uu /\ uu[y] = u[y]
  BY <1>1
<1>3. IsFiniteSet(Lines(g))
  <2>1. LineOf(g, WordMod - 1) \in Int
    BY ValidSizes, WordAssumption DEF LineOf
  <2> QED
    BY <2>1, FS_Interval DEF Lines
<1>4. IsFiniteSet(Later(g, uu, y))
  <2>1. Later(g, uu, y) \subseteq Lines(g)
    BY <1>2 DEF Later, UsedAfter
  <2> QED
    BY <1>3, <2>1, FS_Subset
<1>5. ASSUME NEW z \in Later(g, u, y) PROVE z \in Later(g, uu, y)
  <2>1. /\ z \in DOMAIN u /\ z % setCount(g) = y % setCount(g) /\ u[z] > u[y]
        /\ u[z] \in Nat /\ u[y] \in Nat /\ u[z] <= clock
    BY DEF Later, UsedAfter, InSetOf
  <2>2. z \in DOMAIN uu /\ uu[z] > uu[y]
    BY <1>1, <1>2, <2>1
  <2> QED
    BY <2>1, <2>2 DEF Later, UsedAfter, InSetOf
<1>6. ASSUME x % setCount(g) = y % setCount(g) PROVE x \in Later(g, uu, y)
  <2>1. x \in DOMAIN uu /\ uu[x] > uu[y]
    BY <1>1, <1>2
  <2> QED
    BY <1>6, <2>1 DEF Later, UsedAfter, InSetOf
<1> QED
  BY <1>2, <1>4, <1>5, <1>6 DEF uu

(* A set whose ways are all held lists its lines by way. *)
LEMMA FullSet ==
  ASSUME NEW g, ValidConfig(g), NEW c, LevelOK(g, c), NEW s \in SetIndices(g),
         \A w \in WaysOf(g) : c.lines[s][w].valid
  PROVE  /\ \A w \in WaysOf(g) :
              /\ <<s, w>> \in Held(g, c)
              /\ LineIn(g, c, <<s, w>>) \in Cached(g, c)
              /\ LineIn(g, c, <<s, w>>) % setCount(g) = s
         /\ \A v, w \in WaysOf(g) : LineIn(g, c, <<s, v>>) = LineIn(g, c, <<s, w>>) => v = w
<1>1. \A w \in WaysOf(g) : <<s, w>> \in Held(g, c)
  BY DEF Held
<1>2. \A w \in WaysOf(g) : LineIn(g, c, <<s, w>>) \in Cached(g, c)
  BY <1>1, HeldLines
<1>3. ASSUME NEW w \in WaysOf(g) PROVE LineIn(g, c, <<s, w>>) % setCount(g) = s
  <2> DEFINE y == LineIn(g, c, <<s, w>>)
  <2>1. y \in Nat
    BY <1>2 DEF LevelOK, Lines
  <2>2. c \in LevelRecord(g)
    BY DEF LevelOK
  <2> HIDE DEF y
  <2>3. LineIn(g, c, <<s, w>>) = y => s = y % setCount(g)
    BY <2>1, <2>2, LineInPlace
  <2> QED
    BY <2>3 DEF y
<1>4. ASSUME NEW v \in WaysOf(g), NEW w \in WaysOf(g),
             LineIn(g, c, <<s, v>>) = LineIn(g, c, <<s, w>>)
      PROVE  v = w
  <2>1. <<s, v>> = <<s, w>>
    BY <1>1, <1>4 DEF LevelOK
  <2> QED
    BY <2>1
<1> QED
  BY <1>1, <1>2, <1>3, <1>4

(* The uses of a level with the tree of each set and what was dropped. *)
UsesInv(g, c, u) ==
  /\ UsesTyped(g, c, u)
  /\ c.stats.accesses = c.clock
  /\ UsesPlru(g) => \A s \in SetIndices(g) : TreePoints(g, c.lines[s], c.plruBits[s])
  /\ \A y \in DOMAIN u \ Cached(g, c) : Outlived(g, u, y)

(* The victim of a full set was used before enough of the other lines:     *)
(* under LRU before all of them, under PLRU before one in the other half   *)
(* of the ways on each level of the tree, and always before the new line.  *)
LEMMA VictimOutlived ==
  ASSUME NEW g, ValidConfig(g), NEW c, LevelOK(g, c), NEW u, UsesInv(g, c, u),
         NEW x \in Lines(g), x \notin Cached(g, c),
         NEW s \in SetIndices(g), s = x % setCount(g),
         c.lines[s][chooseVictim(g, c, s)].valid
  PROVE  Outlived(g, Put(u, x, c.clock + 1), LineIn(g, c, <<s, chooseVictim(g, c, s)>>))
<1> DEFINE v == chooseVictim(g, c, s)
           L(w) == LineIn(g, c, <<s, w>>)
           y == L(v)
           uu == Put(u, x, c.clock + 1)
           A == Later(g, uu, y)
<1>1. c \in LevelRecord(g) /\ c.clock \in Nat
      /\ c.lines[s] \in [WaysOf(g) -> CacheLine]
  BY DEF LevelOK, LevelRecord
<1>2. v \in WaysOf(g) /\ \A w \in WaysOf(g) : c.lines[s][w].valid
  BY <1>1, VictimIs
<1>3. /\ UsesPlru(g) => v = plruVictim(g, c.plruBits[s])
      /\ ~UsesPlru(g) => \A w \in WaysOf(g) : c.lines[s][v].age <= c.lines[s][w].age
  BY <1>1, VictimIs
<1> HIDE DEF v
<1>4. /\ \A w \in WaysOf(g) : <<s, w>> \in Held(g, c) /\ L(w) \in Cached(g, c)
                              /\ L(w) % setCount(g) = s
      /\ \A w, z \in WaysOf(g) : L(w) = L(z) => w = z
  BY <1>2, FullSet
<1>5. /\ DOMAIN u \subseteq Lines(g) /\ Cached(g, c) \subseteq DOMAIN u
      /\ \A z \in DOMAIN u : u[z] \in Nat /\ u[z] <= c.clock
      /\ \A z, t \in DOMAIN u : u[z] = u[t] => z = t
      /\ \A p \in Held(g, c) : c.lines[p[1]][p[2]].age = u[LineIn(g, c, p)]
  BY DEF UsesInv, UsesTyped
<1>6. \A w \in WaysOf(g) : c.lines[s][w].age = u[L(w)]
  BY <1>4, <1>5
<1> HIDE DEF L
<1>7. y \in DOMAIN u /\ y # x /\ y % setCount(g) = x % setCount(g)
  BY <1>2, <1>4, <1>5
<1>8. IsFiniteSet(A) /\ Later(g, u, y) \subseteq A /\ x \in A
  <2> HIDE DEF y
  <2> QED
    BY <1>1, <1>5, <1>7, LaterAre
<1>9. ASSUME NEW w \in WaysOf(g), w # v, c.lines[s][v].age <= c.lines[s][w].age
      PROVE  L(w) \in A /\ L(w) # x
  <2>1. /\ L(w) \in DOMAIN u /\ L(w) # x /\ L(w) # y /\ L(w) % setCount(g) = y % setCount(g)
    BY <1>2, <1>4, <1>5, <1>9
  <2>2. u[y] <= u[L(w)] /\ u[y] # u[L(w)] /\ u[y] \in Nat /\ u[L(w)] \in Nat
    BY <1>2, <1>5, <1>6, <1>7, <1>9, <2>1
  <2>3. u[L(w)] > u[y]
    BY <2>2
  <2>4. L(w) \in Later(g, u, y)
    BY <2>1, <2>3 DEF Later, UsedAfter, InSetOf
  <2> QED
    BY <1>8, <2>1, <2>4
<1>10. g.associativity \in Nat \ {0}
  BY ValidSizes
<1> HIDE DEF A, y, uu
<1>11. CASE ~UsesPlru(g)
  <2> DEFINE f == [w \in WaysOf(g) |-> IF w = v THEN x ELSE L(w)]
  <2>1. f \in [WaysOf(g) -> A]
    BY <1>3, <1>8, <1>9, <1>11
  <2>2. \A w, z \in WaysOf(g) : f[w] = f[z] => w = z
    BY <1>3, <1>4, <1>9, <1>11
  <2>3. f \in Injection(WaysOf(g), A)
    BY <2>1, <2>2 DEF Injection, IsInjective
  <2>4. Cardinality(WaysOf(g)) <= Cardinality(A)
    <3> HIDE DEF f
    <3> QED
      BY <1>8, <2>3, FS_Injection
  <2>5. Cardinality(WaysOf(g)) = g.associativity
    BY <1>10, FS_Interval DEF WaysOf
  <2>6. Kept(g) = g.associativity
    BY <1>11 DEF Kept
  <2> QED
    BY <2>4, <2>5, <2>6 DEF Outlived, A, y, uu, v, L
<1>12. CASE UsesPlru(g)
  <2> DEFINE Other(span, w) == /\ w \div span = v \div span
                               /\ ~(Right(span, w) <=> Right(span, v))
                               /\ c.lines[s][v].age <= c.lines[s][w].age
             way(span) == CHOOSE w \in WaysOf(g) : Other(span, w)
             f == [i \in Spans(g) \cup {0} |-> IF i = 0 THEN x ELSE L(way(i))]
  <2>1. PowerOfTwo(g.associativity)
    BY <1>12 DEF UsesPlru
  <2>2. TreePoints(g, c.lines[s], c.plruBits[s])
    BY <1>12 DEF UsesInv
  <2>3. \A w \in WaysOf(g) : c.lines[s][w].valid /\ c.lines[s][w].age <= c.clock
    BY <1>2, <1>4, <1>5, <1>6
  <2>4. \A span \in Spans(g) : \E w \in WaysOf(g) : Other(span, w)
    BY <1>1, <1>3, <1>12, <2>1, <2>2, <2>3, VictimAvoided
  <2>5. \A span \in Spans(g) : way(span) \in WaysOf(g) /\ Other(span, way(span))
    <3> HIDE DEF Other
    <3> QED
      BY <2>4
  <2>6. \A span \in Spans(g) : span \in Nat \ {0} /\ PowerOfTwo(span)
    BY <2>1, SpanIs
  <2> HIDE DEF way
  <2>7. ASSUME NEW i \in Spans(g), NEW j \in Spans(g), i < j PROVE way(i) # way(j)
    <3>1. way(i) \in Nat /\ v \in Nat
      BY <1>2, <2>5, <1>10 DEF WaysOf
    <3>2. way(i) \div i = v \div i /\ i <= j
      BY <2>5, <2>6, <2>7
    <3>3. Right(j, way(i)) <=> Right(j, v)
      BY <2>6, <2>7, <3>1, <3>2, SamePath
    <3>4. ~(Right(j, way(j)) <=> Right(j, v))
      BY <2>5
    <3> QED
      BY <3>3, <3>4
  <2>8. \A i, j \in Spans(g) : way(i) = way(j) => i = j
    BY <2>6, <2>7
  <2>9. \A i \in Spans(g) : L(way(i)) \in A /\ L(way(i)) # x
    <3> SUFFICES ASSUME NEW i \in Spans(g) PROVE L(way(i)) \in A /\ L(way(i)) # x
      OBVIOUS
    <3>1. way(i) \in WaysOf(g) /\ way(i) # v /\ c.lines[s][v].age <= c.lines[s][way(i)].age
      BY <2>5
    <3> QED
      BY <1>9, <3>1
  <2> HIDE DEF Other
  <2>10. f \in [Spans(g) \cup {0} -> A]
    BY <1>8, <2>9
  <2>11. ASSUME NEW i \in Spans(g) \cup {0}, NEW j \in Spans(g) \cup {0}, f[i] = f[j]
         PROVE  i = j
    <3>1. 0 \notin Spans(g)
      BY <2>6
    <3>2. CASE i = 0
      BY <2>9, <2>11, <3>1, <3>2
    <3>3. CASE j = 0
      BY <2>9, <2>11, <3>1, <3>3
    <3>4. CASE i # 0 /\ j # 0
      <4>1. L(way(i)) = L(way(j)) /\ way(i) \in WaysOf(g) /\ way(j) \in WaysOf(g)
        BY <2>5, <2>11, <3>4
      <4>2. way(i) = way(j)
        BY <1>4, <4>1
      <4> QED
        BY <2>8, <3>4, <4>2
    <3> QED
      BY <3>2, <3>3, <3>4
  <2>12. f \in Injection(Spans(g) \cup {0}, A)
    <3> HIDE DEF f
    <3> QED
      BY <2>10, <2>11 DEF Injection, IsInjective
  <2>13. Cardinality(Spans(g) \cup {0}) <= Cardinality(A)
    <3> HIDE DEF f
    <3> QED
      BY <1>8, <2>12, FS_Injection
  <2>14. Cardinality(Spans(g) \cup {0}) = Cardinality(Spans(g)) + 1
    <3>1. IsFiniteSet(2 .. g.associativity)
      BY <1>10, FS_Interval
    <3>2. IsFiniteSet(Spans(g)) /\ 0 \notin Spans(g)
      BY <2>6, <3>1, FS_Subset DEF Spans
    <3> QED
      BY <3>2, FS_AddElement
  <2>15. Kept(g) = Cardinality(Spans(g)) + 1
    BY <1>12 DEF Kept
  <2> QED
    BY <2>13, <2>14, <2>15 DEF Outlived, A, y, uu, v, L
<1> QED
  BY <1>11, <1>12

LEMMA KeptIs ==
  ASSUME NEW g, ValidConfig(g)
  PROVE  Kept(g) \in Int
<1>1. IsFiniteSet(2 .. g.associativity) /\ g.associativity \in Nat
  BY ValidSizes, FS_Interval
<1>2. IsFiniteSet(Spans(g))
  BY <1>1, FS_Subset DEF Spans
<1>3. Cardinality(Spans(g)) \in Nat
  BY <1>2, FS_CardinalityType
<1> QED
  BY <1>1, <1>3 DEF Kept

LEMMA UsesPut ==
  ASSUME NEW g, ValidConfig(g), NEW c, LevelOK(g, c), NEW u, UsesInv(g, c, u),
         NEW x \in Lines(g), NEW cc, LevelOK(g, cc),
         cc.stats.accesses = c.stats.accesses + 1,
         NEW s, NEW w, NEW line, PutsLine(g, c, cc, s, w, line),
         LineIn(g, cc, <<s, w>>) = x,
         NEW gone, Cached(g, cc) = (Cached(g, c) \ gone) \cup {x},
         \A y \in gone : Outlived(g, Put(u, x, c.clock + 1), y)
  PROVE  UsesInv(g, cc, Put(u, x, c.clock + 1))
<1> DEFINE now == c.clock + 1
           uu == Put(u, x, now)
<1>1. /\ c \in LevelRecord(g) /\ cc \in LevelRecord(g) /\ c.clock \in Nat
      /\ s \in SetIndices(g) /\ w \in WaysOf(g) /\ line \in CacheLine /\ line.valid
      /\ line.age = now /\ cc.lines = [c.lines EXCEPT ![s][w] = line]
      /\ cc.plruBits = BitsAfter(g, c, s, w) /\ cc.clock = now
  BY DEF LevelOK, LevelRecord, PutsLine
<1>2. /\ Held(g, cc) = Held(g, c) \cup {<<s, w>>}
      /\ \A p \in Held(g, cc) \ {<<s, w>>} :
           /\ cc.lines[p[1]][p[2]] = c.lines[p[1]][p[2]]
           /\ LineIn(g, cc, p) = LineIn(g, c, p)
      /\ cc.lines[s][w] = line
  BY <1>1, LinePut
<1>3. /\ DOMAIN uu = DOMAIN u \cup {x} /\ uu[x] = now
      /\ \A z \in DOMAIN u : z # x => uu[z] = u[z]
  BY DEF Put
<1>4. /\ DOMAIN u \subseteq Lines(g) /\ Cached(g, c) \subseteq DOMAIN u
      /\ \A z \in DOMAIN u : u[z] \in Nat /\ u[z] <= c.clock
      /\ \A z, t \in DOMAIN u : u[z] = u[t] => z = t
      /\ \A p \in Held(g, c) : c.lines[p[1]][p[2]].age = u[LineIn(g, c, p)]
  BY DEF UsesInv, UsesTyped
<1> HIDE DEF uu
<1>5. /\ DOMAIN uu \subseteq Lines(g) /\ Cached(g, cc) \subseteq DOMAIN uu
      /\ \A z \in DOMAIN uu : uu[z] \in Nat /\ uu[z] <= now
  BY <1>1, <1>3, <1>4
<1>6. ASSUME NEW z \in DOMAIN uu, NEW t \in DOMAIN uu, uu[z] = uu[t] PROVE z = t
  <2>1. CASE z = x /\ t # x
    <3>1. uu[t] = u[t] /\ u[t] \in Nat /\ u[t] <= c.clock
      BY <1>3, <1>4, <2>1
    <3> QED
      BY <1>1, <1>3, <1>6, <2>1, <3>1
  <2>2. CASE t = x /\ z # x
    <3>1. uu[z] = u[z] /\ u[z] \in Nat /\ u[z] <= c.clock
      BY <1>3, <1>4, <2>2
    <3> QED
      BY <1>1, <1>3, <1>6, <2>2, <3>1
  <2>3. CASE t # x /\ z # x
    BY <1>3, <1>4, <1>6, <2>3
  <2> QED
    BY <2>1, <2>2, <2>3
<1>7. ASSUME NEW p \in Held(g, cc)
      PROVE  cc.lines[p[1]][p[2]].age = uu[LineIn(g, cc, p)]
  <2>1. CASE p = <<s, w>>
    BY <1>1, <1>2, <1>3, <2>1
  <2>2. CASE p # <<s, w>>
    <3>1. <<s, w>> \in Held(g, cc) /\ LineIn(g, cc, p) # x
      BY <1>2, <2>2 DEF LevelOK
    <3>2. p \in Held(g, c) /\ LineIn(g, c, p) \in DOMAIN u
      BY <1>2, <1>4, <2>2 DEF Cached
    <3> QED
      BY <1>2, <1>3, <1>4, <2>2, <3>1, <3>2
  <2> QED
    BY <2>1, <2>2
<1>8. UsesTyped(g, cc, uu)
  BY <1>1, <1>5, <1>6, <1>7 DEF UsesTyped
<1>9. cc.stats.accesses = cc.clock
  BY <1>1 DEF UsesInv
<1>10. ASSUME UsesPlru(g), NEW t \in SetIndices(g)
       PROVE  TreePoints(g, cc.lines[t], cc.plruBits[t])
  <2>1. TreePoints(g, c.lines[t], c.plruBits[t])
    BY <1>10 DEF UsesInv
  <2>2. /\ c.lines \in [SetIndices(g) -> [WaysOf(g) -> CacheLine]]
        /\ c.plruBits \in [SetIndices(g) -> [PlruNodes(g) -> {0, 1}]]
    BY <1>1 DEF LevelRecord
  <2>3. CASE t # s
    <3>1. cc.lines[t] = c.lines[t] /\ cc.plruBits[t] = c.plruBits[t]
      BY <1>1, <2>2, <2>3 DEF BitsAfter
    <3> QED
      BY <2>1, <3>1
  <2>4. CASE t = s
    <3> DEFINE set == c.lines[s]
               bits == c.plruBits[s]
    <3>1. /\ cc.lines[s] = [set EXCEPT ![w] = line]
          /\ cc.plruBits[s] = plruTouch(g, bits, w)
      BY <1>1, <1>10, <2>2 DEF BitsAfter
    <3>2. /\ set \in [WaysOf(g) -> CacheLine] /\ bits \in [PlruNodes(g) -> {0, 1}]
          /\ TreePoints(g, set, bits)
      BY <1>1, <2>1, <2>2, <2>4
    <3>3. ASSUME NEW v \in WaysOf(g), set[v].valid PROVE set[v].age <= c.clock
      <4>1. <<s, v>> \in Held(g, c)
        BY <1>1, <3>3 DEF Held
      <4>2. LineIn(g, c, <<s, v>>) \in DOMAIN u
        BY <1>4, <4>1 DEF Cached
      <4> QED
        BY <1>4, <4>1, <4>2
    <3>4. PowerOfTwo(g.associativity)
      BY <1>10 DEF UsesPlru
    <3> HIDE DEF set, bits
    <3>5. TreePoints(g, [set EXCEPT ![w] = line], plruTouch(g, bits, w))
      BY <1>1, <3>2, <3>3, <3>4, TouchKeepsTree
    <3> QED
      BY <2>4, <3>1, <3>5
  <2> QED
    BY <2>3, <2>4
<1>11. ASSUME NEW y \in DOMAIN uu \ Cached(g, cc) PROVE Outlived(g, uu, y)
  <2>1. y \in DOMAIN u /\ y # x
    BY <1>3, <1>11
  <2>2. CASE y \in gone
    BY <2>2 DEF uu
  <2>3. CASE y \notin gone
    <3>1. y \notin Cached(g, c)
      BY <1>11, <2>3
    <3>2. Kept(g) <= Cardinality(Later(g, u, y))
      BY <2>1, <3>1 DEF UsesInv, Outlived
    <3>3. IsFiniteSet(Later(g, uu, y)) /\ Later(g, u, y) \subseteq Later(g, uu, y)
      BY <1>1, <1>4, <2>1, LaterAre DEF uu
    <3>4. /\ Cardinality(Later(g, u, y)) <= Cardinality(Later(g, uu, y))
          /\ IsFiniteSet(Later(g, u, y))
      BY <3>3, FS_Subset
    <3>5. Cardinality(Later(g, u, y)) \in Nat /\ Cardinality(Later(g, uu, y)) \in Nat
      BY <3>3, <3>4, FS_CardinalityType
    <3>6. Kept(g) \in Int
      BY KeptIs
    <3> QED
      BY <3>2, <3>4, <3>5, <3>6 DEF Outlived
  <2> QED
    BY <2>2, <2>3
<1> QED
  BY <1>8, <1>9, <1>10, <1>11 DEF UsesInv, uu

(* An access uses the line it addresses. *)
LEMMA HitUses ==
  ASSUME NEW g, ValidConfig(g), NEW c, LevelOK(g, c), NEW u, UsesInv(g, c, u),
         NEW address \in Word, NEW write \in BOOLEAN, HitWays(g, c, address) # {}
  PROVE  UsesInv(g, Hit(g, c, address, write), UseOf(u, g, c, address))
<1> DEFINE h == Hit(g, c, address, write)
           x == LineOf(g, address)
<1>1. PICK s, w, line :
        /\ PutsLine(g, c, h, s, w, line)
        /\ <<s, w>> \in Held(g, c) /\ LineIn(g, c, <<s, w>>) = x
        /\ line.tag = c.lines[s][w].tag
  BY HitIs
<1>2. Moves(g, c, h, x, write, {}) /\ LevelOK(g, h)
  BY HitMoves
<1>3. HitCounted(g, c, h)
  BY HitIs
<1>4. x \in Lines(g)
  BY LinesAre
<1>5. UseOf(u, g, c, address) = Put(u, x, c.clock + 1)
  BY DEF UseOf, UsesInv
<1> HIDE DEF h, x
<1>6. h.stats.accesses = c.stats.accesses + 1
  BY <1>3 DEF HitCounted
<1>7. LineIn(g, h, <<s, w>>) = x
  <2>1. LineIn(g, h, <<s, w>>) = line.tag * setCount(g) + s
    BY <1>1, LinePut DEF PutsLine, LevelOK
  <2>2. LineIn(g, c, <<s, w>>) = c.lines[s][w].tag * setCount(g) + s
    BY DEF LineIn
  <2> QED
    BY <1>1, <2>1, <2>2
<1>8. Cached(g, h) = (Cached(g, c) \ {}) \cup {x}
  BY <1>2 DEF Moves
<1>9. UsesInv(g, h, Put(u, x, c.clock + 1))
  BY <1>1, <1>2, <1>4, <1>6, <1>7, <1>8, UsesPut
<1> QED
  BY <1>5, <1>9 DEF h

LEMMA MissUses ==
  ASSUME NEW g, ValidConfig(g), NEW c, LevelOK(g, c), NEW u, UsesInv(g, c, u),
         NEW address \in Word, NEW write \in BOOLEAN, NEW lower \in Nat,
         HitWays(g, c, address) = {}
  PROVE  UsesInv(g, Miss(g, c, address, write, lower), UseOf(u, g, c, address))
<1> DEFINE m == Miss(g, c, address, write, lower)
           x == LineOf(g, address)
           v == Victim(g, c, address)
           gone == Gone(g, c, address)
<1>1. PICK s, w, line :
        /\ PutsLine(g, c, m, s, w, line)
        /\ s = x % setCount(g)
        /\ w = chooseVictim(g, c, s) /\ v = c.lines[s][w]
        /\ line.tag = x \div setCount(g)
  BY MissIs
<1>2. Moves(g, c, m, x, write, gone) /\ LevelOK(g, m)
  BY MissMoves
<1>3. MissCounted(g, c, m, v, lower)
  BY MissIs
<1>4. /\ x \in Lines(g) /\ x \in Nat /\ setIndex(g, address) = x % setCount(g)
      /\ x \notin Cached(g, c)
  BY LinesAre, HitWaysAre
<1>5. UseOf(u, g, c, address) = Put(u, x, c.clock + 1)
  BY DEF UseOf, UsesInv
<1>6. \A y \in gone : y = LineIn(g, c, <<s, w>>) /\ c.lines[s][w].valid
  BY <1>1, <1>4 DEF Gone, VictimWay, Held
<1> HIDE DEF m, x, v, gone
<1>7. m.stats.accesses = c.stats.accesses + 1
  BY <1>3 DEF MissCounted
<1>8. LineIn(g, m, <<s, w>>) = x
  <2>0. /\ c \in LevelRecord(g) /\ s \in SetIndices(g) /\ w \in WaysOf(g)
        /\ line \in CacheLine /\ line.valid /\ m.lines = [c.lines EXCEPT ![s][w] = line]
    BY <1>1 DEF PutsLine, LevelOK
  <2>1. LineIn(g, m, <<s, w>>) = line.tag * setCount(g) + s
    BY <2>0, LinePut
  <2> QED
    BY <1>1, <1>4, <2>1, LineParts
<1>9. Cached(g, m) = (Cached(g, c) \ gone) \cup {x}
  BY <1>2 DEF Moves
<1>10. \A y \in gone : Outlived(g, Put(u, x, c.clock + 1), y)
  <2>1. s \in SetIndices(g)
    BY <1>1 DEF PutsLine
  <2>2. c.lines[s][w].valid => Outlived(g, Put(u, x, c.clock + 1), LineIn(g, c, <<s, w>>))
    BY <1>1, <1>4, <2>1, VictimOutlived
  <2> QED
    BY <1>6, <2>2
<1>11. UsesInv(g, m, Put(u, x, c.clock + 1))
  BY <1>1, <1>2, <1>4, <1>7, <1>8, <1>9, <1>10, UsesPut
<1> QED
  BY <1>5, <1>11 DEF m

LEMMA LastUses ==
  ASSUME NEW g, ValidConfig(g), NEW c, LevelOK(g, c), NEW u, UsesInv(g, c, u),
         NEW address \in Word, NEW write \in BOOLEAN
  PROVE  UsesInv(g, LastAccess(g, c, address, write).level, UseOf(u, g, c, address))
<1>1. CASE HitWays(g, c, address) # {}
  BY <1>1, HitUses DEF LastAccess
<1>2. CASE HitWays(g, c, address) = {}
  BY <1>2, MissUses, CacheAssumption DEF LastAccess
<1> QED
  BY <1>1, <1>2

(* An access of a first-level cache uses its line there and, on a miss,    *)
(* the lines of the fill and of the write-back in L2.                      *)
LEMMA FirstUses ==
  ASSUME hierarchy \in Hierarchies, LevelOK(L2, l2), UsesInv(L2, l2, lastUse.l2),
         NEW g, ValidConfig(g), NEW c, LevelOK(g, c), NEW u, UsesInv(g, c, u),
         NEW address \in Word, NEW write \in BOOLEAN
  PROVE  LET r == FirstAccess(g, c, l2, address, write) IN
         /\ UsesInv(g, r.level, UseOf(u, g, c, address))
         /\ UsesInv(L2, r.lower, LowUses(r, g, c, address))
<1> DEFINE r == FirstAccess(g, c, l2, address, write)
<1>1. ValidConfig(L2)
  BY ConfigsValid
<1>2. CASE HitWays(g, c, address) # {}
  <2>1. r.hit = TRUE /\ r.level = Hit(g, c, address, write) /\ r.lower = l2
    BY <1>2 DEF FirstAccess
  <2>2. UsesInv(g, Hit(g, c, address, write), UseOf(u, g, c, address))
    BY <1>2, HitUses
  <2>3. LowUses(r, g, c, address) = lastUse.l2
    BY <2>1 DEF LowUses
  <2> QED
    BY <2>1, <2>2, <2>3
<1>3. CASE HitWays(g, c, address) = {}
  <2> DEFINE fill == LastAccess(L2, l2, address, FALSE)
             back == IF WritesBack(g, c, address)
                       THEN LastAccess(L2, fill.level, victimAddress(g, c, address), TRUE)
                       ELSE [latency |-> 0, level |-> fill.level]
             wait == fill.latency + back.latency
             used == UseOf(lastUse.l2, L2, l2, address)
  <2>1. /\ r.hit = FALSE /\ r.level = Miss(g, c, address, write, wait)
        /\ r.fill = fill.level /\ r.lower = back.level
    BY <1>3 DEF FirstAccess
  <2>2. LevelOK(L2, fill.level) /\ fill.latency \in Nat /\ UsesInv(L2, fill.level, used)
    BY <1>1, LastMoves, LastUses
  <2>3. LowUses(r, g, c, address) =
          IF WritesBack(g, c, address)
            THEN UseOf(used, L2, fill.level, victimAddress(g, c, address)) ELSE used
    BY <2>1 DEF LowUses
  <2> HIDE DEF fill, used
  <2>4. back.latency \in Nat /\ UsesInv(L2, back.level, LowUses(r, g, c, address))
    <3>1. CASE WritesBack(g, c, address)
      <4>1. victimAddress(g, c, address) \in Word
        BY <3>1, VictimLeaves DEF WritesBack
      <4>2. back = LastAccess(L2, fill.level, victimAddress(g, c, address), TRUE)
        BY <3>1
      <4>3. /\ back.latency \in Nat
            /\ UsesInv(L2, back.level,
                       UseOf(used, L2, fill.level, victimAddress(g, c, address)))
        BY <1>1, <2>2, <4>1, <4>2, LastMoves, LastUses
      <4> HIDE DEF back
      <4> QED
        BY <2>3, <3>1, <4>3
    <3>2. CASE ~WritesBack(g, c, address)
      <4>1. back.level = fill.level /\ back.latency = 0
        BY <3>2
      <4> HIDE DEF back
      <4> QED
        BY <2>2, <2>3, <3>2, <4>1
    <3> QED
      BY <3>1, <3>2
  <2> HIDE DEF back
  <2>5. wait \in Nat
    BY <2>2, <2>4
  <2> HIDE DEF wait
  <2>6. UsesInv(g, Miss(g, c, address, write, wait), UseOf(u, g, c, address))
    BY <1>3, <2>5, MissUses
  <2> HIDE DEF r
  <2> QED
    BY <2>1, <2>4, <2>6 DEF r
<1> QED
  BY <1>2, <1>3

AllUsesInv ==
  /\ CacheInv
  /\ lastUse = [l1i |-> lastUse.l1i, l1d |-> lastUse.l1d, l2 |-> lastUse.l2]
  /\ UsesInv(L1I, l1i, lastUse.l1i)
  /\ UsesInv(L1D, l1d, lastUse.l1d)
  /\ UsesInv(L2, l2, lastUse.l2)

LEMMA EmptyUses ==
  ASSUME NEW g, ValidConfig(g)
  PROVE  UsesInv(g, EmptyLevel(g), NoEntries)
<1> DEFINE e == EmptyLevel(g)
<1>1. DOMAIN NoEntries = {} /\ Cached(g, e) = {}
  BY EmptyIs DEF NoEntries
<1>2. Held(g, e) = {}
  BY <1>1 DEF Cached
<1>3. e.stats.accesses = 0 /\ e.clock = 0
  BY DEF EmptyLevel
<1>4. ASSUME NEW s \in SetIndices(g) PROVE TreePoints(g, e.lines[s], e.plruBits[s])
  <2> HIDE DEF e
  <2>1. \A w \in WaysOf(g) : <<s, w>> \notin Held(g, e)
    BY <1>2
  <2>2. \A w \in WaysOf(g) : ~e.lines[s][w].valid
    BY <2>1 DEF Held
  <2> QED
    BY <2>2 DEF TreePoints, Youngest
<1> HIDE DEF e
<1>5. UsesTyped(g, e, NoEntries)
  BY <1>1, <1>2 DEF UsesTyped
<1> QED
  BY <1>1, <1>3, <1>4, <1>5 DEF UsesInv, e

LEMMA AllUsesInvInit == Init => AllUsesInv
<1> SUFFICES ASSUME Init PROVE AllUsesInv
  OBVIOUS
<1>1. /\ l1i = EmptyLevel(L1I) /\ l1d = EmptyLevel(L1D) /\ l2 = EmptyLevel(L2)
      /\ lastUse = [l1i |-> NoEntries, l1d |-> NoEntries, l2 |-> NoEntries]
  BY DEF Init, CacheInit
<1>2. CacheInv /\ ValidConfig(L1I) /\ ValidConfig(L1D) /\ ValidConfig(L2)
  BY CacheInvInit, ConfigsValid DEF CacheInv
<1>3. lastUse.l1i = NoEntries /\ lastUse.l1d = NoEntries /\ lastUse.l2 = NoEntries
  BY <1>1
<1> QED
  BY <1>1, <1>2, <1>3, EmptyUses DEF AllUsesInv

LEMMA AllUsesInvStep ==
  ASSUME AllUsesInv, [Next]_vars
  PROVE  AllUsesInv'
<1>1. /\ CacheInv /\ CacheInv' /\ hierarchy \in Hierarchies
      /\ LevelOK(L1I, l1i) /\ LevelOK(L1D, l1d) /\ LevelOK(L2, l2)
      /\ ValidConfig(L1I) /\ ValidConfig(L1D)
  BY CacheInvStep, ConfigsValid DEF AllUsesInv, CacheInv
<1>2. /\ lastUse = [l1i |-> lastUse.l1i, l1d |-> lastUse.l1d, l2 |-> lastUse.l2]
      /\ UsesInv(L1I, l1i, lastUse.l1i) /\ UsesInv(L1D, l1d, lastUse.l1d)
      /\ UsesInv(L2, l2, lastUse.l2)
  BY DEF AllUsesInv
<1>3. ASSUME NEW a \in Word, FetchLine(a) PROVE AllUsesInv'
  <2> DEFINE r == InstructionAccess(a)
             high == UseOf(lastUse.l1i, L1I, l1i, a)
             low == LowUses(r, L1I, l1i, a)
  <2>1. accessInstruction(a) /\ lastUse' = [lastUse EXCEPT !.l1i = high, !.l2 = low]
    BY <1>3 DEF FetchLine
  <2>2. l1i' = r.level /\ l2' = r.lower /\ UNCHANGED <<hierarchy, l1d>>
    BY <2>1 DEF accessInstruction
  <2>3. UsesInv(L1I, r.level, high) /\ UsesInv(L2, r.lower, low)
    BY <1>1, <1>2, FirstUses DEF InstructionAccess
  <2> HIDE DEF r, high, low
  <2>4. lastUse' = [l1i |-> high, l1d |-> lastUse.l1d, l2 |-> low]
    BY <1>2, <2>1
  <2>5. L1I' = L1I /\ L1D' = L1D /\ L2' = L2
    BY <2>2 DEF L1I, L1D, L2
  <2> QED
    BY <1>1, <1>2, <2>2, <2>3, <2>4, <2>5 DEF AllUsesInv
<1>4. ASSUME NEW a \in Word, NEW write \in BOOLEAN, AccessLine(a, write) PROVE AllUsesInv'
  <2> DEFINE r == DataAccess(a, write)
             high == UseOf(lastUse.l1d, L1D, l1d, a)
             low == LowUses(r, L1D, l1d, a)
  <2>1. accessData(a, write) /\ lastUse' = [lastUse EXCEPT !.l1d = high, !.l2 = low]
    BY <1>4 DEF AccessLine
  <2>2. l1d' = r.level /\ l2' = r.lower /\ UNCHANGED <<hierarchy, l1i>>
    BY <2>1 DEF accessData
  <2>3. UsesInv(L1D, r.level, high) /\ UsesInv(L2, r.lower, low)
    BY <1>1, <1>2, FirstUses DEF DataAccess
  <2> HIDE DEF r, high, low
  <2>4. lastUse' = [l1i |-> lastUse.l1i, l1d |-> high, l2 |-> low]
    BY <1>2, <2>1
  <2>5. L1I' = L1I /\ L1D' = L1D /\ L2' = L2
    BY <2>2 DEF L1I, L1D, L2
  <2> QED
    BY <1>1, <1>2, <2>2, <2>3, <2>4, <2>5 DEF AllUsesInv
<1>5. CASE UNCHANGED vars
  <2>1. /\ L1I' = L1I /\ L1D' = L1D /\ L2' = L2 /\ l1i' = l1i /\ l1d' = l1d /\ l2' = l2
        /\ lastUse' = lastUse
    BY <1>5 DEF vars, cacheVars, L1I, L1D, L2
  <2> QED
    BY <1>1, <1>2, <2>1 DEF AllUsesInv
<1> QED
  BY <1>1, <1>3, <1>4, <1>5, TrafficSteps

LEMMA UsesKept ==
  ASSUME NEW g, ValidConfig(g), NEW c, LevelOK(g, c), NEW u, UsesInv(g, c, u)
  PROVE  KeepsRecent(g, c, u)
<1> SUFFICES ASSUME NEW s \in SetIndices(g),
                    NEW y \in LastUsed(u, {x \in DOMAIN u : x % setCount(g) = s}, Kept(g)),
                    y \notin Cached(g, c)
             PROVE  FALSE
  BY DEF KeepsRecent
<1>1. /\ y \in DOMAIN u /\ y % setCount(g) = s
      /\ Cardinality(UsedAfter(u, {x \in DOMAIN u : x % setCount(g) = s}, y)) < Kept(g)
  BY DEF LastUsed
<1>2. Later(g, u, y) = UsedAfter(u, {x \in DOMAIN u : x % setCount(g) = s}, y)
  BY <1>1 DEF Later, InSetOf
<1>3. Kept(g) <= Cardinality(Later(g, u, y))
  BY <1>1 DEF UsesInv, Outlived
<1>4. Cardinality(Later(g, u, y)) \in Nat /\ Kept(g) \in Int
  <2>1. IsFiniteSet(Lines(g))
    <3>1. LineOf(g, WordMod - 1) \in Int
      BY ValidSizes, WordAssumption DEF LineOf
    <3> QED
      BY <3>1, FS_Interval DEF Lines
  <2>2. Later(g, u, y) \subseteq Lines(g)
    BY DEF Later, UsedAfter, UsesInv, UsesTyped
  <2>3. Cardinality(Later(g, u, y)) \in Nat
    BY <2>1, <2>2, FS_Subset, FS_CardinalityType
  <2> QED
    BY <2>3, KeptIs
<1> QED
  BY <1>1, <1>2, <1>3, <1>4

(* Whatever the sizes, the policies and the traffic, every level keeps the *)
(* lines used last: touch and the search for a victim agree on the path    *)
(* through the tree and on what its bits mean, and ages tell uses apart.   *)
THEOREM RecentLinesKept == Spec => []KeepsRecentLines
<1>1. AllUsesInv => KeepsRecentLines
  BY ConfigsValid, UsesKept DEF AllUsesInv, CacheInv, KeepsRecentLines
<1> QED
  BY <1>1, AllUsesInvInit, AllUsesInvStep, PTL DEF Spec
=============================================================================
