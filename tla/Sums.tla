------------------------------- MODULE Sums --------------------------------
(***************************************************************************)
(* Least elements, and sums over finite sets as MapThenSumSet and          *)
(* SumFunction compute them: the order in which elements are chosen does   *)
(* not matter.  The library gives induction as a theorem about operators;  *)
(* here it is the least counterexample, in a set of naturals.              *)
(***************************************************************************)
EXTENDS Integers, FiniteSets, Functions, FiniteSetsExt, FiniteSetTheorems, WellFoundedInduction, TLAPS

(* A nonempty set of naturals has a least element, which Min returns. *)
LEMMA LeastNat ==
  ASSUME NEW T \in SUBSET Nat, T # {}
  PROVE  Min(T) \in T /\ \A m \in T : Min(T) <= m
<1> DEFINE R == OpToRel(<, Nat)
<1>1. IsWellFoundedOn(R, Nat)
  BY NatLessThanWellFounded
<1>2. \A a, b \in Nat : <<a, b>> \in R <=> a < b
  BY DEF OpToRel
<1> HIDE DEF R
<1>3. \E n \in T : \A m \in T : ~(<<m, n>> \in R)
  BY <1>1, WFMin
<1>4. PICK n \in T : \A m \in T : ~(<<m, n>> \in R)
  BY <1>3
<1>5. ASSUME NEW m \in T PROVE n <= m
  <2>1. m \in Nat /\ n \in Nat
    OBVIOUS
  <2>2. ~(m < n)
    BY <1>2, <1>4, <2>1
  <2> QED
    BY <2>1, <2>2
<1> QED
  BY <1>5 DEF Min

(* Function g sums f over the subsets of S, one chosen element at a time.  *)
Chosen(s) == CHOOSE x \in s : TRUE

Sums(g, f, S) ==
  g = [s \in SUBSET S |-> IF s = {} THEN 0 ELSE f[Chosen(s)] + g[s \ {Chosen(s)}]]

(* There is such a function. *)
LEMMA SumsExist ==
  ASSUME NEW S, IsFiniteSet(S), NEW f, \A x \in S : f[x] \in Int
  PROVE  \E g : Sums(g, f, S)
<1> DEFINE Small(n) == {s \in SUBSET S : Cardinality(s) <= n}
           Body(g, s) == IF s = {} THEN 0 ELSE f[Chosen(s)] + g[s \ {Chosen(s)}]
           Upto(g, n) == g \in [SUBSET S -> Int] /\ \A s \in Small(n) : g[s] = Body(g, s)
           Bad == {n \in Nat : ~\E g : Upto(g, n)}
<1>1. \A s \in SUBSET S : IsFiniteSet(s) /\ Cardinality(s) \in Nat
  BY FS_Subset, FS_CardinalityType
<1>2. ASSUME NEW s \in SUBSET S, s # {}
      PROVE  /\ Chosen(s) \in s /\ s \ {Chosen(s)} \in SUBSET S
             /\ Cardinality(s \ {Chosen(s)}) = Cardinality(s) - 1
             /\ Cardinality(s) # 0
  BY <1>1, <1>2, FS_RemoveElement, FS_EmptySet DEF Chosen
<1>3. ASSUME Bad # {} PROVE FALSE
  <2>1. Min(Bad) \in Bad /\ \A m \in Bad : Min(Bad) <= m
    BY <1>3, LeastNat
  <2>2. PICK n \in Bad : \A m \in Bad : n <= m
    BY <2>1
  <2>3. n \in Nat /\ ~\E g : Upto(g, n)
    BY <2>2
  <2>4. CASE n = 0
    <3> DEFINE g == [s \in SUBSET S |-> 0]
    <3>1. \A s \in Small(n) : s = {}
      BY <1>1, <2>4, FS_EmptySet
    <3>2. Upto(g, n)
      BY <3>1
    <3> QED
      BY <2>3, <3>2
  <2>5. CASE n # 0
    <3>1. n - 1 \in Nat /\ ~(n <= n - 1)
      BY <2>3, <2>5
    <3>2. PICK h : Upto(h, n - 1)
      BY <2>2, <3>1
    <3> DEFINE g == [s \in SUBSET S |-> IF Cardinality(s) <= n - 1 THEN h[s] ELSE Body(h, s)]
    <3>3. ASSUME NEW s \in SUBSET S PROVE Body(h, s) \in Int
      <4>1. CASE s = {}
        BY <4>1
      <4>2. CASE s # {}
        <5>1. f[Chosen(s)] \in Int
          BY <1>2, <4>2
        <5>2. h[s \ {Chosen(s)}] \in Int
          BY <1>2, <3>2, <4>2
        <5> QED
          BY <4>2, <5>1, <5>2
      <4> QED
        BY <4>1, <4>2
    <3>4. g \in [SUBSET S -> Int]
      BY <3>2, <3>3
    <3>5. ASSUME NEW s \in Small(n) PROVE g[s] = Body(g, s)
      <4>1. CASE s = {}
        BY <2>3, <3>2, <4>1, <1>1, FS_EmptySet
      <4>2. CASE s # {}
        <5> DEFINE t == s \ {Chosen(s)}
        <5>1. t \in SUBSET S /\ Cardinality(t) <= n - 1
          BY <1>1, <1>2, <2>3, <4>2
        <5>2. g[t] = h[t]
          BY <5>1
        <5>3. Body(g, s) = Body(h, s)
          BY <4>2, <5>2
        <5>4. g[s] = Body(h, s)
          BY <1>1, <3>2
        <5> QED
          BY <5>3, <5>4
      <4> QED
        BY <4>1, <4>2
    <3>6. Upto(g, n)
      BY <3>4, <3>5
    <3> QED
      BY <2>3, <3>6
  <2> QED
    BY <2>4, <2>5
<1>4. Cardinality(S) \in Nat /\ \A s \in SUBSET S : Cardinality(s) <= Cardinality(S)
  BY FS_CardinalityType, FS_Subset
<1>5. PICK g : Upto(g, Cardinality(S))
  BY <1>3, <1>4
<1>6. g = [s \in SUBSET S |-> Body(g, s)]
  BY <1>4, <1>5
<1> QED
  BY <1>6 DEF Sums

(* It takes any element of a set first, and depends on f alone.            *)
LEMMA SumsAre ==
  ASSUME NEW S, IsFiniteSet(S), NEW f, \A x \in S : f[x] \in Int,
         NEW g, Sums(g, f, S)
  PROVE  /\ g[{}] = 0
         /\ \A s \in SUBSET S : g[s] \in Int /\ \A x \in s : g[s] = f[x] + g[s \ {x}]
<1> DEFINE Fits(s) == g[s] \in Int /\ \A x \in s : g[s] = f[x] + g[s \ {x}]
           Bad == {n \in Nat : \E s \in SUBSET S : Cardinality(s) = n /\ ~Fits(s)}
<1>1. \A s \in SUBSET S : IsFiniteSet(s) /\ Cardinality(s) \in Nat
  BY FS_Subset, FS_CardinalityType
<1>2. ASSUME NEW s \in SUBSET S, NEW x \in s
      PROVE  s \ {x} \in SUBSET S /\ Cardinality(s \ {x}) = Cardinality(s) - 1
  BY <1>1, FS_RemoveElement
<1>3. \A s \in SUBSET S : g[s] = IF s = {} THEN 0 ELSE f[Chosen(s)] + g[s \ {Chosen(s)}]
  BY DEF Sums
<1>4. ASSUME Bad # {} PROVE FALSE
  <2>1. Min(Bad) \in Bad /\ \A m \in Bad : Min(Bad) <= m
    BY <1>4, LeastNat
  <2>2. PICK s \in SUBSET S : /\ ~Fits(s)
                              /\ \A t \in SUBSET S : Cardinality(t) < Cardinality(s) => Fits(t)
    <3>1. PICK n \in Bad : \A m \in Bad : n <= m
      BY <2>1
    <3>2. PICK s \in SUBSET S : Cardinality(s) = n /\ ~Fits(s)
      BY <3>1
    <3>3. ASSUME NEW t \in SUBSET S, Cardinality(t) < Cardinality(s) PROVE Fits(t)
      BY <1>1, <3>1, <3>2, <3>3
    <3> QED
      BY <3>2, <3>3
  <2>3. s # {}
    BY <1>3, <2>2
  <2> DEFINE c == Chosen(s)
  <2>4. c \in s
    BY <2>3 DEF Chosen
  <2>5. g[s] = f[c] + g[s \ {c}]
    BY <1>3, <2>3
  <2> HIDE DEF c
  <2>6. \A x \in s : Fits(s \ {x})
    BY <1>1, <1>2, <2>2
  <2>7. g[s] \in Int
    <3>1. f[c] \in Int /\ g[s \ {c}] \in Int
      BY <2>4, <2>6
    <3> QED
      BY <2>5, <3>1
  <2>8. ASSUME NEW x \in s PROVE g[s] = f[x] + g[s \ {x}]
    <3>1. CASE x = c
      BY <2>5, <3>1
    <3>2. CASE x # c
      <4>1. (s \ {c}) \ {x} = (s \ {x}) \ {c}
        OBVIOUS
      <4>2. /\ x \in s \ {c} /\ c \in s \ {x}
            /\ s \ {c} \in SUBSET S /\ s \ {x} \in SUBSET S
        BY <2>4, <3>2
      <4>3. g[s \ {c}] = f[x] + g[(s \ {c}) \ {x}] /\ g[s \ {x}] = f[c] + g[(s \ {x}) \ {c}]
        BY <2>4, <2>6, <4>2
      <4>4. f[x] \in Int /\ f[c] \in Int /\ g[(s \ {x}) \ {c}] \in Int
        <5> DEFINE t == s \ {x}
        <5>1. /\ t \in SUBSET S /\ Cardinality(t) = Cardinality(s) - 1
              /\ t \ {c} \in SUBSET S /\ Cardinality(t \ {c}) = Cardinality(t) - 1
              /\ Cardinality(s) \in Nat
          BY <1>1, <1>2, <4>2
        <5> HIDE DEF t
        <5>2. Cardinality(t \ {c}) < Cardinality(s)
          BY <5>1
        <5>3. PICK u \in SUBSET S : u = t \ {c}
          BY <5>1
        <5>4. Fits(u)
          BY <2>2, <5>2, <5>3
        <5> QED
          BY <2>4, <5>3, <5>4 DEF t
      <4> DEFINE rest == g[(s \ {x}) \ {c}]
      <4>5. g[s \ {c}] = f[x] + rest /\ g[s \ {x}] = f[c] + rest
        BY <4>1, <4>3
      <4> HIDE DEF rest
      <4>6. rest \in Int
        BY <4>4 DEF rest
      <4>7. f[c] + (f[x] + rest) = f[x] + (f[c] + rest)
        BY <4>4, <4>6
      <4> QED
        BY <2>5, <4>5, <4>7
    <3> QED
      BY <3>1, <3>2
  <2> QED
    BY <2>2, <2>7, <2>8
<1>5. \A s \in SUBSET S : Fits(s)
  BY <1>1, <1>4
<1> QED
  BY <1>3, <1>5

(* Sums over subsets of two sets agree where the functions do. *)
LEMMA SumsAgree ==
  ASSUME NEW S, IsFiniteSet(S), NEW f, \A x \in S : f[x] \in Int, NEW g, Sums(g, f, S),
         NEW T, IsFiniteSet(T), NEW e, \A x \in T : e[x] \in Int, NEW h, Sums(h, e, T),
         NEW u \in SUBSET (S \cap T), \A x \in u : f[x] = e[x]
  PROVE  g[u] = h[u]
<1> DEFINE Bad == {n \in Nat : \E s \in SUBSET u : Cardinality(s) = n /\ g[s] # h[s]}
<1>1. \A s \in SUBSET u : IsFiniteSet(s) /\ Cardinality(s) \in Nat
  BY FS_Subset, FS_CardinalityType
<1>2. ASSUME NEW s \in SUBSET u, NEW x \in s
      PROVE  s \ {x} \in SUBSET u /\ Cardinality(s \ {x}) = Cardinality(s) - 1
  BY <1>1, FS_RemoveElement
<1>3. /\ g[{}] = 0 /\ h[{}] = 0
      /\ \A s \in SUBSET u : \A x \in s : g[s] = f[x] + g[s \ {x}] /\ h[s] = e[x] + h[s \ {x}]
  BY SumsAre
<1>4. ASSUME Bad # {} PROVE FALSE
  <2>1. PICK n \in Bad : \A m \in Bad : n <= m
    BY <1>4, LeastNat
  <2>2. PICK s \in SUBSET u : Cardinality(s) = n /\ g[s] # h[s]
    BY <2>1
  <2>3. PICK x \in s : TRUE
    BY <1>3, <2>2
  <2>4. PICK t \in SUBSET u : t = s \ {x} /\ Cardinality(t) = n - 1
    BY <1>2, <2>2
  <2>5. n - 1 \in Nat /\ ~(n <= n - 1)
    BY <1>1, <2>2, <2>4
  <2>6. g[t] = h[t]
    BY <2>1, <2>4, <2>5
  <2> QED
    BY <1>3, <2>2, <2>4, <2>6
<1> QED
  BY <1>1, <1>4

-----------------------------------------------------------------------------
(* The sums of the library *)

LEMMA SumIsSums ==
  ASSUME NEW S, IsFiniteSet(S), NEW f, \A x \in S : f[x] \in Int
  PROVE  \E g : Sums(g, f, S) /\ SumFunctionOnSet(f, S) = g[S]
<1> DEFINE iter == CHOOSE g : Sums(g, f, S)
<1>1. Sums(iter, f, S)
  BY SumsExist
<1>2. SumFunctionOnSet(f, S) = iter[S]
  BY DEF SumFunctionOnSet, FoldFunctionOnSet, MapThenFoldSet, Sums, Chosen
<1> QED
  BY <1>1, <1>2

LEMMA SumOfNone ==
  ASSUME NEW f
  PROVE  SumFunctionOnSet(f, {}) = 0
<1>1. PICK g : Sums(g, f, {}) /\ SumFunctionOnSet(f, {}) = g[{}]
  BY SumIsSums, FS_EmptySet
<1> QED
  BY <1>1, SumsAre, FS_EmptySet

(* One more element adds its value. *)
LEMMA SumMore ==
  ASSUME NEW S, IsFiniteSet(S), NEW f, NEW x, \A y \in S \cup {x} : f[y] \in Int
  PROVE  /\ SumFunctionOnSet(f, S) \in Int
         /\ x \notin S => SumFunctionOnSet(f, S \cup {x}) = f[x] + SumFunctionOnSet(f, S)
<1> DEFINE T == S \cup {x}
<1>1. IsFiniteSet(T)
  BY FS_AddElement
<1>2. PICK g : Sums(g, f, S) /\ SumFunctionOnSet(f, S) = g[S]
  BY SumIsSums
<1>3. PICK h : Sums(h, f, T) /\ SumFunctionOnSet(f, T) = h[T]
  BY <1>1, SumIsSums
<1>6. g[S] \in Int
  BY <1>2, SumsAre
<1>7. ASSUME x \notin S PROVE h[T] = f[x] + g[S]
  <2>1. h[T] = f[x] + h[T \ {x}]
    BY <1>1, <1>3, SumsAre
  <2>2. T \ {x} = S /\ S \in SUBSET (S \cap T)
    BY <1>7
  <2>3. g[S] = h[S]
    BY <1>1, <1>2, <1>3, <2>2, SumsAgree
  <2> QED
    BY <2>1, <2>2, <2>3
<1> QED
  BY <1>2, <1>3, <1>6, <1>7

(* Only the values on the set matter. *)
LEMMA SumSame ==
  ASSUME NEW S, IsFiniteSet(S), NEW f, NEW h, \A y \in S : f[y] \in Int /\ h[y] = f[y]
  PROVE  SumFunctionOnSet(h, S) = SumFunctionOnSet(f, S)
<1>1. PICK g : Sums(g, f, S) /\ SumFunctionOnSet(f, S) = g[S]
  BY SumIsSums
<1>2. \A y \in S : h[y] \in Int
  OBVIOUS
<1>3. PICK e : Sums(e, h, S) /\ SumFunctionOnSet(h, S) = e[S]
  BY <1>2, SumIsSums
<1>4. S \in SUBSET (S \cap S) /\ \A y \in S : f[y] = h[y]
  OBVIOUS
<1>5. g[S] = e[S]
  BY <1>1, <1>2, <1>3, <1>4, SumsAgree
<1> QED
  BY <1>1, <1>3, <1>5

(* One more for each element of a subset. *)
LEMMA SumRaised ==
  ASSUME NEW S, IsFiniteSet(S), NEW R \in SUBSET S, NEW f, NEW h,
         \A y \in S : f[y] \in Int /\ h[y] = IF y \in R THEN f[y] + 1 ELSE f[y]
  PROVE  SumFunctionOnSet(h, S) = SumFunctionOnSet(f, S) + Cardinality(R)
<1> DEFINE Sum(e, s) == SumFunctionOnSet(e, s)
           Bad == {n \in Nat : \E s \in SUBSET S :
                     Cardinality(s) = n /\ Sum(h, s) # Sum(f, s) + Cardinality(R \cap s)}
<1>1. \A s \in SUBSET S : IsFiniteSet(s) /\ Cardinality(s) \in Nat
  BY FS_Subset, FS_CardinalityType
<1>2. \A y \in S : f[y] \in Int /\ h[y] \in Int
  OBVIOUS
<1>3. ASSUME Bad # {} PROVE FALSE
  <2>1. PICK n \in Bad : \A m \in Bad : n <= m
    BY <1>3, LeastNat
  <2>2. PICK s \in SUBSET S : /\ Cardinality(s) = n
                              /\ Sum(h, s) # Sum(f, s) + Cardinality(R \cap s)
    BY <2>1
  <2>3. s # {}
    <3>1. CASE s = {}
      <4>1. Sum(h, {}) = 0 /\ Sum(f, {}) = 0
        BY SumOfNone
      <4>2. R \cap {} = {} /\ Cardinality({}) = 0
        BY FS_EmptySet
      <4> QED
        BY <2>2, <3>1, <4>1, <4>2
    <3> QED
      BY <3>1
  <2>4. PICK x \in s : TRUE
    BY <2>3
  <2>5. PICK t \in SUBSET S : t = s \ {x}
    OBVIOUS
  <2>6. s = t \cup {x} /\ x \notin t /\ Cardinality(t) = n - 1 /\ IsFiniteSet(t)
    BY <1>1, <2>2, <2>5, FS_RemoveElement
  <2>7. n - 1 \in Nat /\ ~(n <= n - 1)
    BY <1>1, <2>1, <2>6
  <2>8. Sum(h, t) = Sum(f, t) + Cardinality(R \cap t)
    BY <2>1, <2>6, <2>7
  <2>9. /\ Sum(h, s) = h[x] + Sum(h, t) /\ Sum(f, s) = f[x] + Sum(f, t)
        /\ Sum(f, t) \in Int /\ f[x] \in Int
    BY <1>2, <2>6, SumMore
  <2>10. /\ Cardinality(R \cap t) \in Nat
         /\ Cardinality(R \cap s) = Cardinality(R \cap t) + (IF x \in R THEN 1 ELSE 0)
    <3>1. IsFiniteSet(R \cap t) /\ Cardinality(R \cap t) \in Nat
      BY <2>6, FS_Subset, FS_CardinalityType
    <3>2. CASE x \in R
      <4>1. R \cap s = (R \cap t) \cup {x} /\ x \notin R \cap t
        BY <2>6, <3>2
      <4> QED
        BY <3>1, <3>2, <4>1, FS_AddElement
    <3>3. CASE x \notin R
      <4>1. R \cap s = R \cap t
        BY <2>6, <3>3
      <4> QED
        BY <3>1, <3>3, <4>1
    <3> QED
      BY <3>2, <3>3
  <2>11. h[x] = f[x] + (IF x \in R THEN 1 ELSE 0)
    BY <1>2, <2>2, <2>4
  <2> HIDE DEF Sum
  <2> QED
    BY <2>2, <2>8, <2>9, <2>10, <2>11
<1>4. Sum(h, S) = Sum(f, S) + Cardinality(R \cap S)
  BY <1>1, <1>3
<1>5. R \cap S = R
  OBVIOUS
<1> QED
  BY <1>4, <1>5
=============================================================================
