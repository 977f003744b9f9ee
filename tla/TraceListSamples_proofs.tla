----------------------- MODULE TraceListSamples_proofs -----------------------
(***************************************************************************)
(* Proofs about the samples a trace list holds: none is lost or doubled,   *)
(* and the record list of a segment names them.  The properties count with *)
(* sums over segments and records and put records behind each other, so    *)
(* this begins with what a fold is: that it can be taken apart, by         *)
(* induction over the size of the set it runs over.                        *)
(***************************************************************************)
EXTENDS TraceList_proofs, FiniteSetTheorems

-----------------------------------------------------------------------------
(* Sums.                                                                   *)

(* Induction, for a set of numbers. *)
LEMMA AllNat ==
  ASSUME NEW A, 0 \in A, \A n \in Nat : n \in A => n + 1 \in A
  PROVE  \A n \in Nat : n \in A
<1> SUFFICES ASSUME Nat \ A # {} PROVE FALSE
  OBVIOUS
<1>1. PICK n \in Nat \ A : \A m \in Nat \ A : n <= m
  BY LeastNat
<1>2. n # 0 /\ n - 1 \in Nat
  BY <1>1
<1>3. n - 1 \in A
  BY <1>1, <1>2
<1>4. (n - 1) + 1 = n
  BY <1>1
<1> QED BY <1>1, <1>2, <1>3, <1>4

(* The order in which a fold takes the elements out of a set. *)
Picks(c, S) == \A s \in SUBSET S : s # {} => c[s] \in s

(* The results of a fold over the subsets of S. *)
Folded(g, S, base, F, c) ==
  g = [s \in SUBSET S |-> IF s = {} THEN base ELSE F[c[s]][g[s \ {c[s]}]]]

(* A fold over the subsets of a finite set: a function that takes out the  *)
(* element c[s] of s first is well defined.                                *)
LEMMA FoldExists ==
  ASSUME NEW S, IsFiniteSet(S), NEW V, NEW base \in V, NEW F \in [S -> [V -> V]], NEW c, Picks(c, S)
  PROVE  \E g \in [SUBSET S -> V] : Folded(g, S, base, F, c)
<1> DEFINE Level(n) == {s \in SUBSET S : Cardinality(s) <= n}
           Folds(g, n) == \A s \in Level(n) :
             g[s] = IF s = {} THEN base ELSE F[c[s]][g[s \ {c[s]}]]
           A == {n \in Nat : \E g \in [Level(n) -> V] : Folds(g, n)}
<1>1. \A s \in SUBSET S : IsFiniteSet(s) /\ Cardinality(s) \in Nat
  BY FS_Subset, FS_CardinalityType
<1>2. 0 \in A
  <2>1. Level(0) = {{}}
    BY <1>1, FS_EmptySet
  <2>2. [s \in Level(0) |-> base] \in [Level(0) -> V] /\ Folds([s \in Level(0) |-> base], 0)
    BY <2>1
  <2> QED BY <2>2
<1>3. ASSUME NEW n \in Nat, n \in A PROVE n + 1 \in A
  <2>1. PICK g \in [Level(n) -> V] : Folds(g, n)
    BY <1>3
  <2> DEFINE h == [s \in Level(n + 1) |->
                     IF Cardinality(s) <= n THEN g[s] ELSE F[c[s]][g[s \ {c[s]}]]]
  <2>2. ASSUME NEW s \in Level(n + 1), s # {}
        PROVE  c[s] \in S /\ s \ {c[s]} \in Level(n)
    <3>1. s \in SUBSET S /\ c[s] \in s /\ IsFiniteSet(s) /\ Cardinality(s) \in Nat
      BY <2>2, <1>1 DEF Picks
    <3>2. Cardinality(s \ {c[s]}) = Cardinality(s) - 1
      <4> DEFINE x == c[s]
      <4>1. x \in s
        BY <3>1
      <4> HIDE DEF x
      <4>2. Cardinality(s \ {x}) = Cardinality(s) - 1
        BY <3>1, <4>1, FS_RemoveElement
      <4> QED BY <4>2 DEF x
    <3>3. Cardinality(s) <= n + 1
      BY <2>2
    <3> QED BY <3>1, <3>2, <3>3
  <2>3. ASSUME NEW s \in Level(n) PROVE s \in Level(n + 1)
    BY <1>1
  <2>4. ASSUME NEW s \in Level(n + 1), ~(Cardinality(s) <= n) PROVE s # {}
    <3>1. s = {} => Cardinality(s) = 0
      BY FS_EmptySet
    <3> QED BY <2>4, <3>1
  <2>5. h \in [Level(n + 1) -> V]
    <3>1. ASSUME NEW s \in Level(n + 1) PROVE h[s] \in V
      <4>1. CASE Cardinality(s) <= n
        BY <4>1
      <4>2. CASE ~(Cardinality(s) <= n)
        <5>1. c[s] \in S /\ g[s \ {c[s]}] \in V
          BY <4>2, <2>2, <2>4
        <5>2. F[c[s]] \in [V -> V]
          BY <5>1
        <5> QED BY <4>2, <5>1, <5>2
      <4> QED BY <4>1, <4>2
    <3> QED BY <3>1
  <2>6. \A s \in Level(n) : h[s] = g[s]
    BY <2>3
  <2>7. Folds(h, n + 1)
    <3> SUFFICES ASSUME NEW s \in Level(n + 1)
                 PROVE  h[s] = IF s = {} THEN base ELSE F[c[s]][h[s \ {c[s]}]]
      OBVIOUS
    <3>1. CASE s = {}
      <4>1. s \in Level(n)
        BY <3>1, FS_EmptySet
      <4> QED BY <3>1, <4>1, <2>1, <2>6
    <3>2. CASE s # {}
      <4>1. h[s \ {c[s]}] = g[s \ {c[s]}]
        BY <3>2, <2>2, <2>6
      <4>2. CASE Cardinality(s) <= n
        <5>1. s \in Level(n)
          BY <4>2
        <5> QED BY <5>1, <4>1, <3>2, <2>1, <2>6
      <4>3. CASE ~(Cardinality(s) <= n)
        BY <4>3, <4>1, <3>2
      <4> QED BY <4>2, <4>3
    <3> QED BY <3>1, <3>2
  <2> HIDE DEF h, Level, Folds
  <2> QED BY <2>5, <2>7
<1>4. Cardinality(S) \in Nat
  BY FS_CardinalityType
<1>5. Cardinality(S) \in A
  <2> HIDE DEF A
  <2> QED BY <1>2, <1>3, <1>4, AllNat
<1>6. Level(Cardinality(S)) = SUBSET S
  BY FS_Subset
<1>7. PICK g \in [SUBSET S -> V] : Folds(g, Cardinality(S))
  BY <1>5, <1>6
<1>8. Folded(g, S, base, F, c)
  BY <1>6, <1>7 DEF Folded
<1> QED BY <1>8

(* The element a sum takes out of a set first. *)
First(s) == CHOOSE x \in s : TRUE

(* The sums over the subsets of the domain of f. *)
Sums(f, g) ==
  /\ g \in [SUBSET DOMAIN f -> Int]
  /\ g[DOMAIN f] = SumFunction(f)
  /\ \A s \in SUBSET DOMAIN f :
       g[s] = IF s = {} THEN 0 ELSE f[First(s)] + g[s \ {First(s)}]

LEMMA SumUnfolds ==
  ASSUME NEW S, IsFiniteSet(S), NEW f \in [S -> Int]
  PROVE  \E g : Sums(f, g)
<1> DEFINE c == [s \in SUBSET S |-> First(s)]
           F == [x \in S |-> [v \in Int |-> f[x] + v]]
           It(g) == g = [s \in SUBSET S |-> IF s = {} THEN 0 ELSE f[First(s)] + g[s \ {First(s)}]]
           iter == CHOOSE g : It(g)
<1>1. \A s \in SUBSET S : s # {} => First(s) \in s
  BY DEF First
<1>2. F \in [S -> [Int -> Int]]
  OBVIOUS
<1>3. PICK g \in [SUBSET S -> Int] : Folded(g, S, 0, F, c)
  <2>1. Picks(c, S)
    BY <1>1 DEF Picks
  <2>2. 0 \in Int
    OBVIOUS
  <2> HIDE DEF c, F
  <2> QED BY <1>2, <2>1, <2>2, FoldExists
<1>4. ASSUME NEW s \in SUBSET S PROVE g[s] = IF s = {} THEN 0 ELSE f[First(s)] + g[s \ {First(s)}]
  <2>1. CASE s = {}
    BY <2>1, <1>3 DEF Folded
  <2>2. CASE s # {}
    <3>1. First(s) \in S /\ c[s] = First(s) /\ s \ {First(s)} \in SUBSET S
      BY <2>2, <1>1
    <3>2. g[s \ {First(s)}] \in Int
      BY <3>1, <1>3
    <3>3. g[s] = F[c[s]][g[s \ {c[s]}]]
      BY <2>2, <1>3 DEF Folded
    <3> QED BY <2>2, <3>1, <3>2, <3>3
  <2> QED BY <2>1, <2>2
<1>5. It(g)
  BY <1>3, <1>4
<1>6. It(iter)
  <2> HIDE DEF It
  <2> QED BY <1>5
<1>7. SumFunction(f) = iter[S]
  BY DEF SumFunction, SumFunctionOnSet, FoldFunctionOnSet, MapThenFoldSet, First
<1> DEFINE A == {n \in Nat : \A s \in SUBSET S : Cardinality(s) = n => iter[s] = g[s]}
<1>8. \A s \in SUBSET S : iter[s] = IF s = {} THEN 0 ELSE f[First(s)] + iter[s \ {First(s)}]
  <2> HIDE DEF iter
  <2> QED BY <1>6
<1> HIDE DEF iter
<1>9. \A s \in SUBSET S : IsFiniteSet(s) /\ Cardinality(s) \in Nat
  BY FS_Subset, FS_CardinalityType
<1>10. 0 \in A
  BY <1>4, <1>8, <1>9, FS_EmptySet
<1>11. ASSUME NEW n \in Nat, n \in A PROVE n + 1 \in A
  <2> SUFFICES ASSUME NEW s \in SUBSET S, Cardinality(s) = n + 1 PROVE iter[s] = g[s]
    OBVIOUS
  <2>1. s # {} /\ First(s) \in s
    <3>1. s = {} => Cardinality(s) = 0
      BY FS_EmptySet
    <3> QED BY <1>1, <3>1
  <2>2. s \ {First(s)} \in SUBSET S /\ Cardinality(s \ {First(s)}) = n
    <3>1. Cardinality(s \ {First(s)}) = Cardinality(s) - 1
      BY <2>1, <1>9, FS_RemoveElement
    <3> QED BY <3>1
  <2>3. iter[s \ {First(s)}] = g[s \ {First(s)}]
    BY <1>11, <2>2
  <2> QED BY <1>4, <1>8, <2>1, <2>3
<1>12. \A s \in SUBSET S : iter[s] = g[s]
  <2>1. \A n \in Nat : n \in A
    <3> HIDE DEF A
    <3> QED BY <1>10, <1>11, AllNat
  <2> QED BY <2>1, <1>9
<1>13. g[S] = SumFunction(f)
  BY <1>7, <1>12
<1> QED BY <1>3, <1>4, <1>13 DEF Sums

(* One summand can be taken out of a sum. *)
LEMMA SumTakes ==
  ASSUME NEW S, IsFiniteSet(S), NEW f \in [S -> Int], NEW g, Sums(f, g), NEW s \in SUBSET S, NEW x \in s
  PROVE  g[s] = f[x] + g[s \ {x}]
<1> DEFINE A == {n \in Nat : \A t \in SUBSET S : Cardinality(t) = n => \A y \in t : g[t] = f[y] + g[t \ {y}]}
<1>1. \A t \in SUBSET S : IsFiniteSet(t) /\ Cardinality(t) \in Nat /\ g[t] \in Int
  BY FS_Subset, FS_CardinalityType DEF Sums
<1>2. \A t \in SUBSET S : t # {} => First(t) \in t /\ g[t] = f[First(t)] + g[t \ {First(t)}]
  BY DEF Sums, First
<1>3. 0 \in A
  BY <1>1, FS_EmptySet
<1>4. ASSUME NEW n \in Nat, n \in A PROVE n + 1 \in A
  <2> SUFFICES ASSUME NEW t \in SUBSET S, Cardinality(t) = n + 1, NEW y \in t
               PROVE  g[t] = f[y] + g[t \ {y}]
    OBVIOUS
  <2> DEFINE c == First(t)
  <2>1. c \in t /\ g[t] = f[c] + g[t \ {c}]
    BY <1>2
  <2> HIDE DEF c
  <2>2. CASE y = c
    BY <2>1, <2>2
  <2>3. CASE y # c
    <3>1. /\ t \ {c} \in SUBSET S /\ t \ {y} \in SUBSET S
          /\ Cardinality(t \ {c}) = n /\ Cardinality(t \ {y}) = n
          /\ y \in t \ {c} /\ c \in t \ {y}
      <4>1. Cardinality(t \ {c}) = Cardinality(t) - 1 /\ Cardinality(t \ {y}) = Cardinality(t) - 1
        BY <2>1, <1>1, FS_RemoveElement
      <4> QED BY <4>1, <2>1, <2>3
    <3>2. g[t \ {c}] = f[y] + g[(t \ {c}) \ {y}] /\ g[t \ {y}] = f[c] + g[(t \ {y}) \ {c}]
      BY <1>4, <3>1
    <3>3. (t \ {c}) \ {y} = (t \ {y}) \ {c} /\ (t \ {c}) \ {y} \in SUBSET S
      OBVIOUS
    <3>4. g[(t \ {c}) \ {y}] \in Int /\ f[c] \in Int /\ f[y] \in Int
      BY <1>1, <2>1, <3>3
    <3> DEFINE u == g[(t \ {c}) \ {y}]
               v == g[t \ {c}]
               w == g[t \ {y}]
    <3>5. g[t] = f[c] + v /\ v = f[y] + u /\ w = f[c] + u
      BY <2>1, <3>2, <3>3
    <3>6. u \in Int
      BY <3>4
    <3> HIDE DEF u, v, w
    <3>7. g[t] = f[y] + w
      BY <3>4, <3>5, <3>6
    <3> QED BY <3>7 DEF w
  <2> QED BY <2>2, <2>3
<1>5. \A n \in Nat : n \in A
  <2> HIDE DEF A
  <2> QED BY <1>3, <1>4, AllNat
<1> QED BY <1>1, <1>5

(* The sum of f over s. *)
SumOn(f, s) == SumFunction([x \in s |-> f[x]])

LEMMA SumOnAll ==
  ASSUME NEW S, NEW f \in [S -> Int]
  PROVE  SumFunction(f) = SumOn(f, S)
<1>1. f = [x \in S |-> f[x]]
  OBVIOUS
<1> QED BY <1>1 DEF SumOn

LEMMA SumOnEmpty ==
  ASSUME NEW f
  PROVE  SumOn(f, {}) = 0
<1> DEFINE e == [x \in {} |-> f[x]]
<1>1. e \in [{} -> Int] /\ IsFiniteSet({}) /\ DOMAIN e = {}
  BY FS_EmptySet
<1> HIDE DEF e
<1>2. PICK g : Sums(e, g)
  BY <1>1, SumUnfolds
<1>3. SumFunction(e) = 0
  BY <1>1, <1>2 DEF Sums
<1> QED BY <1>3 DEF SumOn, e

(* A finite number of integers, indexed by S. *)
Integral(f, S) == IsFiniteSet(S) /\ \A x \in S : f[x] \in Int

LEMMA SumOnOut ==
  ASSUME NEW S, NEW f, Integral(f, S), NEW y \in S
  PROVE  SumOn(f, S) = f[y] + SumOn(f, S \ {y})
<1> DEFINE a == [x \in S |-> f[x]]
           R == S \ {y}
           b == [x \in R |-> f[x]]
<1>1. a \in [S -> Int] /\ b \in [R -> Int] /\ IsFiniteSet(R) /\ IsFiniteSet(S)
  BY FS_RemoveElement DEF Integral
<1>2. DOMAIN a = S /\ DOMAIN b = R /\ \A x \in R : b[x] = a[x] /\ a[x] = f[x]
  OBVIOUS
<1>3. a[y] = f[y] /\ SumOn(f, S) = SumFunction(a) /\ SumOn(f, R) = SumFunction(b)
  BY DEF SumOn
<1> HIDE DEF a, b
<1>4. PICK g : Sums(a, g)
  BY <1>1, SumUnfolds
<1>5. PICK h : Sums(b, h)
  BY <1>1, SumUnfolds
<1> DEFINE A == {n \in Nat : \A s \in SUBSET R : Cardinality(s) = n => g[s] = h[s]}
<1>6. \A s \in SUBSET R : IsFiniteSet(s) /\ Cardinality(s) \in Nat /\ s \in SUBSET S
  BY <1>1, FS_Subset, FS_CardinalityType
<1>7. \A s \in SUBSET R : /\ g[s] = IF s = {} THEN 0 ELSE a[First(s)] + g[s \ {First(s)}]
                          /\ h[s] = IF s = {} THEN 0 ELSE b[First(s)] + h[s \ {First(s)}]
  BY <1>2, <1>4, <1>5, <1>6 DEF Sums
<1>8. 0 \in A
  BY <1>6, <1>7, FS_EmptySet
<1>9. ASSUME NEW n \in Nat, n \in A PROVE n + 1 \in A
  <2> SUFFICES ASSUME NEW s \in SUBSET R, Cardinality(s) = n + 1 PROVE g[s] = h[s]
    OBVIOUS
  <2> DEFINE c == First(s)
  <2>1. s # {} /\ c \in s
    <3>1. s = {} => Cardinality(s) = 0
      BY FS_EmptySet
    <3> QED BY <3>1 DEF First
  <2>2. g[s] = a[c] + g[s \ {c}] /\ h[s] = b[c] + h[s \ {c}]
    BY <2>1, <1>7
  <2> HIDE DEF c
  <2>3. s \ {c} \in SUBSET R /\ Cardinality(s \ {c}) = n
    <3>1. Cardinality(s \ {c}) = Cardinality(s) - 1
      BY <2>1, <1>6, FS_RemoveElement
    <3> QED BY <3>1
  <2>4. g[s \ {c}] = h[s \ {c}]
    BY <1>9, <2>3
  <2>5. a[c] = b[c]
    BY <2>1, <1>2
  <2> QED BY <2>2, <2>4, <2>5
<1>10. \A n \in Nat : n \in A
  <2> HIDE DEF A
  <2> QED BY <1>8, <1>9, AllNat
<1>11. g[R] = h[R]
  BY <1>6, <1>10
<1>12. g[S] = a[y] + g[S \ {y}]
  <2>1. S \in SUBSET S
    OBVIOUS
  <2> QED BY <1>1, <1>4, <2>1, SumTakes
<1>13. g[S] = SumFunction(a) /\ h[R] = SumFunction(b)
  BY <1>2, <1>4, <1>5 DEF Sums
<1> QED BY <1>3, <1>11, <1>12, <1>13

LEMMA SumOnInt ==
  ASSUME NEW S, NEW f, Integral(f, S)
  PROVE  SumOn(f, S) \in Int
<1> DEFINE a == [x \in S |-> f[x]]
<1>1. a \in [S -> Int] /\ DOMAIN a = S /\ IsFiniteSet(S)
  BY DEF Integral
<1> HIDE DEF a
<1>2. PICK g : Sums(a, g)
  BY <1>1, SumUnfolds
<1>3. SumFunction(a) \in Int
  BY <1>1, <1>2 DEF Sums
<1> QED BY <1>3 DEF SumOn, a

(* Sums of functions that agree. *)
Agree(f, g, S) == \A x \in S : f[x] = g[x]

LEMMA SumOnSame ==
  ASSUME NEW S, NEW f, NEW g, Agree(f, g, S)
  PROVE  SumOn(f, S) = SumOn(g, S)
<1>1. [x \in S |-> f[x]] = [x \in S |-> g[x]]
  BY DEF Agree
<1> QED BY <1>1 DEF SumOn

(* A sum of zeros. *)
LEMMA SumOnZero ==
  ASSUME NEW S, IsFiniteSet(S), NEW f, \A x \in S : f[x] = 0
  PROVE  SumOn(f, S) = 0
<1> DEFINE A == {n \in Nat : \A s \in SUBSET S : Cardinality(s) = n => SumOn(f, s) = 0}
<1>1. \A s \in SUBSET S : IsFiniteSet(s) /\ Cardinality(s) \in Nat
  BY FS_Subset, FS_CardinalityType
<1>2. 0 \in A
  BY <1>1, FS_EmptySet, SumOnEmpty
<1>3. ASSUME NEW n \in Nat, n \in A PROVE n + 1 \in A
  <2> SUFFICES ASSUME NEW s \in SUBSET S, Cardinality(s) = n + 1 PROVE SumOn(f, s) = 0
    OBVIOUS
  <2>1. PICK x \in s : TRUE
    <3>1. s = {} => Cardinality(s) = 0
      BY FS_EmptySet
    <3> QED BY <3>1
  <2> DEFINE r == s \ {x}
  <2>2. r \in SUBSET S /\ Cardinality(r) = n
    <3>1. Cardinality(s \ {x}) = Cardinality(s) - 1
      BY <1>1, FS_RemoveElement
    <3> QED BY <3>1
  <2>3. SumOn(f, r) = 0
    BY <1>3, <2>2
  <2>4. SumOn(f, s) = f[x] + SumOn(f, r)
    <3>1. Integral(f, s)
      BY <1>1 DEF Integral
    <3> QED BY <3>1, SumOnOut
  <2> HIDE DEF r
  <2> QED BY <2>3, <2>4
<1>4. \A n \in Nat : n \in A
  <2> HIDE DEF A
  <2> QED BY <1>2, <1>3, AllNat
<1> QED BY <1>1, <1>4

(* The sum of what differs in one place. *)
LEMMA SumOnChange ==
  ASSUME NEW S, NEW f, NEW g, Integral(f, S), Integral(g, S), NEW y \in S, Agree(f, g, S \ {y})
  PROVE  SumOn(g, S) = SumOn(f, S) - f[y] + g[y]
<1> DEFINE R == S \ {y}
           u == SumOn(f, R)
<1>1. Integral(f, R)
  BY FS_RemoveElement DEF Integral
<1>2. u \in Int
  BY <1>1, SumOnInt
<1>3. SumOn(g, R) = u
  BY SumOnSame
<1>4. SumOn(f, S) = f[y] + u /\ SumOn(g, S) = g[y] + SumOn(g, R)
  BY SumOnOut
<1>5. f[y] \in Int /\ g[y] \in Int
  BY DEF Integral
<1> HIDE DEF u
<1> QED BY <1>2, <1>3, <1>4, <1>5

(* A sum of more and larger numbers, none of them negative, is larger.     *)
LEMMA SumOnGrows ==
  ASSUME NEW T, NEW S \in SUBSET T, NEW f, NEW g, Integral(f, T), Integral(g, T),
         \A x \in T : 0 <= f[x] /\ f[x] <= g[x]
  PROVE  SumOn(f, S) <= SumOn(g, T)
<1>1. \A s \in SUBSET T : IsFiniteSet(s) /\ Cardinality(s) \in Nat
  BY FS_Subset, FS_CardinalityType DEF Integral
<1>2. \A s \in SUBSET T : Integral(f, s) /\ Integral(g, s)
  BY <1>1 DEF Integral
<1>3. \A s \in SUBSET T : SumOn(f, s) \in Int /\ SumOn(g, s) \in Int
  BY <1>2, SumOnInt
<1> DEFINE A == {n \in Nat : \A t \in SUBSET T : Cardinality(t) = n =>
                               \A s \in SUBSET t : SumOn(f, s) <= SumOn(g, t)}
<1>4. 0 \in A
  <2>1. ASSUME NEW t \in SUBSET T, Cardinality(t) = 0, NEW s \in SUBSET t
        PROVE  SumOn(f, s) <= SumOn(g, t)
    <3>1. t = {} /\ s = {}
      BY <2>1, <1>1, FS_EmptySet
    <3>2. SumOn(f, s) = 0 /\ SumOn(g, t) = 0
      BY <3>1, SumOnEmpty
    <3> QED BY <3>2
  <2> QED BY <2>1
<1>5. ASSUME NEW n \in Nat, n \in A PROVE n + 1 \in A
  <2> SUFFICES ASSUME NEW t \in SUBSET T, Cardinality(t) = n + 1, NEW s \in SUBSET t
               PROVE  SumOn(f, s) <= SumOn(g, t)
    OBVIOUS
  <2>1. PICK x \in t : TRUE
    <3>1. t = {} => Cardinality(t) = 0
      BY FS_EmptySet
    <3> QED BY <3>1
  <2> DEFINE r == t \ {x}
             q == s \ {x}
             a == SumOn(f, q)
             b == SumOn(g, r)
  <2>2. r \in SUBSET T /\ q \in SUBSET r /\ q \in SUBSET T /\ Cardinality(r) = n
    <3>1. Cardinality(t \ {x}) = Cardinality(t) - 1
      BY <1>1, FS_RemoveElement
    <3> QED BY <3>1
  <2>3. a <= b
    BY <1>5, <2>2
  <2>4. SumOn(g, t) = g[x] + b
    BY <1>2, SumOnOut
  <2>5. SumOn(f, s) = IF x \in s THEN f[x] + a ELSE a
    <3>1. CASE x \in s
      BY <3>1, <1>2, SumOnOut
    <3>2. CASE x \notin s
      <4>1. q = s
        BY <3>2
      <4> QED BY <3>2, <4>1
    <3> QED BY <3>1, <3>2
  <2>6. a \in Int /\ b \in Int
    BY <1>3, <2>2
  <2>7. f[x] \in Int /\ g[x] \in Int /\ 0 <= f[x] /\ f[x] <= g[x]
    BY <2>1 DEF Integral
  <2> HIDE DEF a, b, r, q
  <2> QED BY <2>3, <2>4, <2>5, <2>6, <2>7
<1>6. \A n \in Nat : n \in A
  <2> HIDE DEF A
  <2> QED BY <1>4, <1>5, AllNat
<1>7. T \in SUBSET T
  OBVIOUS
<1> QED BY <1>1, <1>6, <1>7

(* p names the elements of S by those of T. *)
Renames(p, S, T) ==
  /\ p \in [S -> T]
  /\ \A x, y \in S : p[x] = p[y] => x = y
  /\ \A z \in T : \E x \in S : p[x] = z

(* A sum does not depend on the names of its summands. *)
LEMMA SumOnBijection ==
  ASSUME NEW S, NEW T, NEW p, Renames(p, S, T), NEW f, NEW g, Integral(f, T), Integral(g, S),
         \A x \in S : g[x] = f[p[x]]
  PROVE  SumOn(g, S) = SumOn(f, T)
<1>0. /\ p \in [S -> T] /\ IsFiniteSet(S)
      /\ \A x, y \in S : p[x] = p[y] => x = y
      /\ \A z \in T : \E x \in S : p[x] = z
      /\ \A z \in T : f[z] \in Int
  BY DEF Renames, Integral
<1> DEFINE Im(s) == {p[x] : x \in s}
           A == {n \in Nat : \A s \in SUBSET S : Cardinality(s) = n => SumOn(g, s) = SumOn(f, Im(s))}
<1>1. \A s \in SUBSET S : IsFiniteSet(s) /\ Cardinality(s) \in Nat
  BY <1>0, FS_Subset, FS_CardinalityType
<1>2. 0 \in A
  <2>1. ASSUME NEW s \in SUBSET S, Cardinality(s) = 0 PROVE SumOn(g, s) = SumOn(f, Im(s))
    <3>1. s = {} /\ Im(s) = {}
      BY <2>1, <1>1, FS_EmptySet
    <3> QED BY <3>1, SumOnEmpty
  <2> QED BY <2>1
<1>3. ASSUME NEW n \in Nat, n \in A PROVE n + 1 \in A
  <2> SUFFICES ASSUME NEW s \in SUBSET S, Cardinality(s) = n + 1 PROVE SumOn(g, s) = SumOn(f, Im(s))
    OBVIOUS
  <2>1. PICK x \in s : TRUE
    <3>1. s = {} => Cardinality(s) = 0
      BY FS_EmptySet
    <3> QED BY <3>1
  <2> DEFINE r == s \ {x}
  <2>2. r \in SUBSET S /\ Cardinality(r) = n
    <3>1. Cardinality(s \ {x}) = Cardinality(s) - 1
      BY <1>1, FS_RemoveElement
    <3> QED BY <3>1
  <2>3. SumOn(g, r) = SumOn(f, Im(r))
    BY <1>3, <2>2
  <2>4. Im(r) = Im(s) \ {p[x]} /\ p[x] \in Im(s) /\ Im(s) \subseteq T
    BY <2>1, <1>0
  <2>5. SumOn(g, s) = g[x] + SumOn(g, r)
    <3>1. Integral(g, s)
      BY <1>1 DEF Integral
    <3> QED BY <3>1, SumOnOut
  <2>6. SumOn(f, Im(s)) = f[p[x]] + SumOn(f, Im(s) \ {p[x]})
    <3>1. IsFiniteSet(Im(s))
      <4> DEFINE q == [y \in s |-> p[y]]
      <4>1. q \in Surjection(s, Im(s))
        BY DEF Surjection
      <4> HIDE DEF q, Im
      <4> QED BY <4>1, <1>1, FS_Surjection
    <3>2. Integral(f, Im(s))
      BY <2>4, <3>1, <1>0 DEF Integral
    <3> HIDE DEF Im
    <3> QED BY <2>4, <3>2, SumOnOut
  <2> HIDE DEF Im, r
  <2> QED BY <2>1, <2>3, <2>4, <2>5, <2>6
<1>4. \A n \in Nat : n \in A
  <2> HIDE DEF A
  <2> QED BY <1>2, <1>3, AllNat
<1>5. Im(S) = T
  BY <1>0
<1>6. SumOn(g, S) = SumOn(f, Im(S))
  <2>1. S \in SUBSET S
    OBVIOUS
  <2> HIDE DEF Im
  <2> QED BY <1>1, <1>4, <2>1
<1> QED BY <1>5, <1>6

-----------------------------------------------------------------------------
(* The weight of a sequence.                                               *)

(* The sum of what the elements of s weigh. *)
Weigh(w, s) == SumFunction([i \in DOMAIN s |-> w[s[i]]])

(* The weights of the elements of s. *)
Weights(w, s) == [i \in 1 .. Len(s) |-> w[s[i]]]

LEMMA WeighIsSum ==
  ASSUME NEW V, NEW w \in [V -> Int], NEW s \in Seq(V)
  PROVE  /\ Weigh(w, s) = SumOn(Weights(w, s), 1 .. Len(s)) /\ Weigh(w, s) \in Int
         /\ Integral(Weights(w, s), 1 .. Len(s))
<1> DEFINE g == Weights(w, s)
<1>1. DOMAIN s = 1 .. Len(s) /\ Len(s) \in Nat
  OBVIOUS
<1>2. [i \in DOMAIN s |-> w[s[i]]] = [i \in 1 .. Len(s) |-> g[i]]
  BY <1>1 DEF Weights
<1>3. \A i \in 1 .. Len(s) : g[i] \in Int
  BY ElementOfSeq DEF Weights
<1>4. IsFiniteSet(1 .. Len(s))
  BY <1>1, FS_Interval
<1> HIDE DEF g
<1>5. Weigh(w, s) = SumOn(g, 1 .. Len(s))
  BY <1>2 DEF Weigh, SumOn
<1>6. Integral(g, 1 .. Len(s))
  BY <1>3, <1>4 DEF Integral
<1>7. SumOn(g, 1 .. Len(s)) \in Int
  BY <1>6, SumOnInt
<1> QED BY <1>5, <1>6, <1>7 DEF g

LEMMA WeighEmpty ==
  ASSUME NEW V, NEW w \in [V -> Int]
  PROVE  Weigh(w, <<>>) = 0
<1>1. <<>> \in Seq(V) /\ Len(<<>>) = 0 /\ 1 .. 0 = {}
  OBVIOUS
<1>2. Weigh(w, <<>>) = SumOn(Weights(w, <<>>), 1 .. Len(<<>>))
  BY <1>1, WeighIsSum
<1>3. Weigh(w, <<>>) = SumOn(Weights(w, <<>>), {})
  BY <1>1, <1>2
<1> QED BY <1>3, SumOnEmpty

(* r is s but for element i. *)
Changed(r, s, i) == Len(r) = Len(s) /\ \A m \in 1 .. Len(s) : m # i => r[m] = s[m]

LEMMA WeighChanged ==
  ASSUME NEW V, NEW w \in [V -> Int], NEW r \in Seq(V), NEW s \in Seq(V),
         NEW i \in 1 .. Len(s), Changed(r, s, i)
  PROVE  Weigh(w, r) = Weigh(w, s) - w[s[i]] + w[r[i]]
<1> DEFINE f == Weights(w, s)
           g == Weights(w, r)
           S == 1 .. Len(s)
<1>1. f[i] = w[s[i]] /\ g[i] = w[r[i]] /\ Agree(f, g, S \ {i})
  BY DEF Weights, Agree, Changed
<1>2. Weigh(w, s) = SumOn(f, S) /\ Integral(f, S)
  BY WeighIsSum
<1>3. Weigh(w, r) = SumOn(g, S) /\ Integral(g, S)
  <2>1. Len(r) = Len(s)
    BY DEF Changed
  <2> QED BY <2>1, WeighIsSum
<1>4. i \in S
  OBVIOUS
<1> HIDE DEF f, g, S
<1>5. SumOn(g, S) = SumOn(f, S) - f[i] + g[i]
  BY <1>1, <1>2, <1>3, <1>4, SumOnChange, ZenonT(30)
<1> QED BY <1>1, <1>2, <1>3, <1>5

(* r has the elements of s in another order. *)
Permuted(r, s, p) ==
  /\ Renames(p, 1 .. Len(r), 1 .. Len(s))
  /\ \A m \in 1 .. Len(r) : r[m] = s[p[m]]

LEMMA WeighPermuted ==
  ASSUME NEW V, NEW w \in [V -> Int], NEW r \in Seq(V), NEW s \in Seq(V),
         NEW p, Permuted(r, s, p)
  PROVE  Weigh(w, r) = Weigh(w, s)
<1> DEFINE f == Weights(w, s)
           g == Weights(w, r)
           S == 1 .. Len(r)
           T == 1 .. Len(s)
<1>1. \A m \in S : g[m] = f[p[m]]
  BY DEF Weights, Renames, Permuted
<1>2. Weigh(w, s) = SumOn(f, T) /\ Integral(f, T)
  BY WeighIsSum
<1>3. Weigh(w, r) = SumOn(g, S) /\ Integral(g, S)
  BY WeighIsSum
<1>4. Renames(p, S, T)
  BY DEF Permuted
<1> HIDE DEF f, g, S, T
<1>5. SumOn(g, S) = SumOn(f, T)
  BY <1>1, <1>2, <1>3, <1>4, SumOnBijection
<1> QED BY <1>2, <1>3, <1>5

(* r is s without element i. *)
Without(r, s, i) ==
  /\ Len(r) = Len(s) - 1
  /\ \A m \in 1 .. Len(r) : r[m] = IF m < i THEN s[m] ELSE s[m + 1]

LEMMA WeighWithout ==
  ASSUME NEW V, NEW w \in [V -> Int], NEW r \in Seq(V), NEW s \in Seq(V),
         NEW i \in 1 .. Len(s), Without(r, s, i)
  PROVE  Weigh(w, s) = w[s[i]] + Weigh(w, r)
<1> DEFINE N == Len(s)
           n == Len(r)
           T == (1 .. N) \ {i}
           f == Weights(w, s)
           g == Weights(w, r)
           p == [m \in 1 .. n |-> IF m < i THEN m ELSE m + 1]
<1>1. N \in Nat /\ n = N - 1 /\ i \in 1 .. N
  BY DEF Without
<1>2. Weigh(w, s) = SumOn(f, 1 .. N) /\ Integral(f, 1 .. N)
  BY WeighIsSum
<1>3. Weigh(w, r) = SumOn(g, 1 .. n) /\ Integral(g, 1 .. n)
  BY WeighIsSum
<1>4. /\ \A m \in 1 .. N : f[m] = w[s[m]]
      /\ \A m \in 1 .. n : g[m] = w[r[m]]
      /\ \A m \in 1 .. n : r[m] = IF m < i THEN s[m] ELSE s[m + 1]
  BY DEF Weights, Without
<1> HIDE DEF N, n, f, g
<1>5. Renames(p, 1 .. n, T)
  <2>1. p \in [1 .. n -> T]
    BY <1>1
  <2>2. \A x, y \in 1 .. n : p[x] = p[y] => x = y
    BY <1>1
  <2>3. ASSUME NEW z \in T PROVE \E m \in 1 .. n : p[m] = z
    <3>1. CASE z < i
      <4>1. z \in 1 .. n /\ p[z] = z
        BY <3>1, <1>1
      <4> QED BY <4>1
    <3>2. CASE z > i
      <4>1. z - 1 \in 1 .. n /\ p[z - 1] = z
        BY <3>2, <1>1
      <4> QED BY <4>1
    <3> QED BY <3>1, <3>2, <1>1
  <2> QED BY <2>1, <2>2, <2>3 DEF Renames
<1>6. ASSUME NEW m \in 1 .. n PROVE g[m] = f[p[m]]
  <2>1. CASE m < i
    <3>1. p[m] = m /\ m \in 1 .. N
      BY <2>1, <1>1
    <3> QED BY <3>1, <2>1, <1>4
  <2>2. CASE ~(m < i)
    <3>1. p[m] = m + 1 /\ m + 1 \in 1 .. N
      BY <2>2, <1>1
    <3> QED BY <3>1, <2>2, <1>4
  <2> QED BY <2>1, <2>2
<1>7. Integral(f, T)
  BY <1>2, FS_RemoveElement DEF Integral
<1>8. SumOn(g, 1 .. n) = SumOn(f, T)
  <2> DEFINE S == 1 .. n
  <2>1. Renames(p, S, T) /\ Integral(g, S) /\ \A x \in S : g[x] = f[p[x]]
    BY <1>3, <1>5, <1>6
  <2> HIDE DEF T, p, S
  <2>2. SumOn(g, S) = SumOn(f, T)
    BY <2>1, <1>7, SumOnBijection
  <2> QED BY <2>2 DEF S
<1>9. SumOn(f, 1 .. N) = f[i] + SumOn(f, T)
  <2> HIDE DEF T
  <2>1. T = (1 .. N) \ {i} /\ i \in 1 .. N
    BY <1>1 DEF T
  <2> QED BY <1>2, <2>1, SumOnOut
<1> QED BY <1>1, <1>2, <1>3, <1>4, <1>8, <1>9

(* Moving the changed segment leaves the weight. *)
LEMMA WeighSorted ==
  ASSUME NEW V, NEW w \in [V -> Int], NEW s \in Seq(V), NEW i \in 1 .. Len(s)
  PROVE  /\ Weigh(w, SortInPlace(s, i)) = Weigh(w, s)
         /\ SortInPlace(s, i) \in Seq(V)
<1> DEFINE j == SortTarget(s, i)
           r == Move(s, i, j)
           N == Len(s)
<1>1. j \in 1 .. N /\ N \in Nat
  BY SortTargetProperties
<1>2. SortInPlace(s, i) = r
  BY DEF SortInPlace
<1> HIDE DEF j
<1>3. /\ r \in Seq(V) /\ Len(r) = N /\ N \in Nat
      /\ \A m \in 1 .. N :
           r[m] = IF m = j THEN s[i]
                  ELSE IF i <= m /\ m < j THEN s[m + 1]
                  ELSE IF j < m /\ m <= i THEN s[m - 1]
                  ELSE s[m]
  BY <1>1, MoveProperties
<1> HIDE DEF r
<1> DEFINE p == [m \in 1 .. N |-> IF m = j THEN i
                                  ELSE IF i <= m /\ m < j THEN m + 1
                                  ELSE IF j < m /\ m <= i THEN m - 1
                                  ELSE m]
<1>4. i \in 1 .. N /\ \A m \in 1 .. N : r[m] = s[p[m]]
  BY <1>3
<1> HIDE DEF N
<1>5. Renames(p, 1 .. N, 1 .. N)
  <2>1. p \in [1 .. N -> 1 .. N]
    BY <1>1, <1>4
  <2>2. \A x, y \in 1 .. N : p[x] = p[y] => x = y
    BY <1>1, <1>4
  <2>3. ASSUME NEW z \in 1 .. N PROVE \E m \in 1 .. N : p[m] = z
    <3>1. CASE z = i
      <4>1. p[j] = z
        BY <3>1, <1>1
      <4> QED BY <4>1, <1>1
    <3>2. CASE i < z /\ z <= j
      <4>1. z - 1 \in 1 .. N /\ p[z - 1] = z
        BY <3>2, <1>1, <1>4
      <4> QED BY <4>1
    <3>3. CASE j <= z /\ z < i
      <4>1. z + 1 \in 1 .. N /\ p[z + 1] = z
        BY <3>3, <1>1, <1>4
      <4> QED BY <4>1
    <3>4. CASE z # i /\ ~(i < z /\ z <= j) /\ ~(j <= z /\ z < i)
      <4>1. p[z] = z
        BY <3>4, <1>1, <1>4
      <4> QED BY <4>1
    <3> QED BY <3>1, <3>2, <3>3, <3>4, <1>1, <1>4
  <2> QED BY <2>1, <2>2, <2>3 DEF Renames
<1> HIDE DEF p
<1>6. Weigh(w, r) = Weigh(w, s)
  <2>1. Len(r) = Len(s) /\ N = Len(s)
    BY <1>3 DEF N
  <2>2. Permuted(r, s, p)
    BY <2>1, <1>4, <1>5 DEF Permuted
  <2> QED BY <2>2, <1>3, WeighPermuted
<1> QED BY <1>2, <1>3, <1>6

-----------------------------------------------------------------------------
(* What adding a record adds to the weight of a trace ID.                  *)

(* A weight of segments that the parts a segment is made of add up to:     *)
(* d[rec] is what a record brings.                                         *)
Additive(w, d) ==
  /\ w \in [Segment -> Int] /\ d \in [Records -> Int]
  /\ \A s \in Segment : w[Stamp(s)] = w[s]
  /\ \A rec \in Records : w[Msr2Seg(rec)] = d[rec]
  /\ \A rec \in Records : \A s \in Segment : /\ w[AddMsrToEnd(s, rec)] = w[s] + d[rec]
                                             /\ w[AddMsrToStart(s, rec)] = w[s] + d[rec]
  /\ \A s1, s2 \in Segment : w[AddSegToSeg(s1, s2)] = w[s1] + w[s2]

(* Stamping and sorting the changed segment leave the weight. *)
LEMMA WeighTracked ==
  ASSUME NEW w, NEW d, Additive(w, d), now \in Nat,
         NEW t, NEW rec, NEW segs \in Seq(Segment), NEW at \in 1 .. Len(segs)
  PROVE  Weigh(w, Tracked(t, rec, segs, at).segs) = Weigh(w, segs)
<1> DEFINE s == ReplaceAt(segs, at, Stamp(segs[at]))
<1>1. segs[at] \in Segment /\ Stamp(segs[at]) \in Segment
  BY StampFields, ElementOfSeq
<1>2. /\ s \in Seq(Segment) /\ Len(s) = Len(segs)
      /\ \A m \in 1 .. Len(segs) : s[m] = IF m = at THEN Stamp(segs[at]) ELSE segs[m]
  BY <1>1, SegmentReplaced
<1>3. Tracked(t, rec, segs, at).segs = SortInPlace(s, at)
  BY DEF Tracked
<1> HIDE DEF s
<1>4. Changed(s, segs, at) /\ s[at] = Stamp(segs[at])
  BY <1>2 DEF Changed
<1>5. w \in [Segment -> Int] /\ w[Stamp(segs[at])] = w[segs[at]] /\ w[segs[at]] \in Int
  BY <1>1 DEF Additive
<1>6. Weigh(w, s) = Weigh(w, segs) - w[segs[at]] + w[s[at]]
  BY <1>2, <1>4, <1>5, WeighChanged
<1>7. Weigh(w, segs) \in Int
  BY <1>5, WeighIsSum
<1>8. Weigh(w, SortInPlace(s, at)) = Weigh(w, s)
  <2>1. at \in 1 .. Len(s)
    BY <1>2
  <2> QED BY <1>2, <1>5, <2>1, WeighSorted
<1> QED BY <1>3, <1>4, <1>5, <1>6, <1>7, <1>8

(* An insertion adds the new element. *)
LEMMA WeighInserted ==
  ASSUME NEW V, NEW w \in [V -> Int], NEW s \in Seq(V), NEW i \in 1 .. Len(s) + 1, NEW e \in V
  PROVE  Weigh(w, InsertAt(s, i, e)) = Weigh(w, s) + w[e]
<1> DEFINE r == InsertAt(s, i, e)
<1>1. /\ r \in Seq(V) /\ Len(r) = Len(s) + 1 /\ r[i] = e
      /\ \A m \in 1 .. i - 1 : r[m] = s[m]
      /\ \A m \in i + 1 .. Len(s) + 1 : r[m] = s[m - 1]
  BY InsertAtProperties, InsertedElement
<1> HIDE DEF r
<1>2. Without(s, r, i)
  <2>1. Len(s) = Len(r) - 1
    BY <1>1
  <2>2. ASSUME NEW m \in 1 .. Len(s) PROVE s[m] = IF m < i THEN r[m] ELSE r[m + 1]
    <3>1. CASE m < i
      BY <3>1, <1>1
    <3>2. CASE ~(m < i)
      <4>1. m + 1 \in i + 1 .. Len(s) + 1 /\ (m + 1) - 1 = m
        BY <3>2
      <4>2. r[m + 1] = s[(m + 1) - 1]
        BY <4>1, <1>1
      <4> QED BY <3>2, <4>1, <4>2
    <3> QED BY <3>1, <3>2
  <2> QED BY <2>1, <2>2 DEF Without
<1>3. i \in 1 .. Len(r)
  BY <1>1
<1>4. Weigh(w, r) = w[r[i]] + Weigh(w, s)
  BY <1>1, <1>2, <1>3, WeighWithout
<1>5. Weigh(w, s) \in Int /\ w[e] \in Int
  BY WeighIsSum
<1> QED BY <1>1, <1>4, <1>5 DEF r

(* A removal takes the element away. *)
LEMMA WeighRemoved ==
  ASSUME NEW V, NEW w \in [V -> Int], NEW s \in Seq(V), NEW i \in 1 .. Len(s)
  PROVE  Weigh(w, RemoveAt(s, i)) = Weigh(w, s) - w[s[i]]
<1> DEFINE r == RemoveAt(s, i)
<1>1. /\ r \in Seq(V) /\ Len(r) = Len(s) - 1
      /\ \A m \in 1 .. Len(s) - 1 : r[m] = IF m < i THEN s[m] ELSE s[m + 1]
  BY RemoveAtProperties
<1> HIDE DEF r
<1>2. Without(r, s, i)
  BY <1>1 DEF Without
<1>3. Weigh(w, s) = w[s[i]] + Weigh(w, r)
  BY <1>1, <1>2, WeighWithout
<1>4. Weigh(w, r) \in Int /\ w[s[i]] \in Int
  <2>1. s[i] \in V
    BY ElementOfSeq
  <2> QED BY <1>1, <2>1, WeighIsSum
<1> QED BY <1>3, <1>4 DEF r

(* A replacement exchanges one weight. *)
LEMMA WeighReplaced ==
  ASSUME NEW V, NEW w \in [V -> Int], NEW s \in Seq(V), NEW i \in 1 .. Len(s), NEW e \in V
  PROVE  Weigh(w, ReplaceAt(s, i, e)) = Weigh(w, s) - w[s[i]] + w[e]
<1> DEFINE r == ReplaceAt(s, i, e)
<1>1. /\ r \in Seq(V) /\ Len(r) = Len(s)
      /\ \A m \in 1 .. Len(s) : r[m] = IF m = i THEN e ELSE s[m]
  <2>1. r \in Seq(V) /\ Len(r) = Len(s)
    BY ReplaceAtProperties
  <2>2. \A m \in 1 .. Len(s) : r[m] = IF m = i THEN e ELSE s[m]
    BY LenProperties DEF ReplaceAt
  <2> QED BY <2>1, <2>2
<1> HIDE DEF r
<1>2. Changed(r, s, i) /\ r[i] = e
  BY <1>1 DEF Changed
<1>3. r \in Seq(V) /\ Changed(r, s, i)
  BY <1>1, <1>2
<1>4. Weigh(w, r) = Weigh(w, s) - w[s[i]] + w[r[i]]
  BY <1>3, WeighChanged
<1> QED BY <1>2, <1>4 DEF r

(* An ID keeps the version it was created with when versions are split. *)
KeyVersion == SplitVersion # 0 => \A k \in Keys : InList(k) => ids[k].pubversion = k[2]

(* So the ID a record creates is not in the list yet. *)
LEMMA NewIDIsNew ==
  ASSUME IInv, KeyVersion, NEW rec \in Records, Matching(rec) = {}
  PROVE  ids[KeyOf(rec)].segs = <<>>
<1> DEFINE k == KeyOf(rec)
<1>1. k \in Keys /\ k[1] = rec.sid /\ k[2] = ToUint8(PubVersion(rec))
  BY RecordFields DEF KeyOf
<1> HIDE DEF k
<1>2. SUFFICES ASSUME InList(k) PROVE FALSE
  BY DEF InList, k
<1>3. k \in Matching(rec)
  <2>1. CASE SplitVersion = 0
    BY <1>1, <1>2, <2>1 DEF Matching, FindID
  <2>2. CASE SplitVersion # 0
    BY <1>1, <1>2, <2>2 DEF Matching, FindID, KeyVersion
  <2> QED BY <2>1, <2>2
<1> QED BY <1>3

LEMMA KeyVersionKept ==
  ASSUME IInv, KeyVersion, NEW rec \in Records, AddMsr(rec)
  PROVE  KeyVersion'
<1> SUFFICES ASSUME SplitVersion # 0, NEW l \in Keys, ids'[l].segs # <<>>
             PROVE  ids'[l].pubversion = l[2]
  BY DEF KeyVersion, InList
<1>1. \A k \in Keys : InList(k) => ids[k].pubversion = k[2]
  BY DEF KeyVersion
<1>2. CASE ~SplitIsVersion
  BY <1>1, <1>2, KeyVersionStep
<1>3. CASE SplitIsVersion
  <2>1. \A r \in Records : PubVersion(r) = SplitVersion /\ KeyOf(r)[2] = SplitVersion
    BY <1>3, ConstantsAssumption DEF PubVersion, KeyOf, ToUint8
  <2>2. \A k \in Keys : k[2] = SplitVersion
    BY <2>1 DEF Keys
  <2>3. CASE AddID(rec)
    <3>1. /\ KeyOf(rec) \in Keys /\ OnlyID(KeyOf(rec))
          /\ ids'[KeyOf(rec)].pubversion = ToUint8(PubVersion(rec))
      BY <2>3, AddIDLeaves
    <3>2. ids'[KeyOf(rec)].pubversion = KeyOf(rec)[2]
      BY <3>1 DEF KeyOf
    <3> QED BY <3>1, <3>2, <1>1 DEF OnlyID, InList
  <2>4. ASSUME NEW k \in Matching(rec), AddToSegment(k, rec) \/ MergeSegments(k, rec) \/ AddSegment(k, rec)
        PROVE  ids'[l].pubversion = l[2]
    <3>1. /\ k \in Keys /\ OnlyID(k)
          /\ \/ ids'[k].pubversion = Greater(PubVersion(rec), ids[k].pubversion)
             \/ ids'[k].pubversion = ids[k].pubversion
      BY <2>4, StepTracks DEF Tracks
    <3>2. ids[k].pubversion = k[2]
      BY <3>1, <1>1 DEF Matching, FindID
    <3>3. Greater(PubVersion(rec), ids[k].pubversion) = ids[k].pubversion
      BY <2>1, <2>2, <3>1, <3>2 DEF Greater
    <3> QED BY <3>1, <3>2, <3>3, <1>1 DEF OnlyID, InList
  <2>5. ASSUME NEW k \in Matching(rec), RejectMsr(k, rec)
        PROVE  ids'[l].pubversion = l[2]
    BY <2>5, <1>1 DEF RejectMsr, listVars, InList
  <2> QED BY <2>3, <2>4, <2>5 DEF AddMsr
<1> QED BY <1>2, <1>3

(* Some ID of the record's source weighs more by what the record brings,   *)
(* and nothing else has changed.                                           *)
Brings(w, d, rec) ==
  \E k \in Keys : /\ k[1] = rec.sid /\ OnlyID(k) /\ Stored(rec)
                  /\ Weigh(w, ids'[k].segs) = Weigh(w, ids[k].segs) + d[rec]

(* However mstl3_addmsr() stores a record - a new ID, a new segment, a     *)
(* segment extended at either end, two merged, or a merge refused half way *)
(* - the list holds that much more of everything that adds up.             *)
LEMMA AdditionBrings ==
  ASSUME IInv, KeyVersion, NEW rec \in Records, AddMsr(rec), NEW w, NEW d, Additive(w, d)
  PROVE  UNCHANGED listVars \/ Brings(w, d, rec)
<1>1. now \in Nat /\ \A k \in Keys : ids[k].segs \in Seq(Segment)
  BY DEF IInv, TypeOK, TraceID
<1>2. w \in [Segment -> Int] /\ d[rec] \in Int
  BY DEF Additive
<1>3. Msr2Seg(rec) \in Segment
  <2>1. rec \in RecordType /\ EndTime(rec) \in Int /\ RecordPtrs(rec) \in Seq(Records)
    BY RecordFields
  <2> QED BY <2>1 DEF RecordType, Msr2Seg, Segment
<1>4. w[Msr2Seg(rec)] = d[rec]
  BY DEF Additive
<1>5. CASE AddID(rec)
  <2> DEFINE k == KeyOf(rec)
             seg == Stamp(Msr2Seg(rec))
  <2>1. /\ k \in Keys /\ OnlyID(k) /\ Matching(rec) = {} /\ Stored(rec)
        /\ ids'[k].segs = <<seg>>
    BY <1>5, AddIDLeaves
  <2>2. k[1] = rec.sid /\ ids[k].segs = <<>>
    BY <2>1, NewIDIsNew DEF KeyOf
  <2>3. seg \in Segment /\ w[seg] = d[rec]
    BY <1>1, <1>3, <1>4, StampFields DEF Additive
  <2> HIDE DEF seg, k
  <2>4. Weigh(w, <<>>) = 0
    BY <1>2, WeighEmpty
  <2>5. Weigh(w, <<seg>>) = w[seg]
    <3>1. <<seg>> \in Seq(Segment) /\ <<>> \in Seq(Segment) /\ 1 \in 1 .. Len(<<seg>>) /\ <<seg>>[1] = seg
      BY <2>3
    <3>2. Without(<<>>, <<seg>>, 1)
      BY DEF Without
    <3> DEFINE one == <<seg>>
               none == <<>>
    <3>3. one \in Seq(Segment) /\ none \in Seq(Segment) /\ 1 \in 1 .. Len(one) /\ one[1] = seg /\ Without(none, one, 1)
      BY <3>1, <3>2
    <3> HIDE DEF one, none
    <3>4. Weigh(w, one) = w[one[1]] + Weigh(w, none)
      BY <3>3, <1>2, WeighWithout
    <3>5. Weigh(w, none) = 0
      BY <2>4 DEF none
    <3>6. w[seg] \in Int
      BY <1>2, <2>3
    <3>7. Weigh(w, one) = w[seg]
      BY <3>3, <3>4, <3>5, <3>6
    <3> QED BY <3>7 DEF one
  <2>6. Weigh(w, ids'[k].segs) = Weigh(w, ids[k].segs) + d[rec]
    BY <1>2, <2>1, <2>2, <2>3, <2>4, <2>5
  <2> QED BY <2>1, <2>2, <2>6 DEF Brings
<1>6. ASSUME NEW k \in Matching(rec), AddToSegment(k, rec)
      PROVE  Brings(w, d, rec)
  <2> DEFINE s == ids[k].segs
             i == PutAt(k, rec)
             e == Grown(k, rec)
  <2>1. /\ i \in 1 .. Len(s) /\ SegPut(k, rec) \in Segment
        /\ e = AddMsrToEnd(SegPut(k, rec), rec) \/ e = AddMsrToStart(SegPut(k, rec), rec)
        /\ OnlyID(k) /\ Stored(rec)
        /\ ids'[k] = Tracked(ids[k], rec, ReplaceAt(s, i, e), i)
    BY <1>6, AddToSegmentLeaves
  <2>2. k \in Keys /\ k[1] = rec.sid /\ SegPut(k, rec) = s[i]
    BY DEF Matching, FindID, SegPut
  <2>3. s \in Seq(Segment)
    BY <1>1, <2>2
  <2>4. e \in Segment /\ w[e] = w[s[i]] + d[rec] /\ w[s[i]] \in Int
    <3>1. e \in Segment
      BY <2>1, SegmentFields
    <3>2. w[AddMsrToEnd(s[i], rec)] = w[s[i]] + d[rec] /\ w[AddMsrToStart(s[i], rec)] = w[s[i]] + d[rec]
      BY <2>1, <2>2 DEF Additive
    <3> QED BY <1>2, <2>1, <2>2, <3>1, <3>2
  <2> HIDE DEF i, e
  <2>5. ReplaceAt(s, i, e) \in Seq(Segment) /\ Len(ReplaceAt(s, i, e)) = Len(s)
    BY <2>1, <2>3, <2>4, SegmentReplaced
  <2>6. Weigh(w, ReplaceAt(s, i, e)) = Weigh(w, s) - w[s[i]] + w[e] /\ Weigh(w, s) \in Int
    BY <1>2, <2>1, <2>3, <2>4, WeighReplaced, WeighIsSum, ZenonT(30)
  <2>7. Weigh(w, Tracked(ids[k], rec, ReplaceAt(s, i, e), i).segs) = Weigh(w, ReplaceAt(s, i, e))
    BY <1>1, <2>1, <2>5, WeighTracked
  <2>8. Weigh(w, ids'[k].segs) = Weigh(w, s) + d[rec]
    BY <1>2, <2>1, <2>4, <2>6, <2>7
  <2> QED BY <2>1, <2>2, <2>8 DEF Brings
<1>7. ASSUME NEW k \in Matching(rec), AddSegment(k, rec)
      PROVE  Brings(w, d, rec)
  <2> DEFINE s == ids[k].segs
             i == PutAt(k, rec)
             e == Msr2Seg(rec)
  <2>1. /\ i \in 1 .. Len(s) + 1 /\ OnlyID(k) /\ Stored(rec)
        /\ ids'[k] = Tracked(Linked(ids[k]), rec, InsertAt(s, i, e), i)
    BY <1>7, AddSegmentLeaves
  <2>2. k \in Keys /\ k[1] = rec.sid
    BY DEF Matching, FindID
  <2>3. s \in Seq(Segment)
    BY <1>1, <2>2
  <2> HIDE DEF i, e
  <2>4. e \in Segment /\ w[e] = d[rec]
    BY <1>3, <1>4 DEF e
  <2>5. InsertAt(s, i, e) \in Seq(Segment) /\ Len(InsertAt(s, i, e)) = Len(s) + 1
    BY <2>1, <2>3, <2>4, InsertOrdered
  <2>6. Weigh(w, InsertAt(s, i, e)) = Weigh(w, s) + w[e]
    BY <1>2, <2>1, <2>3, <2>4, WeighInserted
  <2>7. Weigh(w, Tracked(Linked(ids[k]), rec, InsertAt(s, i, e), i).segs) = Weigh(w, InsertAt(s, i, e))
    <3>1. i \in 1 .. Len(InsertAt(s, i, e))
      BY <2>1, <2>5
    <3> QED BY <1>1, <2>5, <3>1, WeighTracked
  <2>8. Weigh(w, ids'[k].segs) = Weigh(w, s) + d[rec]
    BY <2>1, <2>4, <2>6, <2>7
  <2> QED BY <2>1, <2>2, <2>8 DEF Brings
<1>8. ASSUME NEW k \in Matching(rec), MergeSegments(k, rec)
      PROVE  Brings(w, d, rec)
  <2> DEFINE s == ids[k].segs
             i == PutAt(k, rec)
             j == Joins(k, rec)
             g == AddMsrToEnd(SegPut(k, rec), rec)
             e == Joined(k, rec)
             r == JoinedList(k, rec)
             at == JoinedAt(k, rec)
  <2>1. /\ i \in 1 .. Len(s) /\ j \in 1 .. Len(s) /\ i # j
        /\ SegPut(k, rec) \in Segment /\ s[j] \in Segment
        /\ OnlyID(k) /\ Stored(rec)
        /\ \/ /\ at \in 1 .. Len(r) /\ r \in Seq(Segment)
              /\ ids'[k] = Tracked(Unlinked(ids[k]), rec, r, at)
           \/ ids'[k] = [ids[k] EXCEPT !.segs[i] = g]
    BY <1>8, MergeLeaves
  <2>2. k \in Keys /\ k[1] = rec.sid /\ SegPut(k, rec) = s[i] /\ e = AddSegToSeg(g, s[j])
    BY DEF Matching, FindID, SegPut, Joined
  <2>3. s \in Seq(Segment)
    BY <1>1, <2>2
  <2>4. g \in Segment /\ w[g] = w[s[i]] + d[rec] /\ w[s[i]] \in Int /\ w[s[j]] \in Int
    <3>1. g \in Segment
      BY <2>1, SegmentFields
    <3>2. w[AddMsrToEnd(s[i], rec)] = w[s[i]] + d[rec]
      BY <2>1, <2>2 DEF Additive
    <3> QED BY <1>2, <2>1, <2>2, <3>1, <3>2
  <2>5. r = RemoveAt(ReplaceAt(s, i, e), j)
    BY DEF JoinedList
  <2> HIDE DEF i, j, g, e, r, at
  <2>6. e \in Segment /\ w[e] = w[g] + w[s[j]]
    BY <2>1, <2>2, <2>4, MergedFields DEF Additive
  <2>7. Weigh(w, s) \in Int
    BY <1>2, <2>3, WeighIsSum
  <2>8. CASE at \in 1 .. Len(r) /\ r \in Seq(Segment) /\ ids'[k] = Tracked(Unlinked(ids[k]), rec, r, at)
    <3> DEFINE a == ReplaceAt(s, i, e)
    <3>1. a \in Seq(Segment) /\ Len(a) = Len(s) /\ a[j] = s[j]
      <4>1. a \in Seq(Segment) /\ Len(a) = Len(s)
        <5> HIDE DEF s
        <5> QED BY <2>1, <2>3, <2>6, SegmentReplaced
      <4>2. a[j] = s[j]
        BY <2>1, <2>3, LenProperties DEF ReplaceAt
      <4> QED BY <4>1, <4>2
    <3>2. Weigh(w, a) = Weigh(w, s) - w[s[i]] + w[e]
      BY <1>2, <2>1, <2>3, <2>6, WeighReplaced, SMTT(40)
    <3>3. r = RemoveAt(a, j)
      BY <2>5
    <3> HIDE DEF a
    <3>4. Weigh(w, RemoveAt(a, j)) = Weigh(w, a) - w[a[j]]
      <4>1. j \in 1 .. Len(a)
        BY <2>1, <3>1
      <4> QED BY <1>2, <3>1, <4>1, WeighRemoved
    <3>5. Weigh(w, Tracked(Unlinked(ids[k]), rec, r, at).segs) = Weigh(w, r)
      BY <1>1, <2>8, WeighTracked
    <3>6. Weigh(w, ids'[k].segs) = Weigh(w, a) - w[s[j]]
      BY <2>8, <3>1, <3>3, <3>4, <3>5
    <3>7. Weigh(w, ids'[k].segs) = Weigh(w, s) + d[rec]
      BY <1>2, <2>4, <2>6, <2>7, <3>2, <3>6
    <3> QED BY <2>1, <2>2, <3>7 DEF Brings
  <2>9. CASE ids'[k] = [ids[k] EXCEPT !.segs[i] = g]
    <3>1. ids'[k].segs = ReplaceAt(s, i, g)
      <4>1. ids[k] \in TraceID
        BY <2>2 DEF IInv, TypeOK
      <4> QED BY <2>9, <4>1 DEF ReplaceAt, TraceID
    <3>2. Weigh(w, ReplaceAt(s, i, g)) = Weigh(w, s) - w[s[i]] + w[g]
      <4>1. i \in 1 .. Len(s) /\ g \in Segment
        BY <2>1, <2>4
      <4> HIDE DEF s
      <4> QED BY <1>2, <2>3, <4>1, WeighReplaced
    <3>3. Weigh(w, ids'[k].segs) = Weigh(w, s) + d[rec]
      BY <1>2, <2>4, <2>7, <3>1, <3>2
    <3> QED BY <2>1, <2>2, <3>3 DEF Brings
  <2> QED BY <2>1, <2>8, <2>9
<1>9. ASSUME NEW k \in Matching(rec), RejectMsr(k, rec)
      PROVE  UNCHANGED listVars
  BY <1>9 DEF RejectMsr
<1> QED BY <1>5, <1>6, <1>7, <1>8, <1>9 DEF AddMsr

-----------------------------------------------------------------------------
(* How often a sample occurs.                                              *)

LEMMA OccurrencesCount ==
  ASSUME NEW x, NEW S, NEW a \in Seq(S)
  PROVE  /\ IsFiniteSet({i \in 1 .. Len(a) : a[i] = x})
         /\ Occurrences(x, a) = Cardinality({i \in 1 .. Len(a) : a[i] = x})
<1>1. DOMAIN a = 1 .. Len(a) /\ Len(a) \in Nat
  OBVIOUS
<1>2. IsFiniteSet(1 .. Len(a))
  BY <1>1, FS_Interval
<1>3. IsFiniteSet({i \in 1 .. Len(a) : a[i] = x})
  BY <1>2, FS_Subset
<1>4. Occurrences(x, a) = Cardinality({i \in 1 .. Len(a) : a[i] = x})
  BY <1>1 DEF Occurrences
<1> QED BY <1>3, <1>4

LEMMA OccurrencesNat ==
  ASSUME NEW x, NEW S, NEW a \in Seq(S)
  PROVE  Occurrences(x, a) \in Nat
<1> DEFINE C == {i \in 1 .. Len(a) : a[i] = x}
<1>1. IsFiniteSet(C) /\ Occurrences(x, a) = Cardinality(C)
  BY OccurrencesCount
<1> HIDE DEF C
<1> QED BY <1>1, FS_CardinalityType

(* Samples put together occur as often as they did apart. *)
LEMMA OccurrencesAdd ==
  ASSUME NEW x, NEW S, NEW a \in Seq(S), NEW b \in Seq(S)
  PROVE  Occurrences(x, a \o b) = Occurrences(x, a) + Occurrences(x, b)
<1> DEFINE c == a \o b
           n == Len(a)
           A == {i \in 1 .. Len(a) : a[i] = x}
           B == {i \in 1 .. Len(b) : b[i] = x}
           C == {i \in 1 .. Len(c) : c[i] = x}
           D == {i \in 1 .. Len(c) : i > n /\ c[i] = x}
           f == [i \in B |-> i + n]
<1>1. /\ c \in Seq(S) /\ Len(c) = n + Len(b) /\ n \in Nat /\ Len(b) \in Nat
      /\ \A i \in 1 .. n + Len(b) : c[i] = IF i <= n THEN a[i] ELSE b[i - n]
  BY ConcatProperties
<1>2. /\ IsFiniteSet(A) /\ Occurrences(x, a) = Cardinality(A)
      /\ IsFiniteSet(B) /\ Occurrences(x, b) = Cardinality(B)
      /\ IsFiniteSet(C) /\ Occurrences(x, c) = Cardinality(C)
  BY <1>1, OccurrencesCount
<1> HIDE DEF c
<1>3. C = A \cup D /\ A \cap D = {}
  BY <1>1
<1>4. f \in Bijection(B, D)
  <2>1. f \in [B -> D]
    BY <1>1
  <2>2. \A i, j \in B : f[i] = f[j] => i = j
    OBVIOUS
  <2>3. ASSUME NEW j \in D PROVE \E i \in B : f[i] = j
    <3>1. j - n \in B /\ f[j - n] = j
      BY <1>1
    <3> QED BY <3>1
  <2> HIDE DEF f, B, D
  <2>4. f \in Injection(B, D)
    BY <2>1, <2>2 DEF Injection, IsInjective
  <2>5. f \in Surjection(B, D)
    BY <2>1, <2>3 DEF Surjection
  <2> QED BY <2>4, <2>5 DEF Bijection
<1> HIDE DEF A, B, C, D, f
<1>5. IsFiniteSet(D) /\ Cardinality(D) = Cardinality(B)
  <2>1. f \in Surjection(B, D)
    BY <1>4 DEF Bijection
  <2>2. IsFiniteSet(D)
    BY <1>2, <2>1, FS_Surjection
  <2>3. Cardinality(B) = Cardinality(D)
    BY <1>2, <1>4, FS_Bijection DEF ExistsBijection
  <2> QED BY <2>2, <2>3
<1>6. Cardinality(C) = Cardinality(A) + Cardinality(D) - Cardinality({})
  BY <1>2, <1>3, <1>5, FS_Union
<1>7. Cardinality({}) = 0 /\ Cardinality(A) \in Nat /\ Cardinality(D) \in Nat
  BY <1>2, <1>5, FS_EmptySet, FS_CardinalityType
<1> QED BY <1>2, <1>5, <1>6, <1>7 DEF c

(* How often the segments hold sample x, and how often the records do. *)
SegmentHolds(x) == [s \in Segment |-> Occurrences(x, s.data)]
RecordHolds(x) == [rec \in Records |-> Occurrences(x, rec.data)]

(* A segment holds the samples of the parts it is made of. *)
LEMMA HoldsAdditive ==
  ASSUME NEW x, now \in Nat
  PROVE  Additive(SegmentHolds(x), RecordHolds(x))
<1> DEFINE w == SegmentHolds(x)
           d == RecordHolds(x)
<1>1. \A s \in Segment : s.data \in Seq(Int) /\ w[s] = Occurrences(x, s.data)
  BY DEF Segment, SegmentHolds
<1>2. \A rec \in Records : rec.data \in Seq(Int) /\ d[rec] = Occurrences(x, rec.data)
  BY RecordFields DEF RecordType, RecordHolds
<1>3. w \in [Segment -> Int] /\ d \in [Records -> Int]
  <2>1. ASSUME NEW s \in Segment PROVE Occurrences(x, s.data) \in Int
    <3>1. s.data \in Seq(Int)
      BY <1>1
    <3> QED BY <3>1, OccurrencesNat
  <2>2. ASSUME NEW rec \in Records PROVE Occurrences(x, rec.data) \in Int
    <3>1. rec.data \in Seq(Int)
      BY <1>2
    <3> QED BY <3>1, OccurrencesNat
  <2> QED BY <2>1, <2>2 DEF SegmentHolds, RecordHolds
<1> HIDE DEF w, d
<1>4. ASSUME NEW s \in Segment PROVE w[Stamp(s)] = w[s]
  <2>1. Stamp(s) \in Segment /\ Stamp(s).data = s.data
    BY StampFields DEF Stamp, Segment
  <2> QED BY <1>1, <2>1
<1>5. ASSUME NEW rec \in Records PROVE w[Msr2Seg(rec)] = d[rec]
  <2>1. Msr2Seg(rec) \in Segment
    <3>1. rec \in RecordType /\ EndTime(rec) \in Int /\ RecordPtrs(rec) \in Seq(Records)
      BY RecordFields
    <3> QED BY <3>1 DEF RecordType, Msr2Seg, Segment
  <2>2. Msr2Seg(rec).data = rec.data
    BY DEF Msr2Seg
  <2> QED BY <1>1, <1>2, <2>1, <2>2
<1>6. ASSUME NEW rec \in Records, NEW s \in Segment
      PROVE  w[AddMsrToEnd(s, rec)] = w[s] + d[rec] /\ w[AddMsrToStart(s, rec)] = w[s] + d[rec]
  <2>1. AddMsrToEnd(s, rec) \in Segment /\ AddMsrToStart(s, rec) \in Segment
    BY SegmentFields
  <2>2. AddMsrToEnd(s, rec).data = s.data \o rec.data /\ AddMsrToStart(s, rec).data = rec.data \o s.data
    BY DEF AddMsrToEnd, AddMsrToStart, Segment
  <2>3. /\ Occurrences(x, s.data \o rec.data) = w[s] + d[rec]
        /\ Occurrences(x, rec.data \o s.data) = d[rec] + w[s]
    BY <1>1, <1>2, OccurrencesAdd
  <2>4. w[s] \in Int /\ d[rec] \in Int
    BY <1>3
  <2>5. /\ w[AddMsrToEnd(s, rec)] = Occurrences(x, s.data \o rec.data)
        /\ w[AddMsrToStart(s, rec)] = Occurrences(x, rec.data \o s.data)
    BY <1>1, <2>1, <2>2
  <2> QED BY <2>3, <2>4, <2>5
<1>7. ASSUME NEW s1 \in Segment, NEW s2 \in Segment
      PROVE  w[AddSegToSeg(s1, s2)] = w[s1] + w[s2]
  <2>1. AddSegToSeg(s1, s2) \in Segment
    BY MergedFields
  <2>2. AddSegToSeg(s1, s2).data = s1.data \o s2.data
    BY DEF AddSegToSeg, Segment
  <2>3. Occurrences(x, s1.data \o s2.data) = w[s1] + w[s2]
    BY <1>1, OccurrencesAdd
  <2> QED BY <1>1, <2>1, <2>2, <2>3
<1> QED BY <1>3, <1>4, <1>5, <1>6, <1>7 DEF Additive, w, d

-----------------------------------------------------------------------------
(* What is held and stored for a source identifier.                        *)

KeysOf(sid) == {k \in Keys : k[1] = sid}
RecordsOf(sid) == {rec \in Records : rec.sid = sid}

(* HeldFor and StoredFor, of any list and any history. *)
HeldIn(list, x, sid) ==
  SumFunction([k \in KeysOf(sid) |->
                 SumFunction([i \in DOMAIN list[k].segs |-> Occurrences(x, list[k].segs[i].data)])])
StoredIn(hist, x, sid) ==
  SumFunction([rec \in RecordsOf(sid) |-> hist[rec] * Occurrences(x, rec.data)])

(* How often each ID holds sample x, and how often each record brought it. *)
Load(x, list) == [k \in Keys |-> Weigh(SegmentHolds(x), list[k].segs)]
Brought(x, hist) == [rec \in Records |-> hist[rec] * Occurrences(x, rec.data)]

LEMMA FiniteParts ==
  ASSUME IsFiniteSet(Records), NEW sid
  PROVE  IsFiniteSet(Keys) /\ IsFiniteSet(KeysOf(sid)) /\ IsFiniteSet(RecordsOf(sid))
<1> DEFINE f == [rec \in Records |-> KeyOf(rec)]
<1>1. f \in Surjection(Records, Keys)
  BY DEF Surjection, Keys
<1> HIDE DEF f
<1>2. IsFiniteSet(Keys)
  BY <1>1, FS_Surjection
<1>3. KeysOf(sid) \subseteq Keys /\ RecordsOf(sid) \subseteq Records
  BY DEF KeysOf, RecordsOf
<1> QED BY <1>2, <1>3, FS_Subset

LEMMA LoadOfID ==
  ASSUME NEW x, NEW list \in [Keys -> TraceID], NEW k \in Keys
  PROVE  /\ Load(x, list)[k] = Weigh(SegmentHolds(x), list[k].segs)
         /\ Load(x, list)[k] \in Int
         /\ SegmentHolds(x) \in [Segment -> Int]
         /\ list[k].segs \in Seq(Segment)
<1>1. list[k].segs \in Seq(Segment)
  BY DEF TraceID
<1>2. SegmentHolds(x) \in [Segment -> Int]
  <2>1. ASSUME NEW s \in Segment PROVE Occurrences(x, s.data) \in Int
    <3>1. s.data \in Seq(Int)
      BY DEF Segment
    <3> QED BY <3>1, OccurrencesNat
  <2> QED BY <2>1 DEF SegmentHolds
<1>3. Weigh(SegmentHolds(x), list[k].segs) \in Int
  BY <1>1, <1>2, WeighIsSum
<1> QED BY <1>1, <1>2, <1>3 DEF Load

LEMMA HeldIsSum ==
  ASSUME IsFiniteSet(Records), NEW x, NEW sid, NEW list \in [Keys -> TraceID]
  PROVE  /\ HeldIn(list, x, sid) = SumOn(Load(x, list), KeysOf(sid))
         /\ Integral(Load(x, list), KeysOf(sid))
         /\ HeldIn(list, x, sid) \in Int
<1> DEFINE w == SegmentHolds(x)
           f == Load(x, list)
           K == KeysOf(sid)
           In(k) == SumFunction([i \in DOMAIN list[k].segs |-> Occurrences(x, list[k].segs[i].data)])
<1>1. K \subseteq Keys /\ IsFiniteSet(K)
  BY FiniteParts DEF KeysOf
<1>2. ASSUME NEW k \in K PROVE In(k) = f[k] /\ f[k] \in Int
  <2> DEFINE s == list[k].segs
  <2>1. k \in Keys
    BY <1>1
  <2>2. s \in Seq(Segment) /\ f[k] = Weigh(w, s) /\ f[k] \in Int
    BY <2>1, LoadOfID
  <2>3. ASSUME NEW i \in DOMAIN s PROVE Occurrences(x, s[i].data) = w[s[i]]
    <3>1. s[i] \in Segment
      BY <2>2, ElementOfSeq
    <3> QED BY <3>1 DEF SegmentHolds
  <2>4. [i \in DOMAIN s |-> Occurrences(x, s[i].data)] = [i \in DOMAIN s |-> w[s[i]]]
    BY <2>3
  <2> QED BY <2>2, <2>4 DEF Weigh
<1> HIDE DEF f, In
<1>3. [k \in K |-> In(k)] = [k \in K |-> f[k]]
  BY <1>2
<1>4. HeldIn(list, x, sid) = SumFunction([k \in K |-> In(k)])
  BY DEF HeldIn, In
<1>5. HeldIn(list, x, sid) = SumOn(f, K)
  BY <1>3, <1>4 DEF SumOn
<1> HIDE DEF K
<1>6. Integral(f, K)
  BY <1>1, <1>2 DEF Integral
<1>7. SumOn(f, K) \in Int
  BY <1>6, SumOnInt
<1> QED BY <1>5, <1>6, <1>7 DEF f, K

(* The lists l and m differ in the ID of key k only. *)
Differ(l, m, k) == \A j \in Keys : j # k => m[j] = l[j]

LEMMA HeldChanges ==
  ASSUME IsFiniteSet(Records), NEW x, NEW sid, NEW l \in [Keys -> TraceID],
         NEW m \in [Keys -> TraceID], NEW k \in Keys, Differ(l, m, k)
  PROVE  HeldIn(m, x, sid) = HeldIn(l, x, sid)
           + (IF k[1] = sid THEN Load(x, m)[k] - Load(x, l)[k] ELSE 0)
<1> DEFINE f == Load(x, l)
           g == Load(x, m)
           K == KeysOf(sid)
<1>1. /\ HeldIn(l, x, sid) = SumOn(f, K) /\ Integral(f, K)
      /\ HeldIn(m, x, sid) = SumOn(g, K) /\ Integral(g, K)
      /\ SumOn(f, K) \in Int
  BY HeldIsSum
<1>2. \A j \in Keys : j # k => g[j] = f[j]
  BY DEF Differ, Load
<1>3. f[k] \in Int /\ g[k] \in Int
  BY LoadOfID
<1>4. K \subseteq Keys /\ (k \in K <=> k[1] = sid)
  BY DEF KeysOf
<1> HIDE DEF f, g, K
<1>5. CASE k[1] = sid
  <2>1. k \in K /\ Agree(f, g, K \ {k})
    BY <1>2, <1>4, <1>5 DEF Agree
  <2>2. SumOn(g, K) = SumOn(f, K) - f[k] + g[k]
    BY <1>1, <2>1, SumOnChange
  <2>3. SumOn(g, K) = SumOn(f, K) + (g[k] - f[k])
    BY <1>1, <1>3, <2>2
  <2> QED BY <1>1, <1>5, <2>3 DEF f, g
<1>6. CASE k[1] # sid
  <2>1. Agree(f, g, K)
    BY <1>2, <1>4, <1>6 DEF Agree
  <2>2. SumOn(g, K) = SumOn(f, K)
    BY <2>1, SumOnSame
  <2> QED BY <1>1, <1>6, <2>2
<1> QED BY <1>5, <1>6

LEMMA StoredIsSum ==
  ASSUME IsFiniteSet(Records), NEW x, NEW sid, NEW hist \in [Records -> Nat]
  PROVE  /\ StoredIn(hist, x, sid) = SumOn(Brought(x, hist), RecordsOf(sid))
         /\ Integral(Brought(x, hist), RecordsOf(sid))
         /\ StoredIn(hist, x, sid) \in Int
<1> DEFINE f == Brought(x, hist)
           R == RecordsOf(sid)
<1>1. R \subseteq Records /\ IsFiniteSet(R)
  BY FiniteParts DEF RecordsOf
<1>2. ASSUME NEW rec \in R PROVE f[rec] = hist[rec] * Occurrences(x, rec.data) /\ f[rec] \in Int
  <2>1. rec \in Records /\ rec.data \in Seq(Int)
    BY <1>1, RecordFields DEF RecordType
  <2>2. hist[rec] \in Int /\ Occurrences(x, rec.data) \in Int
    BY <2>1, OccurrencesNat
  <2>3. f[rec] = hist[rec] * Occurrences(x, rec.data)
    BY <2>1 DEF Brought
  <2>4. \A a, b \in Int : a * b \in Int
    OBVIOUS
  <2> QED BY <2>2, <2>3, <2>4
<1> HIDE DEF f
<1>3. [rec \in R |-> hist[rec] * Occurrences(x, rec.data)] = [rec \in R |-> f[rec]]
  BY <1>2
<1>4. StoredIn(hist, x, sid) = SumOn(f, R)
  BY <1>3 DEF StoredIn, SumOn
<1> HIDE DEF R
<1>5. Integral(f, R)
  BY <1>1, <1>2 DEF Integral
<1>6. SumOn(f, R) \in Int
  BY <1>5, SumOnInt
<1> QED BY <1>4, <1>5, <1>6 DEF f, R

(* The record is stored once more. *)
Counts(hist, next, rec) == next = [hist EXCEPT ![rec] = @ + 1]

LEMMA StoredChanges ==
  ASSUME IsFiniteSet(Records), NEW x, NEW sid, NEW hist \in [Records -> Nat], NEW rec \in Records,
         NEW next \in [Records -> Nat], Counts(hist, next, rec)
  PROVE  StoredIn(next, x, sid) = StoredIn(hist, x, sid)
           + (IF rec.sid = sid THEN Occurrences(x, rec.data) ELSE 0)
<1> DEFINE f == Brought(x, hist)
           g == Brought(x, next)
           R == RecordsOf(sid)
           o == Occurrences(x, rec.data)
<1>1. /\ StoredIn(hist, x, sid) = SumOn(f, R) /\ Integral(f, R)
      /\ StoredIn(next, x, sid) = SumOn(g, R) /\ Integral(g, R)
      /\ SumOn(f, R) \in Int
  BY StoredIsSum
<1>2. \A r \in Records : r # rec => g[r] = f[r]
  BY DEF Brought, Counts
<1>3. o \in Int
  <2>1. rec.data \in Seq(Int)
    BY RecordFields DEF RecordType
  <2> QED BY <2>1, OccurrencesNat
<1>4. f[rec] = hist[rec] * o /\ g[rec] = (hist[rec] + 1) * o /\ hist[rec] \in Int
  BY DEF Brought, Counts
<1>5. R \subseteq Records /\ (rec \in R <=> rec.sid = sid)
  BY DEF RecordsOf
<1> HIDE DEF f, g, R, o
<1>6. f[rec] \in Int /\ g[rec] = f[rec] + o
  <2>1. \A a, b \in Int : (a + 1) * b = a * b + b /\ a * b \in Int
    OBVIOUS
  <2> QED BY <1>3, <1>4, <2>1
<1>7. CASE rec.sid = sid
  <2>1. rec \in R /\ Agree(f, g, R \ {rec})
    BY <1>2, <1>5, <1>7 DEF Agree
  <2>2. SumOn(g, R) = SumOn(f, R) - f[rec] + g[rec]
    <3>1. Integral(f, R) /\ Integral(g, R) /\ rec \in R /\ Agree(f, g, R \ {rec})
      BY <1>1, <2>1
    <3> QED BY <3>1, SumOnChange
  <2>3. SumOn(g, R) = SumOn(f, R) + o
    BY <1>1, <1>3, <1>6, <2>2
  <2> QED BY <1>1, <1>7, <2>3 DEF o
<1>8. CASE rec.sid # sid
  <2>1. Agree(f, g, R)
    BY <1>2, <1>5, <1>8 DEF Agree
  <2>2. SumOn(g, R) = SumOn(f, R)
    BY <2>1, SumOnSame
  <2> QED BY <1>1, <1>8, <2>2
<1> QED BY <1>7, <1>8

(* An addition keeps the balance of samples held and samples stored. *)
LEMMA AdditionBalances ==
  ASSUME IsFiniteSet(Records), IInv, IInv', KeyVersion, NEW rec \in Records, AddMsr(rec), NEW x, NEW sid
  PROVE  HeldIn(ids', x, sid) - StoredIn(added', x, sid) = HeldIn(ids, x, sid) - StoredIn(added, x, sid)
<1>1. /\ now \in Nat
      /\ ids \in [Keys -> TraceID] /\ ids' \in [Keys -> TraceID]
      /\ added \in [Records -> Nat] /\ added' \in [Records -> Nat]
  BY DEF IInv, TypeOK
<1>2. UNCHANGED listVars \/ Brings(SegmentHolds(x), RecordHolds(x), rec)
  BY <1>1, HoldsAdditive, AdditionBrings
<1>3. CASE UNCHANGED listVars
  BY <1>3 DEF listVars
<1>4. CASE Brings(SegmentHolds(x), RecordHolds(x), rec)
  <2> DEFINE w == SegmentHolds(x)
             o == Occurrences(x, rec.data)
  <2>1. PICK k \in Keys : /\ k[1] = rec.sid /\ OnlyID(k) /\ Stored(rec)
                          /\ Weigh(w, ids'[k].segs) = Weigh(w, ids[k].segs) + RecordHolds(x)[rec]
    BY <1>4 DEF Brings
  <2>2. RecordHolds(x)[rec] = o
    BY DEF RecordHolds
  <2>3. o \in Int
    <3>1. rec.data \in Seq(Int)
      BY RecordFields DEF RecordType
    <3> QED BY <3>1, OccurrencesNat
  <2>4. /\ Load(x, ids)[k] = Weigh(w, ids[k].segs) /\ Load(x, ids)[k] \in Int
        /\ Load(x, ids')[k] = Weigh(w, ids'[k].segs) /\ Load(x, ids')[k] \in Int
    BY <1>1, LoadOfID
  <2>5. Differ(ids, ids', k)
    BY <2>1 DEF OnlyID, Differ
  <2>6. HeldIn(ids', x, sid) = HeldIn(ids, x, sid)
          + (IF k[1] = sid THEN Load(x, ids')[k] - Load(x, ids)[k] ELSE 0)
    BY <1>1, <2>5, HeldChanges
  <2>7. StoredIn(added', x, sid) = StoredIn(added, x, sid) + (IF rec.sid = sid THEN o ELSE 0)
    <3>1. Counts(added, added', rec)
      BY <2>1 DEF Stored, Counts
    <3> QED BY <1>1, <3>1, StoredChanges
  <2>8. HeldIn(ids, x, sid) \in Int /\ StoredIn(added, x, sid) \in Int
    BY <1>1, HeldIsSum, StoredIsSum
  <2> HIDE DEF w, o
  <2>9. Load(x, ids')[k] - Load(x, ids)[k] = o
    BY <2>1, <2>2, <2>3, <2>4
  <2> QED BY <2>1, <2>3, <2>6, <2>7, <2>8, <2>9
<1> QED BY <1>2, <1>3, <1>4

-----------------------------------------------------------------------------
(* Theorem.                                                                *)

(* What is held is what was stored, for any sample and source identifier. *)
Balanced == \A x \in Int : \A sid \in Sids : HeldIn(ids, x, sid) = StoredIn(added, x, sid)

(* An empty list holds nothing. *)
LEMMA EmptyBalanced ==
  ASSUME IsFiniteSet(Records), ids = [k \in Keys |-> NoTraceID], added = [rec \in Records |-> 0]
  PROVE  Balanced
<1> SUFFICES ASSUME NEW x \in Int, NEW sid \in Sids
             PROVE  HeldIn(ids, x, sid) = 0 /\ StoredIn(added, x, sid) = 0
  BY DEF Balanced
<1>1. NoTraceID \in TraceID /\ NoTraceID.segs = <<>>
  BY DEF NoTraceID, TraceID, Version
<1>2. ids \in [Keys -> TraceID] /\ added \in [Records -> Nat]
  BY <1>1
<1>3. ASSUME NEW k \in KeysOf(sid) PROVE Load(x, ids)[k] = 0
  <2>1. k \in Keys /\ ids[k].segs = <<>>
    BY <1>1 DEF KeysOf
  <2>2. Load(x, ids)[k] = Weigh(SegmentHolds(x), <<>>) /\ SegmentHolds(x) \in [Segment -> Int]
    <3> DEFINE s == ids[k].segs
    <3>1. Load(x, ids)[k] = Weigh(SegmentHolds(x), s) /\ SegmentHolds(x) \in [Segment -> Int]
      BY <1>2, <2>1, LoadOfID
    <3>2. s = <<>>
      BY <2>1
    <3> HIDE DEF s
    <3> QED BY <3>1, <3>2
  <2> QED BY <2>2, WeighEmpty
<1>4. ASSUME NEW rec \in RecordsOf(sid) PROVE Brought(x, added)[rec] = 0
  <2>1. rec \in Records /\ rec.data \in Seq(Int)
    BY RecordFields DEF RecordsOf, RecordType
  <2>2. Occurrences(x, rec.data) \in Int /\ added[rec] = 0
    BY <2>1, OccurrencesNat
  <2>3. Brought(x, added)[rec] = added[rec] * Occurrences(x, rec.data)
    BY <2>1 DEF Brought
  <2> QED BY <2>2, <2>3
<1>5. HeldIn(ids, x, sid) = SumOn(Load(x, ids), KeysOf(sid))
  BY <1>2, HeldIsSum
<1>6. StoredIn(added, x, sid) = SumOn(Brought(x, added), RecordsOf(sid))
  BY <1>2, StoredIsSum
<1>7. IsFiniteSet(KeysOf(sid)) /\ IsFiniteSet(RecordsOf(sid))
  BY FiniteParts
<1>8. SumOn(Load(x, ids), KeysOf(sid)) = 0
  <2> DEFINE f == Load(x, ids)
             K == KeysOf(sid)
  <2>1. IsFiniteSet(K) /\ \A k \in K : f[k] = 0
    BY <1>3, <1>7
  <2> HIDE DEF f, K
  <2>2. SumOn(f, K) = 0
    BY <2>1, SumOnZero
  <2> QED BY <2>2 DEF f, K
<1>9. SumOn(Brought(x, added), RecordsOf(sid)) = 0
  <2> DEFINE f == Brought(x, added)
             R == RecordsOf(sid)
  <2>1. IsFiniteSet(R) /\ \A r \in R : f[r] = 0
    BY <1>4, <1>7
  <2> HIDE DEF f, R
  <2>2. SumOn(f, R) = 0
    BY <2>1, SumOnZero
  <2> QED BY <2>2 DEF f, R
<1> QED BY <1>5, <1>6, <1>8, <1>9

LEMMA BalanceStep ==
  ASSUME IsFiniteSet(Records), IInv, KeyVersion, Balanced, [Next]_vars
  PROVE  KeyVersion' /\ Balanced'
<1>1. IInv'
  BY NextKeeps
<1>2. CASE UNCHANGED listVars
  BY <1>2 DEF listVars, KeyVersion, InList, Balanced
<1>3. ASSUME NEW rec \in Records, AddMsr(rec) PROVE KeyVersion' /\ Balanced'
  <2>1. KeyVersion'
    BY <1>3, KeyVersionKept
  <2>2. ASSUME NEW x \in Int, NEW sid \in Sids
        PROVE  HeldIn(ids', x, sid) = StoredIn(added', x, sid)
    <3>1. HeldIn(ids', x, sid) - StoredIn(added', x, sid) = HeldIn(ids, x, sid) - StoredIn(added, x, sid)
      BY <1>1, <1>3, AdditionBalances
    <3>2. HeldIn(ids, x, sid) = StoredIn(added, x, sid)
      BY DEF Balanced
    <3>3. /\ HeldIn(ids, x, sid) \in Int /\ StoredIn(added, x, sid) \in Int
          /\ HeldIn(ids', x, sid) \in Int /\ StoredIn(added', x, sid) \in Int
      BY <1>1, HeldIsSum, StoredIsSum DEF IInv, TypeOK
    <3> QED BY <3>1, <3>2, <3>3
  <2> QED BY <2>1, <2>2 DEF Balanced
<1> QED BY <1>2, <1>3, StepAdds

(* mstl3_addmsr() loses and doubles no sample: for every source identifier *)
(* the segments hold a sample exactly as often as the records stored       *)
(* brought it, however segments were extended, inserted, merged, moved or  *)
(* left by a merge that failed half way.                                   *)
THEOREM SamplesAreConserved ==
  ASSUME IsFiniteSet(Records)
  PROVE  Spec => []SamplesConserved
<1>1. Init => IInv /\ KeyVersion /\ Balanced
  <2> SUFFICES ASSUME Init PROVE IInv /\ KeyVersion /\ Balanced
    OBVIOUS
  <2>1. IInv
    <3>1. NoTraceID \in TraceID /\ NoTraceID.numsegments = Len(NoTraceID.segs)
      BY DEF NoTraceID, TraceID, Version
    <3>2. \A k \in Keys : IDOK(ids[k])
      BY <3>1 DEF Init, IDOK
    <3> QED BY <3>1, <3>2, IInvByID DEF Init
  <2>2. KeyVersion
    BY DEF Init, KeyVersion, InList, NoTraceID
  <2>3. Balanced
    BY EmptyBalanced DEF Init
  <2> QED BY <2>1, <2>2, <2>3
<1>2. IInv /\ KeyVersion /\ Balanced /\ [Next]_vars => (IInv /\ KeyVersion /\ Balanced)'
  BY NextKeeps, BalanceStep
<1>3. Balanced => SamplesConserved
  <2> SUFFICES ASSUME Balanced, NEW rec \in Records, NEW x \in Range(rec.data)
               PROVE  HeldFor(x, rec.sid) = StoredFor(x, rec.sid)
    BY DEF SamplesConserved
  <2>1. rec.sid \in Sids /\ rec.data \in Seq(Int)
    BY RecordFields DEF RecordType
  <2>2. x \in Int
    BY <2>1 DEF Range
  <2>3. HeldIn(ids, x, rec.sid) = StoredIn(added, x, rec.sid)
    BY <2>1, <2>2 DEF Balanced
  <2> QED BY <2>3 DEF HeldFor, StoredFor, HeldIn, StoredIn, KeysOf, RecordsOf
<1> QED BY <1>1, <1>2, <1>3, PTL DEF Spec

-----------------------------------------------------------------------------
(* Record lists.                                                           *)

(* The samples of the records in a list, one after the other. *)
DataOf(rl) == FoldLeft(LAMBDA d, rec : d \o rec.data, <<>>, rl)

(* h[m] are the samples of the first m records. *)
DecodedUpTo(rl, h) ==
  /\ h \in [0 .. Len(rl) -> Seq(Int)]
  /\ h[0] = <<>> /\ h[Len(rl)] = DataOf(rl)
  /\ \A m \in 1 .. Len(rl) : h[m] = h[m - 1] \o rl[m].data

(* The greatest element of a set, taken out first. *)
LEMMA GreatestOfFirst ==
  ASSUME NEW m \in Nat, m # 0
  PROVE  Max(1 .. m) = m /\ (1 .. m) \ {m} = 1 .. m - 1
<1>1. m \in 1 .. m /\ \A y \in 1 .. m : m >= y
  OBVIOUS
<1>2. Max(1 .. m) \in 1 .. m /\ \A y \in 1 .. m : Max(1 .. m) >= y
  BY <1>1 DEF Max
<1>3. Max(1 .. m) = m
  BY <1>1, <1>2
<1> QED BY <1>3

(* A set of positions that is not empty has a greatest element. *)
LEMMA GreatestIn ==
  ASSUME NEW n \in Nat, NEW s \in SUBSET (1 .. n), s # {}
  PROVE  Max(s) \in s
<1>1. PICK z \in s : TRUE
  OBVIOUS
<1>2. z \in 1 .. n
  BY <1>1
<1>3. {d \in 0 .. n : n - d \in s} # {}
  <2>1. n - z \in 0 .. n /\ n - (n - z) = z
    BY <1>2
  <2> QED BY <2>1, <1>1
<1>4. PICK d \in {d \in 0 .. n : n - d \in s} : \A e \in {d1 \in 0 .. n : n - d1 \in s} : d <= e
  <2> DEFINE D == {d1 \in 0 .. n : n - d1 \in s}
  <2>1. D \in SUBSET Nat /\ D # {}
    BY <1>3
  <2> HIDE DEF D
  <2>2. \E d1 \in D : \A e \in D : d1 <= e
    BY <2>1, LeastNat
  <2> QED BY <2>2 DEF D
<1>5. \A y \in s : n - d >= y
  <2> SUFFICES ASSUME NEW y \in s PROVE n - d >= y
    OBVIOUS
  <2>1. y \in 1 .. n
    OBVIOUS
  <2>2. n - y \in 0 .. n /\ n - (n - y) = y
    BY <2>1
  <2>3. d <= n - y
    BY <2>2, <1>4
  <2> QED BY <2>1, <2>3
<1>6. n - d \in s
  BY <1>4
<1> QED BY <1>5, <1>6 DEF Max

(* Folding a record list takes the last record out first, so it yields    *)
(* what putting the records behind each other one by one does.             *)
LEMMA DataUnfolds ==
  ASSUME NEW rl \in Seq(RecordType)
  PROVE  \E h : DecodedUpTo(rl, h)
<1> DEFINE n == Len(rl)
           S == DOMAIN rl
           V == Seq(Int)
           c == [s \in SUBSET S |-> Max(s)]
           F == [i \in S |-> [v \in V |-> v \o rl[i].data]]
           It(g) == g = [s \in SUBSET S |-> IF s = {} THEN <<>> ELSE g[s \ {Max(s)}] \o rl[Max(s)].data]
           iter == CHOOSE g : It(g)
<1>1. n \in Nat /\ S = 1 .. n /\ IsFiniteSet(S)
  BY LenProperties, FS_Interval
<1>2. \A i \in S : rl[i].data \in V
  <2>1. \A i \in 1 .. Len(rl) : rl[i] \in RecordType
    BY ElementOfSeq
  <2>2. \A rec \in RecordType : rec.data \in Seq(Int)
    BY DEF RecordType
  <2> QED BY <2>1, <2>2, <1>1
<1>3. \A s \in SUBSET S : s # {} => Max(s) \in s
  BY <1>1, GreatestIn
<1>4. F \in [S -> [V -> V]]
  <2>1. ASSUME NEW i \in S, NEW v \in V PROVE v \o rl[i].data \in V
    BY <1>2, ConcatProperties
  <2> HIDE DEF V
  <2> QED BY <2>1
<1>5. PICK g \in [SUBSET S -> V] : Folded(g, S, <<>>, F, c)
  <2>1. Picks(c, S)
    BY <1>3 DEF Picks
  <2>2. <<>> \in V
    OBVIOUS
  <2> HIDE DEF c, F, V, S
  <2> QED BY <1>1, <1>4, <2>1, <2>2, FoldExists
<1>6. ASSUME NEW s \in SUBSET S
      PROVE  g[s] = IF s = {} THEN <<>> ELSE g[s \ {Max(s)}] \o rl[Max(s)].data
  <2>1. CASE s = {}
    BY <2>1, <1>5 DEF Folded
  <2>2. CASE s # {}
    <3>1. Max(s) \in S /\ c[s] = Max(s) /\ s \ {Max(s)} \in SUBSET S
      BY <2>2, <1>3
    <3>2. g[s \ {Max(s)}] \in V
      BY <3>1, <1>5
    <3>3. g[s] = F[c[s]][g[s \ {c[s]}]]
      BY <2>2, <1>5 DEF Folded
    <3> HIDE DEF V
    <3> QED BY <2>2, <3>1, <3>2, <3>3
  <2> QED BY <2>1, <2>2
<1>7. It(iter)
  <2>1. It(g)
    BY <1>5, <1>6
  <2> HIDE DEF It
  <2> QED BY <2>1
<1>8. DataOf(rl) = iter[S]
  BY DEF DataOf, FoldLeft, MapThenFoldSet
<1>9. \A s \in SUBSET S : iter[s] = IF s = {} THEN <<>> ELSE iter[s \ {Max(s)}] \o rl[Max(s)].data
  <2> HIDE DEF iter
  <2> QED BY <1>7
<1> DEFINE h == [m \in 0 .. n |-> g[1 .. m]]
           A == {m \in Nat : m <= n => iter[1 .. m] = g[1 .. m]}
<1> HIDE DEF iter, c, F
<1>10. 0 \in A /\ h[0] = <<>>
  <2>1. 1 .. 0 = {} /\ {} \in SUBSET S
    OBVIOUS
  <2>2. g[{}] = <<>> /\ iter[{}] = <<>>
    BY <2>1, <1>6, <1>9
  <2>3. h[0] = g[1 .. 0]
    BY <1>1
  <2> QED BY <2>1, <2>2, <2>3
<1>11. ASSUME NEW m \in 1 .. n
       PROVE  /\ g[1 .. m] = g[1 .. m - 1] \o rl[m].data
              /\ iter[1 .. m] = iter[1 .. m - 1] \o rl[m].data
  <2>1. m \in Nat /\ m # 0 /\ 1 .. m \in SUBSET S /\ 1 .. m # {}
    <3>1. \A l \in Nat : m \in 1 .. l => m \in Nat /\ m # 0 /\ 1 .. m \in SUBSET (1 .. l) /\ m \in 1 .. m
      OBVIOUS
    <3> QED BY <3>1, <1>1
  <2>2. Max(1 .. m) = m /\ (1 .. m) \ {m} = 1 .. m - 1
    BY <2>1, GreatestOfFirst
  <2> QED BY <2>1, <2>2, <1>6, <1>9
<1>12. \A m \in Nat : m \in A
  <2>1. ASSUME NEW m \in Nat, m \in A PROVE m + 1 \in A
    <3> SUFFICES ASSUME m + 1 <= n PROVE iter[1 .. m + 1] = g[1 .. m + 1]
      OBVIOUS
    <3>1. m + 1 \in 1 .. n /\ (m + 1) - 1 = m /\ m <= n
      BY <1>1
    <3>2. iter[1 .. m] = g[1 .. m]
      BY <2>1, <3>1
    <3> QED BY <3>1, <3>2, <1>11
  <2> HIDE DEF A
  <2> QED BY <2>1, <1>10, AllNat
<1>13. h[n] = DataOf(rl)
  BY <1>1, <1>8, <1>12
<1>14. h \in [0 .. n -> V]
  <2>1. \A m \in 0 .. n : 1 .. m \in SUBSET S
    BY <1>1
  <2> HIDE DEF V
  <2> QED BY <2>1, <1>5
<1>15. \A m \in 1 .. n : h[m] = h[m - 1] \o rl[m].data
  <2> SUFFICES ASSUME NEW m \in 1 .. n PROVE h[m] = h[m - 1] \o rl[m].data
    OBVIOUS
  <2>1. m \in 0 .. n /\ m - 1 \in 0 .. n
    BY <1>1
  <2>2. h[m] = g[1 .. m] /\ h[m - 1] = g[1 .. m - 1]
    BY <2>1
  <2> HIDE DEF h
  <2> QED BY <2>2, <1>11
<1> QED BY <1>10, <1>13, <1>14, <1>15 DEF DecodedUpTo

LEMMA DataTyped ==
  ASSUME NEW rl \in Seq(RecordType)
  PROVE  DataOf(rl) \in Seq(Int)
<1>1. PICK h : DecodedUpTo(rl, h)
  BY DataUnfolds
<1>2. Len(rl) \in 0 .. Len(rl)
  BY LenProperties
<1> QED BY <1>1, <1>2 DEF DecodedUpTo

(* The samples of one record, and of none. *)
LEMMA DataOfOne ==
  ASSUME NEW rec \in RecordType
  PROVE  DataOf(<<rec>>) = rec.data
<1> DEFINE one == <<rec>>
<1>1. one \in Seq(RecordType) /\ Len(one) = 1 /\ one[1] = rec
  OBVIOUS
<1> HIDE DEF one
<1>2. PICK h : DecodedUpTo(one, h)
  BY <1>1, DataUnfolds
<1>3. h[1] = <<>> \o rec.data /\ h[1] = DataOf(one)
  <2>1. /\ h[0] = <<>> /\ h[1] = DataOf(one)
        /\ \A m \in 1 .. 1 : h[m] = h[m - 1] \o one[m].data
    BY <1>1, <1>2 DEF DecodedUpTo
  <2>2. 1 \in 1 .. 1 /\ 1 - 1 = 0
    OBVIOUS
  <2>3. h[1] = h[0] \o one[1].data
    BY <2>1, <2>2
  <2> QED BY <2>1, <2>3, <1>1
<1>4. rec.data \in Seq(Int)
  BY DEF RecordType
<1>5. <<>> \o rec.data = rec.data
  BY <1>4, ConcatEmptySeq
<1> QED BY <1>3, <1>5 DEF one

(* Joining two record lists joins their samples. *)
LEMMA DataOfConcat ==
  ASSUME NEW a \in Seq(RecordType), NEW b \in Seq(RecordType)
  PROVE  DataOf(a \o b) = DataOf(a) \o DataOf(b)
<1> DEFINE ab == a \o b
           la == Len(a)
           lb == Len(b)
<1>1. /\ ab \in Seq(RecordType) /\ Len(ab) = la + lb
      /\ la \in Nat /\ lb \in Nat
      /\ \A i \in 1 .. la : ab[i] = a[i]
      /\ \A i \in 1 .. lb : ab[la + i] = b[i]
  <2>1. la \in Nat /\ lb \in Nat
    BY LenProperties
  <2> QED BY <2>1, ConcatProperties
<1>2. \A i \in 1 .. lb : b[i].data \in Seq(Int)
  <2>1. \A i \in 1 .. Len(b) : b[i] \in RecordType
    BY ElementOfSeq
  <2>2. \A rec \in RecordType : rec.data \in Seq(Int)
    BY DEF RecordType
  <2> QED BY <2>1, <2>2
<1> HIDE DEF ab
<1>3. PICK g : DecodedUpTo(a, g)
  BY DataUnfolds
<1>4. PICK h : DecodedUpTo(b, h)
  BY DataUnfolds
<1>5. PICK f : DecodedUpTo(ab, f)
  BY <1>1, DataUnfolds
<1>6. /\ g \in [0 .. la -> Seq(Int)] /\ g[0] = <<>> /\ g[la] = DataOf(a)
      /\ \A m \in 1 .. la : g[m] = g[m - 1] \o a[m].data
  BY <1>3 DEF DecodedUpTo
<1>7. /\ h \in [0 .. lb -> Seq(Int)] /\ h[0] = <<>> /\ h[lb] = DataOf(b)
      /\ \A m \in 1 .. lb : h[m] = h[m - 1] \o b[m].data
  BY <1>4 DEF DecodedUpTo
<1>8. /\ f[0] = <<>> /\ f[la + lb] = DataOf(ab)
      /\ \A m \in 1 .. la + lb : f[m] = f[m - 1] \o ab[m].data
  BY <1>1, <1>5 DEF DecodedUpTo
<1> DEFINE A == {m \in Nat : m <= la => f[m] = g[m]}
           SumsTo(m) == m <= lb => f[la + m] = g[la] \o h[m]
           B == {m \in Nat : SumsTo(m)}
<1> HIDE DEF la, lb
<1>9. \A m \in Nat : m \in A
  <2>1. 0 \in A
    BY <1>6, <1>8
  <2>2. ASSUME NEW m \in Nat, m \in A PROVE m + 1 \in A
    <3> SUFFICES ASSUME m + 1 <= la PROVE f[m + 1] = g[m + 1]
      OBVIOUS
    <3>1. m + 1 \in 1 .. la /\ m + 1 \in 1 .. la + lb /\ (m + 1) - 1 = m /\ m <= la
      BY <1>1
    <3>2. f[m] = g[m]
      BY <2>2, <3>1
    <3>3. f[m + 1] = f[m] \o ab[m + 1].data /\ g[m + 1] = g[m] \o a[m + 1].data
      BY <3>1, <1>6, <1>8
    <3> QED BY <3>1, <3>2, <3>3, <1>1
  <2> HIDE DEF A
  <2> QED BY <2>1, <2>2, AllNat
<1>10. g[la] \in Seq(Int) /\ \A m \in 0 .. lb : h[m] \in Seq(Int)
  BY <1>1, <1>6, <1>7
<1>11. \A m \in Nat : m \in B
  <2>1. 0 \in B
    <3>1. f[la] = g[la] /\ la + 0 = la
      BY <1>9, <1>1
    <3>2. g[la] \o <<>> = g[la]
      BY <1>10, ConcatEmptySeq
    <3> QED BY <3>1, <3>2, <1>7
  <2>2. ASSUME NEW m \in Nat, m \in B PROVE m + 1 \in B
    <3> SUFFICES ASSUME m + 1 <= lb PROVE f[la + (m + 1)] = g[la] \o h[m + 1]
      <4>1. m + 1 \in Nat
        OBVIOUS
      <4> HIDE DEF SumsTo
      <4>2. SumsTo(m + 1) => m + 1 \in B
        BY <4>1
      <4> QED BY <4>2 DEF SumsTo
    <3>1. /\ m + 1 \in 1 .. lb /\ la + (m + 1) \in 1 .. la + lb /\ (m + 1) - 1 = m /\ m <= lb
          /\ (la + (m + 1)) - 1 = la + m /\ m \in 0 .. lb
      BY <1>1
    <3>2. f[la + m] = g[la] \o h[m]
      BY <2>2, <3>1
    <3>3. f[la + (m + 1)] = f[la + m] \o b[m + 1].data /\ h[m + 1] = h[m] \o b[m + 1].data
      <4>1. ab[la + (m + 1)] = b[m + 1]
        BY <3>1, <1>1
      <4>2. f[la + (m + 1)] = f[(la + (m + 1)) - 1] \o ab[la + (m + 1)].data
        BY <3>1, <1>8
      <4> QED BY <4>1, <4>2, <3>1, <1>7
    <3>4. (g[la] \o h[m]) \o b[m + 1].data = g[la] \o (h[m] \o b[m + 1].data)
      <4>1. h[m] \in Seq(Int) /\ b[m + 1].data \in Seq(Int)
        BY <3>1, <1>2, <1>10 DEF lb
      <4>2. \A u, v, w \in Seq(Int) : (u \o v) \o w = u \o (v \o w)
        BY ConcatAssociative, SMTT(60)
      <4> QED BY <4>1, <4>2, <1>10
    <3> QED BY <3>2, <3>3, <3>4
  <2> HIDE DEF B
  <2> QED BY <2>1, <2>2, AllNat
<1>12. f[la + lb] = g[la] \o h[lb]
  <2>1. lb \in Nat /\ lb <= lb
    BY <1>1 DEF lb
  <2>2. lb \in B
    BY <2>1, <1>11
  <2> QED BY <2>1, <2>2
<1> QED BY <1>12, <1>6, <1>7, <1>8 DEF ab

(* Segments whose samples are those of their records, for every key. *)
Decoded == [k \in Keys |-> {s \in Segment : s.data = DataOf(s.recordlist)}]

(* A record and its pointer are put in, in front or behind, in the same    *)
(* place.                                                                  *)
LEMMA DecodedClosed ==
  ASSUME KeepRecordPtrs, now \in Nat, NEW rec \in Records
  PROVE  Closed(Decoded, rec)
<1> DEFINE Good == {s \in Segment : s.data = DataOf(s.recordlist)}
<1>1. KeyOf(rec) \in Keys /\ Matching(rec) \subseteq Keys /\ rec \in RecordType
  BY RecordFields DEF Matching, FindID
<1>2. \A k \in Keys : Decoded[k] = Good
  BY DEF Decoded
<1>3. \A s \in Segment : s.recordlist \in Seq(RecordType)
  <2>1. Records \subseteq RecordType
    BY ConstantsAssumption
  <2> QED BY <2>1 DEF Segment
<1>4. <<rec>> \in Seq(RecordType) /\ DataOf(<<rec>>) = rec.data /\ RecordPtrs(rec) = <<rec>>
  BY <1>1, DataOfOne DEF RecordPtrs
<1>5. Msr2Seg(rec) \in Good
  <2>1. EndTime(rec) \in Int /\ RecordPtrs(rec) \in Seq(Records)
    BY RecordFields
  <2> QED BY <1>1, <1>4, <2>1 DEF RecordType, Msr2Seg, Segment
<1>6. ASSUME NEW s \in Good
      PROVE  AddMsrToEnd(s, rec) \in Good /\ AddMsrToStart(s, rec) \in Good
  <2>1. /\ AddMsrToEnd(s, rec).data = s.data \o rec.data
        /\ AddMsrToEnd(s, rec).recordlist = s.recordlist \o <<rec>>
        /\ AddMsrToStart(s, rec).data = rec.data \o s.data
        /\ AddMsrToStart(s, rec).recordlist = <<rec>> \o s.recordlist
    BY <1>4 DEF AddMsrToEnd, AddMsrToStart, Segment
  <2>2. s \in Segment /\ s.data = DataOf(s.recordlist) /\ s.recordlist \in Seq(RecordType)
    BY <1>3
  <2>3. /\ DataOf(s.recordlist \o <<rec>>) = s.data \o rec.data
        /\ DataOf(<<rec>> \o s.recordlist) = rec.data \o s.data
    BY <2>2, <1>4, DataOfConcat
  <2> QED BY <2>1, <2>2, <2>3, MadeFields
<1>7. ASSUME NEW s1 \in Good, NEW s2 \in Good PROVE AddSegToSeg(s1, s2) \in Good
  <2>1. /\ AddSegToSeg(s1, s2).data = s1.data \o s2.data
        /\ AddSegToSeg(s1, s2).recordlist = s1.recordlist \o s2.recordlist
    BY DEF AddSegToSeg, Segment
  <2>2. DataOf(s1.recordlist \o s2.recordlist) = s1.data \o s2.data
    BY <1>3, DataOfConcat
  <2> QED BY <2>1, <2>2, MergedFields
<1>8. ASSUME NEW s \in Good PROVE Stamp(s) \in Good
  <2>1. Stamp(s).recordlist = s.recordlist /\ Stamp(s).data = s.data /\ s \in Segment
    BY DEF Stamp, Segment
  <2> QED BY <2>1, StampFields
<1> HIDE DEF Good
<1> QED BY <1>1, <1>2, <1>5, <1>6, <1>7, <1>8 DEF Closed

(* The record list kept with a segment names the records whose samples the *)
(* segment holds, in the order of the samples, also after merges and after *)
(* merges that failed half way: what mstl3_unpack_recordlist() decodes     *)
(* later is what decoding on the way in gives.                             *)
THEOREM RecordListsMatch ==
  ASSUME KeepRecordPtrs
  PROVE  Spec => []RecordListMatchesData
<1>1. Init => AllIn(Decoded)
  BY ClosedInit
<1>2. IInv /\ AllIn(Decoded) /\ [Next]_vars => AllIn(Decoded)'
  <2> SUFFICES ASSUME IInv, AllIn(Decoded), [Next]_vars PROVE AllIn(Decoded)'
    OBVIOUS
  <2>1. CASE UNCHANGED listVars
    BY <2>1 DEF listVars, AllIn, Members
  <2>2. ASSUME NEW rec \in Records, AddMsr(rec) PROVE AllIn(Decoded)'
    BY <2>2, DecodedClosed, ClosedStep DEF IInv, TypeOK
  <2> QED BY <2>1, <2>2, StepAdds
<1>3. AllIn(Decoded) => RecordListMatchesData
  <2> SUFFICES ASSUME AllIn(Decoded), NEW k \in Keys, NEW i \in 1 .. Len(ids[k].segs)
               PROVE  ids[k].segs[i].data = DataOf(ids[k].segs[i].recordlist)
    BY DEF RecordListMatchesData, DataOf
  <2>1. ids[k].segs[i] \in Decoded[k]
    BY DEF AllIn, Members
  <2> QED BY <2>1 DEF Decoded
<1> QED BY <1>1, <1>2, <1>3, Invariance, PTL DEF Spec

=============================================================================
