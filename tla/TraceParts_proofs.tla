-------------------------- MODULE TraceParts_proofs --------------------------
(***************************************************************************)
(* Proofs about two parts of a trace list that are modelled on their own.  *)
(*                                                                         *)
(* SkipList, for any identifiers, versions, number of IDs and number of    *)
(* levels: every level stays an ascending chain of the IDs high enough for *)
(* it, and a search finds what is listed.                                  *)
(*                                                                         *)
(* SampleBuffer, for any records, block sizes and formats of a float: the  *)
(* buffer of a segment has room for its samples in the type it says, and   *)
(* they keep their values and their order.                                 *)
(***************************************************************************)
EXTENDS SkipList, SampleBuffer, TLAPS, FiniteSetTheorems, SequenceTheorems, WellFoundedInduction

Nodes == 0 .. MaxIds

-----------------------------------------------------------------------------
(* Chains: a set of nodes, each with the one after it.                     *)

(* R orders the nodes of M strictly, every two of them. *)
Orders(R, M) ==
  /\ \A i \in M : <<i, i>> \notin R
  /\ \A i, j, k \in M : <<i, j>> \in R /\ <<j, k>> \in R => <<i, k>> \in R
  /\ \A i, j \in M : i = j \/ <<i, j>> \in R \/ <<j, i>> \in R

(* The nodes of M after i. *)
After(i, R, M) == {j \in M : <<i, j>> \in R}

(* next leads from each node of M to the first one after it, or to none. *)
Chain(next, R, M) ==
  \A i \in M :
    IF After(i, R, M) = {} THEN next[i] = NoID
    ELSE next[i] \in After(i, R, M) /\ \A j \in After(i, R, M) \ {next[i]} : <<next[i], j>> \in R

(* A node is linked behind the one before its place (mstl3_addID()). *)
LEMMA ChainInsert ==
  ASSUME NEW M \in SUBSET Nodes, NEW new \in Nodes \ M, NEW R, NEW Q,
         Orders(Q, M \cup {new}),
         \A i, j \in M : <<i, j>> \in R <=> <<i, j>> \in Q,
         NEW next, Chain(next, R, M),
         NEW p \in M, <<p, new>> \in Q, next[p] = NoID \/ <<new, next[p]>> \in Q,
         NEW link, link[new] = next[p], link[p] = new,
         \A i \in M \ {p} : link[i] = next[i]
  PROVE  Chain(link, Q, M \cup {new})
<1> DEFINE N == M \cup {new}
<1> SUFFICES ASSUME NEW i \in N
             PROVE  IF After(i, Q, N) = {} THEN link[i] = NoID
                    ELSE link[i] \in After(i, Q, N) /\ \A j \in After(i, Q, N) \ {link[i]} : <<link[i], j>> \in Q
  BY DEF Chain
<1>1. NoID \notin N
  BY DEF Nodes, NoID
<1>2. \A j \in M : IF After(j, R, M) = {} THEN next[j] = NoID
                   ELSE next[j] \in After(j, R, M) /\ \A k \in After(j, R, M) \ {next[j]} : <<next[j], k>> \in R
  BY DEF Chain
<1>3. \A j \in M : After(j, R, M) = After(j, Q, M) /\ After(j, Q, M) \subseteq M
  BY DEF After
<1>4. \A j \in M : IF After(j, Q, M) = {} THEN next[j] = NoID
                   ELSE next[j] \in M /\ <<j, next[j]>> \in Q /\ \A k \in After(j, Q, M) \ {next[j]} : <<next[j], k>> \in Q
  BY <1>2, <1>3 DEF After
<1>5. \A j \in N : After(j, Q, N) = After(j, Q, M) \cup (IF <<j, new>> \in Q THEN {new} ELSE {})
  BY DEF After
<1>6. CASE i = new
  <2>1. After(new, Q, N) = After(p, Q, M)
    <3>1. ASSUME NEW k \in M PROVE <<new, k>> \in Q <=> <<p, k>> \in Q
      <4>1. <<new, k>> \in Q => <<p, k>> \in Q
        BY DEF Orders
      <4>2. ASSUME <<p, k>> \in Q PROVE <<new, k>> \in Q
        <5>1. k \in After(p, Q, M)
          BY <4>2 DEF After
        <5>2. next[p] \in M /\ (k = next[p] \/ <<next[p], k>> \in Q)
          BY <1>4, <5>1
        <5>3. <<new, next[p]>> \in Q
          BY <1>1, <5>2
        <5> QED BY <5>2, <5>3 DEF Orders
      <4> QED BY <4>1, <4>2
    <3>2. <<new, new>> \notin Q
      BY DEF Orders
    <3> QED BY <3>1, <3>2, <1>5 DEF After
  <2> QED BY <1>4, <1>6, <2>1 DEF After
<1>7. CASE i = p
  <2>1. After(p, Q, N) = After(p, Q, M) \cup {new}
    BY <1>5
  <2>2. ASSUME NEW k \in After(p, Q, M) PROVE <<new, k>> \in Q
    <3>1. k \in M /\ next[p] \in M /\ (k = next[p] \/ <<next[p], k>> \in Q)
      BY <1>4, <2>2, <1>3
    <3>2. <<new, next[p]>> \in Q
      BY <1>1, <3>1
    <3> QED BY <3>1, <3>2 DEF Orders
  <2> QED BY <1>7, <2>1, <2>2
<1>8. CASE i \in M \ {p}
  <2>1. CASE <<i, new>> \in Q
    <3>1. <<i, p>> \in Q
      <4>1. SUFFICES ASSUME <<p, i>> \in Q PROVE FALSE
        BY <1>8 DEF Orders
      <4>2. i \in After(p, Q, M)
        BY <4>1, <1>8 DEF After
      <4>3. next[p] \in M /\ (i = next[p] \/ <<next[p], i>> \in Q)
        BY <1>4, <4>2
      <4>4. <<new, next[p]>> \in Q
        BY <1>1, <4>3
      <4>5. <<new, i>> \in Q
        BY <4>3, <4>4, <1>8 DEF Orders
      <4> QED BY <2>1, <4>5, <1>8 DEF Orders
    <3>2. p \in After(i, Q, M)
      BY <3>1 DEF After
    <3>3. next[i] \in M /\ <<i, next[i]>> \in Q /\ \A k \in After(i, Q, M) \ {next[i]} : <<next[i], k>> \in Q
      BY <1>4, <1>8, <3>2
    <3>4. <<next[i], new>> \in Q
      BY <3>2, <3>3, <1>8 DEF Orders
    <3> QED BY <1>5, <1>8, <3>3, <3>4 DEF After
  <2>2. CASE <<i, new>> \notin Q
    BY <1>4, <1>5, <1>8, <2>2 DEF After
  <2> QED BY <2>1, <2>2
<1> QED BY <1>6, <1>7, <1>8

(* A node is taken out: the one before leads to the one after               *)
(* (lm_remove_segment()).                                                   *)
LEMMA ChainRemove ==
  ASSUME NEW M \in SUBSET Nodes, NEW gone \in M, NEW R, NEW Q,
         Orders(R, M),
         \A i, j \in M \ {gone} : <<i, j>> \in R <=> <<i, j>> \in Q,
         NEW next, Chain(next, R, M),
         NEW link, \A i \in M \ {gone} : link[i] = IF next[i] = gone THEN next[gone] ELSE next[i]
  PROVE  Chain(link, Q, M \ {gone})
<1> DEFINE N == M \ {gone}
<1> SUFFICES ASSUME NEW i \in N
             PROVE  IF After(i, Q, N) = {} THEN link[i] = NoID
                    ELSE link[i] \in After(i, Q, N) /\ \A j \in After(i, Q, N) \ {link[i]} : <<link[i], j>> \in Q
  BY DEF Chain
<1>1. NoID \notin M
  BY DEF Nodes, NoID
<1>2. \A j \in M : IF After(j, R, M) = {} THEN next[j] = NoID
                   ELSE next[j] \in M /\ <<j, next[j]>> \in R /\ \A k \in After(j, R, M) \ {next[j]} : <<next[j], k>> \in R
  BY DEF Chain, After
<1>3. After(i, Q, N) = After(i, R, M) \ {gone}
  BY DEF After
<1>4. CASE next[i] = gone
  <2>1. gone \in M /\ <<i, gone>> \in R /\ \A k \in After(i, R, M) \ {gone} : <<gone, k>> \in R
    BY <1>1, <1>2, <1>4
  <2>2. After(gone, R, M) = After(i, R, M) \ {gone}
    <3>1. After(gone, R, M) \subseteq After(i, R, M)
      BY <2>1 DEF After, Orders
    <3>2. gone \notin After(gone, R, M)
      BY DEF After, Orders
    <3> QED BY <2>1, <3>1, <3>2 DEF After
  <2>3. link[i] = next[gone]
    BY <1>4
  <2>4. gone \notin After(i, Q, N)
    BY DEF After
  <2>5. \A k \in After(i, Q, N) \ {next[gone]} : <<next[gone], k>> \in R /\ next[gone] \in N /\ k \in N
    BY <1>2, <1>3, <2>2, <2>4 DEF After
  <2>6. After(i, Q, N) = After(gone, R, M)
    BY <1>3, <2>2
  <2>7. \A k \in After(i, Q, N) \ {next[gone]} : <<next[gone], k>> \in Q
    BY <2>5
  <2>8. IF After(i, Q, N) = {} THEN next[gone] = NoID ELSE next[gone] \in After(i, Q, N)
    BY <1>2, <2>6 DEF After
  <2> QED BY <2>3, <2>7, <2>8
<1>5. CASE next[i] # gone
  <2>1. link[i] = next[i]
    BY <1>5
  <2>2. CASE After(i, R, M) = {}
    BY <1>2, <1>3, <2>1, <2>2
  <2>3. CASE After(i, R, M) # {}
    <3>1. next[i] \in N /\ <<i, next[i]>> \in R /\ \A k \in After(i, R, M) \ {next[i]} : <<next[i], k>> \in R
      BY <1>2, <1>5, <2>3
    <3>2. next[i] \in After(i, Q, N)
      BY <3>1, <1>3 DEF After
    <3>3. \A k \in After(i, Q, N) : k \in N
      BY DEF After
    <3>4. \A k \in After(i, Q, N) \ {next[i]} : <<next[i], k>> \in Q
      <4> TAKE k \in After(i, Q, N) \ {next[i]}
      <4>1. k \in N /\ k \in After(i, R, M) \ {next[i]}
        BY <1>3, <3>3
      <4> QED BY <3>1, <4>1
    <3> QED BY <2>1, <3>2, <3>4
  <2> QED BY <2>2, <2>3
<1> QED BY <1>4, <1>5

-----------------------------------------------------------------------------
(* The IDs.                                                                *)

Links == NoID .. MaxIds
IDType == [live : BOOLEAN, sid : Nat, ver : Nat, height : 0 .. MaxHeight, next : [Levels -> Links]]

(* The order of the list: the head, then by identifier and version. *)
Precedes(ids, i, j) ==
  /\ j # ListHead
  /\ \/ i = ListHead
     \/ ids[i].sid < ids[j].sid
     \/ ids[i].sid = ids[j].sid /\ ids[i].ver < ids[j].ver

Order(ids) == {p \in Nodes \X Nodes : Precedes(ids, p[1], p[2])}
Members(ids, level) == {i \in Nodes : ids[i].live /\ ids[i].height >= level}
NextIn(ids, level) == [i \in Nodes |-> ids[i].next[level]]

(* The head is in all levels, an ID in some and linked in those only. *)
HeightsOK(ids) ==
  /\ ids[ListHead].live /\ ids[ListHead].height = MaxHeight
  /\ \A i \in Nodes : ids[i].live => ids[i].height \in Levels
  /\ \A i \in Nodes, level \in Levels : i \notin Members(ids, level) => ids[i].next[level] = NoID

(* No two IDs have the same identifier and version, nor the same           *)
(* identifier if the versions of a record are not told apart.              *)
Distinct(ids, split) ==
  \A i, j \in 1 .. MaxIds :
    ids[i].live /\ ids[j].live /\ i # j
      => ids[i].sid # ids[j].sid \/ (split /\ ids[i].ver # ids[j].ver)

LinkedInOrder(ids) == \A level \in Levels : Chain(NextIn(ids, level), Order(ids), Members(ids, level))

Live(ids) == {i \in 1 .. MaxIds : ids[i].live}

SkipInv ==
  /\ skip \in [split : BOOLEAN, numtraceids : Nat, ids : [Nodes -> IDType]]
  /\ HeightsOK(skip.ids)
  /\ Distinct(skip.ids, skip.split)
  /\ LinkedInOrder(skip.ids)
  /\ skip.numtraceids = Cardinality(Live(skip.ids))

LEMMA LevelsAgreeIs ==
  SkipInv => LevelsAgree
<1> SUFFICES ASSUME SkipInv, NEW level \in Levels, NEW i \in Members(skip.ids, level)
             PROVE  LET after == {j \in Members(skip.ids, level) : Precedes(skip.ids, i, j)}
                    IN  IF after = {} THEN NextOf(i, level) = NoID
                        ELSE NextOf(i, level) \in after
                             /\ \A j \in after \ {NextOf(i, level)} : Precedes(skip.ids, NextOf(i, level), j)
  BY DEF LevelsAgree, SkipInv, Live, Members, Precedes, Nodes
<1> DEFINE M == Members(skip.ids, level)
           R == Order(skip.ids)
           after == {j \in M : Precedes(skip.ids, i, j)}
<1>1. \A j \in M, k \in M : <<j, k>> \in R <=> Precedes(skip.ids, j, k)
  BY DEF Order, Members
<1>2. after = After(i, R, M)
  BY <1>1 DEF After
<1>3. Chain(NextIn(skip.ids, level), R, M)
  BY DEF SkipInv, LinkedInOrder
<1>4. NextIn(skip.ids, level)[i] = NextOf(i, level)
  BY DEF NextIn, NextOf, Members
<1>5. IF after = {} THEN NextOf(i, level) = NoID
      ELSE NextOf(i, level) \in after /\ \A j \in after \ {NextOf(i, level)} : <<NextOf(i, level), j>> \in R
  BY <1>2, <1>3, <1>4 DEF Chain
<1>6. after \subseteq M
  OBVIOUS
<1> HIDE DEF after, M, R
<1> QED BY <1>1, <1>5, <1>6 DEF M, after

(* The list orders its IDs strictly. *)
LEMMA OrderIsStrict ==
  ASSUME NEW ids \in [Nodes -> IDType], NEW split \in BOOLEAN, Distinct(ids, split), HeightsOK(ids), NEW level \in Int
  PROVE  Orders(Order(ids), Members(ids, level))
<1> DEFINE M == Members(ids, level)
<1>1. \A i, j \in M : <<i, j>> \in Order(ids) <=> Precedes(ids, i, j)
  BY DEF Order, Members
<1>2. \A i \in M : i \in Nodes /\ ids[i].live /\ ids[i].sid \in Nat /\ ids[i].ver \in Nat
  BY DEF Members, IDType
<1>3. \A i \in M : ~Precedes(ids, i, i)
  BY <1>2 DEF Precedes
<1>4. \A i, j, k \in M : Precedes(ids, i, j) /\ Precedes(ids, j, k) => Precedes(ids, i, k)
  BY <1>2 DEF Precedes
<1>5. \A i, j \in M : i = j \/ Precedes(ids, i, j) \/ Precedes(ids, j, i)
  <2> SUFFICES ASSUME NEW i \in M, NEW j \in M, i # j PROVE Precedes(ids, i, j) \/ Precedes(ids, j, i)
    OBVIOUS
  <2>1. CASE i = ListHead \/ j = ListHead
    BY <2>1 DEF Precedes
  <2>2. CASE i # ListHead /\ j # ListHead
    <3>1. i \in 1 .. MaxIds /\ j \in 1 .. MaxIds
      BY <1>2, <2>2, SkipAssumption DEF Nodes, ListHead
    <3>2. ids[i].sid # ids[j].sid \/ ids[i].ver # ids[j].ver
      BY <1>2, <3>1 DEF Distinct
    <3> QED BY <1>2, <2>2, <3>2 DEF Precedes
  <2> QED BY <2>1, <2>2
<1> HIDE DEF M
<1>6. Orders(Order(ids), M)
  BY <1>1, <1>3, <1>4, <1>5 DEF Orders
<1> QED BY <1>6 DEF M

-----------------------------------------------------------------------------
(* The search of mstl3_findID() ends: it moves on along a level or drops   *)
(* to the one below.                                                       *)

(* A set of natural numbers that is not empty has a least one. *)
LEMMA LeastNatural ==
  ASSUME NEW S \in SUBSET Nat, S # {}
  PROVE  \E m \in S : \A n \in S : m <= n
<1>1. PICK x \in S : \A y \in S : ~(<<y, x>> \in OpToRel(<, Nat))
  BY NatLessThanWellFounded, WFMin, Zenon
<1>2. \A y \in S : ~(y < x)
  BY <1>1 DEF OpToRel
<1> QED BY <1>2

(* Induction over the natural numbers, for a set of them. *)
LEMMA AllNaturals ==
  ASSUME NEW A, 0 \in A, \A n \in Nat : n \in A => n + 1 \in A
  PROVE  \A n \in Nat : n \in A
<1> SUFFICES ASSUME Nat \ A # {} PROVE FALSE
  OBVIOUS
<1>1. PICK n \in Nat \ A : \A m \in Nat \ A : n <= m
  BY LeastNatural
<1>2. n # 0 /\ n - 1 \in Nat
  BY <1>1
<1>3. n - 1 \in A
  BY <1>1, <1>2
<1>4. (n - 1) + 1 = n
  BY <1>1
<1> QED BY <1>1, <1>2, <1>3, <1>4

(* What a place x of the search returns that gets r from the next one:     *)
(* those of D are remembered.                                              *)
Noted(x, r, D) == IF x \in D THEN [r EXCEPT !.prev[x[2]] = x[1]] ELSE r

(* Outside E, d leads to a place closer to the end by the measure m.       *)
Shrinks(P, E, d, m, K) ==
  /\ m \in [P -> Nat] /\ K \in Nat /\ \A x \in P : m[x] < K
  /\ \A x \in P \ E : d[x] \in P /\ m[d[x]] < m[x]

(* The recursion that ends in E and otherwise goes on in d has a solution. *)
Recurses(P, E, D, b, d) == \E f : f = [x \in P |-> IF x \in E THEN b[x] ELSE Noted(x, f[d[x]], D)]

LEMMA SearchExists ==
  ASSUME NEW P, NEW E, NEW D, NEW b, NEW d, NEW m, NEW K, Shrinks(P, E, d, m, K)
  PROVE  Recurses(P, E, D, b, d)
<1> USE DEF Shrinks, Recurses
<1> DEFINE Goes(f, x) == f[x] = IF x \in E THEN b[x] ELSE Noted(x, f[d[x]], D)
           A == {n \in Nat : \E f : \A x \in P : m[x] < n => Goes(f, x)}
<1>1. 0 \in A
  BY SMT
<1>2. ASSUME NEW n \in Nat, n \in A PROVE n + 1 \in A
  <2>1. PICK f : \A x \in P : m[x] < n => Goes(f, x)
    BY <1>2
  <2> DEFINE g == [x \in P |-> IF m[x] < n THEN f[x] ELSE IF x \in E THEN b[x] ELSE Noted(x, f[d[x]], D)]
  <2>2. ASSUME NEW x \in P, m[x] < n + 1 PROVE Goes(g, x)
    <3>1. x \notin E => d[x] \in P /\ m[d[x]] < n
      <4>1. ASSUME x \notin E PROVE d[x] \in P /\ m[d[x]] < n
        <5>1. d[x] \in P /\ m[d[x]] < m[x] /\ m[d[x]] \in Nat /\ m[x] \in Nat
          BY <4>1
        <5> QED BY <5>1, <2>2
      <4> QED BY <4>1
    <3>2. x \notin E => g[d[x]] = f[d[x]]
      BY <3>1
    <3>3. g[x] = IF x \in E THEN b[x] ELSE Noted(x, f[d[x]], D)
      BY <2>1
    <3> HIDE DEF g
    <3> QED BY <3>2, <3>3
  <2> HIDE DEF g
  <2>3. \E h : \A x \in P : m[x] < n + 1 => Goes(h, x)
    BY <2>2
  <2> QED BY <2>3
<1>3. K \in A
  <2> HIDE DEF A
  <2> QED BY <1>1, <1>2, AllNaturals
<1>4. PICK f : \A x \in P : m[x] < K => Goes(f, x)
  BY <1>3
<1> DEFINE g == [x \in P |-> f[x]]
<1>5. ASSUME NEW x \in P PROVE g[x] = IF x \in E THEN b[x] ELSE Noted(x, g[d[x]], D)
  <2>1. Goes(f, x)
    BY <1>4
  <2>2. x \notin E => g[d[x]] = f[d[x]]
    OBVIOUS
  <2> QED BY <2>1, <2>2
<1>6. g = [x \in P |-> IF x \in E THEN b[x] ELSE Noted(x, g[d[x]], D)]
  <2>1. g = [x \in P |-> g[x]]
    OBVIOUS
  <2> HIDE DEF g
  <2> QED BY <1>5, <2>1
<1> HIDE DEF g
<1> QED BY <1>6

(* The places of the search and how far each is from the end. *)
Places == Nodes \X (0 .. MaxHeight)
Behind(id) == {j \in Nodes : skip.ids[j].live /\ Precedes(skip.ids, id, j)}
Distance == [x \in Places |-> x[2] * (MaxIds + 2) + Cardinality(Behind(x[1]))]

LEMMA BehindCounted ==
  ASSUME NEW id \in Nodes
  PROVE  IsFiniteSet(Behind(id)) /\ Cardinality(Behind(id)) \in 0 .. MaxIds + 1
<1>1. IsFiniteSet(Nodes) /\ Cardinality(Nodes) = MaxIds + 1
  BY FS_Interval, SkipAssumption DEF Nodes
<1>2. Behind(id) \subseteq Nodes
  BY DEF Behind
<1> QED BY <1>1, <1>2, FS_Subset, FS_CardinalityType, SkipAssumption

LEMMA DistanceIsNatural ==
  Distance \in [Places -> Nat] /\ \A x \in Places : Distance[x] < MaxHeight * (MaxIds + 2) + MaxIds + 2
<1>1. ASSUME NEW x \in Places PROVE Distance[x] \in Nat /\ Distance[x] < MaxHeight * (MaxIds + 2) + MaxIds + 2
  <2>1. x[1] \in Nodes /\ x[2] \in 0 .. MaxHeight
    BY DEF Places
  <2>2. Cardinality(Behind(x[1])) \in 0 .. MaxIds + 1
    BY <2>1, BehindCounted
  <2> DEFINE k == x[2]
             w == MaxIds + 2
  <2>3. k \in Nat /\ k <= MaxHeight /\ MaxHeight \in Nat /\ w \in Nat
    BY <2>1, SkipAssumption
  <2>4. k * w \in Nat /\ k * w <= MaxHeight * w
    <3> HIDE DEF k, w
    <3>1. MaxHeight - k \in Nat
      BY <2>3
    <3>2. (MaxHeight - k) * w >= 0
      BY <2>3, <3>1
    <3>3. (MaxHeight - k) * w = MaxHeight * w - k * w
      BY <2>3
    <3> QED BY <2>3, <3>2, <3>3
  <2>5. Distance[x] = k * w + Cardinality(Behind(x[1]))
    BY DEF Distance
  <2>6. MaxHeight * w \in Nat
    BY <2>3
  <2> QED BY <2>2, <2>4, <2>5, <2>6, SkipAssumption
<1> QED BY <1>1 DEF Distance

(* The next ID of a level is the first one after, and if there is none,    *)
(* no ID of the level is after.                                            *)
LEMMA NextIsFirst ==
  ASSUME SkipInv, NEW id \in Nodes, NEW level \in Levels
  PROVE  LET next == NextOf(id, level)
         IN  /\ next # NoID => /\ id \in Members(skip.ids, level) /\ next \in Members(skip.ids, level)
                               /\ Precedes(skip.ids, id, next)
                               /\ \A j \in Members(skip.ids, level) :
                                    Precedes(skip.ids, id, j) => j = next \/ Precedes(skip.ids, next, j)
             /\ next = NoID /\ id \in Members(skip.ids, level) =>
                  \A j \in Members(skip.ids, level) : ~Precedes(skip.ids, id, j)
<1> DEFINE M == Members(skip.ids, level)
           R == Order(skip.ids)
           next == NextOf(id, level)
<1>1. \A i \in M, j \in M : <<i, j>> \in R <=> Precedes(skip.ids, i, j)
  BY DEF Order, Members
<1>2. Chain(NextIn(skip.ids, level), R, M) /\ (id \notin M => next = NoID)
  BY DEF SkipInv, LinkedInOrder, HeightsOK, NextOf
<1>3. NextIn(skip.ids, level)[id] = next
  BY DEF NextIn, NextOf
<1>4. NoID \notin M
  BY DEF Members, Nodes, NoID
<1>5. id \in M => IF After(id, R, M) = {} THEN next = NoID
                  ELSE next \in After(id, R, M) /\ \A j \in After(id, R, M) \ {next} : <<next, j>> \in R
  BY <1>2, <1>3 DEF Chain
<1>6. id \in M => After(id, R, M) = {j \in M : Precedes(skip.ids, id, j)}
  BY <1>1 DEF After
<1> HIDE DEF M, R, next
<1>7. ASSUME next # NoID
      PROVE  id \in M /\ next \in M /\ Precedes(skip.ids, id, next)
             /\ \A j \in M : Precedes(skip.ids, id, j) => j = next \/ Precedes(skip.ids, next, j)
  BY <1>1, <1>2, <1>5, <1>6, <1>7
<1>8. ASSUME next = NoID, id \in M PROVE \A j \in M : ~Precedes(skip.ids, id, j)
  BY <1>4, <1>5, <1>6, <1>8
<1> QED BY <1>7, <1>8 DEF next, M

(* Moving on leaves fewer IDs behind. *)
LEMMA NextIsCloser ==
  ASSUME SkipInv, NEW id \in Nodes, NEW level \in Levels, NextOf(id, level) # NoID
  PROVE  NextOf(id, level) \in Nodes /\ Cardinality(Behind(NextOf(id, level))) < Cardinality(Behind(id))
<1> DEFINE next == NextOf(id, level)
           All == Members(skip.ids, 0)
<1>1. id \in Members(skip.ids, level) /\ next \in Members(skip.ids, level) /\ Precedes(skip.ids, id, next)
  BY NextIsFirst
<1>2. id \in All /\ next \in All /\ next \in Nodes
  BY <1>1, SkipAssumption DEF Members, Levels, SkipInv, IDType
<1>3. \A j \in Nodes : j \in All <=> skip.ids[j].live
  BY DEF Members, SkipInv, IDType
<1>4. /\ \A i \in All : ~Precedes(skip.ids, i, i)
      /\ \A i, j, k \in All : Precedes(skip.ids, i, j) /\ Precedes(skip.ids, j, k) => Precedes(skip.ids, i, k)
  <2>1. Orders(Order(skip.ids), All)
    BY OrderIsStrict DEF SkipInv
  <2>2. \A i, j \in All : <<i, j>> \in Order(skip.ids) <=> Precedes(skip.ids, i, j)
    BY DEF Order, Members
  <2> HIDE DEF All
  <2> QED BY <2>1, <2>2 DEF Orders
<1> HIDE DEF next, All
<1>5. Behind(next) \subseteq Behind(id)
  <2> SUFFICES ASSUME NEW j \in Behind(next) PROVE j \in Behind(id)
    OBVIOUS
  <2>1. j \in Nodes /\ skip.ids[j].live /\ Precedes(skip.ids, next, j) /\ j \in All
    BY <1>3 DEF Behind
  <2> QED BY <1>1, <1>2, <1>4, <2>1 DEF Behind
<1>6. next \in Behind(id) /\ next \notin Behind(next)
  BY <1>1, <1>2, <1>3, <1>4 DEF Behind
<1>7. IsFiniteSet(Behind(id))
  BY BehindCounted
<1>8. Cardinality(Behind(next)) < Cardinality(Behind(id))
  <2>1. Behind(next) # Behind(id)
    BY <1>6
  <2> QED BY <1>5, <1>7, <2>1, FS_Subset, FS_CardinalityType
<1> QED BY <1>2, <1>8 DEF next

LEMMA SearchCloser ==
  ASSUME SkipInv, NEW id \in Nodes, NEW level \in Levels
  PROVE  /\ <<id, level - 1>> \in Places /\ Distance[<<id, level - 1>>] < Distance[<<id, level>>]
         /\ NextOf(id, level) # NoID =>
              <<NextOf(id, level), level>> \in Places /\ Distance[<<NextOf(id, level), level>>] < Distance[<<id, level>>]
<1> DEFINE c == Cardinality(Behind(id))
           w == level * (MaxIds + 2)
<1>1. <<id, level>> \in Places /\ <<id, level - 1>> \in Places /\ level \in 0 .. MaxHeight
  BY SkipAssumption DEF Places, Levels
<1>2. c \in 0 .. MaxIds + 1 /\ w \in Int
  BY BehindCounted, SkipAssumption DEF Levels
<1>3. Distance[<<id, level>>] = w + c /\ Distance[<<id, level - 1>>] = (level - 1) * (MaxIds + 2) + c
  BY <1>1 DEF Distance
<1>4. (level - 1) * (MaxIds + 2) = w - (MaxIds + 2)
  BY SkipAssumption DEF Levels
<1>5. Distance[<<id, level - 1>>] < Distance[<<id, level>>]
  <2> HIDE DEF c, w
  <2> QED BY <1>2, <1>3, <1>4, SkipAssumption
<1>6. ASSUME NextOf(id, level) # NoID
      PROVE  <<NextOf(id, level), level>> \in Places /\ Distance[<<NextOf(id, level), level>>] < Distance[<<id, level>>]
  <2> DEFINE next == NextOf(id, level)
             e == Cardinality(Behind(next))
  <2>1. next \in Nodes /\ e < c
    BY <1>6, NextIsCloser
  <2>2. e \in 0 .. MaxIds + 1
    BY <2>1, BehindCounted
  <2>3. <<next, level>> \in Places
    BY <2>1, <1>1 DEF Places
  <2>4. Distance[<<next, level>>] = w + e
    BY <2>3 DEF Distance
  <2> HIDE DEF c, w, e, next
  <2>5. Distance[<<next, level>>] < Distance[<<id, level>>]
    BY <1>2, <1>3, <2>1, <2>2, <2>4
  <2> QED BY <2>3, <2>5 DEF next
<1> QED BY <1>1, <1>5, <1>6

(* The search as mstl3_findID() does it from a place. *)
Nothing == [id |-> NoID, prev |-> [l \in Levels |-> NoID]]
Hit(id, level) == [id |-> NextOf(id, level), prev |-> [l \in Levels |-> IF l = level THEN id ELSE NoID]]
SearchAt(Search, at, sid, ver) ==
  LET id == at[1]
      level == at[2]
      next == NextOf(id, level)
  IN  IF level = 0 THEN Nothing
      ELSE IF next = NoID \/ Compare(next, sid, ver) > 0
           THEN [Search[<<id, level - 1>>] EXCEPT !.prev[level] = id]
           ELSE IF Compare(next, sid, ver) < 0 THEN Search[<<next, level>>]
           ELSE Hit(id, level)

LEMMA SearchIs ==
  ASSUME SkipInv, NEW sid \in Nat, NEW ver \in Nat
  PROVE  \E Search : /\ Search = [at \in Places |-> SearchAt(Search, at, sid, ver)]
                     /\ mstl3_findID(sid, ver) = Search[<<ListHead, MaxHeight>>]
<1> DEFINE next(at) == NextOf(at[1], at[2])
           D == {at \in Places : at[2] # 0 /\ (next(at) = NoID \/ Compare(next(at), sid, ver) > 0)}
           F == {at \in Places : at[2] # 0 /\ at \notin D /\ Compare(next(at), sid, ver) < 0}
           E == Places \ (D \cup F)
           b == [at \in Places |-> IF at[2] = 0 THEN Nothing ELSE Hit(at[1], at[2])]
           d == [at \in Places |-> IF at \in D THEN <<at[1], at[2] - 1>> ELSE <<next(at), at[2]>>]
<1>1. ASSUME NEW at \in Places, at \in D PROVE d[at] \in Places /\ Distance[d[at]] < Distance[at]
  <2>1. at[1] \in Nodes /\ at[2] \in Levels /\ d[at] = <<at[1], at[2] - 1>>
    BY <1>1, SkipAssumption DEF Places, Levels
  <2>2. at = <<at[1], at[2]>>
    BY DEF Places
  <2> HIDE DEF d
  <2> QED BY <2>1, <2>2, SearchCloser
<1>2. ASSUME NEW at \in Places, at \in F PROVE d[at] \in Places /\ Distance[d[at]] < Distance[at]
  <2>1. at[1] \in Nodes /\ at[2] \in Levels /\ d[at] = <<next(at), at[2]>> /\ next(at) # NoID
    BY <1>2, SkipAssumption DEF Places, Levels
  <2>2. at = <<at[1], at[2]>>
    BY DEF Places
  <2> HIDE DEF d, F
  <2> QED BY <2>1, <2>2, SearchCloser
<1>3. \A at \in Places \ E : d[at] \in Places /\ Distance[d[at]] < Distance[at]
  <2> HIDE DEF d, D, F
  <2> QED BY <1>1, <1>2
<1>4. PICK Search : Search = [at \in Places |-> IF at \in E THEN b[at] ELSE Noted(at, Search[d[at]], D)]
  <2> HIDE DEF d, E, b, D
  <2>1. MaxHeight * (MaxIds + 2) + MaxIds + 2 \in Nat
    <3>1. MaxHeight * (MaxIds + 2) \in Nat
      BY SkipAssumption
    <3> QED BY <3>1, SkipAssumption
  <2> DEFINE K == MaxHeight * (MaxIds + 2) + MaxIds + 2
  <2>2. Shrinks(Places, E, d, Distance, K)
    BY <1>3, <2>1, DistanceIsNatural DEF Shrinks
  <2> HIDE DEF K
  <2>3. Recurses(Places, E, D, b, d)
    BY <2>2, SearchExists
  <2> QED BY <2>3 DEF Recurses
<1>5. ASSUME NEW at \in Places PROVE Search[at] = SearchAt(Search, at, sid, ver)
  <2>1. Search[at] = IF at \in E THEN b[at] ELSE Noted(at, Search[d[at]], D)
    BY <1>4
  <2>2. CASE at \in D
    BY <2>1, <2>2 DEF SearchAt, Noted
  <2>3. CASE at \in F
    <3>1. Search[at] = Search[<<next(at), at[2]>>]
      BY <2>1, <2>3 DEF Noted
    <3>2. at[2] # 0 /\ next(at) # NoID /\ ~(Compare(next(at), sid, ver) > 0) /\ Compare(next(at), sid, ver) < 0
      BY <2>3
    <3> QED BY <3>1, <3>2 DEF SearchAt
  <2>4. CASE at \in E
    <3>1. Search[at] = b[at]
      BY <2>1, <2>4
    <3>2. at[2] = 0 \/ (~(next(at) = NoID \/ Compare(next(at), sid, ver) > 0) /\ ~(Compare(next(at), sid, ver) < 0))
      BY <2>4
    <3> QED BY <3>1, <3>2 DEF SearchAt
  <2> QED BY <2>2, <2>3, <2>4
<1> DEFINE Is(S) == S = [at \in Places |-> SearchAt(S, at, sid, ver)]
<1>6. Is(Search)
  <2> HIDE DEF E, D, b, d
  <2>1. Search = [at \in Places |-> Search[at]]
    BY <1>4
  <2> QED BY <1>5, <2>1
<1>7. mstl3_findID(sid, ver) = (CHOOSE S : Is(S))[<<ListHead, MaxHeight>>]
  BY DEF mstl3_findID, SearchAt, Nothing, Hit, Places, Nodes
<1> HIDE DEF Is
<1>8. Is(CHOOSE S : Is(S))
  BY <1>6
<1> QED BY <1>7, <1>8 DEF Is

-----------------------------------------------------------------------------
(* What the search finds.                                                  *)

(* The head, or an ID before what is looked for. *)
Smaller(id, sid, ver) == id = ListHead \/ Compare(id, sid, ver) < 0

(* The ID before the place of what is looked for. *)
InPlace(p, level, sid, ver) ==
  /\ p \in Members(skip.ids, level) /\ Smaller(p, sid, ver)
  /\ NextOf(p, level) = NoID \/ Compare(NextOf(p, level), sid, ver) > 0

(* What the search returns from a place in a level: an ID that is equal,   *)
(* or the ones before its place in the levels it went through.             *)
Finds(r, level, sid, ver) ==
  /\ r \in [id : Links, prev : [Levels -> Links]]
  /\ r.id = NoID => \A l \in 1 .. level : InPlace(r.prev[l], l, sid, ver)
  /\ r.id # NoID => r.id \in 1 .. MaxIds /\ skip.ids[r.id].live /\ Compare(r.id, sid, ver) = 0

LEMMA SearchFinds ==
  ASSUME SkipInv, NEW sid \in Nat, NEW ver \in Nat, NEW Search,
         Search = [at \in Places |-> SearchAt(Search, at, sid, ver)]
  PROVE  \A id \in Nodes, level \in 0 .. MaxHeight :
           level = 0 \/ (id \in Members(skip.ids, level) /\ Smaller(id, sid, ver))
             => Finds(Search[<<id, level>>], level, sid, ver)
<1> DEFINE Starts(id, level) == level = 0 \/ (id \in Members(skip.ids, level) /\ Smaller(id, sid, ver))
           Right(id, level) == Starts(id, level) => Finds(Search[<<id, level>>], level, sid, ver)
           A == {n \in Nat : \A id \in Nodes, level \in 0 .. MaxHeight : Distance[<<id, level>>] < n => Right(id, level)}
<1>0. \A id \in Nodes, level \in 0 .. MaxHeight : <<id, level>> \in Places /\ Distance[<<id, level>>] \in Nat
  BY DistanceIsNatural DEF Places
<1>1. 0 \in A
  BY <1>0
<1>2. ASSUME NEW n \in Nat, n \in A, NEW id \in Nodes, NEW level \in 0 .. MaxHeight,
             Distance[<<id, level>>] < n + 1, Starts(id, level)
      PROVE  Finds(Search[<<id, level>>], level, sid, ver)
  <2> DEFINE next == NextOf(id, level)
  <2>1. Search[<<id, level>>] =
          IF level = 0 THEN Nothing
          ELSE IF next = NoID \/ Compare(next, sid, ver) > 0
               THEN [Search[<<id, level - 1>>] EXCEPT !.prev[level] = id]
               ELSE IF Compare(next, sid, ver) < 0 THEN Search[<<next, level>>]
               ELSE Hit(id, level)
    <3>1. <<id, level>> \in Places
      BY <1>0
    <3>2. Search[<<id, level>>] = SearchAt(Search, <<id, level>>, sid, ver)
      BY <3>1
    <3> QED BY <3>2 DEF SearchAt
  <2>2. CASE level = 0
    BY <2>1, <2>2, SkipAssumption DEF Finds, Nothing, Links, NoID
  <2>3. CASE level # 0
    <3>1. level \in Levels /\ id \in Members(skip.ids, level) /\ Smaller(id, sid, ver)
      BY <1>2, <2>3 DEF Levels
    <3>2. next # NoID => next \in Members(skip.ids, level) /\ next # ListHead /\ next \in 1 .. MaxIds /\ skip.ids[next].live
      <4>1. next # NoID => next \in Members(skip.ids, level) /\ Precedes(skip.ids, id, next)
        BY <3>1, NextIsFirst
      <4> HIDE DEF next
      <4> QED BY <4>1, SkipAssumption DEF Members, Precedes, Nodes, ListHead
    <3>3. CASE next = NoID \/ Compare(next, sid, ver) > 0
      <4> DEFINE r == Search[<<id, level - 1>>]
      <4>1. Distance[<<id, level - 1>>] < Distance[<<id, level>>] /\ level - 1 \in 0 .. MaxHeight
        <5>1. level - 1 \in 0 .. MaxHeight
          BY <3>1, SkipAssumption DEF Levels
        <5>2. Distance[<<id, level - 1>>] < Distance[<<id, level>>]
          BY <3>1, SearchCloser
        <5> QED BY <5>1, <5>2
      <4>2. Distance[<<id, level - 1>>] < n
        BY <1>0, <1>2, <4>1
      <4>3. Starts(id, level - 1)
        BY <3>1 DEF Members, Levels, SkipInv, IDType
      <4>4. Finds(r, level - 1, sid, ver)
        BY <1>2, <4>1, <4>2, <4>3
      <4>5. InPlace(id, level, sid, ver)
        BY <3>1, <3>3 DEF InPlace
      <4>6. Search[<<id, level>>] = [r EXCEPT !.prev[level] = id]
        BY <2>1, <2>3, <3>3
      <4>7. id \in Links
        BY SkipAssumption DEF Nodes, Links, NoID
      <4> HIDE DEF r, next
      <4> DEFINE s == [r EXCEPT !.prev[level] = id]
      <4>8. s \in [id : Links, prev : [Levels -> Links]] /\ s.id = r.id
        BY <4>4, <4>7, <3>1 DEF Finds
      <4>9. s.prev[level] = id /\ \A l \in Levels : l # level => s.prev[l] = r.prev[l]
        BY <4>4, <3>1 DEF Finds
      <4>10. ASSUME s.id = NoID, NEW l \in 1 .. level PROVE InPlace(s.prev[l], l, sid, ver)
        <5>1. l \in Levels /\ (l # level => l \in 1 .. level - 1)
          BY <3>1, SkipAssumption DEF Levels
        <5>2. CASE l = level
          BY <4>5, <4>9, <5>2
        <5>3. CASE l # level
          BY <4>4, <4>8, <4>9, <4>10, <5>1, <5>3 DEF Finds
        <5> QED BY <5>2, <5>3
      <4> HIDE DEF s
      <4>11. Finds(s, level, sid, ver)
        BY <4>4, <4>8, <4>10 DEF Finds
      <4> QED BY <4>6, <4>11 DEF s
    <3>4. CASE next # NoID /\ ~(Compare(next, sid, ver) > 0) /\ Compare(next, sid, ver) < 0
      <4>1. Distance[<<next, level>>] < Distance[<<id, level>>] /\ next \in Nodes
        <5>1. next \in Nodes
          BY <3>2, <3>4, SkipAssumption DEF Nodes
        <5> QED BY <3>1, <3>4, <5>1, SearchCloser
      <4>2. Starts(next, level) /\ Distance[<<next, level>>] < n
        <5>1. Distance[<<next, level>>] \in Nat /\ Distance[<<id, level>>] \in Nat
          BY <1>0, <4>1
        <5> QED BY <1>2, <3>2, <3>4, <4>1, <5>1 DEF Smaller
      <4>3. Finds(Search[<<next, level>>], level, sid, ver)
        BY <1>2, <4>1, <4>2
      <4> QED BY <2>1, <2>3, <3>4, <4>3
    <3>5. CASE next # NoID /\ ~(Compare(next, sid, ver) > 0) /\ ~(Compare(next, sid, ver) < 0)
      <4>1. Search[<<id, level>>] = Hit(id, level)
        BY <2>1, <2>3, <3>5
      <4>2. Compare(next, sid, ver) = 0
        <5>1. Compare(next, sid, ver) \in Int
          <6>1. next \in Nodes
            BY <3>2, <3>5, SkipAssumption DEF Nodes
          <6>2. skip.ids[next].sid \in Nat /\ skip.ids[next].ver \in Nat
            <7> HIDE DEF next
            <7> QED BY <6>1 DEF SkipInv, IDType
          <6> QED BY <6>2 DEF Compare
        <5> HIDE DEF next
        <5> QED BY <3>5, <5>1
      <4>3. id \in Links /\ next \in Links /\ NoID \in Links
        BY <3>2, <3>5, SkipAssumption DEF Nodes, Links, NoID
      <4>4. Hit(id, level) = [id |-> next, prev |-> [l \in Levels |-> IF l = level THEN id ELSE NoID]]
        BY DEF Hit
      <4> HIDE DEF next
      <4> QED BY <3>2, <3>5, <4>1, <4>2, <4>3, <4>4 DEF Finds
    <3> HIDE DEF next
    <3> QED BY <3>3, <3>4, <3>5
  <2> QED BY <2>2, <2>3
<1>3. ASSUME NEW n \in Nat, n \in A PROVE n + 1 \in A
  <2>1. ASSUME NEW id \in Nodes, NEW level \in 0 .. MaxHeight, Distance[<<id, level>>] < n + 1 PROVE Right(id, level)
    <3> SUFFICES ASSUME Starts(id, level) PROVE Finds(Search[<<id, level>>], level, sid, ver)
      OBVIOUS
    <3> HIDE DEF A, Starts
    <3> QED BY <1>2, <1>3, <2>1
  <2>2. n + 1 \in Nat
    OBVIOUS
  <2> HIDE DEF Right
  <2> QED BY <2>1, <2>2
<1>4. \A n \in Nat : n \in A
  <2> HIDE DEF A
  <2> QED BY <1>1, <1>3, AllNaturals
<1> SUFFICES ASSUME NEW id \in Nodes, NEW level \in 0 .. MaxHeight PROVE Right(id, level)
  OBVIOUS
<1>5. Distance[<<id, level>>] + 1 \in A /\ Distance[<<id, level>>] \in Nat
  <2> HIDE DEF A
  <2> QED BY <1>0, <1>4
<1>6. Distance[<<id, level>>] < Distance[<<id, level>>] + 1
  BY <1>5
<1> DEFINE d == Distance[<<id, level>>] + 1
<1>7. \A i \in Nodes, l \in 0 .. MaxHeight : Distance[<<i, l>>] < d => Right(i, l)
  <2> HIDE DEF Right
  <2> QED BY <1>5
<1> HIDE DEF A, Right
<1> QED BY <1>6, <1>7

(* The result of mstl3_findID().                                           *)
LEMMA FindIDFinds ==
  ASSUME SkipInv, NEW sid \in Nat, NEW ver \in Nat
  PROVE  Finds(mstl3_findID(sid, ver), MaxHeight, sid, ver)
<1>1. PICK Search : /\ Search = [at \in Places |-> SearchAt(Search, at, sid, ver)]
                    /\ mstl3_findID(sid, ver) = Search[<<ListHead, MaxHeight>>]
  BY SearchIs
<1>2. ListHead \in Members(skip.ids, MaxHeight) /\ Smaller(ListHead, sid, ver)
  BY SkipAssumption DEF Members, Smaller, SkipInv, HeightsOK, Nodes, ListHead
<1>3. ListHead \in Nodes /\ MaxHeight \in 0 .. MaxHeight
  BY SkipAssumption DEF Nodes, ListHead
<1>4. \A id \in Nodes, level \in 0 .. MaxHeight :
           level = 0 \/ (id \in Members(skip.ids, level) /\ Smaller(id, sid, ver))
             => Finds(Search[<<id, level>>], level, sid, ver)
  BY <1>1, SearchFinds
<1> QED BY <1>1, <1>2, <1>3, <1>4

(* No ID is equal to one that has a place in the lowest level: those after *)
(* the place are larger, those before it smaller.                          *)
LEMMA PlaceIsFree ==
  ASSUME SkipInv, NEW sid \in Nat, NEW ver \in Nat, NEW p, InPlace(p, 1, sid, ver), NEW i \in Live(skip.ids)
  PROVE  Compare(i, sid, ver) # 0
<1> DEFINE M == Members(skip.ids, 1)
           next == NextOf(p, 1)
<1>1. p \in M /\ Smaller(p, sid, ver) /\ (next = NoID \/ Compare(next, sid, ver) > 0)
  BY DEF InPlace
<1>2. \A j \in M : j \in Nodes /\ skip.ids[j].sid \in Nat /\ skip.ids[j].ver \in Nat
  BY DEF Members, SkipInv, IDType
<1>3. i \in M /\ i # ListHead
  <2>1. i \in Nodes /\ i # ListHead /\ skip.ids[i].live
    BY SkipAssumption DEF Live, Nodes, ListHead
  <2>2. skip.ids[i].height \in Levels
    BY <2>1 DEF SkipInv, HeightsOK
  <2> QED BY <2>1, <2>2, SkipAssumption DEF Members, Levels
<1>4. p = i \/ Precedes(skip.ids, p, i) \/ Precedes(skip.ids, i, p)
  <2>1. Orders(Order(skip.ids), M)
    BY OrderIsStrict DEF SkipInv
  <2>2. \A j, k \in M : <<j, k>> \in Order(skip.ids) <=> Precedes(skip.ids, j, k)
    BY DEF Order, Members
  <2> HIDE DEF M
  <2> QED BY <1>1, <1>3, <2>1, <2>2 DEF Orders
<1>5. CASE p = i
  BY <1>1, <1>3, <1>5 DEF Smaller
<1>6. CASE Precedes(skip.ids, i, p)
  <2>1. p # ListHead /\ Compare(p, sid, ver) < 0
    BY <1>1, <1>6 DEF Smaller, Precedes
  <2> HIDE DEF M, next
  <2> QED BY <1>1, <1>2, <1>3, <1>6, <2>1 DEF Compare, Precedes
<1>7. CASE Precedes(skip.ids, p, i)
  <2>1. next # NoID /\ next \in M /\ Precedes(skip.ids, p, next) /\ (i = next \/ Precedes(skip.ids, next, i))
    <3>1. 1 \in Levels /\ p \in Nodes
      BY <1>1, SkipAssumption DEF Levels, Members
    <3> QED BY <1>1, <1>3, <1>7, <3>1, NextIsFirst
  <2>2. next # ListHead /\ Compare(next, sid, ver) > 0
    BY <1>1, <2>1 DEF Precedes
  <2> HIDE DEF M, next
  <2> QED BY <1>2, <1>3, <2>1, <2>2 DEF Compare, Precedes
<1> QED BY <1>4, <1>5, <1>6, <1>7

(* A search finds an ID exactly if there is one. *)
LEMMA FindIDIsRight ==
  ASSUME SkipInv, NEW sid \in Nat, NEW ver \in Nat
  PROVE  LET found == mstl3_findID(sid, ver).id
         IN  IF found = NoID THEN \A i \in Live(skip.ids) : Compare(i, sid, ver) # 0
             ELSE found \in Live(skip.ids) /\ Compare(found, sid, ver) = 0
<1> DEFINE r == mstl3_findID(sid, ver)
<1>1. Finds(r, MaxHeight, sid, ver)
  BY FindIDFinds
<1> HIDE DEF r
<1>2. ASSUME r.id = NoID PROVE \A i \in Live(skip.ids) : Compare(i, sid, ver) # 0
  <2>1. InPlace(r.prev[1], 1, sid, ver)
    BY <1>1, <1>2, SkipAssumption DEF Finds
  <2> QED BY <2>1, PlaceIsFree
<1>3. ASSUME r.id # NoID PROVE r.id \in Live(skip.ids) /\ Compare(r.id, sid, ver) = 0
  BY <1>1, <1>3 DEF Finds, Live
<1> QED BY <1>2, <1>3 DEF r

LEMMA FindsListed ==
  SkipInv => FindsWhatIsListed
<1> SUFFICES ASSUME SkipInv, NEW sid \in SkipSids, NEW ver \in SkipVersions
             PROVE  LET found == mstl3_findID(sid, ver).id
                        there == {i \in 1 .. MaxIds : skip.ids[i].live /\ skip.ids[i].sid = sid /\ (ver = 0 \/ skip.ids[i].ver = ver)}
                    IN  IF there = {} THEN found = NoID ELSE found \in there
  BY DEF FindsWhatIsListed
<1> DEFINE found == mstl3_findID(sid, ver).id
           there == {i \in 1 .. MaxIds : skip.ids[i].live /\ skip.ids[i].sid = sid /\ (ver = 0 \/ skip.ids[i].ver = ver)}
<1>1. sid \in Nat /\ ver \in Nat
  BY SkipAssumption
<1>2. IF found = NoID THEN \A i \in Live(skip.ids) : Compare(i, sid, ver) # 0
      ELSE found \in Live(skip.ids) /\ Compare(found, sid, ver) = 0
  BY <1>1, FindIDIsRight
<1>3. \A i \in Live(skip.ids) : i \in there <=> Compare(i, sid, ver) = 0
  <2>1. \A i \in Live(skip.ids) : i \in 1 .. MaxIds /\ skip.ids[i].live /\ skip.ids[i].sid \in Nat /\ skip.ids[i].ver \in Nat
    BY SkipAssumption, SMTT(40) DEF Live, SkipInv, IDType, Nodes
  <2> QED BY <1>1, <2>1 DEF Compare
<1>4. there \subseteq Live(skip.ids)
  BY DEF Live
<1> HIDE DEF found, there
<1>5. IF there = {} THEN found = NoID ELSE found \in there
  BY <1>2, <1>3, <1>4
<1> QED BY <1>5 DEF found, there

-----------------------------------------------------------------------------
(* The operations keep the list.                                           *)

LEMMA ChainSame ==
  ASSUME NEW M, NEW R, NEW Q, \A i, j \in M : <<i, j>> \in R <=> <<i, j>> \in Q,
         NEW next, Chain(next, R, M), NEW link, \A i \in M : link[i] = next[i]
  PROVE  Chain(link, Q, M)
<1>1. \A i \in M : After(i, R, M) = After(i, Q, M) /\ After(i, R, M) \subseteq M
  BY DEF After
<1>2. \A i \in M : IF After(i, R, M) = {} THEN next[i] = NoID
                   ELSE next[i] \in After(i, R, M) /\ \A j \in After(i, R, M) \ {next[i]} : <<next[i], j>> \in R
  BY DEF Chain
<1> SUFFICES ASSUME NEW i \in M
             PROVE  IF After(i, Q, M) = {} THEN link[i] = NoID
                    ELSE link[i] \in After(i, Q, M) /\ \A j \in After(i, Q, M) \ {link[i]} : <<link[i], j>> \in Q
  BY DEF Chain
<1>3. CASE After(i, Q, M) = {}
  BY <1>1, <1>2, <1>3
<1>4. CASE After(i, Q, M) # {}
  <2>1. link[i] = next[i] /\ next[i] \in M /\ next[i] \in After(i, Q, M)
    BY <1>1, <1>2, <1>4
  <2>2. \A j \in After(i, Q, M) \ {next[i]} : j \in M /\ <<next[i], j>> \in R
    BY <1>1, <1>2, <1>4
  <2> QED BY <1>4, <2>1, <2>2
<1> QED BY <1>3, <1>4

LEMMA InitLinked ==
  SkipInit => SkipInv
<1> SUFFICES ASSUME NEW split \in BOOLEAN,
                    skip = [split |-> split, numtraceids |-> 0,
                            ids |-> [i \in 0 .. MaxIds |-> IF i = ListHead THEN HeadNode ELSE Unlinked]]
             PROVE  SkipInv
  BY DEF SkipInit
<1>1. Unlinked \in IDType /\ Unlinked.live = FALSE /\ \A l \in Levels : Unlinked.next[l] = NoID
  BY SkipAssumption DEF Unlinked, Alone, IDType, Links, NoID
<1>2. HeadNode \in IDType /\ HeadNode.live = TRUE /\ HeadNode.height = MaxHeight /\ \A l \in Levels : HeadNode.next[l] = NoID
  BY SkipAssumption DEF HeadNode, Alone, IDType, Links, NoID
<1>3. ListHead \in Nodes /\ ListHead \notin 1 .. MaxIds /\ MaxHeight \in Levels /\ 1 .. MaxIds \subseteq Nodes
  BY SkipAssumption DEF Nodes, ListHead, Levels
<1>4. skip.ids = [i \in Nodes |-> IF i = ListHead THEN HeadNode ELSE Unlinked] /\ skip.split = split /\ skip.numtraceids = 0
  BY DEF Nodes
<1>5. skip \in [split : BOOLEAN, numtraceids : Nat, ids : [Nodes -> IDType]]
  BY <1>1, <1>2, <1>4
<1>6. HeightsOK(skip.ids)
  BY <1>1, <1>2, <1>3, <1>4 DEF HeightsOK
<1>7. Live(skip.ids) = {}
  BY <1>1, <1>3, <1>4 DEF Live
<1>8. Distinct(skip.ids, skip.split)
  BY <1>1, <1>3, <1>4 DEF Distinct
<1>9. LinkedInOrder(skip.ids)
  <2> SUFFICES ASSUME NEW level \in Levels PROVE Chain(NextIn(skip.ids, level), Order(skip.ids), Members(skip.ids, level))
    BY DEF LinkedInOrder
  <2>1. \A i \in Members(skip.ids, level) : i = ListHead /\ i \in Nodes
    BY <1>1, <1>4 DEF Members
  <2>2. NextIn(skip.ids, level)[ListHead] = NoID
    BY <1>2, <1>3, <1>4 DEF NextIn
  <2>3. \A j \in Members(skip.ids, level) : <<ListHead, j>> \notin Order(skip.ids)
    BY <2>1 DEF Order, Precedes
  <2> QED BY <2>1, <2>2, <2>3 DEF Chain, After
<1>10. Cardinality(Live(skip.ids)) = 0
  BY <1>7, FS_EmptySet
<1> QED BY <1>4, <1>5, <1>6, <1>8, <1>9, <1>10 DEF SkipInv

(* A new ID is linked behind what a search without result found           *)
(* (mstl3_addID()).                                                        *)
LEMMA AddLinked ==
  ASSUME SkipInv, NEW new \in Free, NEW sid \in Nat, NEW ver \in Nat, NEW height \in Levels,
         NEW v \in {0, ver}, ~skip.split => v = 0,
         NEW r, Finds(r, MaxHeight, sid, v), r.id = NoID,
         \A i \in Live(skip.ids) : Compare(i, sid, v) # 0,
         skip' = Linked(new, sid, ver, height, r.prev)
  PROVE  SkipInv'
<1> DEFINE ids == skip.ids
           prev == r.prev
           node == [live |-> TRUE, sid |-> sid, ver |-> ver, height |-> height,
                    next |-> [level \in Levels |-> IF level <= height THEN NextAt(level, prev) ELSE NoID]]
           link == [i \in Nodes |-> IF i = new THEN node
                                    ELSE [ids[i] EXCEPT !.next = [level \in Levels |-> IF level <= height /\ prev[level] = i THEN new ELSE ids[i].next[level]]]]
<1>1. new \in 1 .. MaxIds /\ new \in Nodes /\ new # ListHead /\ ids[new].live = FALSE
  BY SkipAssumption DEF Free, Nodes, ListHead, SkipInv, IDType
<1>2. skip \in [split : BOOLEAN, numtraceids : Nat, ids : [Nodes -> IDType]]
  BY DEF SkipInv
<1>3. \A level \in Levels : InPlace(prev[level], level, sid, v) /\ prev[level] \in Nodes /\ prev[level] \in Links
                            /\ NextAt(level, prev) = ids[prev[level]].next[level]
  BY DEF Finds, Levels, InPlace, Members, NextAt, NextOf
<1>4. node \in IDType /\ node.live = TRUE /\ node.sid = sid /\ node.ver = ver /\ node.height = height
      /\ \A level \in Levels : node.next[level] = IF level <= height THEN ids[prev[level]].next[level] ELSE NoID
  <2>1. \A level \in Levels : ids[prev[level]].next[level] \in Links
    BY <1>2, <1>3 DEF IDType
  <2>2. height \in 0 .. MaxHeight /\ NoID \in Links
    BY SkipAssumption DEF Levels, Links, NoID
  <2> QED BY <1>3, <2>1, <2>2 DEF IDType
<1>5. link \in [Nodes -> IDType]
      /\ \A i \in Nodes \ {new} :
           /\ link[i].live = ids[i].live /\ link[i].sid = ids[i].sid /\ link[i].ver = ids[i].ver /\ link[i].height = ids[i].height
           /\ \A level \in Levels : link[i].next[level] = IF level <= height /\ prev[level] = i THEN new ELSE ids[i].next[level]
  <2> HIDE DEF node, prev
  <2>1. ASSUME NEW i \in Nodes \ {new}
        PROVE  /\ link[i] \in IDType
               /\ link[i].live = ids[i].live /\ link[i].sid = ids[i].sid /\ link[i].ver = ids[i].ver /\ link[i].height = ids[i].height
               /\ \A level \in Levels : link[i].next[level] = IF level <= height /\ prev[level] = i THEN new ELSE ids[i].next[level]
    <3> DEFINE old == ids[i]
               next == [level \in Levels |-> IF level <= height /\ prev[level] = i THEN new ELSE old.next[level]]
    <3>1. old \in IDType
      BY <1>2
    <3>2. new \in Links
      BY <1>1, SkipAssumption DEF Links, NoID
    <3>3. next \in [Levels -> Links]
      BY <3>1, <3>2 DEF IDType
    <3>4. link[i] = [old EXCEPT !.next = next]
      BY <1>2
    <3>5. link[i].next = next
      BY <3>1, <3>4 DEF IDType
    <3> HIDE DEF old, next, link
    <3>6. link[i] \in IDType /\ link[i].live = old.live /\ link[i].sid = old.sid /\ link[i].ver = old.ver /\ link[i].height = old.height
      BY <3>1, <3>3, <3>4 DEF IDType
    <3> QED BY <3>5, <3>6 DEF old, next
  <2>2. link[new] = node
    BY <1>1
  <2>3. link \in [Nodes -> IDType]
    <3>1. \A i \in Nodes : link[i] \in IDType
      <4> HIDE DEF link
      <4> QED BY <1>4, <2>1, <2>2
    <3> QED BY <3>1
  <2> HIDE DEF link
  <2> QED BY <2>1, <2>3
<1>6. skip'.ids = link /\ skip'.split = skip.split /\ skip'.numtraceids = skip.numtraceids + 1
      /\ skip' \in [split : BOOLEAN, numtraceids : Nat, ids : [Nodes -> IDType]]
  <2>1. skip' = [skip EXCEPT !.numtraceids = skip.numtraceids + 1, !.ids = link]
    BY <1>2 DEF Linked, NextOf
  <2>2. skip' = [split |-> skip.split, numtraceids |-> skip.numtraceids + 1, ids |-> link]
    <3> HIDE DEF link
    <3> QED BY <1>2, <2>1
  <2> HIDE DEF link
  <2> QED BY <1>2, <1>5, <2>2
<1>7. link[new] = node
  BY <1>1
<1> HIDE DEF link, node, prev
(* The IDs by their places. *)
<1>8. \A i \in Live(ids) : i # new /\ i \in Nodes /\ i # ListHead /\ ids[i].sid \in Nat /\ ids[i].ver \in Nat
  <2> SUFFICES ASSUME NEW i \in Live(ids)
               PROVE  i # new /\ i \in Nodes /\ i # ListHead /\ ids[i].sid \in Nat /\ ids[i].ver \in Nat
    OBVIOUS
  <2>1. i \in 1 .. MaxIds /\ ids[i].live
    BY DEF Live
  <2>2. i \in Nodes /\ i # ListHead
    BY <2>1, SkipAssumption DEF Nodes, ListHead
  <2>3. ids[i] \in IDType
    BY <1>2, <2>2
  <2> QED BY <1>1, <2>1, <2>2, <2>3 DEF IDType
<1>9. ASSUME NEW i \in Live(ids) PROVE ids[i].sid # sid \/ (skip.split /\ ids[i].ver # ver)
  BY <1>8 DEF Compare
<1>10. ASSUME NEW i \in Live(ids)
       PROVE  /\ Compare(i, sid, v) < 0 => Precedes(link, i, new)
              /\ Compare(i, sid, v) > 0 => Precedes(link, new, i)
  <2>1. i \in Nodes \ {new} /\ i # ListHead
    BY <1>8
  <2>2. link[i].sid = ids[i].sid /\ link[i].ver = ids[i].ver /\ link[new].sid = sid /\ link[new].ver = ver
    BY <1>4, <1>5, <1>7, <2>1
  <2> QED BY <1>1, <1>8, <1>9, <2>1, <2>2 DEF Compare, Precedes
<1>11. Live(link) = Live(ids) \cup {new} /\ new \notin Live(ids)
  <2>1. \A i \in 1 .. MaxIds : i \in Nodes
    BY SkipAssumption DEF Nodes
  <2> QED BY <1>1, <1>4, <1>5, <1>7, <2>1 DEF Live
<1>12. Distinct(link, skip.split)
  <2> SUFFICES ASSUME NEW i \in 1 .. MaxIds, NEW j \in 1 .. MaxIds, link[i].live, link[j].live, i # j
               PROVE  link[i].sid # link[j].sid \/ (skip.split /\ link[i].ver # link[j].ver)
    BY DEF Distinct
  <2>1. i \in Nodes /\ j \in Nodes
    BY SkipAssumption DEF Nodes
  <2>2. CASE i # new /\ j # new
    BY <1>5, <2>1, <2>2 DEF SkipInv, Distinct
  <2>3. CASE i = new
    <3>1. j \in Live(ids)
      BY <1>5, <2>1, <2>3 DEF Live
    <3> QED BY <1>4, <1>5, <1>7, <1>9, <2>1, <2>3, <3>1
  <2>4. CASE j = new
    <3>1. i \in Live(ids)
      BY <1>5, <2>1, <2>4 DEF Live
    <3> QED BY <1>4, <1>5, <1>7, <1>9, <2>1, <2>4, <3>1
  <2> QED BY <2>2, <2>3, <2>4
<1>13. ASSUME NEW level \in Levels
       PROVE  /\ new \notin Members(ids, level)
              /\ Members(link, level) = Members(ids, level) \cup (IF level <= height THEN {new} ELSE {})
  <2>1. new \notin Members(ids, level)
    BY <1>1 DEF Members
  <2>2. \A i \in Nodes \ {new} : i \in Members(link, level) <=> i \in Members(ids, level)
    BY <1>5 DEF Members
  <2>3. new \in Members(link, level) <=> level <= height
    BY <1>1, <1>4, <1>7 DEF Members, Levels
  <2>4. Members(link, level) \subseteq Nodes /\ Members(ids, level) \subseteq Nodes
    BY DEF Members
  <2> QED BY <1>1, <2>1, <2>2, <2>3, <2>4
<1>14. HeightsOK(link)
  <2>0. ListHead \in Nodes
    BY SkipAssumption DEF Nodes, ListHead
  <2>1. link[ListHead].live /\ link[ListHead].height = MaxHeight
    BY <1>1, <1>5, <2>0 DEF SkipInv, HeightsOK
  <2>2. \A i \in Nodes : link[i].live => link[i].height \in Levels
    BY <1>4, <1>5, <1>7 DEF SkipInv, HeightsOK
  <2>3. ASSUME NEW i \in Nodes, NEW level \in Levels, i \notin Members(link, level)
        PROVE  link[i].next[level] = NoID
    <3>1. CASE i = new
      BY <1>1, <1>4, <1>7, <1>13, <2>3, <3>1
    <3>2. CASE i # new
      <4>1. i \notin Members(ids, level)
        BY <1>13, <2>3
      <4>2. prev[level] # i
        BY <1>3, <4>1 DEF InPlace
      <4>3. ids[i].next[level] = NoID
        BY <4>1 DEF SkipInv, HeightsOK
      <4> QED BY <1>5, <3>2, <4>2, <4>3
    <3> QED BY <3>1, <3>2
  <2> QED BY <2>1, <2>2, <2>3 DEF HeightsOK
<1>15. LinkedInOrder(link)
  <2> SUFFICES ASSUME NEW level \in Levels PROVE Chain(NextIn(link, level), Order(link), Members(link, level))
    BY DEF LinkedInOrder
  <2> DEFINE M == Members(ids, level)
             p == prev[level]
  <2>1. M \in SUBSET Nodes /\ new \in Nodes \ M
    BY <1>1, <1>13 DEF Members
  <2>2. Chain(NextIn(ids, level), Order(ids), M)
    BY DEF SkipInv, LinkedInOrder
  <2>3. \A i, j \in M : <<i, j>> \in Order(ids) <=> <<i, j>> \in Order(link)
    <3> SUFFICES ASSUME NEW i \in M, NEW j \in M PROVE <<i, j>> \in Order(ids) <=> <<i, j>> \in Order(link)
      OBVIOUS
    <3>1. i \in Nodes \ {new} /\ j \in Nodes \ {new}
      BY <2>1
    <3>2. Precedes(ids, i, j) <=> Precedes(link, i, j)
      BY <1>5, <3>1 DEF Precedes
    <3> QED BY <3>1, <3>2 DEF Order
  <2>4. \A i \in M : NextIn(ids, level)[i] = ids[i].next[level] /\ NextIn(link, level)[i] = link[i].next[level]
    BY <2>1 DEF NextIn
  <2>5. CASE level <= height
    <3>1. Members(link, level) = M \cup {new}
      BY <1>13, <2>5
    <3>2. Orders(Order(link), M \cup {new})
      <4>1. link \in [Nodes -> IDType] /\ skip.split \in BOOLEAN /\ level \in Int
        BY <1>2, <1>5 DEF Levels
      <4>2. Orders(Order(link), Members(link, level))
        BY <4>1, <1>12, <1>14, OrderIsStrict
      <4> QED BY <3>1, <4>2
    <3>3. InPlace(p, level, sid, v) /\ p \in M
      BY <1>3 DEF InPlace
    <3>4. p \in Nodes /\ ids[p].live /\ (p # ListHead => p \in Live(ids))
      BY <3>3, SkipAssumption DEF Members, Live, Nodes, ListHead
    <3>5. <<p, new>> \in Order(link)
      <4>1. Precedes(link, p, new)
        <5>1. CASE p = ListHead
          BY <1>1, <5>1 DEF Precedes
        <5>2. CASE p # ListHead
          BY <1>10, <3>3, <3>4, <5>2 DEF InPlace, Smaller
        <5> QED BY <5>1, <5>2
      <4> QED BY <1>1, <3>4, <4>1 DEF Order
    <3> DEFINE next == ids[p].next[level]
    <3>6. next = NoID \/ <<new, next>> \in Order(link)
      <4>1. NextOf(p, level) = next
        BY DEF NextOf
      <4> SUFFICES ASSUME next # NoID PROVE <<new, next>> \in Order(link)
        OBVIOUS
      <4>2. Compare(next, sid, v) > 0
        BY <3>3, <4>1 DEF InPlace
      <4>3. next \in M /\ Precedes(ids, p, next)
        BY <3>4, <4>1, NextIsFirst
      <4> HIDE DEF next
      <4>4. next \in Nodes /\ next \in Live(ids)
        BY <4>3, SkipAssumption DEF Members, Precedes, Live, Nodes, ListHead
      <4>5. Precedes(link, new, next)
        BY <1>10, <4>2, <4>4
      <4> QED BY <1>1, <4>4, <4>5 DEF Order
    <3>7. NextIn(link, level)[new] = NextIn(ids, level)[p] /\ NextIn(link, level)[p] = new
      <4>1. link[new].next[level] = next
        BY <1>4, <1>7, <2>5
      <4>2. link[p].next[level] = new
        BY <1>5, <2>1, <2>5, <3>3
      <4>3. NextIn(link, level)[new] = link[new].next[level]
        BY <1>1 DEF NextIn
      <4> QED BY <2>4, <3>3, <4>1, <4>2, <4>3
    <3>8. \A i \in M \ {p} : NextIn(link, level)[i] = NextIn(ids, level)[i]
      BY <1>5, <2>1, <2>4
    <3>9. NextIn(ids, level)[p] = next
      BY <2>4, <3>3
    <3> HIDE DEF M, p, next
    <3>10. Chain(NextIn(link, level), Order(link), M \cup {new})
      BY <2>1, <2>2, <2>3, <3>2, <3>3, <3>5, <3>6, <3>7, <3>8, <3>9, ChainInsert
    <3> QED BY <3>1, <3>10
  <2>6. CASE ~(level <= height)
    <3>1. Members(link, level) = M
      BY <1>13, <2>6
    <3>2. \A i \in M : NextIn(link, level)[i] = NextIn(ids, level)[i]
      BY <1>5, <2>1, <2>4, <2>6
    <3> HIDE DEF M
    <3> QED BY <2>2, <2>3, <3>1, <3>2, ChainSame
  <2> QED BY <2>5, <2>6
<1>16. skip.numtraceids + 1 = Cardinality(Live(link))
  <2>1. IsFiniteSet(Live(ids))
    <3>1. IsFiniteSet(1 .. MaxIds)
      BY FS_Interval, SkipAssumption
    <3>2. Live(ids) \subseteq 1 .. MaxIds
      BY DEF Live
    <3> QED BY <3>1, <3>2, FS_Subset
  <2>2. skip.numtraceids = Cardinality(Live(ids))
    BY DEF SkipInv
  <2> HIDE DEF ids
  <2> QED BY <1>11, <2>1, <2>2, FS_AddElement, ZenonT(30)
<1> QED BY <1>6, <1>12, <1>14, <1>15, <1>16 DEF SkipInv

(* A record raises the version of its ID (_mstl3_addmsr_impl()), which     *)
(* moves no ID: where versions are told apart the ID was found by its      *)
(* version, and elsewhere the identifiers alone order the list.            *)
LEMMA RaiseLinked ==
  ASSUME SkipInv, NEW sid \in Nat, NEW ver \in Nat, NEW found \in Live(skip.ids),
         Compare(found, sid, IF skip.split THEN ver ELSE 0) = 0,
         skip' = [skip EXCEPT !.ids[found].ver = IF ver > @ THEN ver ELSE @]
  PROVE  SkipInv'
<1> DEFINE ids == skip.ids
           version == IF ver > ids[found].ver THEN ver ELSE ids[found].ver
           link == [i \in Nodes |-> IF i = found THEN [ids[found] EXCEPT !.ver = version] ELSE ids[i]]
<1>1. skip \in [split : BOOLEAN, numtraceids : Nat, ids : [Nodes -> IDType]]
  BY DEF SkipInv
<1>2. found \in Nodes /\ found # ListHead /\ found \in 1 .. MaxIds /\ ids[found].live
  BY SkipAssumption DEF Live, Nodes, ListHead
<1>3. ids[found] \in IDType /\ ids[found].ver \in Nat /\ version \in Nat
  BY <1>1, <1>2 DEF IDType
<1>4. skip.split => version = ids[found].ver
  <2> SUFFICES ASSUME skip.split PROVE version = ids[found].ver
    OBVIOUS
  <2>1. ids[found].sid \in Nat /\ Compare(found, sid, ver) = 0
    BY <1>1, <1>2 DEF IDType
  <2>2. ver = 0 \/ ids[found].ver = ver
    BY <1>3, <2>1 DEF Compare
  <2> QED BY <1>3, <2>2
<1> HIDE DEF version
<1>5. skip'.ids = link /\ skip'.split = skip.split /\ skip'.numtraceids = skip.numtraceids
      /\ skip' = [split |-> skip.split, numtraceids |-> skip.numtraceids, ids |-> link]
  <2>1. link = [ids EXCEPT ![found] = [ids[found] EXCEPT !.ver = version]]
    BY <1>1, <1>2
  <2>2. skip' = [skip EXCEPT !.ids = link]
    <3>1. skip' = [skip EXCEPT !.ids[found].ver = version]
      BY DEF version
    <3> HIDE DEF link
    <3> QED BY <2>1, <3>1
  <2> HIDE DEF link
  <2> QED BY <1>1, <2>2
<1>6. /\ link \in [Nodes -> IDType]
      /\ \A i \in Nodes : /\ link[i].live = ids[i].live /\ link[i].sid = ids[i].sid
                          /\ link[i].height = ids[i].height /\ link[i].next = ids[i].next
                          /\ i # found => link[i].ver = ids[i].ver
      /\ link[found].ver = version
  <2>1. [ids[found] EXCEPT !.ver = version] \in IDType
    BY <1>3 DEF IDType
  <2>2. \A i \in Nodes : link[i] \in IDType
    BY <1>1, <2>1
  <2>3. link \in [Nodes -> IDType]
    BY <2>2
  <2>4. ASSUME NEW i \in Nodes, i # found PROVE link[i] = ids[i]
    BY <2>4
  <2>5. link[found] = [ids[found] EXCEPT !.ver = version]
    BY <1>2
  <2>6. /\ link[found].live = ids[found].live /\ link[found].sid = ids[found].sid /\ link[found].ver = version
        /\ link[found].height = ids[found].height /\ link[found].next = ids[found].next
    <3> HIDE DEF link
    <3> QED BY <1>3, <2>5 DEF IDType
  <2> HIDE DEF link
  <2> QED BY <2>3, <2>4, <2>6
<1> HIDE DEF link
<1>7. \A level \in Levels : Members(link, level) = Members(ids, level)
  BY <1>6 DEF Members
<1>8. HeightsOK(link)
  <2>1. ListHead \in Nodes
    BY SkipAssumption DEF Nodes, ListHead
  <2> QED BY <1>6, <1>7, <2>1 DEF HeightsOK, SkipInv
<1>9. Live(link) = Live(ids)
  <2>1. \A i \in 1 .. MaxIds : i \in Nodes
    BY SkipAssumption DEF Nodes
  <2> QED BY <1>6, <2>1 DEF Live
<1>10. \A i, j \in 1 .. MaxIds : ids[i].live /\ ids[j].live /\ i # j => ids[i].sid # ids[j].sid \/ (skip.split /\ ids[i].ver # ids[j].ver)
  BY DEF SkipInv, Distinct
<1>11. skip.split => \A i \in Nodes : link[i].ver = ids[i].ver
  BY <1>4, <1>6
<1>12. Distinct(link, skip.split)
  <2> SUFFICES ASSUME NEW i \in 1 .. MaxIds, NEW j \in 1 .. MaxIds, link[i].live, link[j].live, i # j
               PROVE  link[i].sid # link[j].sid \/ (skip.split /\ link[i].ver # link[j].ver)
    BY DEF Distinct
  <2>1. i \in Nodes /\ j \in Nodes
    BY SkipAssumption DEF Nodes
  <2> QED BY <1>6, <1>10, <1>11, <2>1
<1>13. LinkedInOrder(link)
  <2> SUFFICES ASSUME NEW level \in Levels PROVE Chain(NextIn(link, level), Order(link), Members(link, level))
    BY DEF LinkedInOrder
  <2> DEFINE M == Members(ids, level)
  <2>1. \A i \in M : i \in Nodes /\ ids[i].live /\ (i # ListHead => i \in 1 .. MaxIds)
    BY SkipAssumption DEF Members, Nodes, ListHead
  <2>2. ASSUME NEW i \in M, NEW j \in M PROVE Precedes(ids, i, j) <=> Precedes(link, i, j)
    <3>1. link[i].sid = ids[i].sid /\ link[j].sid = ids[j].sid
      BY <1>6, <2>1
    <3>2. CASE skip.split
      <4>1. link[i].ver = ids[i].ver /\ link[j].ver = ids[j].ver
        BY <1>11, <2>1, <3>2
      <4> QED BY <3>1, <4>1 DEF Precedes
    <3>3. CASE i = j
      <4>1. link[i].ver \in Nat /\ ids[i].ver \in Nat
        BY <1>1, <1>6, <2>1 DEF IDType
      <4> QED BY <3>1, <3>3, <4>1 DEF Precedes
    <3>4. CASE i # j /\ ~skip.split
      <4>1. CASE i = ListHead \/ j = ListHead
        BY <4>1 DEF Precedes
      <4>2. CASE i # ListHead /\ j # ListHead
        <5>1. ids[i].sid # ids[j].sid
          BY <1>10, <2>1, <3>4, <4>2
        <5> QED BY <3>1, <5>1 DEF Precedes
      <4> QED BY <4>1, <4>2
    <3> QED BY <3>2, <3>3, <3>4
  <2>3. \A i, j \in M : <<i, j>> \in Order(ids) <=> <<i, j>> \in Order(link)
    BY <2>1, <2>2 DEF Order
  <2>4. \A i \in M : NextIn(link, level)[i] = NextIn(ids, level)[i]
    BY <1>6, <2>1 DEF NextIn
  <2>5. Chain(NextIn(ids, level), Order(ids), M)
    BY DEF SkipInv, LinkedInOrder
  <2> HIDE DEF M
  <2>6. Chain(NextIn(link, level), Order(link), M)
    BY <2>3, <2>4, <2>5, ChainSame
  <2> QED BY <1>7, <2>6 DEF M
<1>14. skip.numtraceids = Cardinality(Live(link))
  BY <1>9 DEF SkipInv
<1> QED BY <1>1, <1>5, <1>6, <1>8, <1>12, <1>13, <1>14 DEF SkipInv

(* An ID is taken out of all its levels (lm_remove_segment()). *)
LEMMA RemoveLinked ==
  ASSUME SkipInv, NEW id \in 1 .. MaxIds, RemoveID(id)
  PROVE  SkipInv'
<1> DEFINE ids == skip.ids
           link == [i \in Nodes |-> IF i = id THEN Unlinked
                                    ELSE [ids[i] EXCEPT !.next = [level \in Levels |->
                                            IF level \in 1 .. ids[id].height /\ ids[i].next[level] = id THEN ids[id].next[level] ELSE ids[i].next[level]]]]
<1>1. skip \in [split : BOOLEAN, numtraceids : Nat, ids : [Nodes -> IDType]]
  BY DEF SkipInv
<1>2. id \in Nodes /\ id # ListHead /\ ids[id].live /\ ids[id] \in IDType
  BY <1>1, SkipAssumption DEF RemoveID, Nodes
<1>3. Unlinked \in IDType /\ Unlinked.live = FALSE /\ \A level \in Levels : Unlinked.next[level] = NoID
  BY SkipAssumption DEF Unlinked, Alone, IDType, Links, NoID
<1>4. ASSUME NEW level \in Levels, NEW i \in Nodes, ids[i].next[level] = id PROVE level \in 1 .. ids[id].height
  <2>1. id \in Members(ids, level)
    <3>1. id # NoID
      BY <1>2, SkipAssumption DEF Nodes, NoID
    <3> QED BY <1>4, <3>1, NextIsFirst DEF NextOf
  <2> QED BY <1>2, <2>1 DEF Members, Levels, IDType
<1>5. link \in [Nodes -> IDType]
      /\ \A i \in Nodes \ {id} :
           /\ link[i].live = ids[i].live /\ link[i].sid = ids[i].sid /\ link[i].ver = ids[i].ver /\ link[i].height = ids[i].height
           /\ \A level \in Levels : link[i].next[level] = IF ids[i].next[level] = id THEN ids[id].next[level] ELSE ids[i].next[level]
  <2>1. ASSUME NEW i \in Nodes \ {id}
        PROVE  /\ link[i] \in IDType
               /\ link[i].live = ids[i].live /\ link[i].sid = ids[i].sid /\ link[i].ver = ids[i].ver /\ link[i].height = ids[i].height
               /\ \A level \in Levels : link[i].next[level] = IF ids[i].next[level] = id THEN ids[id].next[level] ELSE ids[i].next[level]
    <3> DEFINE old == ids[i]
               next == [level \in Levels |-> IF level \in 1 .. ids[id].height /\ old.next[level] = id THEN ids[id].next[level] ELSE old.next[level]]
    <3>1. old \in IDType
      BY <1>1
    <3>2. next \in [Levels -> Links]
      BY <1>2, <3>1 DEF IDType
    <3>3. \A level \in Levels : next[level] = IF old.next[level] = id THEN ids[id].next[level] ELSE old.next[level]
      BY <1>4
    <3>4. link[i] = [old EXCEPT !.next = next]
      BY <1>1
    <3> HIDE DEF old, next, link
    <3>5. link[i].next = next
      BY <3>1, <3>4 DEF IDType
    <3>6. link[i] \in IDType /\ link[i].live = old.live /\ link[i].sid = old.sid /\ link[i].ver = old.ver /\ link[i].height = old.height
      BY <3>1, <3>2, <3>4 DEF IDType
    <3> QED BY <3>3, <3>5, <3>6 DEF old
  <2>2. link[id] = Unlinked
    BY <1>2
  <2>3. link \in [Nodes -> IDType]
    <3>1. \A i \in Nodes : link[i] \in IDType
      <4> HIDE DEF link
      <4> QED BY <1>3, <2>1, <2>2
    <3> QED BY <3>1
  <2> HIDE DEF link
  <2> QED BY <2>1, <2>3
<1>6. link[id] = Unlinked
  BY <1>2
<1>7. skip'.ids = link /\ skip'.split = skip.split /\ skip'.numtraceids = skip.numtraceids - 1
      /\ skip' = [split |-> skip.split, numtraceids |-> skip.numtraceids - 1, ids |-> link]
  <2>1. skip' = [skip EXCEPT !.numtraceids = skip.numtraceids - 1, !.ids = link]
    BY <1>1 DEF RemoveID, NextOf, LevelsOf
  <2>2. skip' = [split |-> skip.split, numtraceids |-> skip.numtraceids - 1, ids |-> link]
    <3> HIDE DEF link
    <3> QED BY <1>1, <2>1
  <2> HIDE DEF link
  <2> QED BY <2>2
<1> HIDE DEF link
<1>8. Live(link) = Live(ids) \ {id} /\ id \in Live(ids)
  <2>1. \A i \in 1 .. MaxIds : i \in Nodes
    BY SkipAssumption DEF Nodes
  <2> QED BY <1>2, <1>3, <1>5, <1>6, <2>1 DEF Live
<1>9. \A level \in Levels : Members(link, level) = Members(ids, level) \ {id}
  <2> SUFFICES ASSUME NEW level \in Levels PROVE Members(link, level) = Members(ids, level) \ {id}
    OBVIOUS
  <2>1. \A i \in Nodes \ {id} : i \in Members(link, level) <=> i \in Members(ids, level)
    BY <1>5 DEF Members
  <2>2. id \notin Members(link, level)
    BY <1>3, <1>6 DEF Members
  <2>3. Members(link, level) \subseteq Nodes /\ Members(ids, level) \subseteq Nodes
    BY DEF Members
  <2> QED BY <2>1, <2>2, <2>3
<1>10. Distinct(link, skip.split)
  <2> SUFFICES ASSUME NEW i \in 1 .. MaxIds, NEW j \in 1 .. MaxIds, link[i].live, link[j].live, i # j
               PROVE  link[i].sid # link[j].sid \/ (skip.split /\ link[i].ver # link[j].ver)
    BY DEF Distinct
  <2>1. i \in Nodes \ {id} /\ j \in Nodes \ {id}
    BY <1>3, <1>6, SkipAssumption DEF Nodes
  <2> QED BY <1>5, <2>1 DEF SkipInv, Distinct
<1>11. HeightsOK(link)
  <2>1. ListHead \in Nodes \ {id}
    BY <1>2, SkipAssumption DEF Nodes, ListHead
  <2>2. link[ListHead].live /\ link[ListHead].height = MaxHeight
    BY <1>5, <2>1 DEF SkipInv, HeightsOK
  <2>3. \A i \in Nodes : link[i].live => link[i].height \in Levels
    BY <1>3, <1>5, <1>6 DEF SkipInv, HeightsOK
  <2>4. ASSUME NEW i \in Nodes, NEW level \in Levels, i \notin Members(link, level)
        PROVE  link[i].next[level] = NoID
    <3>1. CASE i = id
      BY <1>3, <1>6, <3>1
    <3>2. CASE i # id
      <4>1. ids[i].next[level] = NoID
        BY <1>9, <2>4, <3>2 DEF SkipInv, HeightsOK
      <4>2. id # NoID
        BY <1>2, SkipAssumption DEF Nodes, NoID
      <4> QED BY <1>5, <3>2, <4>1, <4>2
    <3> QED BY <3>1, <3>2
  <2> QED BY <2>2, <2>3, <2>4 DEF HeightsOK
<1>12. LinkedInOrder(link)
  <2> SUFFICES ASSUME NEW level \in Levels PROVE Chain(NextIn(link, level), Order(link), Members(link, level))
    BY DEF LinkedInOrder
  <2> DEFINE M == Members(ids, level)
  <2>1. M \in SUBSET Nodes
    BY DEF Members
  <2>2. Chain(NextIn(ids, level), Order(ids), M)
    BY DEF SkipInv, LinkedInOrder
  <2>3. Orders(Order(ids), M)
    <3>1. skip.split \in BOOLEAN /\ level \in Int
      BY <1>1 DEF Levels
    <3> QED BY <1>1, <3>1, OrderIsStrict DEF SkipInv
  <2>4. \A i, j \in M \ {id} : <<i, j>> \in Order(ids) <=> <<i, j>> \in Order(link)
    <3> SUFFICES ASSUME NEW i \in M \ {id}, NEW j \in M \ {id} PROVE <<i, j>> \in Order(ids) <=> <<i, j>> \in Order(link)
      OBVIOUS
    <3>1. i \in Nodes \ {id} /\ j \in Nodes \ {id}
      BY <2>1
    <3>2. Precedes(ids, i, j) <=> Precedes(link, i, j)
      BY <1>5, <3>1 DEF Precedes
    <3> QED BY <3>1, <3>2 DEF Order
  <2>5. \A i \in M \ {id} : NextIn(link, level)[i] = IF NextIn(ids, level)[i] = id THEN NextIn(ids, level)[id] ELSE NextIn(ids, level)[i]
    <3> SUFFICES ASSUME NEW i \in M \ {id}
                 PROVE  NextIn(link, level)[i] = IF NextIn(ids, level)[i] = id THEN NextIn(ids, level)[id] ELSE NextIn(ids, level)[i]
      OBVIOUS
    <3>1. i \in Nodes \ {id}
      BY <2>1
    <3>2. NextIn(link, level)[i] = link[i].next[level] /\ NextIn(ids, level)[i] = ids[i].next[level]
          /\ NextIn(ids, level)[id] = ids[id].next[level]
      BY <1>2, <3>1 DEF NextIn
    <3> QED BY <1>5, <3>1, <3>2
  <2>6. CASE id \in M
    <3> HIDE DEF M
    <3>1. Chain(NextIn(link, level), Order(link), M \ {id})
      BY <2>1, <2>2, <2>3, <2>4, <2>5, <2>6, ChainRemove
    <3> QED BY <1>9, <3>1 DEF M
  <2>7. CASE id \notin M
    <3>1. \A i \in M : NextIn(link, level)[i] = NextIn(ids, level)[i]
      <4> SUFFICES ASSUME NEW i \in M, NextIn(ids, level)[i] = id PROVE FALSE
        BY <2>5, <2>7
      <4>1. i \in Nodes /\ NextOf(i, level) = id /\ id # NoID
        BY <1>2, <2>1, SkipAssumption DEF NextIn, NextOf, Nodes, NoID
      <4> QED BY <2>7, <4>1, NextIsFirst
    <3> HIDE DEF M
    <3>2. M \ {id} = M
      BY <2>7
    <3>3. Chain(NextIn(link, level), Order(link), M)
      BY <2>2, <2>4, <3>1, <3>2, ChainSame
    <3> QED BY <1>9, <3>2, <3>3 DEF M
  <2> QED BY <2>6, <2>7
<1>13. skip.numtraceids - 1 = Cardinality(Live(link)) /\ skip.numtraceids - 1 \in Nat
  <2>1. IsFiniteSet(Live(ids))
    <3>1. IsFiniteSet(1 .. MaxIds)
      BY FS_Interval, SkipAssumption
    <3>2. Live(ids) \subseteq 1 .. MaxIds
      BY DEF Live
    <3> QED BY <3>1, <3>2, FS_Subset
  <2>2. skip.numtraceids = Cardinality(Live(ids))
    BY DEF SkipInv
  <2>3. Cardinality(Live(ids) \ {id}) = Cardinality(Live(ids)) - 1
    BY <1>8, <2>1, FS_RemoveElement
  <2>4. Cardinality(Live(ids) \ {id}) \in Nat
    BY <2>1, FS_Subset, FS_CardinalityType
  <2> HIDE DEF ids
  <2> QED BY <1>8, <2>2, <2>3, <2>4
<1>14. skip' \in [split : BOOLEAN, numtraceids : Nat, ids : [Nodes -> IDType]]
  BY <1>1, <1>5, <1>7, <1>13
<1> QED BY <1>7, <1>10, <1>11, <1>12, <1>13, <1>14 DEF SkipInv

LEMMA NextLinked ==
  SkipInv /\ [SkipNext]_skip => SkipInv'
<1> SUFFICES ASSUME SkipInv, [SkipNext]_skip PROVE SkipInv'
  OBVIOUS
<1>1. CASE UNCHANGED skip
  <2>1. skip' = skip
    BY <1>1
  <2> QED BY <2>1 DEF SkipInv
<1>2. ASSUME NEW sid \in SkipSids, NEW ver \in SkipVersions, AddRecordOf(sid, ver) PROVE SkipInv'
  <2> DEFINE v == IF skip.split THEN ver ELSE 0
             found == mstl3_findID(sid, v)
  <2>1. sid \in Nat /\ ver \in Nat /\ v \in Nat /\ v \in {0, ver} /\ (~skip.split => v = 0)
    BY SkipAssumption
  <2>2. Finds(found, MaxHeight, sid, v)
    BY <2>1, FindIDFinds
  <2>3. IF found.id = NoID THEN \A i \in Live(skip.ids) : Compare(i, sid, v) # 0
        ELSE found.id \in Live(skip.ids) /\ Compare(found.id, sid, v) = 0
    BY <2>1, FindIDIsRight
  <2>4. CASE found.id = NoID
    <3>1. Free # {} /\ AddID(sid, ver, found.prev)
      BY <1>2, <2>4 DEF AddRecordOf
    <3> HIDE DEF v, found
    <3>2. PICK height \in Levels : skip' = Linked(CHOOSE i \in Free : TRUE, sid, ver, height, found.prev)
      BY <3>1 DEF AddID
    <3>3. (CHOOSE i \in Free : TRUE) \in Free
      BY <3>1
    <3> QED BY <2>1, <2>2, <2>3, <2>4, <3>2, <3>3, AddLinked
  <2>5. CASE found.id # NoID
    <3>1. skip' = [skip EXCEPT !.ids[found.id].ver = IF ver > @ THEN ver ELSE @]
      BY <1>2, <2>5 DEF AddRecordOf
    <3>2. found.id \in Live(skip.ids) /\ Compare(found.id, sid, IF skip.split THEN ver ELSE 0) = 0
      BY <2>3, <2>5
    <3> HIDE DEF found
    <3> QED BY <2>1, <3>1, <3>2, RaiseLinked
  <2> QED BY <2>4, <2>5
<1>3. ASSUME NEW sid \in SkipSids, NEW ver \in SkipVersions, AddOwnID(sid, ver) PROVE SkipInv'
  <2> DEFINE found == mstl3_findID(sid, 0)
  <2>1. sid \in Nat /\ ver \in Nat
    BY SkipAssumption
  <2>2. Finds(found, MaxHeight, sid, 0)
    BY <2>1, FindIDFinds
  <2>3. Free # {} /\ found.id = NoID /\ AddID(sid, ver, found.prev)
    BY <1>3 DEF AddOwnID
  <2>4. \A i \in Live(skip.ids) : Compare(i, sid, 0) # 0
    BY <2>1, <2>3, FindIDIsRight
  <2> HIDE DEF found
  <2>5. PICK height \in Levels : skip' = Linked(CHOOSE i \in Free : TRUE, sid, ver, height, found.prev)
    BY <2>3 DEF AddID
  <2>6. (CHOOSE i \in Free : TRUE) \in Free
    BY <2>3
  <2> QED BY <2>1, <2>2, <2>3, <2>4, <2>5, <2>6, AddLinked
<1>4. ASSUME NEW id \in 1 .. MaxIds, RemoveID(id) PROVE SkipInv'
  BY <1>4, RemoveLinked
<1> QED BY <1>1, <1>2, <1>3, <1>4 DEF SkipNext

(* The skip list stays one under all that adds, raises and removes IDs,    *)
(* with any heights: the levels lead through the IDs in order and a search *)
(* finds what is listed (mstl3_findID(), mstl3_addID(),                    *)
(* lm_remove_segment()).                                                   *)
THEOREM LevelsLeadRight == SkipSpec => []SkipListSound
<1>1. SkipInv => SkipListSound
  BY LevelsAgreeIs, FindsListed DEF SkipListSound
<1> QED BY <1>1, InitLinked, NextLinked, PTL DEF SkipSpec

-----------------------------------------------------------------------------
(* The samples of a segment (SampleBuffer).                                *)

-----------------------------------------------------------------------------
(* Powers of two.                                                          *)

Last2 == FloatBits + FloatRange
Doubles(f, n) == \A m \in 0 .. Last2 : m < n => f[m] = IF m = 0 THEN 1 ELSE 2 * f[m - 1]

LEMMA PowersDouble == Power2 = [n \in 0 .. Last2 |-> IF n = 0 THEN 1 ELSE 2 * Power2[n - 1]]
<1> DEFINE D == 0 .. Last2
           Is(f) == f = [n \in D |-> IF n = 0 THEN 1 ELSE 2 * f[n - 1]]
           A == {n \in Nat : \E f : Doubles(f, n)}
<1>1. Last2 \in Nat
  BY BufferAssumption DEF Last2
<1>2. 0 \in A
  BY <1>1, SMT DEF Doubles
<1>3. ASSUME NEW n \in Nat, n \in A PROVE n + 1 \in A
  <2>1. PICK f : Doubles(f, n)
    BY <1>3
  <2> DEFINE g == [m \in D |-> IF m < n THEN f[m] ELSE IF m = 0 THEN 1 ELSE 2 * f[m - 1]]
  <2>2. ASSUME NEW m \in 0 .. Last2, m < n + 1 PROVE g[m] = IF m = 0 THEN 1 ELSE 2 * g[m - 1]
    <3>1. g[m] = IF m = 0 THEN 1 ELSE 2 * f[m - 1]
      BY <2>1, <2>2 DEF Doubles
    <3>2. m # 0 => m - 1 \in D /\ m - 1 < n
      BY <1>1, <2>2
    <3>3. m # 0 => g[m - 1] = f[m - 1]
      BY <3>2
    <3> HIDE DEF g
    <3> QED BY <3>1, <3>3
  <2> HIDE DEF g
  <2>3. Doubles(g, n + 1)
    BY <2>2 DEF Doubles
  <2> QED BY <2>3
<1>4. Last2 + 1 \in A
  <2> HIDE DEF A
  <2> QED BY <1>1, <1>2, <1>3, AllNaturals
<1>5. PICK f : Doubles(f, Last2 + 1)
  BY <1>4
<1> DEFINE g == [n \in D |-> f[n]]
<1>6. Is(g)
  <2>1. ASSUME NEW n \in D PROVE g[n] = IF n = 0 THEN 1 ELSE 2 * g[n - 1]
    <3>1. f[n] = IF n = 0 THEN 1 ELSE 2 * f[n - 1]
      BY <1>1, <1>5 DEF Doubles
    <3>2. n # 0 => n - 1 \in D
      BY <1>1
    <3> QED BY <3>1, <3>2
  <2>2. g = [n \in D |-> g[n]]
    OBVIOUS
  <2> HIDE DEF g
  <2> QED BY <2>1, <2>2
<1>7. Is(CHOOSE f2 : Is(f2))
  <2> HIDE DEF Is, g
  <2> QED BY <1>6
<1> QED BY <1>7 DEF Power2, Last2

LEMMA PowerFacts ==
  /\ Power2[0] = 1
  /\ \A n \in 0 .. Last2 : Power2[n] \in Nat \ {0}
  /\ \A n \in 1 .. Last2 : Power2[n] = 2 * Power2[n - 1]
<1> DEFINE A == {n \in Nat : n <= Last2 => Power2[n] \in Nat \ {0}}
<1>1. Last2 \in Nat
  BY BufferAssumption DEF Last2
<1>2. \A n \in 0 .. Last2 : Power2[n] = IF n = 0 THEN 1 ELSE 2 * Power2[n - 1]
  BY PowersDouble
<1>3. 0 \in A
  BY <1>1, <1>2
<1>4. ASSUME NEW n \in Nat, n \in A PROVE n + 1 \in A
  <2>1. n + 1 <= Last2 => Power2[n + 1] = 2 * Power2[n]
    BY <1>1, <1>2
  <2> QED BY <1>1, <1>4, <2>1
<1>5. \A n \in Nat : n \in A
  <2> HIDE DEF A
  <2> QED BY <1>3, <1>4, AllNaturals
<1> QED BY <1>1, <1>2, <1>5

(* The smaller of two powers divides the larger.                           *)
LEMMA PowersDivide ==
  ASSUME NEW m \in 0 .. Last2, NEW n \in m .. Last2
  PROVE  \E c \in Nat \ {0} : Power2[n] = c * Power2[m]
<1> DEFINE P == Power2[m]
           A == {i \in Nat : m + i <= Last2 => \E c \in Nat \ {0} : Power2[m + i] = c * P}
<1>1. Last2 \in Nat
  BY BufferAssumption DEF Last2
<1>2. P \in Nat
  BY PowerFacts
<1>3. 0 \in A
  <2>1. m + 0 = m /\ P = 1 * P
    BY <1>1, <1>2
  <2> QED BY <2>1
<1>4. ASSUME NEW i \in Nat, i \in A PROVE i + 1 \in A
  <2> SUFFICES ASSUME m + (i + 1) <= Last2 PROVE \E c \in Nat \ {0} : Power2[m + (i + 1)] = c * P
    OBVIOUS
  <2>1. PICK c \in Nat \ {0} : Power2[m + i] = c * P
    BY <1>1, <1>4
  <2>2. m + (i + 1) \in 1 .. Last2 /\ (m + (i + 1)) - 1 = m + i
    BY <1>1
  <2>3. Power2[m + (i + 1)] = 2 * Power2[m + i]
    BY <2>2, PowerFacts
  <2> HIDE DEF P
  <2>4. 2 * (c * P) = (2 * c) * P /\ 2 * c \in Nat \ {0}
    BY <1>2
  <2> QED BY <2>1, <2>3, <2>4
<1>5. \A i \in Nat : i \in A
  <2> HIDE DEF A
  <2> QED BY <1>3, <1>4, AllNaturals
<1>6. n - m \in Nat /\ m + (n - m) = n
  BY <1>1
<1> QED BY <1>5, <1>6

LEMMA PowersGrow ==
  ASSUME NEW m \in 0 .. Last2, NEW n \in m .. Last2
  PROVE  Power2[m] <= Power2[n]
<1>1. n \in 0 .. Last2 /\ Power2[m] \in Nat \ {0}
  BY PowerFacts, BufferAssumption DEF Last2
<1>2. PICK c \in Nat \ {0} : Power2[n] = c * Power2[m]
  BY PowersDivide
<1> DEFINE P == Power2[m]
<1>3. P \in Nat \ {0}
  BY <1>1
<1> HIDE DEF P
<1>4. c * P >= P
  BY <1>3
<1> QED BY <1>2, <1>4 DEF P

(* A float of four quarters and more.                                      *)
LEMMA PowersOfFour ==
  ASSUME NEW n \in 2 .. Last2
  PROVE  \E c \in Nat \ {0} : Power2[n] = c * 4
<1>1. 2 \in 0 .. Last2 /\ n \in 2 .. Last2 /\ 1 \in 1 .. Last2 /\ 2 \in 1 .. Last2 /\ 2 - 1 = 1 /\ 1 - 1 = 0
  BY BufferAssumption DEF Last2
<1>2. Power2[1] = 2 * Power2[0] /\ Power2[2] = 2 * Power2[1]
  BY <1>1, PowerFacts
<1>3. Power2[2] = 4
  BY <1>2, PowerFacts
<1> QED BY <1>1, <1>3, PowersDivide

-----------------------------------------------------------------------------
(* Values as floats and as integers.                                       *)

Values == -Greatest .. Greatest

(* What fits in an exponent of k.                                          *)
Fits(v, k) == Abs(v) <= Power2[FloatBits + k]

LEMMA GreatestIs == Greatest \in Nat \ {0} /\ Greatest = Power2[Last2] /\ Last2 \in Nat
<1>1. Last2 \in Nat
  BY BufferAssumption DEF Last2
<1> QED BY <1>1, PowerFacts DEF Greatest, Last2

(* The exponent is the least one that fits.                                *)
LEMMA ExponentIsLeast ==
  ASSUME NEW v \in Values
  PROVE  /\ Exponent(v) \in 0 .. FloatRange /\ Fits(v, Exponent(v))
         /\ \A k \in 0 .. FloatRange : Fits(v, k) => Exponent(v) <= k
<1> DEFINE S == {k \in 0 .. FloatRange : Fits(v, k)}
           Chosen(k) == Fits(v, k) /\ (k = 0 \/ Abs(v) > Power2[FloatBits + k - 1])
<1>1. FloatRange \in Nat /\ FloatBits \in Nat /\ v \in Int /\ Abs(v) \in Nat
  BY BufferAssumption, GreatestIs DEF Values, Abs
<1>2. FloatRange \in S
  BY <1>1, GreatestIs DEF Values, Fits, Abs, Greatest
<1>3. PICK k \in S : \A m \in S : k <= m
  <2>1. S \in SUBSET Nat /\ S # {}
    BY <1>2
  <2> HIDE DEF S
  <2> QED BY <2>1, LeastNatural
<1>4. Chosen(k)
  <2>1. CASE k = 0
    BY <2>1, <1>3
  <2>2. CASE k # 0
    <3>1. k - 1 \in 0 .. FloatRange /\ k - 1 \notin S /\ FloatBits + (k - 1) = FloatBits + k - 1
      BY <1>1, <1>3, <2>2
    <3>2. ~Fits(v, k - 1)
      BY <3>1
    <3>3. Power2[FloatBits + k - 1] \in Nat
      BY <1>1, <1>3, <2>2, PowerFacts DEF Last2
    <3> QED BY <1>1, <1>3, <3>1, <3>2, <3>3 DEF Fits
  <2> QED BY <2>1, <2>2
<1> DEFINE e == Exponent(v)
<1>5. e \in 0 .. FloatRange /\ Chosen(e)
  <2>1. \E j \in 0 .. FloatRange : Chosen(j)
    BY <1>3, <1>4
  <2>2. Exponent(v) = CHOOSE j \in 0 .. FloatRange : Chosen(j)
    BY DEF Exponent, Fits
  <2> HIDE DEF Chosen
  <2> QED BY <2>1, <2>2
<1>6. ASSUME NEW j \in 0 .. FloatRange, Fits(v, j) PROVE e <= j
  <2> SUFFICES ASSUME e > j PROVE FALSE
    BY <1>1, <1>5
  <2>1. e # 0 /\ FloatBits + j \in 0 .. Last2 /\ FloatBits + e - 1 \in FloatBits + j .. Last2
    BY <1>1, <1>5 DEF Last2
  <2>2. Power2[FloatBits + j] <= Power2[FloatBits + e - 1]
    BY <2>1, PowersGrow
  <2>3. Abs(v) > Power2[FloatBits + e - 1] /\ Abs(v) <= Power2[FloatBits + j]
    BY <1>5, <1>6, <2>1 DEF Fits
  <2>4. Power2[FloatBits + j] \in Nat /\ Power2[FloatBits + e - 1] \in Nat
    BY <2>1, PowerFacts, <1>1
  <2> HIDE DEF e
  <2> QED BY <2>2, <2>3, <2>4, <1>1
<1> QED BY <1>5, <1>6

(* What fits in an exponent is a multiple of its quantum within a bound    *)
(* that the quantum divides.                                               *)
LEMMA QuantumFacts ==
  ASSUME NEW k \in 0 .. FloatRange
  PROVE  /\ Power2[k] \in Nat \ {0} /\ Power2[FloatBits + k] \in Nat \ {0}
         /\ \E c \in Nat \ {0} : Power2[FloatBits + k] = Power2[k] * c
         /\ \E c \in Nat \ {0} : Power2[FloatBits + k] = 4 * c
         /\ Power2[FloatBits + k] <= Greatest
<1>1. /\ k \in 0 .. Last2 /\ FloatBits + k \in k .. Last2 /\ FloatBits + k \in 2 .. Last2
      /\ FloatBits + k \in 0 .. Last2 /\ Last2 \in FloatBits + k .. Last2
  BY BufferAssumption DEF Last2
<1>2. Power2[k] \in Nat \ {0} /\ Power2[FloatBits + k] \in Nat \ {0}
  BY <1>1, PowerFacts
<1>3. PICK c \in Nat \ {0} : Power2[FloatBits + k] = c * Power2[k]
  BY <1>1, PowersDivide
<1>4. PICK d \in Nat \ {0} : Power2[FloatBits + k] = d * 4
  BY <1>1, PowersOfFour
<1>5. Power2[FloatBits + k] <= Power2[Last2]
  BY <1>1, PowersGrow
<1>6. c * Power2[k] = Power2[k] * c /\ d * 4 = 4 * d
  BY <1>2
<1> QED BY <1>2, <1>3, <1>4, <1>5, <1>6, GreatestIs

(* A multiple of the quantum is a float.                                   *)
Representable(x) == \E c \in Int : x = Quantum(x) * c

(* The rounding of ToFloat in terms of the quantum.                        *)
Nearest(x, v, q) ==
  x = q * (IF 2 * (v - q * (v \div q)) < q \/ (2 * (v - q * (v \div q)) = q /\ (v \div q) % 2 = 0)
           THEN v \div q ELSE (v \div q) + 1)

Rounded(x, v, q) ==
  /\ \E c \in Int : x = q * c
  /\ 2 * Abs(x - v) <= q
  /\ v >= 0 => x >= 0
  /\ \A c \in Nat : Abs(v) <= q * c => Abs(x) <= q * c
  /\ \A c \in Int : v = q * c => x = v

LEMMA Rounding ==
  ASSUME NEW q \in Nat \ {0}, NEW v \in Int, NEW x, Nearest(x, v, q)
  PROVE  Rounded(x, v, q)
<1> DEFINE low == v \div q
<1>0. low = v \div q /\ x = q * (IF 2 * (v - q * low) < q \/ (2 * (v - q * low) = q /\ low % 2 = 0) THEN low ELSE low + 1)
  BY DEF Nearest
<1> HIDE DEF low
<1>1. low \in Int /\ q * low \in Int /\ q * low <= v /\ v < q * low + q
  BY <1>0, SMT
<1>2. q * (low + 1) = q * low + q
  BY <1>1
<1>3. x = q * low \/ x = q * (low + 1)
  BY <1>0
<1>4. /\ x \in Int
      /\ 2 * Abs(x - v) <= q
  <2> DEFINE b == q * low
  <2> HIDE DEF b
  <2> QED BY <1>0, <1>1, <1>2 DEF Abs, b
<1>5. \E c \in Int : x = q * c
  <2>1. low + 1 \in Int
    BY <1>1
  <2> QED BY <1>1, <1>3, <2>1
<1>6. ASSUME v >= 0 PROVE x >= 0
  <2>1. low >= 0
    BY <1>0, <1>6, SMT
  <2>2. q * low >= 0
    BY <1>1, <2>1
  <2> QED BY <1>1, <1>2, <1>3, <2>2
<1>7. ASSUME NEW c \in Int, v = q * c PROVE x = v
  <2>1. low = c
    BY <1>0, <1>7, SMT
  <2> QED BY <1>0, <2>1, <1>7, SMT
<1>8. ASSUME NEW c \in Nat, Abs(v) <= q * c PROVE Abs(x) <= q * c
  <2>1. q * c \in Nat /\ q * (-c) = -(q * c) /\ -(q * c) <= v /\ v <= q * c
    BY <1>8 DEF Abs
  <2>2. CASE v = q * c
    BY <2>2, <2>1, <1>7 DEF Abs
  <2>3. CASE v < q * c
    <3>1. low < c
      <4> SUFFICES ASSUME low >= c PROVE FALSE
        BY <1>1
      <4>1. q * low >= q * c
        BY <1>1, SMT
      <4> QED BY <4>1, <1>1, <2>3, <2>1
    <3>2. low >= -c
      <4> SUFFICES ASSUME low + 1 <= -c PROVE FALSE
        BY <1>1
      <4>1. q * (low + 1) <= q * (-c)
        BY <1>1, SMT
      <4> QED BY <4>1, <1>1, <1>2, <2>1
    <3>3. q * low >= q * (-c) /\ q * (low + 1) <= q * c
      BY <1>1, <3>1, <3>2, SMT
    <3> QED BY <3>3, <2>1, <1>1, <1>2, <1>3 DEF Abs
  <2> QED BY <2>1, <2>2, <2>3
<1>9. v >= 0 => x >= 0
  BY <1>6
<1>10. \A c \in Nat : Abs(v) <= q * c => Abs(x) <= q * c
  BY <1>8
<1>11. \A c \in Int : v = q * c => x = v
  BY <1>7
<1> QED BY <1>4, <1>5, <1>9, <1>10, <1>11, Zenon DEF Rounded

(* ToFloat is the nearest float.                                           *)
LEMMA FloatProperties ==
  ASSUME NEW v \in Values
  PROVE  /\ ToFloat(v) \in Values /\ Representable(ToFloat(v))
         /\ 2 * Abs(ToFloat(v) - v) <= Quantum(v)
         /\ v >= 0 => ToFloat(v) >= 0
         /\ Representable(v) => ToFloat(v) = v
         /\ \A k \in 0 .. FloatRange : Fits(v, k) => Fits(ToFloat(v), k)
         /\ \E c \in Int : ToFloat(v) = Quantum(v) * c
<1> DEFINE e == Exponent(v)
           q == Quantum(v)
           x == ToFloat(v)
<1>1. e \in 0 .. FloatRange /\ Fits(v, e) /\ \A k \in 0 .. FloatRange : Fits(v, k) => e <= k
  BY ExponentIsLeast
<1>2. q \in Nat \ {0} /\ q = Power2[e] /\ v \in Int
  BY <1>1, QuantumFacts, GreatestIs DEF Quantum, Values
<1>3. Nearest(x, v, q)
  BY DEF ToFloat, Nearest
<1> HIDE DEF q, x, e
<1>4. /\ \E c \in Int : x = q * c
      /\ 2 * Abs(x - v) <= q
      /\ v >= 0 => x >= 0
      /\ \A c \in Nat : Abs(v) <= q * c => Abs(x) <= q * c
      /\ \A c \in Int : v = q * c => x = v
  <2>1. Rounded(x, v, q)
    BY <1>2, <1>3, Rounding, Zenon
  <2> QED BY <2>1, Zenon DEF Rounded
<1>5. x \in Int
  BY <1>2, <1>4
<1>6. Fits(x, e)
  <2>1. PICK c \in Nat \ {0} : Power2[FloatBits + e] = q * c
    BY <1>1, <1>2, QuantumFacts
  <2> QED BY <2>1, <1>1, <1>4 DEF Fits
<1>7. x \in Values
  <2>1. Power2[FloatBits + e] \in Nat /\ Power2[FloatBits + e] <= Greatest
    BY <1>1, QuantumFacts
  <2> QED BY <2>1, <1>5, <1>6, GreatestIs DEF Fits, Values, Abs
<1>8. ASSUME NEW k \in 0 .. FloatRange, Fits(v, k) PROVE Fits(x, k)
  <2>1. e <= k
    BY <1>1, <1>8
  <2>2. FloatBits + e \in 0 .. Last2 /\ FloatBits + k \in FloatBits + e .. Last2
    BY <1>1, <2>1, BufferAssumption DEF Last2
  <2>3. Power2[FloatBits + e] <= Power2[FloatBits + k]
    BY <2>2, PowersGrow
  <2>4. Power2[FloatBits + e] \in Nat /\ Power2[FloatBits + k] \in Nat
    BY <1>1, QuantumFacts
  <2> QED BY <1>5, <1>6, <2>3, <2>4 DEF Fits, Abs
<1>9. Representable(x)
  <2>1. Exponent(x) \in 0 .. FloatRange /\ Exponent(x) <= e
    BY <1>7, <1>1, <1>6, ExponentIsLeast
  <2>2. Exponent(x) \in 0 .. Last2 /\ e \in Exponent(x) .. Last2
    BY <2>1, <1>1, BufferAssumption DEF Last2
  <2>3. PICK c \in Nat \ {0} : q = c * Power2[Exponent(x)]
    BY <1>2, <2>2, PowersDivide
  <2>4. PICK d \in Int : x = q * d
    BY <1>4
  <2> DEFINE r == Quantum(x)
  <2>5. r \in Nat /\ q = c * r
    BY <2>1, <2>3, QuantumFacts DEF Quantum
  <2> HIDE DEF r
  <2>6. x = r * (c * d) /\ c * d \in Int
    BY <2>4, <2>5
  <2> QED BY <2>6 DEF r, Representable
<1>10. Representable(v) => x = v
  BY <1>4 DEF Representable, q
<1> QED BY <1>4, <1>7, <1>8, <1>9, <1>10 DEF x, q

LEMMA IntegerProperties ==
  ASSUME NEW v \in Int
  PROVE  /\ ToInteger(v) \in Int /\ ToInteger(v) % 4 = 0
         /\ Abs(ToInteger(v) - v) <= 2
         /\ v >= 0 => ToInteger(v) >= 0
         /\ v % 4 = 0 => ToInteger(v) = v
         /\ \A c \in Nat : Abs(v) <= 4 * c => Abs(ToInteger(v)) <= 4 * c
<1>1. CASE v < 0
  BY <1>1, SMT DEF ToInteger, Abs
<1>2. CASE v >= 0
  BY <1>2, SMT DEF ToInteger, Abs
<1> QED BY <1>1, <1>2

LEMMA WholeValues ==
  ASSUME NEW v \in Values
  PROVE  /\ ToInteger(v) \in Values
         /\ \A k \in 0 .. FloatRange : Fits(v, k) => Fits(ToInteger(v), k)
<1>1. v \in Int
  BY GreatestIs DEF Values
<1>2. ASSUME NEW k \in 0 .. FloatRange, Fits(v, k) PROVE Fits(ToInteger(v), k)
  <2>1. PICK c \in Nat \ {0} : Power2[FloatBits + k] = 4 * c
    BY QuantumFacts
  <2> QED BY <1>1, <1>2, <2>1, IntegerProperties DEF Fits
<1>3. FloatRange \in 0 .. FloatRange /\ Fits(v, FloatRange)
  BY BufferAssumption, GreatestIs DEF Fits, Values, Greatest, Abs
<1>4. Fits(ToInteger(v), FloatRange)
  BY <1>2, <1>3
<1>5. ToInteger(v) \in Int
  BY <1>1, IntegerProperties
<1> QED BY <1>2, <1>4, <1>5, GreatestIs DEF Fits, Values, Greatest, Abs

(* A quantum is that of quarters, of halves, or whole.                     *)
LEMMA SmallOrWhole ==
  ASSUME NEW k \in 0 .. FloatRange
  PROVE  \/ k \in {0, 1} /\ Power2[k] \in {1, 2}
         \/ \E c \in Nat \ {0} : Power2[k] = c * 4
<1>1. Last2 \in Nat /\ k \in 0 .. Last2
  BY BufferAssumption DEF Last2
<1>2. k >= 2 => k \in 2 .. Last2
  BY <1>1
<1>3. k >= 2 => \E c \in Nat \ {0} : Power2[k] = c * 4
  BY <1>2, PowersOfFour
<1>4. k = 0 => Power2[k] = 1
  BY PowerFacts
<1>5. k = 1 => Power2[k] = 2
  <2>1. k = 1 => 1 \in 1 .. Last2 /\ 1 - 1 = 0
    BY <1>1
  <2> QED BY <2>1, PowerFacts
<1>6. k = 0 \/ k = 1 \/ k >= 2
  BY <1>1
<1> QED BY <1>3, <1>4, <1>5, <1>6

(* Cutting the fraction off a float leaves a float.                        *)
LEMMA IntegerOfFloat ==
  ASSUME NEW v \in Values, Representable(v)
  PROVE  Representable(ToInteger(v))
<1> DEFINE e == Exponent(v)
           x == ToInteger(v)
           r == Quantum(x)
<1>1. e \in 0 .. FloatRange /\ Fits(v, e) /\ v \in Int
  BY ExponentIsLeast, GreatestIs DEF Values
<1>2. PICK c \in Int : v = Power2[e] * c
  BY DEF Representable, Quantum
<1>3. CASE e \in {0, 1}
  <2>1. Exponent(x) \in 0 .. FloatRange /\ Exponent(x) <= e
    BY <1>1, WholeValues, ExponentIsLeast
  <2>2. Exponent(x) \in {0, 1}
    BY <1>3, <2>1
  <2>3. r \in {1, 2}
    <3>1. Power2[0] = 1 /\ (1 \in 0 .. FloatRange => Power2[1] = 2)
      <4>1. 1 \in 0 .. FloatRange => 1 \in 1 .. Last2 /\ 1 - 1 = 0
        BY BufferAssumption DEF Last2
      <4> QED BY <4>1, PowerFacts
    <3> QED BY <2>1, <2>2, <3>1 DEF Quantum
  <2>4. x \in Int /\ x % 4 = 0
    BY <1>1, IntegerProperties
  <2> HIDE DEF x, r
  <2>5. x = r * (x \div r) /\ x \div r \in Int
    BY <2>3, <2>4, SMT
  <2> QED BY <2>5 DEF Representable, r, x
<1>4. CASE \E d \in Nat \ {0} : Power2[e] = d * 4
  <2>1. PICK d \in Nat \ {0} : Power2[e] = d * 4
    BY <1>4
  <2>2. v = 4 * (d * c)
    BY <1>2, <2>1
  <2>3. d * c \in Int
    BY <1>2
  <2>4. v % 4 = 0
    <3> DEFINE m == d * c
    <3> HIDE DEF m
    <3> QED BY <2>2, <2>3, SMT DEF m
  <2> QED BY <2>4, <1>1, IntegerProperties
<1> QED BY <1>1, <1>3, <1>4, SmallOrWhole

(* The float nearest to an integer is one.                                 *)
LEMMA FloatOfInteger ==
  ASSUME NEW v \in Values, v % 4 = 0
  PROVE  ToFloat(v) % 4 = 0
<1> DEFINE e == Exponent(v)
           x == ToFloat(v)
           q == Quantum(v)
<1>1. e \in 0 .. FloatRange /\ v \in Int
  BY ExponentIsLeast, GreatestIs DEF Values
<1>2. CASE Power2[e] \in {1, 2}
  <2>1. q \in {1, 2}
    BY <1>2 DEF Quantum
  <2> HIDE DEF q
  <2>2. v = q * (v \div q) /\ v \div q \in Int
    BY <2>1, <1>1, SMT
  <2>3. Representable(v)
    BY <2>2 DEF Representable, q
  <2> QED BY <2>3, FloatProperties
<1>3. CASE \E d \in Nat \ {0} : Power2[e] = d * 4
  <2>1. PICK d \in Nat \ {0} : q = d * 4
    BY <1>3 DEF Quantum
  <2>2. PICK c \in Int : x = q * c
    BY FloatProperties
  <2> HIDE DEF q, x
  <2>3. x = 4 * (d * c) /\ d * c \in Int
    BY <2>1, <2>2
  <2>4. x % 4 = 0
    <3> DEFINE m == d * c
    <3> HIDE DEF m
    <3> QED BY <2>3, SMT DEF m
  <2> QED BY <2>4 DEF x
<1> QED BY <1>1, <1>2, <1>3, SmallOrWhole

(* What the value o can have become by conversions to float, if there were *)
(* any, and by those to integer that changed it.                           *)
Reached(o, floated, changed) ==
  {o} \cup (IF floated THEN {ToFloat(o)} ELSE {}) \cup (IF changed THEN {ToInteger(o)} ELSE {})
      \cup (IF floated /\ changed THEN {ToInteger(ToFloat(o)), ToFloat(ToInteger(o))} ELSE {})

LEMMA ConversionsOf ==
  ASSUME NEW o \in Values
  PROVE  LET f == ToFloat(o)
             i == ToInteger(o)
         IN  /\ f \in Values /\ i \in Values /\ ToInteger(f) \in Values /\ ToFloat(i) \in Values
             /\ ToFloat(f) = f /\ ToInteger(i) = i
             /\ ToFloat(ToInteger(f)) = ToInteger(f) /\ ToInteger(ToFloat(i)) = ToFloat(i)
             /\ ToFloat(ToFloat(i)) = ToFloat(i) /\ ToInteger(ToInteger(f)) = ToInteger(f)
<1> DEFINE f == ToFloat(o)
           i == ToInteger(o)
           g == ToInteger(f)
           j == ToFloat(i)
<1>1. f \in Values /\ Representable(f) /\ ToFloat(f) = f
  <2>1. f \in Values /\ Representable(f)
    BY FloatProperties
  <2> QED BY <2>1, FloatProperties
<1>2. i \in Values /\ i % 4 = 0 /\ ToInteger(i) = i
  <2>1. i \in Values /\ o \in Int
    BY WholeValues, GreatestIs DEF Values
  <2>2. i \in Int /\ i % 4 = 0
    BY <2>1, IntegerProperties
  <2> QED BY <2>1, <2>2, IntegerProperties
<1>3. g \in Values /\ ToFloat(g) = g /\ ToInteger(g) = g
  <2>1. g \in Values /\ Representable(g) /\ f \in Int /\ g \in Int
    BY <1>1, WholeValues, IntegerOfFloat, GreatestIs DEF Values
  <2>2. g % 4 = 0
    BY <2>1, IntegerProperties
  <2> QED BY <2>1, <2>2, IntegerProperties, FloatProperties
<1>4. j \in Values /\ ToInteger(j) = j /\ ToFloat(j) = j
  <2>1. j \in Values /\ Representable(j) /\ j % 4 = 0
    BY <1>2, FloatProperties, FloatOfInteger
  <2>2. j \in Int
    BY <2>1, GreatestIs DEF Values
  <2> QED BY <2>1, <2>2, IntegerProperties, FloatProperties
<1> QED BY <1>1, <1>2, <1>3, <1>4

LEMMA ReachedConverted ==
  ASSUME NEW o \in Values, NEW floated \in BOOLEAN, NEW changed \in BOOLEAN, NEW x \in Reached(o, floated, changed)
  PROVE  /\ x \in Values
         /\ ToFloat(x) \in Reached(o, TRUE, changed)
         /\ ToInteger(x) \in Reached(o, floated, TRUE)
<1> DEFINE f == ToFloat(o)
           i == ToInteger(o)
<1>1. /\ f \in Values /\ i \in Values /\ ToInteger(f) \in Values /\ ToFloat(i) \in Values
      /\ ToFloat(f) = f /\ ToInteger(i) = i
      /\ ToFloat(ToInteger(f)) = ToInteger(f) /\ ToInteger(ToFloat(i)) = ToFloat(i)
      /\ ToFloat(ToFloat(i)) = ToFloat(i) /\ ToInteger(ToInteger(f)) = ToInteger(f)
  BY ConversionsOf
<1>2. \/ x = o
      \/ floated /\ x = f
      \/ changed /\ x = i
      \/ floated /\ changed /\ (x = ToInteger(f) \/ x = ToFloat(i))
  BY DEF Reached
<1> QED BY <1>1, <1>2, Zenon DEF Reached

LEMMA ReachedMore ==
  ASSUME NEW o, NEW floated \in BOOLEAN, NEW changed \in BOOLEAN, NEW fl \in BOOLEAN, NEW ch \in BOOLEAN,
         floated => fl, changed => ch
  PROVE  Reached(o, floated, changed) \subseteq Reached(o, fl, ch)
  BY Zenon DEF Reached

(* No value is further from the first than the last property says.         *)
LEMMA ReachedClose ==
  ASSUME NEW o \in Values, NEW floated \in BOOLEAN, NEW changed \in BOOLEAN, NEW x \in Reached(o, floated, changed)
  PROVE  Abs(x - o) <= (IF changed THEN 2 ELSE 0) + (IF floated THEN Quantum(o) ELSE 0)
<1> DEFINE f == ToFloat(o)
           i == ToInteger(o)
           q == Quantum(o)
           r == Quantum(i)
<1>1. f \in Int /\ i \in Int /\ ToInteger(f) \in Int /\ ToFloat(i) \in Int /\ o \in Int
  <2>1. f \in Values /\ i \in Values /\ ToInteger(f) \in Values /\ ToFloat(i) \in Values
    BY ConversionsOf
  <2>2. Values \subseteq Int
    BY GreatestIs DEF Values
  <2> QED BY <2>1, <2>2
<1>2. q \in Nat /\ r \in Nat /\ r <= q
  <2>1. i \in Values /\ Exponent(o) \in 0 .. FloatRange /\ Fits(i, Exponent(o))
    BY WholeValues, ExponentIsLeast
  <2>2. Exponent(i) \in 0 .. FloatRange /\ Exponent(i) <= Exponent(o)
    BY <2>1, ExponentIsLeast
  <2>3. Exponent(i) \in 0 .. Last2 /\ Exponent(o) \in Exponent(i) .. Last2
    BY <2>1, <2>2, BufferAssumption DEF Last2
  <2>4. Power2[Exponent(o)] \in Nat /\ Power2[Exponent(i)] \in Nat
    BY <2>1, <2>2, QuantumFacts
  <2> QED BY <2>3, <2>4, PowersGrow DEF Quantum
<1>3. 2 * Abs(f - o) <= q /\ 2 * Abs(ToFloat(i) - i) <= r
  BY FloatProperties, WholeValues
<1>4. Abs(i - o) <= 2 /\ Abs(ToInteger(f) - f) <= 2
  BY <1>1, IntegerProperties
<1>5. \/ x = o
      \/ floated /\ x = f
      \/ changed /\ x = i
      \/ floated /\ changed /\ (x = ToInteger(f) \/ x = ToFloat(i))
  BY DEF Reached
<1> HIDE DEF f, i, q, r
<1>6. x \in Int
  BY <1>1, <1>5
<1>7. /\ x = o => Abs(x - o) = 0
      /\ x = f => Abs(x - o) <= q
      /\ x = i => Abs(x - o) <= 2
      /\ x = ToInteger(f) \/ x = ToFloat(i) => Abs(x - o) <= 2 + q
  BY <1>1, <1>2, <1>3, <1>4 DEF Abs
<1>8. Abs(x - o) \in Nat
  BY <1>1, <1>6 DEF Abs
<1> QED BY <1>2, <1>5, <1>7, <1>8 DEF q

(* A conversion to integer that finds no fraction it has to tell of leaves *)
(* a value alone that was never negative.                                  *)
LEMMA NothingLost ==
  ASSUME NEW o \in Values, NEW floated \in BOOLEAN, NEW x \in Reached(o, floated, FALSE), o >= 0, ~Loses(x)
  PROVE  ToInteger(x) = x
<1>1. x = o \/ x = ToFloat(o)
  BY DEF Reached
<1>2. x \in Values /\ x >= 0
  BY <1>1, FloatProperties
<1>3. x \in Int /\ x % 4 = 0
  BY <1>2, GreatestIs DEF Loses, Values
<1> QED BY <1>3, IntegerProperties

-----------------------------------------------------------------------------
(* The values of the records of a list, behind each other.                 *)

(* h puts the elements of s behind each other, one by one.                 *)
Joins(s, h) == h[1] = s[1] /\ \A i \in 2 .. Len(s) : h[i] = h[i - 1] \o s[i]

LEMMA FlattenIs ==
  ASSUME NEW S, NEW s \in Seq(S), s # <<>>, NEW h, Joins(s, h)
  PROVE  FlattenSeq(s) = h[Len(s)]
<1> DEFINE n == Len(s)
           Is(f) == f = [i \in 1 .. n |-> IF i = 1 THEN s[i] ELSE f[i - 1] \o s[i]]
           F == CHOOSE f : Is(f)
           g == [i \in 1 .. n |-> h[i]]
           A == {i \in Nat : i + 1 <= n => F[i + 1] = h[i + 1]}
<1>1. n \in Nat \ {0}
  BY LenProperties, EmptySeq
<1>2. Is(g)
  <2>1. ASSUME NEW i \in 1 .. n PROVE g[i] = IF i = 1 THEN s[i] ELSE g[i - 1] \o s[i]
    <3>1. i # 1 => i \in 2 .. n /\ i - 1 \in 1 .. n
      BY <1>1
    <3> QED BY <3>1 DEF Joins
  <2>2. g = [i \in 1 .. n |-> g[i]]
    OBVIOUS
  <2> HIDE DEF g
  <2> QED BY <2>1, <2>2
<1>3. Is(F)
  <2> HIDE DEF Is, g
  <2> QED BY <1>2
<1>4. \A i \in 1 .. n : F[i] = IF i = 1 THEN s[i] ELSE F[i - 1] \o s[i]
  <2> HIDE DEF F
  <2> QED BY <1>3
<1> HIDE DEF F
<1>5. 0 \in A
  BY <1>1, <1>4 DEF Joins
<1>6. ASSUME NEW i \in Nat, i \in A PROVE i + 1 \in A
  <2> SUFFICES ASSUME (i + 1) + 1 <= n PROVE F[(i + 1) + 1] = h[(i + 1) + 1]
    OBVIOUS
  <2>1. (i + 1) + 1 \in 2 .. n /\ (i + 1) + 1 \in 1 .. n /\ ((i + 1) + 1) - 1 = i + 1 /\ (i + 1) + 1 # 1 /\ i + 1 <= n
    BY <1>1
  <2>2. F[i + 1] = h[i + 1]
    BY <1>6, <2>1
  <2> DEFINE k == (i + 1) + 1
  <2>3. k \in 2 .. n /\ k \in 1 .. n /\ k - 1 = i + 1 /\ k # 1
    BY <2>1
  <2>4. F[k] = F[k - 1] \o s[k]
    <3> HIDE DEF k
    <3> QED BY <2>3, <1>4
  <2>5. h[k] = h[k - 1] \o s[k]
    <3> HIDE DEF k
    <3> QED BY <2>3 DEF Joins
  <2> QED BY <2>2, <2>3, <2>4, <2>5
<1>7. \A i \in Nat : i \in A
  <2> HIDE DEF A
  <2> QED BY <1>5, <1>6, AllNaturals
<1>8. F[n] = h[n]
  <2>1. n - 1 \in Nat /\ (n - 1) + 1 = n /\ n <= n
    BY <1>1
  <2>2. n - 1 \in A
    BY <2>1, <1>7
  <2>3. F[(n - 1) + 1] = h[(n - 1) + 1]
    BY <2>1, <2>2
  <2> QED BY <2>1, <2>3
<1> QED BY <1>1, <1>8 DEF FlattenSeq, F

LEMMA Joined ==
  ASSUME NEW s \in Seq(Seq(Values)), s # <<>>
  PROVE  \E h : Joins(s, h) /\ \A i \in 1 .. Len(s) : h[i] \in Seq(Values)
<1> DEFINE n == Len(s)
           Good(h, m) == \A i \in 1 .. n : i <= m =>
                           h[i] \in Seq(Values) /\ h[i] = IF i = 1 THEN s[i] ELSE h[i - 1] \o s[i]
           A == {m \in Nat : \E h : Good(h, m)}
<1>1. n \in Nat \ {0} /\ \A i \in 1 .. n : s[i] \in Seq(Values)
  BY LenProperties, EmptySeq, ElementOfSeq
<1>2. 0 \in A
  <2>1. \A h : Good(h, 0)
    BY <1>1
  <2> HIDE DEF Good
  <2> QED BY <2>1
<1>3. ASSUME NEW m \in Nat, m \in A PROVE m + 1 \in A
  <2>1. PICK h : Good(h, m)
    BY <1>3
  <2> DEFINE g == [i \in 1 .. n |-> IF i <= m THEN h[i] ELSE IF i = 1 THEN s[i] ELSE h[i - 1] \o s[i]]
  <2>2. ASSUME NEW i \in 1 .. n, i <= m + 1
        PROVE  g[i] \in Seq(Values) /\ g[i] = IF i = 1 THEN s[i] ELSE g[i - 1] \o s[i]
    <3>1. g[i] = IF i = 1 THEN s[i] ELSE h[i - 1] \o s[i]
      BY <2>1, <2>2
    <3>2. i # 1 => i - 1 \in 1 .. n /\ i - 1 <= m
      BY <1>1, <2>2
    <3>3. i # 1 => g[i - 1] = h[i - 1] /\ h[i - 1] \in Seq(Values)
      BY <3>2, <2>1
    <3>4. i # 1 => h[i - 1] \o s[i] \in Seq(Values)
      BY <3>3, <1>1, ConcatProperties
    <3> HIDE DEF g
    <3> QED BY <3>1, <3>3, <3>4, <1>1
  <2> HIDE DEF g
  <2>3. Good(g, m + 1)
    BY <2>2
  <2> QED BY <2>3
<1>4. n \in A
  <2> HIDE DEF A
  <2> QED BY <1>1, <1>2, <1>3, AllNaturals
<1>5. PICK h : Good(h, n)
  BY <1>4
<1>6. Joins(s, h)
  <2>1. 1 \in 1 .. n /\ 1 <= n
    BY <1>1
  <2>2. h[1] = s[1]
    BY <2>1, <1>5
  <2>3. ASSUME NEW i \in 2 .. n PROVE h[i] = h[i - 1] \o s[i]
    <3>1. i \in 1 .. n /\ i <= n /\ i # 1
      BY <1>1
    <3> QED BY <3>1, <1>5
  <2> QED BY <2>2, <2>3 DEF Joins
<1> QED BY <1>1, <1>5, <1>6

LEMMA FlattenJoins ==
  ASSUME NEW s \in Seq(Seq(Values)), NEW v \in Seq(Values)
  PROVE  /\ FlattenSeq(s) \in Seq(Values)
         /\ FlattenSeq(Append(s, v)) = FlattenSeq(s) \o v
         /\ FlattenSeq(<<v>> \o s) = v \o FlattenSeq(s)
<1> DEFINE n == Len(s)
           a == Append(s, v)
           p == <<v>> \o s
<1>1. n \in Nat /\ \A i \in 1 .. n : s[i] \in Seq(Values)
  BY LenProperties, ElementOfSeq
<1>2. /\ a \in Seq(Seq(Values)) /\ Len(a) = n + 1 /\ a # <<>>
      /\ \A i \in 1 .. n : a[i] = s[i]
      /\ a[n + 1] = v
  BY AppendProperties
<1>3. /\ p \in Seq(Seq(Values)) /\ Len(p) = n + 1 /\ p # <<>>
      /\ p[1] = v
      /\ \A i \in 2 .. n + 1 : p[i] = s[i - 1]
  <2>1. <<v>> \in Seq(Seq(Values)) /\ Len(<<v>>) = 1 /\ <<v>>[1] = v
    OBVIOUS
  <2>2. p \in Seq(Seq(Values)) /\ Len(p) = 1 + n /\ p[1] = v /\ \A i \in 1 .. n : p[1 + i] = s[i]
    <3>1. /\ <<v>> \o s \in Seq(Seq(Values)) /\ Len(<<v>> \o s) = Len(<<v>>) + Len(s)
          /\ \A i \in 1 .. Len(<<v>>) : (<<v>> \o s)[i] = <<v>>[i]
          /\ \A i \in 1 .. Len(s) : (<<v>> \o s)[Len(<<v>>) + i] = s[i]
      BY <2>1, ConcatProperties
    <3> QED BY <2>1, <3>1
  <2>3. ASSUME NEW i \in 2 .. n + 1 PROVE p[i] = s[i - 1]
    <3>1. i - 1 \in 1 .. n /\ 1 + (i - 1) = i
      BY <1>1
    <3> QED BY <3>1, <2>2
  <2>4. p # <<>>
    BY <2>2, <1>1
  <2> QED BY <2>2, <2>3, <2>4, <1>1
<1> HIDE DEF a, p
<1>4. CASE s = <<>>
  <2>1. n = 0 /\ FlattenSeq(s) = <<>>
    BY <1>4 DEF FlattenSeq
  <2> DEFINE h == [i \in 1 .. 1 |-> v]
  <2>2. Joins(a, h) /\ Joins(p, h) /\ h[1] = v
    BY <2>1, <1>2, <1>3 DEF Joins
  <2>3. FlattenSeq(a) = v /\ FlattenSeq(p) = v
    <3> HIDE DEF h
    <3>1. Len(a) = 1 /\ Len(p) = 1
      BY <2>1, <1>2, <1>3
    <3>2. FlattenSeq(a) = h[Len(a)]
      BY <2>2, <1>2, FlattenIs
    <3>3. FlattenSeq(p) = h[Len(p)]
      BY <2>2, <1>3, FlattenIs
    <3> QED BY <3>1, <3>2, <3>3, <2>2
  <2>4. v \o <<>> = v /\ <<>> \o v = v
    BY ConcatEmptySeq
  <2> QED BY <2>1, <2>3, <2>4 DEF a, p
<1>5. CASE s # <<>>
  <2>1. PICK h : Joins(s, h) /\ \A i \in 1 .. n : h[i] \in Seq(Values)
    BY <1>5, Joined
  <2>2. n # 0
    BY <1>5, EmptySeq
  <2>3. FlattenSeq(s) = h[n] /\ h[n] \in Seq(Values)
    BY <1>1, <1>5, <2>1, <2>2, FlattenIs
  <2>4. /\ h[1] = s[1]
        /\ \A i \in 2 .. n : h[i] = h[i - 1] \o s[i]
    BY <2>1 DEF Joins
  <2>5. FlattenSeq(a) = h[n] \o v
    <3> DEFINE g == [i \in 1 .. n + 1 |-> IF i <= n THEN h[i] ELSE h[n] \o v]
    <3>1. g[1] = a[1]
      BY <1>1, <1>2, <2>2, <2>4
    <3>2. ASSUME NEW i \in 2 .. n + 1 PROVE g[i] = g[i - 1] \o a[i]
      <4>0. i - 1 \in 1 .. n + 1 /\ i - 1 <= n
        BY <1>1
      <4>1. g[i - 1] = h[i - 1]
        BY <4>0
      <4>2. CASE i <= n
        <5>1. i \in 2 .. n /\ i \in 1 .. n /\ g[i] = h[i]
          BY <4>2
        <5>2. h[i] = h[i - 1] \o s[i] /\ a[i] = s[i]
          BY <5>1, <1>2, <2>4
        <5> HIDE DEF g
        <5> QED BY <4>1, <5>1, <5>2
      <4>3. CASE i = n + 1
        <5>0. i \in 1 .. n + 1 /\ ~(i <= n) /\ i - 1 = n
          BY <4>3, <1>1
        <5>1. g[i] = h[n] \o v /\ a[i] = v
          BY <4>3, <5>0, <1>2
        <5> HIDE DEF g
        <5> QED BY <4>1, <5>0, <5>1
      <4>4. i <= n \/ i = n + 1
        BY <1>1
      <4> HIDE DEF g
      <4> QED BY <4>2, <4>3, <4>4
    <3>3. g[n + 1] = h[n] \o v
      BY <1>1
    <3> HIDE DEF g
    <3>4. Joins(a, g)
      BY <3>1, <3>2, <1>2 DEF Joins
    <3> QED BY <3>3, <3>4, <1>2, FlattenIs
  <2>6. FlattenSeq(p) = v \o h[n]
    <3> DEFINE g == [i \in 1 .. n + 1 |-> IF i = 1 THEN v ELSE v \o h[i - 1]]
    <3>1. g[1] = p[1]
      BY <1>1, <1>3
    <3>2. ASSUME NEW i \in 2 .. n + 1 PROVE g[i] = g[i - 1] \o p[i]
      <4>0. i - 1 \in 1 .. n /\ i \in 1 .. n + 1 /\ i - 1 \in 1 .. n + 1 /\ i # 1
        BY <1>1
      <4>1. g[i] = v \o h[i - 1] /\ p[i] = s[i - 1]
        BY <4>0, <1>3
      <4>2. CASE i = 2
        <5>1. g[i - 1] = v /\ h[i - 1] = s[i - 1]
          BY <4>0, <4>2, <2>4
        <5> HIDE DEF g
        <5> QED BY <4>1, <5>1
      <4>3. CASE i # 2
        <5>1. i - 1 \in 2 .. n /\ (i - 1) - 1 \in 1 .. n /\ i - 1 # 1
          BY <4>3, <1>1
        <5>2. g[i - 1] = v \o h[(i - 1) - 1]
          BY <4>0, <5>1
        <5>3. h[i - 1] = h[(i - 1) - 1] \o s[i - 1]
          BY <5>1, <2>4
        <5>4. v \o (h[(i - 1) - 1] \o s[i - 1]) = (v \o h[(i - 1) - 1]) \o s[i - 1]
          <6>1. h[(i - 1) - 1] \in Seq(Values) /\ s[i - 1] \in Seq(Values)
            BY <4>0, <5>1, <2>1, <1>1
          <6>2. \A u, w, z \in Seq(Values) : (u \o w) \o z = u \o (w \o z)
            BY ConcatAssociative, SMTT(60)
          <6> QED BY <6>1, <6>2
        <5> HIDE DEF g
        <5> QED BY <4>1, <5>2, <5>3, <5>4
      <4> QED BY <4>2, <4>3
    <3>3. g[n + 1] = v \o h[n]
      <4>1. n + 1 \in 1 .. n + 1 /\ n + 1 # 1 /\ (n + 1) - 1 = n
        BY <1>1, <2>2
      <4> QED BY <4>1
    <3> HIDE DEF g
    <3>4. Joins(p, g)
      BY <3>1, <3>2, <1>3 DEF Joins
    <3> QED BY <3>3, <3>4, <1>3, FlattenIs
  <2> QED BY <2>3, <2>5, <2>6 DEF a, p
<1> QED BY <1>4, <1>5

LEMMA RecordTypes ==
  /\ \A rec \in SegRecords : rec.enc \in {"i", "f", "d", "t"} /\ rec.v \in Seq(Values)
  /\ Values \subseteq Int
<1>1. Values \subseteq Int
  BY GreatestIs DEF Values
<1>2. \A rec \in SegRecords : rec \in [enc : {"i", "f", "d", "t"}, v : Seq(Values)]
  BY BufferAssumption DEF Values
<1> QED BY <1>1, <1>2

LEMMA ValuesJoin ==
  ASSUME NEW recs \in Seq(SegRecords), NEW rec \in SegRecords
  PROVE  /\ ValuesOf(recs) \in Seq(Values) /\ ValuesOf(<<rec>>) = rec.v
         /\ ValuesOf(Append(recs, rec)) = ValuesOf(recs) \o rec.v
         /\ ValuesOf(<<rec>> \o recs) = rec.v \o ValuesOf(recs)
<1> DEFINE Vs(l) == [k \in DOMAIN l |-> l[k].v]
           n == Len(recs)
<1>1. ASSUME NEW l \in Seq(SegRecords) PROVE Vs(l) \in Seq(Seq(Values)) /\ Len(Vs(l)) = Len(l) /\ \A k \in 1 .. Len(l) : Vs(l)[k] = l[k].v
  <2>1. DOMAIN l = 1 .. Len(l) /\ Len(l) \in Nat /\ \A k \in 1 .. Len(l) : l[k] \in SegRecords
    BY LenProperties, ElementOfSeq
  <2>2. \A k \in 1 .. Len(l) : l[k].v \in Seq(Values)
    BY <2>1, RecordTypes
  <2>3. [k \in 1 .. Len(l) |-> l[k].v] \in Seq(Seq(Values))
    BY <2>1, <2>2, IsASeq
  <2>4. Vs(l) = [k \in 1 .. Len(l) |-> l[k].v]
    BY <2>1
  <2>5. Len([k \in 1 .. Len(l) |-> l[k].v]) = Len(l)
    BY <2>1
  <2> QED BY <2>3, <2>4, <2>5
<1>2. rec.v \in Seq(Values) /\ n \in Nat
  BY RecordTypes, LenProperties
<1>3. /\ Append(recs, rec) \in Seq(SegRecords) /\ Len(Append(recs, rec)) = n + 1
      /\ \A i \in 1 .. n : Append(recs, rec)[i] = recs[i]
      /\ Append(recs, rec)[n + 1] = rec
  BY AppendProperties
<1>4. Vs(Append(recs, rec)) = Append(Vs(recs), rec.v)
  <2> DEFINE A == Append(recs, rec)
             x == Vs(A)
             y == Append(Vs(recs), rec.v)
  <2>1. x \in Seq(Seq(Values)) /\ Len(x) = n + 1 /\ \A k \in 1 .. n + 1 : x[k] = A[k].v
    BY <1>1, <1>3
  <2>2. Vs(recs) \in Seq(Seq(Values)) /\ Len(Vs(recs)) = n /\ \A k \in 1 .. n : Vs(recs)[k] = recs[k].v
    BY <1>1
  <2>3. y \in Seq(Seq(Values)) /\ Len(y) = n + 1 /\ (\A k \in 1 .. n : y[k] = Vs(recs)[k]) /\ y[n + 1] = rec.v
    <3> HIDE DEF Vs
    <3> QED BY <2>2, <1>2, AppendProperties
  <2>4. ASSUME NEW k \in 1 .. n + 1 PROVE x[k] = y[k]
    <3>1. k \in 1 .. n \/ k = n + 1
      BY <1>2
    <3> HIDE DEF x, y, Vs
    <3> QED BY <3>1, <2>1, <2>2, <2>3, <1>3
  <2> HIDE DEF x, y
  <2>5. x = y
    BY <2>1, <2>3, <2>4, SeqEqual
  <2> QED BY <2>5 DEF x, y
<1>5. /\ <<rec>> \o recs \in Seq(SegRecords) /\ Len(<<rec>> \o recs) = n + 1
      /\ (<<rec>> \o recs)[1] = rec
      /\ \A i \in 1 .. n : (<<rec>> \o recs)[1 + i] = recs[i]
  <2>1. <<rec>> \in Seq(SegRecords) /\ Len(<<rec>>) = 1 /\ <<rec>>[1] = rec
    OBVIOUS
  <2>2. /\ <<rec>> \o recs \in Seq(SegRecords) /\ Len(<<rec>> \o recs) = Len(<<rec>>) + Len(recs)
        /\ \A i \in 1 .. Len(<<rec>>) : (<<rec>> \o recs)[i] = <<rec>>[i]
        /\ \A i \in 1 .. Len(recs) : (<<rec>> \o recs)[Len(<<rec>>) + i] = recs[i]
    BY <2>1, ConcatProperties
  <2> QED BY <2>1, <2>2, <1>2
<1>6. Vs(<<rec>> \o recs) = <<rec.v>> \o Vs(recs)
  <2> DEFINE A == <<rec>> \o recs
             x == Vs(A)
             w == <<rec.v>>
             y == w \o Vs(recs)
  <2>1. x \in Seq(Seq(Values)) /\ Len(x) = n + 1 /\ \A k \in 1 .. n + 1 : x[k] = A[k].v
    BY <1>1, <1>5
  <2>2. Vs(recs) \in Seq(Seq(Values)) /\ Len(Vs(recs)) = n /\ \A k \in 1 .. n : Vs(recs)[k] = recs[k].v
    BY <1>1
  <2>3. w \in Seq(Seq(Values)) /\ Len(w) = 1 /\ w[1] = rec.v
    BY <1>2
  <2>4. y \in Seq(Seq(Values)) /\ Len(y) = 1 + n /\ y[1] = rec.v /\ \A k \in 1 .. n : y[1 + k] = Vs(recs)[k]
    <3> DEFINE u == Vs(recs)
    <3> HIDE DEF u, w
    <3>1. u \in Seq(Seq(Values))
      BY <2>2 DEF u
    <3>2. /\ w \o u \in Seq(Seq(Values))
          /\ Len(w \o u) = Len(w) + Len(u)
          /\ \A i \in 1 .. Len(w) + Len(u) : (w \o u)[i] = IF i <= Len(w) THEN w[i] ELSE u[i - Len(w)]
      <4>1. w \in Seq(Seq(Values))
        BY <2>3
      <4> QED BY <3>1, <4>1, ConcatProperties, ZenonT(30)
    <3>3. Len(u) = n /\ y = w \o u
      BY <2>2 DEF u
    <3>4. ASSUME NEW k \in 1 .. n PROVE (w \o u)[1 + k] = u[k]
      <4>1. 1 + k \in 1 .. Len(w) + Len(u) /\ ~(1 + k <= Len(w)) /\ (1 + k) - Len(w) = k
        BY <1>2, <2>3, <3>3
      <4>2. (w \o u)[1 + k] = u[(1 + k) - Len(w)]
        BY <3>2, <4>1
      <4> QED BY <4>1, <4>2
    <3>5. (w \o u)[1] = rec.v
      <4>1. 1 \in 1 .. Len(w) + Len(u) /\ 1 <= Len(w)
        BY <1>2, <2>3, <3>3
      <4>2. (w \o u)[1] = w[1]
        BY <3>2, <4>1
      <4> QED BY <4>2, <2>3
    <3>6. Len(w \o u) = 1 + n
      BY <3>2, <3>3, <2>3
    <3> HIDE DEF Vs, y
    <3> QED BY <3>2, <3>3, <3>4, <3>5, <3>6 DEF u
  <2>5. ASSUME NEW k \in 1 .. n + 1 PROVE x[k] = y[k]
    <3>1. k = 1 \/ (k - 1 \in 1 .. n /\ k = 1 + (k - 1))
      BY <1>2
    <3>2. x[k] = A[k].v
      BY <2>1
    <3>3. A[1] = rec /\ \A i \in 1 .. n : A[1 + i] = recs[i]
      BY <1>5
    <3> HIDE DEF x, y, A, Vs
    <3>4. CASE k = 1
      BY <3>2, <3>3, <3>4, <2>4
    <3>5. CASE k - 1 \in 1 .. n /\ k = 1 + (k - 1)
      <4> DEFINE j == k - 1
      <4>1. j \in 1 .. n /\ k = 1 + j
        BY <3>5
      <4> HIDE DEF j
      <4>2. y[1 + j] = Vs(recs)[j] /\ Vs(recs)[j] = recs[j].v /\ A[1 + j] = recs[j]
        BY <4>1, <2>2, <2>4, <3>3
      <4> QED BY <4>1, <4>2, <3>2
    <3> QED BY <3>1, <3>4, <3>5
  <2>6. Len(y) = n + 1
    BY <2>4, <1>2
  <2> HIDE DEF x, y
  <2>7. x = y
    BY <2>1, <2>4, <2>5, <2>6, SeqEqual
  <2> QED BY <2>7 DEF x, y, w
<1>7. Vs(<<rec>>) = <<rec.v>>
  BY SMT
<1>8. FlattenSeq(<<rec.v>>) = rec.v
  <2> DEFINE w == <<rec.v>>
             h == [i \in 1 .. 1 |-> rec.v]
  <2>1. w \in Seq(Seq(Values)) /\ Len(w) = 1 /\ w[1] = rec.v /\ w # <<>>
    BY <1>2
  <2>2. Joins(w, h) /\ h[1] = rec.v
    BY <2>1 DEF Joins
  <2> HIDE DEF w, h
  <2>3. FlattenSeq(w) = rec.v
    BY <2>1, <2>2, FlattenIs
  <2> QED BY <2>3 DEF w
<1>9. Vs(recs) \in Seq(Seq(Values))
  BY <1>1
<1>10. \A l : ValuesOf(l) = FlattenSeq(Vs(l))
  BY DEF ValuesOf
<1> HIDE DEF Vs
<1> QED BY <1>2, <1>4, <1>6, <1>7, <1>8, <1>9, <1>10, FlattenJoins

-----------------------------------------------------------------------------
(* The inductive invariant.                                                *)

Encodings == {"i", "f", "d", "t"}
Sample == [as : Encodings, v : Values]
SegmentType == [type : {"none"} \cup Encodings, there : BOOLEAN, data : Seq(Sample), size : Nat, recs : Seq(SegRecords)]

(* The samples d of a type hold what the values o have become.             *)
Matched(o, d, type, floated, rounded) ==
  /\ o \in Seq(Values) /\ d \in Seq(Sample) /\ Len(d) = Len(o)
  /\ \A k \in 1 .. Len(o) : d[k].as = type /\ d[k].v \in Reached(o[k], floated, rounded \/ o[k] < 0)

(* There are no more values than the record list has, and as many only if  *)
(* they are the ones.                                                      *)
Listed(o, recs) == Len(o) <= Len(ValuesOf(recs)) /\ (Len(o) = Len(ValuesOf(recs)) => o = ValuesOf(recs))

MarksType == [rounded : BOOLEAN, floated : BOOLEAN, spoiled : BOOLEAN]

SamplesHeld ==
  /\ seg \in SegmentType
  /\ Matched(orig, seg.data, seg.type, marks.floated, marks.rounded)
  /\ seg.size >= SizeOf[seg.type] * Len(seg.data)
  /\ (~seg.there \/ seg.type = "none") => seg.data = <<>>
  /\ Listed(orig, seg.recs)

BufferInv ==
  /\ blocksize \in Nat /\ marks \in MarksType
  /\ ~marks.spoiled => SamplesHeld

LEMMA SizesOf ==
  /\ SizeOf["none"] = 0 /\ SizeOf["t"] = 1 /\ SizeOf["i"] = 4 /\ SizeOf["f"] = 4 /\ SizeOf["d"] = 8
  /\ \A type \in {"none"} \cup Encodings : SizeOf[type] \in Nat
  BY DEF SizeOf, Encodings

(* A buffer that is grown has room.                                        *)
LEMMA GrownHolds ==
  ASSUME blocksize \in Nat, NEW size \in Nat, NEW current \in Nat
  PROVE  Grown(size, current) \in Nat /\ Grown(size, current) >= size
<1>1. CASE blocksize = 0
  BY <1>1 DEF Grown
<1>2. CASE blocksize # 0 /\ size < current
  BY <1>2 DEF Grown, Prealloc
<1>3. CASE blocksize # 0 /\ size >= current /\ ~(size > current + blocksize)
  <2>1. Grown(size, current) = current + blocksize * 1
    BY <1>3 DEF Grown, Prealloc
  <2> QED BY <1>3, <2>1
<1>4. CASE blocksize # 0 /\ size >= current /\ size > current + blocksize
  <2> DEFINE m == (size - current + blocksize - 1) \div blocksize
             s == blocksize * m
  <2>1. Grown(size, current) = current + s
    BY <1>4 DEF Grown, Prealloc
  <2>2. s \in Int /\ s + blocksize > size - current + blocksize - 1
    BY <1>4, SMT
  <2> HIDE DEF s, m
  <2> QED BY <1>4, <2>1, <2>2
<1> QED BY <1>1, <1>2, <1>3, <1>4

LEMMA NothingMatches ==
  ASSUME NEW type, NEW floated, NEW rounded
  PROVE  Matched(<<>>, <<>>, type, floated, rounded)
<1>1. <<>> \in Seq(Values) /\ <<>> \in Seq(Sample) /\ Len(<<>>) = 0
  OBVIOUS
<1> QED BY <1>1 DEF Matched

(* Values that are just put in.                                            *)
LEMMA NewMatches ==
  ASSUME NEW o \in Seq(Values), NEW type \in Encodings, NEW floated \in BOOLEAN, NEW rounded \in BOOLEAN
  PROVE  Matched(o, [k \in DOMAIN o |-> [as |-> type, v |-> o[k]]], type, floated, rounded)
<1> DEFINE d == [k \in DOMAIN o |-> [as |-> type, v |-> o[k]]]
<1>1. DOMAIN o = 1 .. Len(o) /\ Len(o) \in Nat /\ \A k \in 1 .. Len(o) : o[k] \in Values
  BY LenProperties, ElementOfSeq
<1>2. \A k \in 1 .. Len(o) : [as |-> type, v |-> o[k]] \in Sample
  BY <1>1 DEF Sample
<1>3. d = [k \in 1 .. Len(o) |-> [as |-> type, v |-> o[k]]]
  BY <1>1
<1>4. d \in Seq(Sample)
  BY <1>1, <1>2, <1>3, IsASeq
<1>5. Len(d) = Len(o)
  BY <1>1, <1>3
<1>6. ASSUME NEW k \in 1 .. Len(o)
      PROVE  d[k].as = type /\ d[k].v \in Reached(o[k], floated, rounded \/ o[k] < 0)
  BY <1>3 DEF Reached
<1> HIDE DEF d
<1>7. Matched(o, d, type, floated, rounded)
  BY <1>4, <1>5, <1>6 DEF Matched
<1> QED BY <1>7 DEF d

(* Samples of the same type are put behind each other.                     *)
LEMMA MatchedJoins ==
  ASSUME NEW type, NEW floated, NEW rounded, NEW o1, NEW d1, NEW o2, NEW d2,
         Matched(o1, d1, type, floated, rounded), Matched(o2, d2, type, floated, rounded)
  PROVE  Matched(o1 \o o2, d1 \o d2, type, floated, rounded)
<1>1. /\ o1 \in Seq(Values) /\ d1 \in Seq(Sample) /\ Len(d1) = Len(o1)
      /\ \A k \in 1 .. Len(o1) : d1[k].as = type /\ d1[k].v \in Reached(o1[k], floated, rounded \/ o1[k] < 0)
  BY DEF Matched
<1>2. /\ o2 \in Seq(Values) /\ d2 \in Seq(Sample) /\ Len(d2) = Len(o2)
      /\ \A k \in 1 .. Len(o2) : d2[k].as = type /\ d2[k].v \in Reached(o2[k], floated, rounded \/ o2[k] < 0)
  BY DEF Matched
<1>3. Len(o1) \in Nat /\ Len(o2) \in Nat
  BY <1>1, <1>2, LenProperties
<1>4. /\ o1 \o o2 \in Seq(Values) /\ Len(o1 \o o2) = Len(o1) + Len(o2)
      /\ \A k \in 1 .. Len(o1) + Len(o2) : (o1 \o o2)[k] = IF k <= Len(o1) THEN o1[k] ELSE o2[k - Len(o1)]
  BY <1>1, <1>2, ConcatProperties
<1>5. /\ d1 \o d2 \in Seq(Sample) /\ Len(d1 \o d2) = Len(o1) + Len(o2)
      /\ \A k \in 1 .. Len(o1) + Len(o2) : (d1 \o d2)[k] = IF k <= Len(o1) THEN d1[k] ELSE d2[k - Len(o1)]
  <2>1. /\ d1 \o d2 \in Seq(Sample) /\ Len(d1 \o d2) = Len(d1) + Len(d2)
        /\ \A k \in 1 .. Len(d1) + Len(d2) : (d1 \o d2)[k] = IF k <= Len(d1) THEN d1[k] ELSE d2[k - Len(d1)]
    <3>1. d1 \in Seq(Sample) /\ d2 \in Seq(Sample)
      BY <1>1, <1>2
    <3> HIDE DEF Sample
    <3> QED BY <3>1, ConcatProperties
  <2>2. Len(d1) = Len(o1) /\ Len(d2) = Len(o2)
    BY <1>1, <1>2
  <2> QED BY <2>1, <2>2, ZenonT(30)
<1> DEFINE o == o1 \o o2
           d == d1 \o d2
<1> HIDE DEF o, d
<1>6. ASSUME NEW k \in 1 .. Len(o1) + Len(o2)
      PROVE  d[k].as = type /\ d[k].v \in Reached(o[k], floated, rounded \/ o[k] < 0)
  <2>1. CASE k <= Len(o1)
    <3>1. k \in 1 .. Len(o1) /\ o[k] = o1[k] /\ d[k] = d1[k]
      BY <2>1, <1>3, <1>4, <1>5 DEF o, d
    <3> QED BY <3>1, <1>1
  <2>2. CASE ~(k <= Len(o1))
    <3>1. k - Len(o1) \in 1 .. Len(o2)
      BY <2>2, <1>3
    <3>2. o[k] = o2[k - Len(o1)] /\ d[k] = d2[k - Len(o1)]
      BY <2>2, <1>4, <1>5 DEF o, d
    <3> QED BY <3>1, <3>2, <1>2
  <2> QED BY <2>1, <2>2
<1>7. o \in Seq(Values) /\ d \in Seq(Sample) /\ Len(o) = Len(o1) + Len(o2) /\ Len(d) = Len(o)
  BY <1>4, <1>5 DEF o, d
<1>8. Matched(o, d, type, floated, rounded)
  BY <1>6, <1>7 DEF Matched
<1> QED BY <1>8 DEF o, d

Targets == {"i", "f", "d"}
Lossless(d, type, truncate) == \A k \in DOMAIN d : ~(type = "i" /\ ~truncate /\ Loses(d[k].v))

(* Samples are converted that lose nothing, or are allowed to.             *)
LEMMA ConvertedMatches ==
  ASSUME NEW o, NEW d, NEW was, NEW floated \in BOOLEAN, NEW rounded \in BOOLEAN,
         Matched(o, d, was, floated, rounded),
         NEW type \in Targets, NEW truncate \in BOOLEAN,
         Lossless(d, type, truncate)
  PROVE  /\ Matched(o, Represented(d, type), type, floated \/ type = "f", rounded \/ (type = "i" /\ truncate))
         /\ Len(Represented(d, type)) = Len(d)
<1>0. type = "i" \/ type = "f" \/ type = "d"
  BY DEF Targets
<1>1. /\ o \in Seq(Values) /\ d \in Seq(Sample) /\ Len(d) = Len(o)
      /\ \A k \in 1 .. Len(o) : d[k].v \in Reached(o[k], floated, rounded \/ o[k] < 0)
  BY DEF Matched
<1>2. Len(o) \in Nat /\ DOMAIN d = 1 .. Len(o) /\ \A k \in 1 .. Len(o) : o[k] \in Values
  BY <1>1, LenProperties, ElementOfSeq
<1> DEFINE N(x) == CASE type = "i" -> ToInteger(x) [] type = "f" -> ToFloat(x) [] type = "d" -> x
           r == [k \in 1 .. Len(o) |-> [as |-> type, v |-> N(d[k].v)]]
           fl == floated \/ type = "f"
           ro == rounded \/ (type = "i" /\ truncate)
<1>3. Represented(d, type) = r
  BY <1>2 DEF Represented
<1>4. ASSUME NEW k \in 1 .. Len(o)
      PROVE  N(d[k].v) \in Reached(o[k], fl, ro \/ o[k] < 0) /\ N(d[k].v) \in Values
  <2> DEFINE x == d[k].v
             c == rounded \/ o[k] < 0
             e == ro \/ o[k] < 0
  <2>1. x \in Reached(o[k], floated, c) /\ o[k] \in Values /\ c \in BOOLEAN /\ e \in BOOLEAN /\ fl \in BOOLEAN /\ (c => e) /\ (floated => fl)
    BY <1>1, <1>2
  <2> HIDE DEF c
  <2>2. x \in Values /\ ToFloat(x) \in Reached(o[k], TRUE, c) /\ ToInteger(x) \in Reached(o[k], floated, TRUE)
    <3> HIDE DEF x
    <3> QED BY <2>1, ReachedConverted
  <2>3. CASE type = "f"
    <3>1. N(x) = ToFloat(x) /\ fl = TRUE /\ e = c
      BY <2>3 DEF c
    <3>2. ToFloat(x) \in Values
      BY <2>2, FloatProperties
    <3> HIDE DEF N, x, fl, e
    <3> QED BY <2>2, <3>1, <3>2 DEF x, e
  <2>4. CASE type = "d"
    <3>1. N(x) = x
      BY <2>4
    <3>2. x \in Reached(o[k], fl, e)
      <4> HIDE DEF x, fl, e
      <4> QED BY <2>1, ReachedMore
    <3> HIDE DEF N, x, fl
    <3> QED BY <2>2, <3>1, <3>2 DEF x, e
  <2>5. CASE type = "i"
    <3>1. N(x) = ToInteger(x) /\ fl = floated
      BY <2>5
    <3>2. ToInteger(x) \in Values
      BY <2>2, WholeValues
    <3>3. CASE e
      <4> HIDE DEF N, x, fl, e
      <4>1. e = TRUE
        BY <3>3, <2>1
      <4> QED BY <2>2, <3>1, <3>2, <4>1 DEF x, e
    <3>4. CASE ~e
      <4>1. ~truncate /\ ~rounded /\ ~(o[k] < 0) /\ c = FALSE
        BY <3>4, <2>5 DEF c
      <4>2. ~Loses(x)
        BY <4>1, <2>5, <1>2 DEF Lossless
      <4>3. o[k] >= 0
        <5>1. o[k] \in Int /\ ~(o[k] < 0)
          BY <4>1, <2>1, RecordTypes
        <5> QED BY <5>1
      <4>4. x \in Reached(o[k], floated, FALSE)
        BY <2>1, <4>1
      <4> HIDE DEF N, x, fl, e
      <4>5. ToInteger(x) = x
        BY <4>2, <4>3, <4>4, <2>1, NothingLost
      <4>6. x \in Reached(o[k], fl, e)
        BY <2>1, ReachedMore
      <4> QED BY <3>1, <3>2, <4>5, <4>6 DEF x, e
    <3> QED BY <3>3, <3>4
  <2> QED BY <1>0, <2>3, <2>4, <2>5
<1>5. \A k \in 1 .. Len(o) : [as |-> type, v |-> N(d[k].v)] \in Sample
  <2> HIDE DEF N
  <2> QED BY <1>0, <1>4 DEF Sample, Encodings
<1>6. r \in Seq(Sample) /\ Len(r) = Len(o)
  <2> HIDE DEF N
  <2>1. r \in Seq(Sample)
    BY <1>2, <1>5, IsASeq
  <2> QED BY <2>1, <1>2
<1>7. \A k \in 1 .. Len(o) : r[k].as = type /\ r[k].v = N(d[k].v)
  <2> HIDE DEF N
  <2> QED OBVIOUS
<1> HIDE DEF r, N, fl, ro
<1>8. Matched(o, r, type, fl, ro)
  BY <1>1, <1>4, <1>6, <1>7, Zenon DEF Matched
<1> QED BY <1>1, <1>3, <1>6, <1>8 DEF fl, ro

(* Records are listed whose samples are put in or not.                     *)
LEMMA ListedJoins ==
  ASSUME NEW o \in Seq(Values), NEW recs \in Seq(SegRecords), Listed(o, recs), NEW rec \in SegRecords
  PROVE  /\ Listed(o \o rec.v, Append(recs, rec)) /\ Listed(rec.v \o o, <<rec>> \o recs)
         /\ Listed(o, Append(recs, rec)) /\ Listed(o, <<rec>> \o recs)
<1> DEFINE l == ValuesOf(recs)
           v == rec.v
<1>1. l \in Seq(Values) /\ v \in Seq(Values) /\ Len(o) \in Nat /\ Len(l) \in Nat /\ Len(v) \in Nat
  BY ValuesJoin, RecordTypes, LenProperties
<1>2. ValuesOf(Append(recs, rec)) = l \o v /\ ValuesOf(<<rec>> \o recs) = v \o l
  BY ValuesJoin
<1>3. Len(o) <= Len(l) /\ (Len(o) = Len(l) => o = l)
  BY DEF Listed
<1> HIDE DEF l, v
<1>4. /\ Len(l \o v) = Len(l) + Len(v) /\ Len(v \o l) = Len(v) + Len(l)
      /\ Len(o \o v) = Len(o) + Len(v) /\ Len(v \o o) = Len(v) + Len(o)
  BY <1>1, ConcatProperties
<1>5. ASSUME Len(v) = 0 PROVE l \o v = l /\ v \o l = l
  <2>1. v = <<>>
    BY <1>1, <1>5, EmptySeq
  <2> QED BY <2>1, <1>1, ConcatEmptySeq
<1>6. Listed(o \o v, Append(recs, rec)) /\ Listed(v \o o, <<rec>> \o recs)
  <2>1. Len(o) + Len(v) = Len(l) + Len(v) => o = l
    BY <1>1, <1>3
  <2>2. Len(v) + Len(o) = Len(v) + Len(l) => o = l
    BY <1>1, <1>3
  <2>3. Len(o \o v) <= Len(l \o v) /\ (Len(o \o v) = Len(l \o v) => o \o v = l \o v)
    BY <1>1, <1>3, <1>4, <2>1
  <2>4. Len(v \o o) <= Len(v \o l) /\ (Len(v \o o) = Len(v \o l) => v \o o = v \o l)
    BY <1>1, <1>3, <1>4, <2>2
  <2>5. Listed(o \o v, Append(recs, rec))
    BY <1>2, <2>3, Zenon DEF Listed
  <2>6. Listed(v \o o, <<rec>> \o recs)
    BY <1>2, <2>4, Zenon DEF Listed
  <2> QED BY <2>5, <2>6
<1>7. Listed(o, Append(recs, rec)) /\ Listed(o, <<rec>> \o recs)
  <2>1. Len(o) = Len(l) + Len(v) => Len(v) = 0
    BY <1>1, <1>3
  <2>2. Len(o) <= Len(l) + Len(v)
    BY <1>1, <1>3
  <2>3. Len(o) = Len(l) + Len(v) => o = l \o v /\ o = v \o l
    BY <1>1, <1>3, <1>5, <2>1
  <2>4. Len(o) <= Len(l \o v) /\ (Len(o) = Len(l \o v) => o = l \o v)
    BY <2>2, <2>3, <1>4
  <2>5. Len(o) <= Len(v \o l) /\ (Len(o) = Len(v \o l) => o = v \o l)
    <3>1. Len(v) + Len(l) = Len(l) + Len(v)
      BY <1>1
    <3> QED BY <2>2, <2>3, <3>1, <1>4
  <2>6. Listed(o, Append(recs, rec))
    BY <1>2, <2>4, Zenon DEF Listed
  <2>7. Listed(o, <<rec>> \o recs)
    BY <1>2, <2>5, Zenon DEF Listed
  <2> QED BY <2>6, <2>7
<1> QED BY <1>6, <1>7 DEF v

-----------------------------------------------------------------------------
(* Every step keeps the invariant.                                         *)

LEMMA SegmentParts ==
  ASSUME SamplesHeld
  PROVE  /\ seg.type \in {"none"} \cup Encodings /\ seg.there \in BOOLEAN
         /\ seg.data \in Seq(Sample) /\ seg.size \in Nat /\ seg.recs \in Seq(SegRecords)
         /\ orig \in Seq(Values) /\ Len(seg.data) = Len(orig)
         /\ Len(seg.data) \in Nat
         /\ seg = [type |-> seg.type, there |-> seg.there, data |-> seg.data, size |-> seg.size, recs |-> seg.recs]
<1>1. seg \in SegmentType /\ orig \in Seq(Values) /\ Len(seg.data) = Len(orig)
  BY DEF SamplesHeld, Matched
<1>2. /\ seg.type \in {"none"} \cup Encodings /\ seg.there \in BOOLEAN
      /\ seg.data \in Seq(Sample) /\ seg.size \in Nat /\ seg.recs \in Seq(SegRecords)
      /\ seg = [type |-> seg.type, there |-> seg.there, data |-> seg.data, size |-> seg.size, recs |-> seg.recs]
  <2> HIDE DEF Sample, Encodings
  <2> QED BY <1>1 DEF SegmentType
<1> QED BY <1>1, <1>2, LenProperties

LEMMA NoSegmentHeld ==
  ASSUME seg' = NoSegment, orig' = <<>>
  PROVE  SamplesHeld'
<1>1. /\ seg'.type = "none" /\ seg'.data = <<>> /\ seg'.size = 0 /\ seg'.recs = <<>> /\ seg'.there = FALSE
  BY DEF NoSegment
<1>2. seg' \in SegmentType
  BY DEF NoSegment, SegmentType
<1>3. Matched(<<>>, <<>>, "none", marks.floated', marks.rounded')
  BY NothingMatches
<1>4. ValuesOf(<<>>) = <<>>
  BY DEF ValuesOf, FlattenSeq
<1>5. Listed(<<>>, <<>>)
  BY <1>4 DEF Listed
<1>6. SizeOf["none"] * Len(<<>>) = 0
  BY SizesOf
<1> QED BY <1>1, <1>2, <1>3, <1>5, <1>6 DEF SamplesHeld

LEMMA ValuesOfOne ==
  ASSUME NEW rec \in SegRecords
  PROVE  /\ ValuesOf(<<rec>>) = rec.v /\ rec.v \in Seq(Values) /\ rec.enc \in Encodings
         /\ <<rec>> \in Seq(SegRecords) /\ Listed(rec.v, <<rec>>) /\ Listed(<<>>, <<rec>>)
<1>1. <<>> \in Seq(SegRecords) /\ <<rec>> \in Seq(SegRecords)
  OBVIOUS
<1>2. ValuesOf(<<rec>>) = rec.v /\ rec.v \in Seq(Values) /\ rec.enc \in Encodings
  BY <1>1, ValuesJoin, RecordTypes DEF Encodings
<1>3. Len(rec.v) \in Nat /\ (Len(rec.v) = 0 => rec.v = <<>>)
  BY <1>2, LenProperties, EmptySeq
<1> QED BY <1>1, <1>2, <1>3 DEF Listed

LEMMA BeginKeeps ==
  ASSUME BufferInv, SamplesHeld, NEW rec \in SegRecords, NEW decoded \in BOOLEAN, Begin(rec, decoded), UNCHANGED marks
  PROVE  SamplesHeld'
<1>1. rec.v \in Seq(Values) /\ rec.enc \in Encodings /\ <<rec>> \in Seq(SegRecords) /\ Listed(rec.v, <<rec>>) /\ Listed(<<>>, <<rec>>)
  BY ValuesOfOne
<1>2. marks.floated \in BOOLEAN /\ marks.rounded \in BOOLEAN
  BY DEF BufferInv, MarksType
<1>3. CASE decoded
  <2> DEFINE d == Sampled(rec)
             s == SizeOf[rec.enc] * Len(rec.v)
  <2>1. seg' = [type |-> rec.enc, there |-> TRUE, data |-> d, size |-> s, recs |-> <<rec>>] /\ orig' = rec.v
    BY <1>3 DEF Begin
  <2>2. Matched(rec.v, d, rec.enc, marks.floated, marks.rounded)
    BY <1>1, <1>2, NewMatches DEF Sampled
  <2>3. d \in Seq(Sample) /\ Len(d) = Len(rec.v)
    BY <2>2 DEF Matched
  <2>4. s \in Nat
    <3>1. SizeOf[rec.enc] \in Nat /\ Len(rec.v) \in Nat
      BY <1>1, SizesOf, LenProperties
    <3> QED BY <3>1
  <2>5. s = SizeOf[rec.enc] * Len(d)
    BY <2>3
  <2> HIDE DEF d, s
  <2>6. /\ seg'.type = rec.enc /\ seg'.there = TRUE /\ seg'.data = d /\ seg'.size = s /\ seg'.recs = <<rec>>
    BY <2>1
  <2>7. seg' \in SegmentType
    <3> HIDE DEF Sample, Encodings
    <3> QED BY <2>1, <2>3, <2>4, <1>1 DEF SegmentType
  <2>8. rec.enc # "none"
    BY <1>1 DEF Encodings
  <2>9. s >= SizeOf[rec.enc] * Len(d)
    BY <2>4, <2>5
  <2> QED BY <2>1, <2>2, <2>6, <2>7, <2>8, <2>9, <1>1 DEF SamplesHeld
<1>4. CASE ~decoded
  <2>1. seg' = [type |-> "none", there |-> FALSE, data |-> <<>>, size |-> 0, recs |-> <<rec>>] /\ orig' = <<>>
    BY <1>4 DEF Begin, NoSegment
  <2>2. seg'.type = "none" /\ seg'.there = FALSE /\ seg'.data = <<>> /\ seg'.size = 0 /\ seg'.recs = <<rec>>
    BY <2>1
  <2>3. seg' \in SegmentType
    BY <2>1, <1>1 DEF SegmentType
  <2>4. Matched(<<>>, <<>>, "none", marks.floated', marks.rounded')
    BY NothingMatches
  <2>5. SizeOf["none"] * Len(<<>>) = 0
    BY SizesOf
  <2> QED BY <2>1, <2>2, <2>3, <2>4, <2>5, <1>1 DEF SamplesHeld
<1> QED BY <1>3, <1>4

LEMMA ExtendKeeps ==
  ASSUME BufferInv, SamplesHeld, NEW rec \in SegRecords, NEW decoded \in BOOLEAN, NEW atend \in BOOLEAN,
         Extend(rec, decoded, atend), UNCHANGED <<marks, blocksize>>
  PROVE  SamplesHeld'
<1> DEFINE list == IF atend THEN Append(seg.recs, rec) ELSE <<rec>> \o seg.recs
           d == IF atend THEN seg.data \o Sampled(rec) ELSE Sampled(rec) \o seg.data
           o == IF atend THEN orig \o rec.v ELSE rec.v \o orig
           s == Grown(SizeOf[rec.enc] * (Len(seg.data) + Len(rec.v)), seg.size)
<1>1. /\ seg.type \in {"none"} \cup Encodings /\ seg.there \in BOOLEAN
      /\ seg.data \in Seq(Sample) /\ seg.size \in Nat /\ seg.recs \in Seq(SegRecords)
      /\ orig \in Seq(Values) /\ Len(seg.data) = Len(orig)
      /\ Len(seg.data) \in Nat
      /\ seg = [type |-> seg.type, there |-> seg.there, data |-> seg.data, size |-> seg.size, recs |-> seg.recs]
  BY SegmentParts
<1>2. /\ rec.v \in Seq(Values) /\ rec.enc \in Encodings /\ Len(rec.v) \in Nat
      /\ marks.floated \in BOOLEAN /\ marks.rounded \in BOOLEAN /\ blocksize \in Nat
  BY ValuesOfOne, LenProperties DEF BufferInv, MarksType
<1>3. /\ Matched(orig, seg.data, seg.type, marks.floated, marks.rounded)
      /\ Listed(orig, seg.recs)
      /\ (~seg.there \/ seg.type = "none") => seg.data = <<>>
      /\ seg.size >= SizeOf[seg.type] * Len(seg.data)
  BY DEF SamplesHeld
<1>4. list \in Seq(SegRecords) /\ Listed(o, list) /\ Listed(orig, list)
  <2>1. Append(seg.recs, rec) \in Seq(SegRecords)
    BY <1>1, AppendProperties
  <2>2. <<rec>> \o seg.recs \in Seq(SegRecords)
    <3>1. <<rec>> \in Seq(SegRecords)
      OBVIOUS
    <3> QED BY <3>1, <1>1, ConcatProperties
  <2>3. /\ Listed(orig \o rec.v, Append(seg.recs, rec)) /\ Listed(rec.v \o orig, <<rec>> \o seg.recs)
        /\ Listed(orig, Append(seg.recs, rec)) /\ Listed(orig, <<rec>> \o seg.recs)
    BY <1>1, <1>3, ListedJoins
  <2>4. CASE atend
    BY <2>1, <2>3, <2>4
  <2>5. CASE ~atend
    BY <2>2, <2>3, <2>5
  <2> QED BY <2>4, <2>5
<1>5. CASE decoded
  <2>1. /\ seg' = [type |-> seg.type, there |-> TRUE, recs |-> list, data |-> d, size |-> s] /\ orig' = o
        /\ rec.enc = seg.type
    <3>1. orig' = IF ~decoded THEN orig ELSE IF atend THEN orig \o rec.v ELSE rec.v \o orig
      BY DEF Extend
    <3>2. orig' = o
      BY <1>5, <3>1
    <3> QED BY <1>5, <3>2 DEF Extend
  <2>2. Matched(rec.v, Sampled(rec), rec.enc, marks.floated, marks.rounded)
    BY <1>2, NewMatches DEF Sampled
  <2>3. Matched(o, d, seg.type, marks.floated, marks.rounded)
    <3>1. Matched(orig \o rec.v, seg.data \o Sampled(rec), seg.type, marks.floated, marks.rounded)
      BY <1>3, <2>1, <2>2, MatchedJoins
    <3>2. Matched(rec.v \o orig, Sampled(rec) \o seg.data, seg.type, marks.floated, marks.rounded)
      BY <1>3, <2>1, <2>2, MatchedJoins
    <3>3. CASE atend
      BY <3>1, <3>3
    <3>4. CASE ~atend
      BY <3>2, <3>4
    <3> QED BY <3>3, <3>4
  <2>4. d \in Seq(Sample) /\ Len(d) = Len(orig) + Len(rec.v)
    <3>1. d \in Seq(Sample) /\ Len(d) = Len(o)
      BY <2>3, Zenon DEF Matched
    <3>2. Len(orig \o rec.v) = Len(orig) + Len(rec.v) /\ Len(rec.v \o orig) = Len(rec.v) + Len(orig)
      BY <1>1, <1>2, ConcatProperties
    <3>3. Len(rec.v) + Len(orig) = Len(orig) + Len(rec.v)
      BY <1>1, <1>2
    <3>4. Len(o) = Len(orig) + Len(rec.v)
      BY <3>2, <3>3
    <3> QED BY <3>1, <3>4
  <2>5. s \in Nat /\ s >= SizeOf[seg.type] * Len(d)
    <3>1. SizeOf[rec.enc] \in Nat
      BY <1>2, SizesOf
    <3>2. SizeOf[rec.enc] * (Len(seg.data) + Len(rec.v)) \in Nat
      BY <3>1, <1>1, <1>2
    <3>3. s \in Nat /\ s >= SizeOf[rec.enc] * (Len(seg.data) + Len(rec.v))
      BY <3>2, <1>1, <1>2, GrownHolds
    <3>4. Len(d) = Len(seg.data) + Len(rec.v)
      BY <2>4, <1>1
    <3> HIDE DEF s, d
    <3> QED BY <3>3, <3>4, <2>1
  <2> HIDE DEF list, d, o, s
  <2>6. seg'.type = seg.type /\ seg'.there = TRUE /\ seg'.recs = list /\ seg'.data = d /\ seg'.size = s
    BY <2>1
  <2>7. seg' \in SegmentType
    <3> HIDE DEF Sample, Encodings
    <3> QED BY <2>1, <2>4, <2>5, <1>1, <1>4 DEF SegmentType
  <2>8. seg.type # "none"
    BY <1>2, <2>1 DEF Encodings
  <2> QED BY <2>1, <2>3, <2>5, <2>6, <2>7, <2>8, <1>4 DEF SamplesHeld
<1>6. CASE ~decoded
  <2>1. seg' = [seg EXCEPT !.recs = list] /\ orig' = orig
    BY <1>6 DEF Extend
  <2> HIDE DEF list
  <2>2. seg' = [type |-> seg.type, there |-> seg.there, data |-> seg.data, size |-> seg.size, recs |-> list]
    BY <2>1, <1>1
  <2>3. seg'.type = seg.type /\ seg'.there = seg.there /\ seg'.recs = list /\ seg'.data = seg.data /\ seg'.size = seg.size
    BY <2>2
  <2>4. seg' \in SegmentType
    <3> HIDE DEF Sample, Encodings
    <3> QED BY <2>2, <1>1, <1>4 DEF SegmentType
  <2> QED BY <2>1, <2>3, <2>4, <1>3, <1>4 DEF SamplesHeld
<1> QED BY <1>5, <1>6

LEMMA UnpackOwnKeeps ==
  ASSUME BufferInv, SamplesHeld, UnpackOwn, UNCHANGED marks
  PROVE  SamplesHeld'
<1> DEFINE lv == ListValues
           d == [k \in DOMAIN lv |-> [as |-> ListType, v |-> lv[k]]]
           s == SizeOf[ListType] * Len(lv)
<1>1. seg.recs \in Seq(SegRecords) /\ seg.recs # <<>>
  BY SegmentParts DEF UnpackOwn
<1>2. ListType \in Encodings /\ lv \in Seq(Values)
  <2>1. 1 \in 1 .. Len(seg.recs)
    BY <1>1, LenProperties, EmptySeq
  <2>2. seg.recs[1] \in SegRecords
    BY <1>1, <2>1, ElementOfSeq
  <2>3. ValuesOf(seg.recs) \in Seq(Values)
    BY <1>1, <2>2, ValuesJoin
  <2> QED BY <2>2, <2>3, RecordTypes DEF ListType, ListValues, Encodings
<1>3. marks.floated \in BOOLEAN /\ marks.rounded \in BOOLEAN
  BY DEF BufferInv, MarksType
<1>4. CASE Mixed
  BY <1>4 DEF UnpackOwn, SamplesHeld
<1>5. CASE ~Mixed
  <2>1. seg' = [type |-> ListType, there |-> TRUE, recs |-> seg.recs, size |-> s, data |-> d] /\ orig' = lv
    BY <1>5 DEF UnpackOwn
  <2>2. Matched(lv, d, ListType, marks.floated, marks.rounded)
    <3> HIDE DEF lv
    <3> QED BY <1>2, <1>3, NewMatches
  <2>3. d \in Seq(Sample) /\ Len(d) = Len(lv)
    BY <2>2, Zenon DEF Matched
  <2>4. s \in Nat /\ s >= SizeOf[ListType] * Len(d)
    <3>1. SizeOf[ListType] \in Nat /\ Len(lv) \in Nat
      BY <1>2, SizesOf, LenProperties
    <3>2. s \in Nat /\ s = SizeOf[ListType] * Len(d)
      <4> HIDE DEF d, lv
      <4> QED BY <3>1, <2>3
    <3> HIDE DEF s, d
    <3> QED BY <3>2
  <2>5. Listed(lv, seg.recs)
    BY <1>2, LenProperties DEF Listed, ListValues
  <2> HIDE DEF lv, d, s
  <2>6. seg'.type = ListType /\ seg'.there = TRUE /\ seg'.recs = seg.recs /\ seg'.data = d /\ seg'.size = s
    BY <2>1
  <2>7. seg' \in SegmentType
    <3> HIDE DEF Sample, Encodings
    <3> QED BY <2>1, <2>3, <2>4, <1>1, <1>2 DEF SegmentType
  <2>8. ListType # "none"
    BY <1>2 DEF Encodings
  <2> QED BY <2>1, <2>2, <2>4, <2>5, <2>6, <2>7, <2>8 DEF SamplesHeld
<1> QED BY <1>4, <1>5

LEMMA UnpackOutKeeps ==
  ASSUME BufferInv, SamplesHeld, UnpackOut, UNCHANGED marks
  PROVE  SamplesHeld'
<1>1. /\ seg.recs \in Seq(SegRecords) /\ seg.recs # <<>>
      /\ seg = [type |-> seg.type, there |-> seg.there, data |-> seg.data, size |-> seg.size, recs |-> seg.recs]
      /\ seg.there \in BOOLEAN /\ seg.data \in Seq(Sample) /\ seg.size \in Nat
  BY SegmentParts DEF UnpackOut
<1>2. /\ Matched(orig, seg.data, seg.type, marks.floated, marks.rounded)
      /\ Listed(orig, seg.recs)
      /\ (~seg.there \/ seg.type = "none") => seg.data = <<>>
      /\ seg.size >= SizeOf[seg.type] * Len(seg.data)
      /\ Len(seg.data) = Len(orig) /\ orig \in Seq(Values)
  BY DEF SamplesHeld, Matched
<1>3. seg' = [seg EXCEPT !.type = ListType] /\ orig' = orig /\ (seg.there => seg.type = ListType)
  BY DEF UnpackOut
<1>4. seg' = [type |-> ListType, there |-> seg.there, data |-> seg.data, size |-> seg.size, recs |-> seg.recs]
  BY <1>1, <1>3
<1>5. seg'.type = ListType /\ seg'.there = seg.there /\ seg'.data = seg.data /\ seg'.size = seg.size /\ seg'.recs = seg.recs
  BY <1>4
<1>6. ListType \in Encodings
  <2>1. 1 \in 1 .. Len(seg.recs)
    BY <1>1, LenProperties, EmptySeq
  <2>2. seg.recs[1] \in SegRecords
    BY <1>1, <2>1, ElementOfSeq
  <2> QED BY <2>2, RecordTypes DEF ListType, Encodings
<1>7. seg' \in SegmentType
  <2> HIDE DEF Sample, Encodings
  <2> QED BY <1>1, <1>4, <1>6 DEF SegmentType
<1>8. ListType # "none"
  BY <1>6 DEF Encodings
<1>9. CASE seg.there
  BY <1>2, <1>3, <1>5, <1>7, <1>8, <1>9 DEF SamplesHeld
<1>10. CASE ~seg.there
  <2>1. seg.data = <<>> /\ orig = <<>>
    <3>1. seg.data = <<>>
      BY <1>2, <1>10
    <3>2. Len(orig) = 0
      BY <3>1, <1>2
    <3> QED BY <3>1, <3>2, <1>2, EmptySeq
  <2>2. Matched(orig, seg.data, ListType, marks.floated, marks.rounded)
    BY <2>1, NothingMatches
  <2>3. seg.size >= SizeOf[ListType] * Len(seg.data)
    <3>1. SizeOf[ListType] \in Nat /\ Len(seg.data) = 0
      BY <1>6, <2>1, SizesOf
    <3>2. SizeOf[ListType] * Len(seg.data) = 0
      BY <3>1
    <3> QED BY <3>2, <1>1
  <2> QED BY <1>2, <1>3, <1>5, <1>7, <2>1, <2>2, <2>3 DEF SamplesHeld
<1> QED BY <1>1, <1>9, <1>10

LEMMA ResizeKeeps ==
  ASSUME BufferInv, SamplesHeld, mstl3_resize_buffers, UNCHANGED marks
  PROVE  SamplesHeld'
<1> DEFINE s == SizeOf[seg.type] * Len(seg.data)
<1>1. /\ seg.type \in {"none"} \cup Encodings /\ seg.there \in BOOLEAN
      /\ seg.data \in Seq(Sample) /\ seg.size \in Nat /\ seg.recs \in Seq(SegRecords)
      /\ Len(seg.data) \in Nat
      /\ seg = [type |-> seg.type, there |-> seg.there, data |-> seg.data, size |-> seg.size, recs |-> seg.recs]
  BY SegmentParts
<1>2. s \in Nat
  BY <1>1, SizesOf
<1>3. orig' = orig /\ seg' \in {seg, [seg EXCEPT !.size = s]}
  BY DEF mstl3_resize_buffers
<1>4. CASE seg' = seg
  BY <1>3, <1>4 DEF SamplesHeld
<1>5. CASE seg' = [seg EXCEPT !.size = s]
  <2> HIDE DEF s
  <2>1. seg' = [type |-> seg.type, there |-> seg.there, data |-> seg.data, size |-> s, recs |-> seg.recs]
    BY <1>1, <1>5
  <2>2. seg'.type = seg.type /\ seg'.there = seg.there /\ seg'.data = seg.data /\ seg'.size = s /\ seg'.recs = seg.recs
    BY <2>1
  <2>3. seg' \in SegmentType
    <3> HIDE DEF Sample, Encodings
    <3> QED BY <2>1, <1>1, <1>2 DEF SegmentType
  <2>4. s >= SizeOf[seg.type] * Len(seg.data)
    BY <1>2 DEF s
  <2> QED BY <1>3, <2>2, <2>3, <2>4 DEF SamplesHeld
<1> QED BY <1>3, <1>4, <1>5

(* A buffer that was large enough still is when samples change their size. *)
LEMMA ResizedHolds ==
  ASSUME SamplesHeld, NEW type \in {"i", "f", "d"}, seg.type # "t", seg.type # "none"
  PROVE  Resized(type) \in Nat /\ Resized(type) >= SizeOf[type] * Len(seg.data)
<1> DEFINE n == Len(seg.data)
<1>1. seg.type \in {"i", "f", "d"} /\ seg.size \in Nat /\ n \in Nat
  BY SegmentParts DEF Encodings
<1>2. seg.size >= SizeOf[seg.type] * n
  BY DEF SamplesHeld
<1>3. SizeOf["i"] = 4 /\ SizeOf["f"] = 4 /\ SizeOf["d"] = 8 /\ SizeOf.d = 8
  BY DEF SizeOf
<1> HIDE DEF n
<1>4. seg.size >= 4 * n
  BY <1>1, <1>2, <1>3
<1>5. CASE type = "d"
  <2>1. Resized(type) = 8 * n
    BY <1>3, <1>5 DEF Resized, n
  <2> QED BY <2>1, <1>1, <1>3, <1>5 DEF n
<1>6. CASE type # "d"
  <2>1. SizeOf[type] = 4
    BY <1>3, <1>6
  <2>2. Resized(type) = 4 * n \/ Resized(type) = seg.size
    BY <1>6, <2>1 DEF Resized, n
  <2> QED BY <2>1, <2>2, <1>1, <1>4 DEF n
<1> QED BY <1>5, <1>6

LEMMA ConvertKeeps ==
  ASSUME BufferInv, SamplesHeld, NEW type \in {"i", "f", "d"}, NEW truncate \in BOOLEAN,
         mstl3_convertsamples(type, truncate)
  PROVE  marks' \in MarksType /\ (~marks'.spoiled => SamplesHeld')
<1> DEFINE losses == {k \in DOMAIN seg.data : type = "i" /\ ~truncate /\ Loses(seg.data[k].v)}
           d == Represented(seg.data, type)
           ro == marks.rounded \/ (type = "i" /\ truncate)
           fl == marks.floated \/ type = "f"
<1>1. /\ seg.type \in {"none"} \cup Encodings /\ seg.there \in BOOLEAN
      /\ seg.data \in Seq(Sample) /\ seg.size \in Nat /\ seg.recs \in Seq(SegRecords)
      /\ Len(seg.data) \in Nat
  BY SegmentParts
<1>2. /\ marks \in MarksType /\ marks.floated \in BOOLEAN /\ marks.rounded \in BOOLEAN /\ marks.spoiled \in BOOLEAN
  BY DEF BufferInv, MarksType
<1>3. /\ Matched(orig, seg.data, seg.type, marks.floated, marks.rounded)
      /\ Listed(orig, seg.recs)
      /\ (~seg.there \/ seg.type = "none") => seg.data = <<>>
  BY DEF SamplesHeld
<1>4. seg.data # <<>> /\ orig' = orig
  BY DEF mstl3_convertsamples
<1>5. CASE UNCHANGED <<seg, marks>>
  BY <1>2, <1>4, <1>5 DEF SamplesHeld
<1>6. CASE /\ seg.type # "t" /\ losses = {}
           /\ seg' = [type |-> type, there |-> seg.there, recs |-> seg.recs, data |-> d, size |-> Resized(type)]
           /\ marks' = [rounded |-> ro, floated |-> fl, spoiled |-> marks.spoiled]
  <2>1. seg.there /\ seg.type # "none"
    BY <1>1, <1>3, <1>4
  <2>2. Lossless(seg.data, type, truncate)
    BY <1>6, Zenon DEF Lossless
  <2>3. Matched(orig, d, type, fl, ro) /\ Len(d) = Len(seg.data)
    <3>1. Matched(orig, seg.data, seg.type, marks.floated, marks.rounded)
      BY <1>3
    <3>2. type \in Targets
      BY DEF Targets
    <3> HIDE DEF losses
    <3> QED BY <1>2, <2>2, <3>1, <3>2, ConvertedMatches
  <2>4. d \in Seq(Sample)
    BY <2>3, Zenon DEF Matched
  <2>5. Resized(type) \in Nat /\ Resized(type) >= SizeOf[type] * Len(seg.data)
    BY <1>6, <2>1, ResizedHolds
  <2>6. ro \in BOOLEAN /\ fl \in BOOLEAN
    BY <1>2
  <2> HIDE DEF d, ro, fl, losses
  <2> DEFINE s == Resized(type)
  <2> HIDE DEF s
  <2>7. /\ seg' = [type |-> type, there |-> seg.there, recs |-> seg.recs, data |-> d, size |-> s]
        /\ seg'.type = type /\ seg'.there = seg.there /\ seg'.recs = seg.recs /\ seg'.data = d /\ seg'.size = s
    BY <1>6 DEF s
  <2>8. marks'.rounded = ro /\ marks'.floated = fl /\ marks' \in MarksType
    BY <1>2, <1>6, <2>6 DEF MarksType
  <2>9. seg' \in SegmentType
    <3>1. type \in {"none"} \cup Encodings /\ s \in Nat
      BY <2>5 DEF Encodings, s
    <3> HIDE DEF Sample, Encodings
    <3> QED BY <2>4, <2>7, <3>1, <1>1 DEF SegmentType
  <2>10. s >= SizeOf[type] * Len(d)
    BY <2>3, <2>5 DEF s
  <2> QED BY <1>3, <1>4, <2>1, <2>3, <2>7, <2>8, <2>9, <2>10 DEF SamplesHeld
<1>7. CASE marks' = [marks EXCEPT !.spoiled = TRUE]
  <2>1. marks' \in MarksType /\ marks'.spoiled = TRUE
    BY <1>2, <1>7 DEF MarksType
  <2> QED BY <2>1
<1> QED BY <1>5, <1>6, <1>7 DEF mstl3_convertsamples

LEMMA BufferStep == BufferInv /\ [BufferNext]_bufferVars => BufferInv'
<1> SUFFICES ASSUME BufferInv, [BufferNext]_bufferVars PROVE BufferInv'
  OBVIOUS
<1>1. CASE UNCHANGED bufferVars
  BY <1>1 DEF bufferVars, BufferInv, SamplesHeld
<1>2. CASE BufferNext
  <2>1. blocksize' = blocksize /\ blocksize \in Nat /\ marks \in MarksType
    BY <1>2 DEF BufferNext, BufferInv
  <2>2. CASE Discard
    <3>1. marks' = NoMarks /\ seg' = NoSegment /\ orig' = <<>>
      BY <2>2 DEF Discard
    <3>2. SamplesHeld'
      BY <3>1, NoSegmentHeld
    <3>3. marks' \in MarksType
      BY <3>1 DEF NoMarks, MarksType
    <3> QED BY <2>1, <3>2, <3>3 DEF BufferInv
  <2>3. ASSUME ~marks.spoiled, NEW type \in {"i", "f", "d"}, NEW truncate \in BOOLEAN, mstl3_convertsamples(type, truncate)
        PROVE  BufferInv'
    <3>1. SamplesHeld
      BY <2>3 DEF BufferInv
    <3> QED BY <2>1, <2>3, <3>1, ConvertKeeps DEF BufferInv
  <2>4. ASSUME ~marks.spoiled, marks' = marks,
               \/ \E rec \in SegRecords, decoded \in BOOLEAN :
                    Begin(rec, decoded) \/ \E atend \in BOOLEAN : Extend(rec, decoded, atend)
               \/ \E rec \in SegRecords : Refuse(rec)
               \/ UnpackOwn \/ UnpackOut \/ mstl3_resize_buffers
        PROVE  BufferInv'
    <3>1. SamplesHeld
      BY <2>4 DEF BufferInv
    <3>2. SamplesHeld'
      <4>1. ASSUME NEW rec \in SegRecords, NEW decoded \in BOOLEAN, Begin(rec, decoded) PROVE SamplesHeld'
        BY <2>4, <3>1, <4>1, BeginKeeps
      <4>2. ASSUME NEW rec \in SegRecords, NEW decoded \in BOOLEAN, NEW atend \in BOOLEAN, Extend(rec, decoded, atend)
            PROVE  SamplesHeld'
        BY <2>1, <2>4, <3>1, <4>2, ExtendKeeps
      <4>3. ASSUME NEW rec \in SegRecords, Refuse(rec) PROVE SamplesHeld'
        BY <2>4, <3>1, <4>3 DEF Refuse, SamplesHeld
      <4>4. UnpackOwn => SamplesHeld'
        BY <2>4, <3>1, UnpackOwnKeeps
      <4>5. UnpackOut => SamplesHeld'
        BY <2>4, <3>1, UnpackOutKeeps
      <4>6. mstl3_resize_buffers => SamplesHeld'
        BY <2>4, <3>1, ResizeKeeps
      <4> QED BY <2>4, <4>1, <4>2, <4>3, <4>4, <4>5, <4>6
    <3> QED BY <2>1, <2>4, <3>2 DEF BufferInv
  <2> QED BY <1>2, <2>2, <2>3, <2>4 DEF BufferNext
<1> QED BY <1>1, <1>2

LEMMA BufferInitially == BufferInit => BufferInv
<1> SUFFICES ASSUME BufferInit PROVE BufferInv
  OBVIOUS
<1>1. blocksize \in Nat /\ seg = NoSegment /\ orig = <<>> /\ marks = NoMarks
  BY BufferAssumption DEF BufferInit
<1>2. marks \in MarksType
  BY <1>1 DEF NoMarks, MarksType
<1>3. seg.type = "none" /\ seg.data = <<>> /\ seg.size = 0 /\ seg.recs = <<>> /\ seg.there = FALSE
  BY <1>1 DEF NoSegment
<1>4. seg \in SegmentType
  BY <1>1 DEF NoSegment, SegmentType
<1>5. Matched(<<>>, <<>>, "none", marks.floated, marks.rounded)
  BY NothingMatches
<1>6. ValuesOf(<<>>) = <<>>
  BY DEF ValuesOf, FlattenSeq
<1>7. Listed(<<>>, <<>>)
  BY <1>6 DEF Listed
<1>8. SizeOf["none"] * Len(<<>>) = 0
  BY SizesOf
<1> QED BY <1>1, <1>2, <1>3, <1>4, <1>5, <1>7, <1>8 DEF SamplesHeld, BufferInv

LEMMA BufferInvKeeps == BufferInv => SegmentSamplesKept
<1> SUFFICES ASSUME BufferInv, ~marks.spoiled
             PROVE  /\ \A k \in DOMAIN seg.data : seg.data[k].as = seg.type
                    /\ seg.size >= SizeOf[seg.type] * Len(seg.data)
                    /\ Len(orig) = Len(seg.data)
                    /\ Len(seg.data) = Len(ListValues) => orig = ListValues
                    /\ \A k \in DOMAIN orig :
                         Abs(seg.data[k].v - orig[k]) <= (IF marks.rounded \/ orig[k] < 0 THEN 2 ELSE 0) + (IF marks.floated THEN Quantum(orig[k]) ELSE 0)
  BY DEF SegmentSamplesKept, SamplesAsTyped, ValuesKept
<1>1. SamplesHeld
  BY DEF BufferInv
<1>2. /\ orig \in Seq(Values) /\ seg.data \in Seq(Sample) /\ Len(seg.data) = Len(orig)
      /\ \A k \in 1 .. Len(orig) : seg.data[k].as = seg.type /\ seg.data[k].v \in Reached(orig[k], marks.floated, marks.rounded \/ orig[k] < 0)
  BY <1>1 DEF SamplesHeld, Matched
<1>3. DOMAIN seg.data = 1 .. Len(orig) /\ DOMAIN orig = 1 .. Len(orig)
  BY <1>2, LenProperties
<1>4. marks.floated \in BOOLEAN /\ marks.rounded \in BOOLEAN
  BY DEF BufferInv, MarksType
<1>5. ASSUME NEW k \in DOMAIN orig
      PROVE  Abs(seg.data[k].v - orig[k]) <= (IF marks.rounded \/ orig[k] < 0 THEN 2 ELSE 0) + (IF marks.floated THEN Quantum(orig[k]) ELSE 0)
  <2> DEFINE x == seg.data[k].v
             o == orig[k]
             c == marks.rounded \/ o < 0
  <2>1. o \in Values /\ x \in Reached(o, marks.floated, c) /\ c \in BOOLEAN
    BY <1>2, <1>3, <1>4, ElementOfSeq
  <2> HIDE DEF x, o, c
  <2>2. Abs(x - o) <= (IF c THEN 2 ELSE 0) + (IF marks.floated THEN Quantum(o) ELSE 0)
    BY <1>4, <2>1, ReachedClose
  <2> QED BY <2>2 DEF x, o, c
<1>6. /\ seg.size >= SizeOf[seg.type] * Len(seg.data)
      /\ Len(orig) = Len(seg.data)
      /\ Len(seg.data) = Len(ListValues) => orig = ListValues
  BY <1>1, <1>2 DEF SamplesHeld, Listed, ListValues
<1>7. \A k \in DOMAIN seg.data : seg.data[k].as = seg.type
  BY <1>2, <1>3
<1> QED BY <1>5, <1>6, <1>7

(* However samples are added, unpacked, converted and trimmed, a segment's *)
(* buffer has room for them in the type it says, and they are those of the *)
(* records in order, exact but for the rounding that callers asked for or  *)
(* that a float is bound to (mstl3_convertsamples(), lm_addmsrtoseg(),     *)
(* mstl3_unpack_recordlist(), mstl3_resize_buffers()).                     *)
THEOREM SamplesStayKept == BufferSpec => []SegmentSamplesKept
<1>1. BufferSpec => []BufferInv
  BY BufferInitially, BufferStep, PTL DEF BufferSpec
<1> QED BY <1>1, BufferInvKeeps, PTL
============================================================================
