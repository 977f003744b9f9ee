-------------------------- MODULE TraceList_proofs --------------------------
(***************************************************************************)
(* Proofs about TraceList for every set of records, every tolerance and    *)
(* every choice of the flags: the type invariant, the count of segments    *)
(* and their order by start time, and the rates, versions and sample types *)
(* of the records that a segment holds.                                    *)
(***************************************************************************)
EXTENDS TraceList, TLAPS, WellFoundedInduction, SequenceTheorems

-----------------------------------------------------------------------------
(* Least and greatest elements.                                            *)

(* A set of natural numbers that is not empty has a least element. *)
LEMMA LeastNat ==
  ASSUME NEW S \in SUBSET Nat, S # {}
  PROVE  \E m \in S : \A n \in S : m <= n
<1>1. PICK x \in S : \A y \in S : ~(<<y, x>> \in OpToRel(<, Nat))
  BY NatLessThanWellFounded, WFMin, Zenon
<1>2. \A y \in S : ~(y < x)
  BY <1>1 DEF OpToRel
<1> QED BY <1>2

(* A bounded set of natural numbers that is not empty has a greatest one. *)
LEMMA GreatestNat ==
  ASSUME NEW n \in Nat, NEW S \in SUBSET (0 .. n), S # {}
  PROVE  \E m \in S : \A i \in S : m >= i
<1> DEFINE T == {n - i : i \in S}
<1>1. T \in SUBSET Nat /\ T # {}
  <2>1. PICK i \in S : TRUE
    OBVIOUS
  <2>2. n - i \in T
    OBVIOUS
  <2>3. \A j \in S : n - j \in Nat
    OBVIOUS
  <2> QED BY <2>2, <2>3
<1> HIDE DEF T
<1>2. PICK t \in T : \A u \in T : t <= u
  BY <1>1, LeastNat
<1>3. PICK m \in S : t = n - m
  BY <1>2 DEF T
<1>4. ASSUME NEW i \in S PROVE m >= i
  <2>1. n - i \in T
    BY DEF T
  <2> QED BY <2>1, <1>2, <1>3
<1> QED BY <1>4

(* The first index of a set of indices of a sequence, as SelectInSeq picks *)
(* it, is one of them.                                                     *)
LEMMA MinIn ==
  ASSUME NEW n \in Nat, NEW S \in SUBSET (1 .. n), S # {}
  PROVE  Min(S) \in S
<1>1. \E m \in S : \A i \in S : m <= i
  BY LeastNat
<1> QED BY <1>1 DEF Min

LEMMA MaxIn ==
  ASSUME NEW n \in Nat, NEW S \in SUBSET (1 .. n), S # {}
  PROVE  Max(S) \in S
<1>1. S \in SUBSET (0 .. n)
  OBVIOUS
<1>2. \E m \in S : \A i \in S : m >= i
  BY <1>1, GreatestNat
<1> QED BY <1>2 DEF Max

-----------------------------------------------------------------------------
(* Positions in a segment list.                                            *)

(* What Placement may answer for a list of n segments. *)
PlaceOK(p, n) ==
  \/ /\ p.how \in {"append", "prepend"}
     /\ p.at \in 1 .. n /\ p.merge \in 0 .. n /\ p.merge # p.at
  \/ p.how = "insert" /\ p.at \in 1 .. n + 1

(* An exact match, if there is one, is in the list. *)
LEMMA ExactInList ==
  ASSUME NEW S, NEW segs \in Seq(S), NEW rec
  PROVE  Len(segs) \in Nat /\ ExactMatch(segs, rec) \in 0 .. Len(segs)
<1> DEFINE I == {i \in 1 .. Len(segs) : /\ HasTimeCoverage(segs[i])
                                        /\ segs[i].start = rec.start
                                        /\ segs[i].end = EndTime(rec)}
<1>1. I \in SUBSET (1 .. Len(segs)) /\ Len(segs) \in Nat
  OBVIOUS
<1>2. I # {} => Min(I) \in 1 .. Len(segs)
  <2> HIDE DEF I
  <2> QED BY <1>1, MinIn
<1> QED BY <1>1, <1>2 DEF ExactMatch, SelectInSeq

(* The search over the list finds a place in the list. *)
LEMMA SearchPlaceOK ==
  ASSUME NEW S, NEW segs \in Seq(S), NEW rec
  PROVE  PlaceOK(SearchPlace(segs, rec), Len(segs))
<1> DEFINE n == Len(segs)
           exact == ExactMatch(segs, rec)
           searched == IF exact = 0 THEN segs ELSE SubSeq(segs, 1, exact - 1)
           before == SelectInSeq(searched, LAMBDA s : FitsAfter(rec, s))
           after == SelectInSeq(searched, LAMBDA s : FitsBefore(rec, s))
           last == SelectLastInSeq(segs, LAMBDA s : HasTimeCoverage(s) /\ rec.start > s.start)
           follow == IF exact # 0 THEN exact ELSE last
<1>0. n \in Nat
  OBVIOUS
<1>1. exact \in 0 .. n
  BY ExactInList
<1>2. Len(searched) \in 0 .. n
  <2>1. CASE exact = 0
    BY <2>1, <1>0
  <2>2. CASE exact # 0
    <3>1. \A i \in 1 .. exact - 1 : segs[i] \in S
      BY <1>1, ElementOfSeq
    <3>2. Len(SubSeq(segs, 1, exact - 1)) = IF 1 <= exact - 1 THEN exact - 1 - 1 + 1 ELSE 0
      BY <1>1, <3>1, SubSeqProperties
    <3> QED BY <2>2, <3>2, <1>1
  <2> QED BY <2>1, <2>2
<1> HIDE DEF exact, searched
<1>3. before \in 0 .. n
  <2> DEFINE I == {i \in 1 .. Len(searched) : FitsAfter(rec, searched[i])}
  <2>1. I \in SUBSET (1 .. n)
    BY <1>2
  <2>2. I # {} => Min(I) \in 1 .. n
    <3> HIDE DEF I
    <3> QED BY <2>1, <1>0, MinIn
  <2> QED BY <2>2, <1>0 DEF SelectInSeq
<1>4. after \in 0 .. n
  <2> DEFINE I == {i \in 1 .. Len(searched) : FitsBefore(rec, searched[i])}
  <2>1. I \in SUBSET (1 .. n)
    BY <1>2
  <2>2. I # {} => Min(I) \in 1 .. n
    <3> HIDE DEF I
    <3> QED BY <2>1, <1>0, MinIn
  <2> QED BY <2>2, <1>0 DEF SelectInSeq
<1>5. last \in 0 .. n
  <2> DEFINE I == {i \in 1 .. Len(segs) : HasTimeCoverage(segs[i]) /\ rec.start > segs[i].start}
  <2>1. I \in SUBSET (1 .. n)
    OBVIOUS
  <2>2. I # {} => Max(I) \in 1 .. n
    <3> HIDE DEF I
    <3> QED BY <2>1, <1>0, MaxIn
  <2> QED BY <2>2, <1>0 DEF SelectLastInSeq
<1>6. SearchPlace(segs, rec) =
        IF before # 0 /\ (AutoHeal \/ after = 0 \/ before <= after)
        THEN Place("append", before, IF AutoHeal /\ after # before THEN after ELSE 0)
        ELSE IF after # 0 THEN Place("prepend", after, 0)
        ELSE Place("insert", follow + 1, 0)
  BY DEF SearchPlace, exact, searched
<1> HIDE DEF before, after, last
<1> QED BY <1>0, <1>1, <1>3, <1>4, <1>5, <1>6 DEF PlaceOK, Place

(* Placement answers with a place in the list. *)
LEMMA PlacementOK ==
  ASSUME NEW S, NEW t, t.segs \in Seq(S), t.segs # <<>>, NEW rec
  PROVE  PlaceOK(Placement(t, rec), Len(t.segs))
<1>1. Len(t.segs) \in Nat \ {0}
  BY EmptySeq
<1>2. PlaceOK(SearchPlace(t.segs, rec), Len(t.segs))
  BY SearchPlaceOK
<1>3. /\ PlaceOK(Place("append", Len(t.segs), 0), Len(t.segs))
      /\ PlaceOK(Place("insert", Len(t.segs) + 1, 0), Len(t.segs))
      /\ PlaceOK(Place("insert", 1, 0), Len(t.segs))
      /\ PlaceOK(Place("prepend", 1, 0), Len(t.segs))
  BY <1>1 DEF PlaceOK, Place
<1> QED BY <1>2, <1>3 DEF Placement

(* A search that begins because the record does not fit before the first   *)
(* segment never asks for the first segment to be merged into another.     *)
LEMMA SearchSparesFirst ==
  ASSUME NEW S, NEW segs \in Seq(S), segs # <<>>, NEW rec, ~FitsBefore(rec, segs[1])
  PROVE  SearchPlace(segs, rec).merge # 1
<1> DEFINE exact == ExactMatch(segs, rec)
           searched == IF exact = 0 THEN segs ELSE SubSeq(segs, 1, exact - 1)
           before == SelectInSeq(searched, LAMBDA s : FitsAfter(rec, s))
           after == SelectInSeq(searched, LAMBDA s : FitsBefore(rec, s))
           last == SelectLastInSeq(segs, LAMBDA s : HasTimeCoverage(s) /\ rec.start > s.start)
           follow == IF exact # 0 THEN exact ELSE last
           n == Len(segs)
<1>1. exact \in 0 .. n /\ n \in Nat
  BY ExactInList
<1>2. Len(searched) \in Nat /\ (Len(searched) > 0 => searched[1] = segs[1])
  <2>1. CASE exact = 0
    BY <2>1, <1>1
  <2>2. CASE exact # 0
    <3>1. \A i \in 1 .. exact - 1 : segs[i] \in S
      BY <1>1, ElementOfSeq
    <3>2. /\ Len(SubSeq(segs, 1, exact - 1)) = IF 1 <= exact - 1 THEN exact - 1 - 1 + 1 ELSE 0
          /\ \A i \in 1 .. exact - 1 - 1 + 1 : SubSeq(segs, 1, exact - 1)[i] = segs[1 + i - 1]
      BY <1>1, <3>1, SubSeqProperties
    <3> QED BY <2>2, <3>2, <1>1
  <2> QED BY <2>1, <2>2
<1> HIDE DEF exact, searched
<1>3. after # 1
  <2> DEFINE I == {i \in 1 .. Len(searched) : FitsBefore(rec, searched[i])}
  <2>1. I \in SUBSET (1 .. Len(searched)) /\ 1 \notin I
    BY <1>2
  <2>2. I # {} => Min(I) \in I
    <3> HIDE DEF I
    <3> QED BY <1>2, <2>1, MinIn
  <2> QED BY <2>1, <2>2 DEF SelectInSeq
<1>4. SearchPlace(segs, rec) =
        IF before # 0 /\ (AutoHeal \/ after = 0 \/ before <= after)
        THEN Place("append", before, IF AutoHeal /\ after # before THEN after ELSE 0)
        ELSE IF after # 0 THEN Place("prepend", after, 0)
        ELSE Place("insert", follow + 1, 0)
  BY DEF SearchPlace, exact, searched
<1> HIDE DEF before, after, last, follow
<1> QED BY <1>3, <1>4 DEF Place

-----------------------------------------------------------------------------
(* Editing a segment list.                                                 *)

(* InsertAt shifts the elements from position i on by one. *)
LEMMA InsertAtProperties ==
  ASSUME NEW S, NEW s \in Seq(S), NEW i \in 1 .. Len(s) + 1, NEW e \in S
  PROVE  /\ InsertAt(s, i, e) \in Seq(S)
         /\ Len(InsertAt(s, i, e)) = Len(s) + 1
         /\ \A m \in 1 .. i - 1 : InsertAt(s, i, e)[m] = s[m]
         /\ \A m \in i + 1 .. Len(s) + 1 : InsertAt(s, i, e)[m] = s[m - 1]
<1> DEFINE front == SubSeq(s, 1, i - 1)
           back == SubSeq(s, i, Len(s))
<1>1. /\ front \in Seq(S) /\ Len(front) = i - 1
      /\ \A m \in 1 .. i - 1 : front[m] = s[m]
  BY SubSeqProperties, ElementOfSeq
<1>2. /\ back \in Seq(S) /\ Len(back) = Len(s) - i + 1
      /\ \A m \in 1 .. Len(s) - i + 1 : back[m] = s[i + m - 1]
  BY SubSeqProperties, ElementOfSeq
<1> HIDE DEF front, back
<1>3. /\ <<e>> \in Seq(S) /\ Len(<<e>>) = 1 /\ <<e>>[1] = e
  OBVIOUS
<1>4. /\ front \o <<e>> \in Seq(S) /\ Len(front \o <<e>>) = i
      /\ \A m \in 1 .. i : (front \o <<e>>)[m] = IF m < i THEN s[m] ELSE e
  BY <1>1, <1>3, ConcatProperties
<1> DEFINE head == front \o <<e>>
<1>5. /\ head \o back \in Seq(S) /\ Len(head \o back) = Len(s) + 1
      /\ \A m \in 1 .. Len(s) + 1 : (head \o back)[m] = IF m <= i THEN head[m] ELSE back[m - i]
  <2> HIDE DEF head
  <2>1. head \in Seq(S) /\ Len(head) = i
    BY <1>4 DEF head
  <2>2. /\ head \o back \in Seq(S) /\ Len(head \o back) = Len(head) + Len(back)
        /\ \A m \in 1 .. Len(head) + Len(back) :
             (head \o back)[m] = IF m <= Len(head) THEN head[m] ELSE back[m - Len(head)]
    BY <2>1, <1>2, ConcatProperties
  <2>3. Len(head) + Len(back) = Len(s) + 1
    BY <2>1, <1>2
  <2> QED BY <2>1, <2>2, <2>3
<1>6. InsertAt(s, i, e) = (front \o <<e>>) \o back
  BY DEF InsertAt, front, back
<1> QED BY <1>2, <1>4, <1>5, <1>6, SMTT(40)

(* RemoveAt shifts the elements after position i back by one. *)
LEMMA RemoveAtProperties ==
  ASSUME NEW S, NEW s \in Seq(S), NEW i \in 1 .. Len(s)
  PROVE  /\ RemoveAt(s, i) \in Seq(S)
         /\ Len(RemoveAt(s, i)) = Len(s) - 1
         /\ \A m \in 1 .. Len(s) - 1 : RemoveAt(s, i)[m] = IF m < i THEN s[m] ELSE s[m + 1]
<1> DEFINE front == SubSeq(s, 1, i - 1)
           back == SubSeq(s, i + 1, Len(s))
<1>1. /\ front \in Seq(S) /\ Len(front) = i - 1
      /\ \A m \in 1 .. i - 1 : front[m] = s[m]
  BY SubSeqProperties, ElementOfSeq
<1>2. /\ back \in Seq(S) /\ Len(back) = Len(s) - i
      /\ \A m \in 1 .. Len(s) - i : back[m] = s[i + m]
  BY SubSeqProperties, ElementOfSeq
<1> HIDE DEF front, back
<1>3. /\ front \o back \in Seq(S) /\ Len(front \o back) = Len(front) + Len(back)
      /\ \A m \in 1 .. Len(front) + Len(back) :
           (front \o back)[m] = IF m <= Len(front) THEN front[m] ELSE back[m - Len(front)]
  BY <1>1, <1>2, ConcatProperties
<1>4. Len(front) + Len(back) = Len(s) - 1
  BY <1>1, <1>2
<1>5. RemoveAt(s, i) = front \o back
  BY DEF RemoveAt, front, back
<1>6. ASSUME NEW m \in 1 .. Len(s) - 1
      PROVE  (front \o back)[m] = IF m < i THEN s[m] ELSE s[m + 1]
  <2>1. CASE m < i
    BY <2>1, <1>1, <1>3, <1>4
  <2>2. CASE ~(m < i)
    <3>1. (front \o back)[m] = back[m - (i - 1)]
      BY <2>2, <1>1, <1>3, <1>4
    <3>2. m - (i - 1) \in 1 .. Len(s) - i
      BY <2>2
    <3> QED BY <2>2, <3>1, <3>2, <1>2
  <2> QED BY <2>1, <2>2
<1> QED BY <1>3, <1>4, <1>5, <1>6

(* ReplaceAt changes one element. *)
LEMMA ReplaceAtProperties ==
  ASSUME NEW S, NEW s \in Seq(S), NEW i \in 1 .. Len(s), NEW e \in S
  PROVE  /\ ReplaceAt(s, i, e) \in Seq(S)
         /\ Len(ReplaceAt(s, i, e)) = Len(s)
         /\ \A m \in 1 .. Len(s) : ReplaceAt(s, i, e)[m] = IF m = i THEN e ELSE s[m]
BY ExceptSeq DEF ReplaceAt

(* Move permutes the list: a sequence of the same length and elements. *)
LEMMA MoveProperties ==
  ASSUME NEW S, NEW s \in Seq(S), NEW i \in 1 .. Len(s), NEW j \in 1 .. Len(s)
  PROVE  /\ Move(s, i, j) \in Seq(S)
         /\ Len(Move(s, i, j)) = Len(s)
         /\ \A m \in 1 .. Len(s) :
              Move(s, i, j)[m] = IF m = j THEN s[i]
                                 ELSE IF i <= m /\ m < j THEN s[m + 1]
                                 ELSE IF j < m /\ m <= i THEN s[m - 1]
                                 ELSE s[m]
<1> DEFINE f(m) == IF m = j THEN s[i]
                   ELSE IF i <= m /\ m < j THEN s[m + 1]
                   ELSE IF j < m /\ m <= i THEN s[m - 1]
                   ELSE s[m]
<1>1. Move(s, i, j) = [m \in 1 .. Len(s) |-> f(m)]
  BY DEF Move
<1>2. \A m \in 1 .. Len(s) : f(m) \in S
  BY ElementOfSeq
<1>3. Move(s, i, j) \in Seq(S) /\ Len(Move(s, i, j)) = Len(s)
  <2> HIDE DEF f
  <2>1. Len(s) \in Nat
    OBVIOUS
  <2>2. Move(s, i, j) \in [1 .. Len(s) -> S]
    BY <1>1, <1>2
  <2> QED BY <2>1, <2>2, SeqDef
<1> QED BY <1>1, <1>3

(* The first segment below segment i that it is not later than, or the     *)
(* last: everything between has been passed.                               *)
LEMMA DownExists ==
  ASSUME NEW S, NEW s \in Seq(S), NEW i \in 1 .. Len(s)
  PROVE  \E j \in i .. Len(s) : /\ j = Len(s) \/ ~Later(s[i], s[j + 1])
                                /\ \A m \in i .. j - 1 : Later(s[i], s[m + 1])
<1> DEFINE Stop(j) == j = Len(s) \/ ~Later(s[i], s[j + 1])
           T == {j \in i .. Len(s) : Stop(j)}
<1>1. T \in SUBSET Nat /\ Len(s) \in T
  OBVIOUS
<1>2. PICK j \in T : \A m \in T : j <= m
  <2> HIDE DEF T
  <2> QED BY <1>1, LeastNat
<1>3. \A m \in i .. j - 1 : m \notin T
  BY <1>2
<1>4. \A m \in i .. j - 1 : Later(s[i], s[m + 1])
  <2> SUFFICES ASSUME NEW m \in i .. j - 1 PROVE Later(s[i], s[m + 1])
    OBVIOUS
  <2>1. m \in i .. Len(s) /\ m \notin T
    BY <1>2, <1>3
  <2> HIDE DEF Stop
  <2>2. ~Stop(m)
    BY <2>1
  <2> QED BY <2>2 DEF Stop
<1> QED BY <1>2, <1>4

(* The same above segment i. *)
LEMMA UpExists ==
  ASSUME NEW S, NEW s \in Seq(S), NEW i \in 1 .. Len(s)
  PROVE  \E j \in 1 .. i : /\ j = 1 \/ ~Later(s[j - 1], s[i])
                           /\ \A m \in j + 1 .. i : Later(s[m - 1], s[i])
<1> DEFINE Stop(j) == j = 1 \/ ~Later(s[j - 1], s[i])
           T == {j \in 1 .. i : Stop(j)}
<1>1. T \in SUBSET (0 .. i) /\ 1 \in T /\ i \in Nat
  OBVIOUS
<1>2. PICK j \in T : \A m \in T : j >= m
  <2> HIDE DEF T
  <2> QED BY <1>1, GreatestNat
<1>3. \A m \in j + 1 .. i : m \notin T
  BY <1>2
<1>4. \A m \in j + 1 .. i : Later(s[m - 1], s[i])
  <2> SUFFICES ASSUME NEW m \in j + 1 .. i PROVE Later(s[m - 1], s[i])
    OBVIOUS
  <2>1. m \in 1 .. i /\ m \notin T
    BY <1>2, <1>3
  <2> HIDE DEF Stop
  <2>2. ~Stop(m)
    BY <2>1
  <2> QED BY <2>2 DEF Stop
<1> QED BY <1>2, <1>4

(* Where the sort moves segment i: down past segments it is later than, or *)
(* up past segments that are later, never beyond.                          *)
LEMMA SortTargetProperties ==
  ASSUME NEW S, NEW s \in Seq(S), NEW i \in 1 .. Len(s)
  PROVE  LET j == SortTarget(s, i)
         IN  /\ j \in 1 .. Len(s)
             /\ \/ /\ j > i
                   /\ j = Len(s) \/ ~Later(s[i], s[j + 1])
                   /\ \A m \in i .. j - 1 : Later(s[i], s[m + 1])
                \/ /\ j <= i
                   /\ i = Len(s) \/ ~Later(s[i], s[i + 1])
                   /\ j = 1 \/ ~Later(s[j - 1], s[i])
                   /\ \A m \in j + 1 .. i : Later(s[m - 1], s[i])
<1> DEFINE D(j) == /\ j = Len(s) \/ ~Later(s[i], s[j + 1])
                   /\ \A m \in i .. j - 1 : Later(s[i], s[m + 1])
           U(j) == /\ j = 1 \/ ~Later(s[j - 1], s[i])
                   /\ \A m \in j + 1 .. i : Later(s[m - 1], s[i])
           down == CHOOSE j \in i .. Len(s) : D(j)
           up == CHOOSE j \in 1 .. i : U(j)
<1>1. (\E j \in i .. Len(s) : D(j)) /\ (\E j \in 1 .. i : U(j))
  BY DownExists, UpExists
<1>2. SortTarget(s, i) = IF down > i THEN down ELSE up
  BY DEF SortTarget
<1>3. down \in i .. Len(s) /\ D(down) /\ up \in 1 .. i /\ U(up)
  <2> HIDE DEF D, U
  <2> QED BY <1>1
<1> HIDE DEF down, up
<1> QED BY <1>2, <1>3

-----------------------------------------------------------------------------
(* The sort keeps segments in the order of their start times.              *)

Ordered(s) == \A m, n \in 1 .. Len(s) : m < n => s[m].start <= s[n].start

(* In order but for one segment, the one just modified. *)
OrderedBut(s, i) ==
  \A m, n \in 1 .. Len(s) : (m < n /\ m # i /\ n # i) => s[m].start <= s[n].start

LEMMA StartsAreIntegers ==
  ASSUME NEW s \in Seq(Segment)
  PROVE  Len(s) \in Nat /\ \A m \in 1 .. Len(s) : s[m].start \in Int
<1>1. \A m \in 1 .. Len(s) : s[m] \in Segment
  BY ElementOfSeq
<1>2. \A e \in Segment : e.start \in Int
  BY DEF Segment
<1> QED BY <1>1, <1>2

(* A segment moved down passes only segments that start no later. *)
LEMMA MoveDownOrders ==
  ASSUME NEW s \in Seq(Segment), NEW i \in 1 .. Len(s), NEW j \in i + 1 .. Len(s),
         OrderedBut(s, i),
         j = Len(s) \/ ~Later(s[i], s[j + 1]),
         \A m \in i .. j - 1 : Later(s[i], s[m + 1])
  PROVE  Ordered(Move(s, i, j))
<1> DEFINE r == Move(s, i, j)
           N == Len(s)
<1>1. /\ r \in Seq(Segment) /\ Len(r) = N
      /\ \A m \in 1 .. N : r[m] = IF m = j THEN s[i] ELSE IF i <= m /\ m < j THEN s[m + 1] ELSE s[m]
  BY MoveProperties
<1>2. N \in Nat /\ \A m \in 1 .. N : s[m].start \in Int
  BY StartsAreIntegers
<1>3. \A m \in i + 1 .. j : s[m].start <= s[i].start
  <2> SUFFICES ASSUME NEW m \in i + 1 .. j PROVE s[m].start <= s[i].start
    OBVIOUS
  <2>1. m - 1 \in i .. j - 1 /\ m \in 1 .. N
    OBVIOUS
  <2>2. Later(s[i], s[m])
    BY <2>1
  <2> QED BY <2>1, <2>2, <1>2 DEF Later
<1>4. \A m \in 1 .. i - 1 : s[m].start <= s[i].start
  <2> SUFFICES ASSUME NEW m \in 1 .. i - 1 PROVE s[m].start <= s[i].start
    OBVIOUS
  <2>1. s[m].start <= s[i + 1].start
    BY DEF OrderedBut
  <2>2. s[i + 1].start <= s[i].start
    BY <1>3
  <2> QED BY <2>1, <2>2, <1>2
<1>5. \A m \in j + 1 .. N : s[i].start <= s[m].start
  <2> SUFFICES ASSUME NEW m \in j + 1 .. N PROVE s[i].start <= s[m].start
    OBVIOUS
  <2>1. s[i].start <= s[j + 1].start
    BY <1>2 DEF Later
  <2>2. s[j + 1].start <= s[m].start
    BY <1>2 DEF OrderedBut
  <2> QED BY <2>1, <2>2, <1>2, SMTT(40)
<1> HIDE DEF r
<1>6. ASSUME NEW m \in 1 .. N, NEW n \in 1 .. N, m < n
      PROVE  r[m].start <= r[n].start
  <2>1. CASE m = j
    BY <2>1, <1>6, <1>1, <1>5
  <2>2. CASE n = j
    BY <2>2, <1>6, <1>1, <1>3, <1>4
  <2>3. CASE m # j /\ n # j
    <3> DEFINE a == IF i <= m /\ m < j THEN m + 1 ELSE m
               b == IF i <= n /\ n < j THEN n + 1 ELSE n
    <3>1. /\ a \in 1 .. N /\ b \in 1 .. N /\ a < b /\ a # i /\ b # i
          /\ r[m] = s[a] /\ r[n] = s[b]
      BY <2>3, <1>6, <1>1
    <3> QED BY <3>1 DEF OrderedBut
  <2> QED BY <2>1, <2>2, <2>3
<1> QED BY <1>1, <1>6 DEF Ordered, r

(* A segment moved up, or left where it is, passes only segments that      *)
(* start no earlier.                                                       *)
LEMMA MoveUpOrders ==
  ASSUME NEW s \in Seq(Segment), NEW i \in 1 .. Len(s), NEW j \in 1 .. i,
         OrderedBut(s, i),
         i = Len(s) \/ ~Later(s[i], s[i + 1]),
         j = 1 \/ ~Later(s[j - 1], s[i]),
         \A m \in j + 1 .. i : Later(s[m - 1], s[i])
  PROVE  Ordered(Move(s, i, j))
<1> DEFINE r == Move(s, i, j)
           N == Len(s)
<1>1. /\ r \in Seq(Segment) /\ Len(r) = N
      /\ \A m \in 1 .. N : r[m] = IF m = j THEN s[i] ELSE IF j < m /\ m <= i THEN s[m - 1] ELSE s[m]
  BY MoveProperties
<1>2. N \in Nat /\ \A m \in 1 .. N : s[m].start \in Int
  BY StartsAreIntegers
<1>3. \A m \in j .. i - 1 : s[i].start <= s[m].start
  <2> SUFFICES ASSUME NEW m \in j .. i - 1 PROVE s[i].start <= s[m].start
    OBVIOUS
  <2>1. m + 1 \in j + 1 .. i /\ m \in 1 .. N
    OBVIOUS
  <2>2. Later(s[m], s[i])
    BY <2>1
  <2> QED BY <2>1, <2>2, <1>2 DEF Later
<1>4. \A m \in i + 1 .. N : s[i].start <= s[m].start
  <2> SUFFICES ASSUME NEW m \in i + 1 .. N PROVE s[i].start <= s[m].start
    OBVIOUS
  <2>1. s[i].start <= s[i + 1].start
    BY <1>2 DEF Later
  <2>2. s[i + 1].start <= s[m].start
    <3>1. m = i + 1 \/ (i + 1 < m /\ i + 1 \in 1 .. N /\ m \in 1 .. N)
      OBVIOUS
    <3> QED BY <3>1, <1>2 DEF OrderedBut
  <2> QED BY <2>1, <2>2, <1>2
<1>5. \A m \in 1 .. j - 1 : s[m].start <= s[i].start
  <2> SUFFICES ASSUME NEW m \in 1 .. j - 1 PROVE s[m].start <= s[i].start
    OBVIOUS
  <2>1. s[j - 1].start <= s[i].start
    BY <1>2 DEF Later
  <2>2. s[m].start <= s[j - 1].start
    BY <1>2 DEF OrderedBut
  <2> QED BY <2>1, <2>2, <1>2
<1> HIDE DEF r
<1>6. ASSUME NEW m \in 1 .. N, NEW n \in 1 .. N, m < n
      PROVE  r[m].start <= r[n].start
  <2>1. CASE n = j
    BY <2>1, <1>6, <1>1, <1>5
  <2>2. CASE m = j
    BY <2>2, <1>6, <1>1, <1>3, <1>4
  <2>3. CASE m # j /\ n # j
    <3> DEFINE a == IF j < m /\ m <= i THEN m - 1 ELSE m
               b == IF j < n /\ n <= i THEN n - 1 ELSE n
    <3>1. /\ a \in 1 .. N /\ b \in 1 .. N /\ a < b /\ a # i /\ b # i
          /\ r[m] = s[a] /\ r[n] = s[b]
      BY <2>3, <1>6, <1>1
    <3> QED BY <3>1 DEF OrderedBut
  <2> QED BY <2>1, <2>2, <2>3
<1> QED BY <1>1, <1>6 DEF Ordered, r

(* Sorting the one modified segment into place orders the whole list. *)
LEMMA SortInPlaceOrders ==
  ASSUME NEW s \in Seq(Segment), NEW i \in 1 .. Len(s)
  PROVE  /\ SortInPlace(s, i) \in Seq(Segment)
         /\ Len(SortInPlace(s, i)) = Len(s)
         /\ OrderedBut(s, i) => Ordered(SortInPlace(s, i))
<1> DEFINE j == SortTarget(s, i)
<1>1. /\ j \in 1 .. Len(s)
      /\ \/ /\ j > i
            /\ j = Len(s) \/ ~Later(s[i], s[j + 1])
            /\ \A m \in i .. j - 1 : Later(s[i], s[m + 1])
         \/ /\ j <= i
            /\ i = Len(s) \/ ~Later(s[i], s[i + 1])
            /\ j = 1 \/ ~Later(s[j - 1], s[i])
            /\ \A m \in j + 1 .. i : Later(s[m - 1], s[i])
  BY SortTargetProperties
<1>0. SortInPlace(s, i) = Move(s, i, j)
  BY DEF SortInPlace
<1> HIDE DEF j
<1>2. Move(s, i, j) \in Seq(Segment) /\ Len(Move(s, i, j)) = Len(s)
  BY <1>1, MoveProperties
<1>3. CASE j > i
  <2>1. j \in i + 1 .. Len(s)
    BY <1>1, <1>3
  <2>2. /\ j = Len(s) \/ ~Later(s[i], s[j + 1])
        /\ \A m \in i .. j - 1 : Later(s[i], s[m + 1])
    BY <1>1, <1>3
  <2>3. OrderedBut(s, i) => Ordered(Move(s, i, j))
    BY <2>1, <2>2, MoveDownOrders
  <2> QED BY <1>0, <1>2, <2>3
<1>4. CASE j <= i
  <2>1. j \in 1 .. i
    BY <1>1, <1>4
  <2>2. /\ i = Len(s) \/ ~Later(s[i], s[i + 1])
        /\ j = 1 \/ ~Later(s[j - 1], s[i])
        /\ \A m \in j + 1 .. i : Later(s[m - 1], s[i])
    BY <1>1, <1>4
  <2>3. OrderedBut(s, i) => Ordered(Move(s, i, j))
    BY <2>1, <2>2, MoveUpOrders
  <2> QED BY <1>0, <1>2, <2>3
<1> QED BY <1>1, <1>3, <1>4

-----------------------------------------------------------------------------
(* The fields of records and segments.                                     *)

(* Times and versions computed from a record. *)
LEMMA RecordFields ==
  ASSUME NEW rec \in Records
  PROVE  /\ rec \in RecordType
         /\ EndTime(rec) \in Int
         /\ PubVersion(rec) \in Int /\ PubVersion(rec) <= 127
         /\ RecordPtrs(rec) \in Seq(Records)
         /\ KeyOf(rec) \in Keys
<1>1. rec \in RecordType
  BY ConstantsAssumption
<1>2. NsPeriod(rec.rate) \in Int
  BY <1>1, ConstantsAssumption DEF RecordType, NsPeriod
<1>3. EndTime(rec) \in Int
  <2>1. rec.start \in Int /\ rec.cnt \in Nat
    BY <1>1 DEF RecordType
  <2> QED BY <1>2, <2>1 DEF EndTime, SampleTime
<1>4. PubVersion(rec) \in Int /\ PubVersion(rec) <= 127
  <2>1. rec.pubversion \in 0 .. 255
    BY <1>1 DEF RecordType, Version
  <2> QED BY <2>1, ConstantsAssumption DEF PubVersion, ToInt8
<1> QED BY <1>1, <1>3, <1>4 DEF RecordPtrs, Keys

(* A record makes a segment and extends one at either end; only at the     *)
(* front does that change the start time.                                  *)
LEMMA SegmentFields ==
  ASSUME NEW rec \in Records, NEW seg \in Segment
  PROVE  /\ Msr2Seg(rec) \in Segment
         /\ AddMsrToEnd(seg, rec) \in Segment
         /\ AddMsrToStart(seg, rec) \in Segment
         /\ AddMsrToEnd(seg, rec).start = seg.start
<1>1. rec \in RecordType /\ EndTime(rec) \in Int /\ RecordPtrs(rec) \in Seq(Records)
  BY RecordFields
<1>2. /\ rec.start \in Int /\ rec.rate \in Nat /\ rec.cnt \in Nat
      /\ rec.type \in SampleTypes /\ rec.data \in Seq(Int)
  BY <1>1 DEF RecordType
<1>3. seg.cnt \in Nat /\ seg.data \in Seq(Int) /\ seg.recordlist \in Seq(Records)
  BY DEF Segment
<1>4. /\ seg.cnt + rec.cnt \in Nat
      /\ seg.data \o rec.data \in Seq(Int) /\ rec.data \o seg.data \in Seq(Int)
      /\ seg.recordlist \o RecordPtrs(rec) \in Seq(Records)
      /\ RecordPtrs(rec) \o seg.recordlist \in Seq(Records)
  BY <1>1, <1>2, <1>3
<1>5. Msr2Seg(rec) \in Segment
  BY <1>1, <1>2 DEF Msr2Seg, Segment
<1>6. AddMsrToEnd(seg, rec) \in Segment /\ AddMsrToEnd(seg, rec).start = seg.start
  BY <1>1, <1>2, <1>4 DEF AddMsrToEnd, Segment
<1>7. AddMsrToStart(seg, rec) \in Segment
  BY <1>1, <1>2, <1>4 DEF AddMsrToStart, Segment
<1> QED BY <1>5, <1>6, <1>7

(* A segment that joins another gives it its end and its samples. *)
LEMMA MergedFields ==
  ASSUME NEW seg1 \in Segment, NEW seg2 \in Segment
  PROVE  AddSegToSeg(seg1, seg2) \in Segment
<1>1. /\ seg1.cnt + seg2.cnt \in Nat
      /\ seg1.data \o seg2.data \in Seq(Int)
      /\ seg1.recordlist \o seg2.recordlist \in Seq(Records)
      /\ seg2.end \in Int
  BY DEF Segment
<1> QED BY <1>1 DEF AddSegToSeg, Segment

(* The update time is a time. *)
LEMMA StampFields ==
  ASSUME NEW seg \in Segment, now \in Nat
  PROVE  Stamp(seg) \in Segment
BY DEF Stamp, Segment

LEMMA SegmentReplaced ==
  ASSUME NEW segs \in Seq(Segment), NEW i \in 1 .. Len(segs), NEW e \in Segment
  PROVE  /\ ReplaceAt(segs, i, e) \in Seq(Segment)
         /\ Len(ReplaceAt(segs, i, e)) = Len(segs)
         /\ \A m \in 1 .. Len(segs) : ReplaceAt(segs, i, e)[m] = IF m = i THEN e ELSE segs[m]
BY ReplaceAtProperties

(* The larger of a version tracked and an int8_t is a version again. *)
LEMMA VersionTracked ==
  ASSUME NEW v \in Version, NEW p \in Int, p <= 127
  PROVE  Greater(p, v) \in Version
BY DEF Greater, Version

(* What every successful branch leaves: a trace ID with as many segments   *)
(* as it was given, in order if all but the one just modified were.        *)
LEMMA TrackedProperties ==
  ASSUME NEW t \in TraceID, NEW rec \in Records, NEW segs \in Seq(Segment),
         NEW at \in 1 .. Len(segs), now \in Nat
  PROVE  /\ Tracked(t, rec, segs, at) \in TraceID
         /\ Len(Tracked(t, rec, segs, at).segs) = Len(segs)
         /\ Tracked(t, rec, segs, at).numsegments = t.numsegments
         /\ OrderedBut(segs, at) => Ordered(Tracked(t, rec, segs, at).segs)
<1> DEFINE s == ReplaceAt(segs, at, Stamp(segs[at]))
<1>1. Stamp(segs[at]) \in Segment
  BY StampFields, ElementOfSeq
<1>2. /\ s \in Seq(Segment) /\ Len(s) = Len(segs)
      /\ \A m \in 1 .. Len(segs) : s[m] = IF m = at THEN Stamp(segs[at]) ELSE segs[m]
  BY <1>1, SegmentReplaced
<1> HIDE DEF s
<1>3. (OrderedBut(segs, at) => OrderedBut(s, at)) /\ at \in 1 .. Len(s)
  BY <1>2 DEF OrderedBut
<1>4. /\ SortInPlace(s, at) \in Seq(Segment)
      /\ Len(SortInPlace(s, at)) = Len(segs)
      /\ OrderedBut(segs, at) => Ordered(SortInPlace(s, at))
  BY <1>2, <1>3, SortInPlaceOrders
<1>5. /\ rec.start \in Int /\ EndTime(rec) \in Int
      /\ PubVersion(rec) \in Int /\ PubVersion(rec) <= 127
  BY RecordFields DEF RecordType
<1>6. /\ t.pubversion \in Version /\ t.earliest \in Int /\ t.latest \in Int
      /\ t.numsegments \in Nat
  BY DEF TraceID
<1>7. /\ Greater(PubVersion(rec), t.pubversion) \in Version
      /\ Lesser(rec.start, t.earliest) \in Int
      /\ Greater(EndTime(rec), t.latest) \in Int
  <2>1. Greater(PubVersion(rec), t.pubversion) \in Version
    BY <1>5, <1>6, VersionTracked
  <2>2. \A a, b \in Int : Greater(a, b) \in Int /\ Lesser(a, b) \in Int
    BY DEF Greater, Lesser
  <2> QED BY <1>5, <1>6, <2>1, <2>2
<1>8. Tracked(t, rec, segs, at) =
        [pubversion |-> Greater(PubVersion(rec), t.pubversion),
         earliest |-> Lesser(rec.start, t.earliest),
         latest |-> Greater(EndTime(rec), t.latest),
         numsegments |-> t.numsegments, segs |-> SortInPlace(s, at)]
  BY DEF Tracked, s
<1> QED BY <1>4, <1>6, <1>7, <1>8 DEF TraceID

(* Changing one segment of an ordered list, or inserting one, leaves that  *)
(* one to be sorted.                                                       *)
LEMMA ReplaceOrdered ==
  ASSUME NEW s \in Seq(Segment), NEW i \in 1 .. Len(s), NEW e \in Segment
  PROVE  /\ ReplaceAt(s, i, e) \in Seq(Segment)
         /\ Len(ReplaceAt(s, i, e)) = Len(s)
         /\ Ordered(s) => OrderedBut(ReplaceAt(s, i, e), i)
<1> DEFINE r == ReplaceAt(s, i, e)
<1>1. /\ r \in Seq(Segment) /\ Len(r) = Len(s)
      /\ \A m \in 1 .. Len(s) : r[m] = IF m = i THEN e ELSE s[m]
  BY SegmentReplaced
<1> HIDE DEF r
<1>2. Ordered(s) => OrderedBut(r, i)
  BY <1>1 DEF Ordered, OrderedBut
<1> QED BY <1>1, <1>2 DEF r

LEMMA InsertOrdered ==
  ASSUME NEW s \in Seq(Segment), NEW i \in 1 .. Len(s) + 1, NEW e \in Segment
  PROVE  /\ InsertAt(s, i, e) \in Seq(Segment)
         /\ Len(InsertAt(s, i, e)) = Len(s) + 1
         /\ Ordered(s) => OrderedBut(InsertAt(s, i, e), i)
<1> DEFINE r == InsertAt(s, i, e)
<1>1. /\ r \in Seq(Segment) /\ Len(r) = Len(s) + 1
      /\ \A m \in 1 .. i - 1 : r[m] = s[m]
      /\ \A m \in i + 1 .. Len(s) + 1 : r[m] = s[m - 1]
  BY InsertAtProperties, ZenonT(30)
<1> HIDE DEF r
<1>2. ASSUME Ordered(s), NEW m \in 1 .. Len(r), NEW n \in 1 .. Len(r), m < n, m # i, n # i
      PROVE  r[m].start <= r[n].start
  <2> DEFINE a == IF m < i THEN m ELSE m - 1
             b == IF n < i THEN n ELSE n - 1
  <2>1. a \in 1 .. Len(s) /\ b \in 1 .. Len(s) /\ a < b
    BY <1>1, <1>2
  <2>0. /\ m < i => m \in 1 .. i - 1
        /\ ~(m < i) => m \in i + 1 .. Len(s) + 1
        /\ n < i => n \in 1 .. i - 1
        /\ ~(n < i) => n \in i + 1 .. Len(s) + 1
    BY <1>1, <1>2
  <2>2. r[m] = s[a] /\ r[n] = s[b]
    BY <1>1, <2>0
  <2> HIDE DEF a, b
  <2> QED BY <1>2, <2>1, <2>2 DEF Ordered
<1> QED BY <1>1, <1>2 DEF OrderedBut, r

(* Removing a segment changes neither the order of the others nor which    *)
(* of them is to be sorted.                                                *)
LEMMA RemoveOrdered ==
  ASSUME NEW s \in Seq(Segment), NEW i \in 1 .. Len(s), NEW j \in 1 .. Len(s), i # j,
         NEW at, at = IF j < i THEN i - 1 ELSE i
  PROVE  /\ RemoveAt(s, j) \in Seq(Segment)
         /\ Len(RemoveAt(s, j)) = Len(s) - 1
         /\ at \in 1 .. Len(s) - 1
         /\ OrderedBut(s, i) => OrderedBut(RemoveAt(s, j), at)
<1> DEFINE r == RemoveAt(s, j)
<1>1. /\ r \in Seq(Segment) /\ Len(r) = Len(s) - 1
      /\ \A m \in 1 .. Len(s) - 1 : r[m] = IF m < j THEN s[m] ELSE s[m + 1]
  BY RemoveAtProperties
<1> HIDE DEF r
<1>2. at \in 1 .. Len(s) - 1
  OBVIOUS
<1>3. ASSUME OrderedBut(s, i), NEW m \in 1 .. Len(r), NEW n \in 1 .. Len(r), m < n, m # at, n # at
      PROVE  r[m].start <= r[n].start
  <2> DEFINE a == IF m < j THEN m ELSE m + 1
             b == IF n < j THEN n ELSE n + 1
  <2>1. a \in 1 .. Len(s) /\ b \in 1 .. Len(s) /\ a < b /\ a # i /\ b # i
    BY <1>1, <1>3
  <2>2. r[m] = s[a] /\ r[n] = s[b]
    BY <1>1, <1>3
  <2> HIDE DEF a, b
  <2> QED BY <1>3, <2>1, <2>2 DEF OrderedBut
<1> QED BY <1>1, <1>2, <1>3 DEF OrderedBut, r

-----------------------------------------------------------------------------
(* Adding a record.                                                        *)

(* The inductive invariant for one trace ID.  The order of its segments is *)
(* kept apart: packing the list changes it, see TracePacker.               *)
IDOK(t) == t \in TraceID /\ t.numsegments = Len(t.segs)

IInv ==
  /\ TypeOK
  /\ SegmentsCounted

(* The invariant is about each trace ID on its own. *)
LEMMA IInvByID ==
  /\ IInv <=> /\ now \in Nat /\ added \in [Records -> Nat]
              /\ ids \in [Keys -> TraceID]
              /\ \A k \in Keys : IDOK(ids[k])
BY DEF IInv, TypeOK, SegmentsCounted, IDOK

(* The trace ID of key k becomes t, still in order if it was. *)
Becomes(k, t) ==
  /\ IDOK(t)
  /\ Ordered(ids[k].segs) => Ordered(t.segs)
  /\ ids' = [ids EXCEPT ![k] = t]

(* A new trace ID, with the record as its one segment. *)
LEMMA AddIDKeeps ==
  ASSUME IInv, NEW rec \in Records, AddID(rec)
  PROVE  \E k \in Keys : \E t : Becomes(k, t)
<1> DEFINE seg == Stamp(Msr2Seg(rec))
           t == [pubversion |-> ToUint8(PubVersion(rec)), earliest |-> rec.start,
                 latest |-> EndTime(rec), numsegments |-> 1, segs |-> <<seg>>]
<1>1. now \in Nat
  BY DEF IInv, TypeOK
<1>2. Msr2Seg(rec) \in Segment
  <2>1. rec \in RecordType /\ EndTime(rec) \in Int /\ RecordPtrs(rec) \in Seq(Records)
    BY RecordFields
  <2> QED BY <2>1 DEF RecordType, Msr2Seg, Segment
<1>3. seg \in Segment
  BY <1>1, <1>2, StampFields
<1> HIDE DEF seg
<1>4. <<seg>> \in Seq(Segment) /\ Len(<<seg>>) = 1
  BY <1>3
<1>5. ToUint8(PubVersion(rec)) \in Version
  <2>1. \A v \in Int : v % 256 \in 0 .. 255
    OBVIOUS
  <2> QED BY <2>1, RecordFields DEF ToUint8, Version
<1>6. rec.start \in Int /\ EndTime(rec) \in Int
  BY RecordFields DEF RecordType
<1>7. Ordered(<<seg>>)
  BY <1>4 DEF Ordered
<1>8. IDOK(t)
  BY <1>4, <1>5, <1>6 DEF IDOK, TraceID
<1>9. ids' = [ids EXCEPT ![KeyOf(rec)] = t]
  BY DEF AddID, seg
<1>10. Ordered(t.segs)
  BY <1>7
<1> HIDE DEF t
<1> QED BY <1>8, <1>9, <1>10, RecordFields DEF Becomes

(* What an action on an existing trace ID starts from. *)
LEMMA MatchingID ==
  ASSUME IInv, NEW rec \in Records, NEW k \in Matching(rec)
  PROVE  /\ k \in Keys /\ IDOK(ids[k]) /\ now \in Nat
         /\ ids[k].segs \in Seq(Segment) /\ ids[k].segs # <<>>
         /\ Len(ids[k].segs) \in Nat \ {0}
         /\ PlaceOK(Placement(ids[k], rec), Len(ids[k].segs))
<1>1. k \in Keys /\ ids[k].segs # <<>>
  BY DEF Matching, FindID, InList
<1>2. IDOK(ids[k]) /\ now \in Nat
  BY <1>1, IInvByID
<1>3. ids[k].segs \in Seq(Segment)
  BY <1>2 DEF IDOK, TraceID
<1>4. Len(ids[k].segs) \in Nat \ {0}
  BY <1>1, <1>3, EmptySeq
<1>5. PlaceOK(Placement(ids[k], rec), Len(ids[k].segs))
  BY <1>1, <1>3, PlacementOK
<1> QED BY <1>1, <1>2, <1>3, <1>4, <1>5

(* A longer segment at either end, sorted into place. *)
LEMMA AddToSegmentKeeps ==
  ASSUME IInv, NEW rec \in Records, NEW k \in Matching(rec), AddToSegment(k, rec)
  PROVE  \E t : Becomes(k, t)
<1> DEFINE t == ids[k]
           p == Placement(t, rec)
           seg == t.segs[p.at]
           grown == IF p.how = "append" THEN AddMsrToEnd(seg, rec) ELSE AddMsrToStart(seg, rec)
           segs == ReplaceAt(t.segs, p.at, grown)
<1>1. /\ IDOK(t) /\ now \in Nat /\ t.segs \in Seq(Segment)
      /\ PlaceOK(p, Len(t.segs))
  BY MatchingID
<1>2. /\ p.how \in {"append", "prepend"}
      /\ ids' = [ids EXCEPT ![k] = Tracked(t, rec, segs, p.at)]
  BY DEF AddToSegment
<1> HIDE DEF p
<1>3. p.at \in 1 .. Len(t.segs)
  BY <1>1, <1>2 DEF PlaceOK
<1>4. seg \in Segment
  BY <1>1, <1>3, ElementOfSeq
<1> HIDE DEF seg
<1>5. grown \in Segment
  BY <1>4, SegmentFields
<1> HIDE DEF grown
<1>7. /\ segs \in Seq(Segment) /\ Len(segs) = Len(t.segs)
      /\ Ordered(t.segs) => OrderedBut(segs, p.at)
  BY <1>1, <1>3, <1>5, ReplaceOrdered
<1> HIDE DEF segs
<1>8. t \in TraceID /\ t.numsegments = Len(t.segs)
  BY <1>1 DEF IDOK
<1> HIDE DEF t
<1>9. /\ IDOK(Tracked(t, rec, segs, p.at))
      /\ Ordered(t.segs) => Ordered(Tracked(t, rec, segs, p.at).segs)
  BY <1>1, <1>3, <1>7, <1>8, TrackedProperties DEF IDOK
<1> QED BY <1>2, <1>9 DEF Becomes, t

(* A new segment, sorted into place. *)
LEMMA AddSegmentKeeps ==
  ASSUME IInv, NEW rec \in Records, NEW k \in Matching(rec), AddSegment(k, rec)
  PROVE  \E t : Becomes(k, t)
<1> DEFINE t == ids[k]
           p == Placement(t, rec)
           u == Linked(t)
           segs == InsertAt(t.segs, p.at, Msr2Seg(rec))
<1>1. /\ IDOK(t) /\ now \in Nat /\ t.segs \in Seq(Segment) /\ Len(t.segs) \in Nat
      /\ PlaceOK(p, Len(t.segs))
  BY MatchingID
<1>2. /\ p.how = "insert"
      /\ ids' = [ids EXCEPT ![k] = Tracked(u, rec, segs, p.at)]
  BY DEF AddSegment
<1> HIDE DEF p
<1>3. p.at \in 1 .. Len(t.segs) + 1
  BY <1>1, <1>2 DEF PlaceOK
<1>4. Msr2Seg(rec) \in Segment
  <2>1. rec \in RecordType /\ EndTime(rec) \in Int /\ RecordPtrs(rec) \in Seq(Records)
    BY RecordFields
  <2> QED BY <2>1 DEF RecordType, Msr2Seg, Segment
<1>6. /\ segs \in Seq(Segment) /\ Len(segs) = Len(t.segs) + 1
      /\ Ordered(t.segs) => OrderedBut(segs, p.at)
  BY <1>1, <1>3, <1>4, InsertOrdered
<1> HIDE DEF segs
<1>7. u \in TraceID /\ u.numsegments = Len(segs)
  BY <1>1, <1>6, SMTT(40) DEF IDOK, TraceID, Linked
<1> HIDE DEF t, u
<1>8. /\ IDOK(Tracked(u, rec, segs, p.at))
      /\ Ordered(t.segs) => Ordered(Tracked(u, rec, segs, p.at).segs)
  BY <1>1, <1>3, <1>6, <1>7, TrackedProperties DEF IDOK
<1> QED BY <1>2, <1>8 DEF Becomes, t

(* The record and the segment it reaches are added to the segment before;  *)
(* when the second addition is refused only the end of that segment has    *)
(* moved.                                                                  *)
LEMMA MergeSegmentsKeeps ==
  ASSUME IInv, NEW rec \in Records, NEW k \in Matching(rec), MergeSegments(k, rec)
  PROVE  \E t : Becomes(k, t)
<1> DEFINE t == ids[k]
           p == Placement(t, rec)
           seg == t.segs[p.at]
           next == t.segs[p.merge]
           grown == AddMsrToEnd(seg, rec)
           joined == AddSegToSeg(grown, next)
           all == ReplaceAt(t.segs, p.at, joined)
           segs == RemoveAt(all, p.merge)
           at == IF p.merge < p.at THEN p.at - 1 ELSE p.at
           u == Unlinked(t)
<1>1. /\ IDOK(t) /\ now \in Nat /\ t.segs \in Seq(Segment) /\ Len(t.segs) \in Nat \ {0}
      /\ PlaceOK(p, Len(t.segs)) /\ k \in Keys
  BY MatchingID
<1>2. /\ p.how = "append" /\ p.merge # 0
      /\ \/ ids' = [ids EXCEPT ![k] = Tracked(u, rec, segs, at)]
         \/ ids' = [ids EXCEPT ![k].segs[p.at] = grown]
  BY DEF MergeSegments
<1> HIDE DEF p
<1>3. p.at \in 1 .. Len(t.segs) /\ p.merge \in 1 .. Len(t.segs) /\ p.merge # p.at
  BY <1>1, <1>2 DEF PlaceOK
<1>4. seg \in Segment /\ next \in Segment
  BY <1>1, <1>3, ElementOfSeq
<1>5. t \in TraceID /\ t.numsegments = Len(t.segs)
  BY <1>1 DEF IDOK
<1>6. CASE ids' = [ids EXCEPT ![k] = Tracked(u, rec, segs, at)]
  <2> HIDE DEF seg, next
  <2>1. grown \in Segment
    BY <1>4, SegmentFields
  <2> HIDE DEF grown
  <2>2. joined \in Segment
    BY <1>4, <2>1, MergedFields
  <2> HIDE DEF joined
  <2>3. /\ all \in Seq(Segment) /\ Len(all) = Len(t.segs)
        /\ Ordered(t.segs) => OrderedBut(all, p.at)
    BY <1>1, <1>3, <2>2, ReplaceOrdered
  <2> HIDE DEF all
  <2>4. /\ segs \in Seq(Segment) /\ Len(segs) = Len(all) - 1
        /\ at \in 1 .. Len(all) - 1
        /\ OrderedBut(all, p.at) => OrderedBut(segs, at)
    <3> HIDE DEF at
    <3>1. at = IF p.merge < p.at THEN p.at - 1 ELSE p.at
      BY DEF at
    <3> QED BY <1>3, <2>3, <3>1, RemoveOrdered, ZenonT(30)
  <2> HIDE DEF segs, at
  <2>5. Len(segs) = t.numsegments - 1 /\ t.numsegments - 1 \in Nat /\ at \in 1 .. Len(segs)
    BY <1>1, <1>5, <2>3, <2>4
  <2>6. u \in TraceID /\ u.numsegments = Len(segs)
    BY <1>5, <2>5 DEF TraceID, Unlinked
  <2> HIDE DEF t, u
  <2>7. /\ IDOK(Tracked(u, rec, segs, at))
        /\ Ordered(t.segs) => Ordered(Tracked(u, rec, segs, at).segs)
    BY <1>1, <2>3, <2>4, <2>5, <2>6, TrackedProperties, ZenonT(30) DEF IDOK
  <2> QED BY <1>6, <2>7 DEF Becomes, t
<1>7. CASE ids' = [ids EXCEPT ![k].segs[p.at] = grown]
  <2> DEFINE one == ReplaceAt(t.segs, p.at, grown)
             v == [t EXCEPT !.segs = one]
  <2>1. grown \in Segment /\ grown.start = seg.start
    BY <1>4, SegmentFields
  <2>2. /\ one \in Seq(Segment) /\ Len(one) = Len(t.segs)
        /\ \A m \in 1 .. Len(t.segs) : one[m].start = t.segs[m].start
    <3> HIDE DEF grown
    <3>1. one \in Seq(Segment) /\ Len(one) = Len(t.segs)
      BY <1>1, <1>3, <2>1, SegmentReplaced, ZenonT(30)
    <3>2. ASSUME NEW m \in 1 .. Len(t.segs)
          PROVE  one[m] = IF m = p.at THEN grown ELSE t.segs[m]
      BY <1>1, <1>3, <2>1, LenProperties DEF ReplaceAt
    <3> QED BY <3>1, <3>2, <2>1
  <2>3. ids' = [ids EXCEPT ![k] = v]
    <3>1. ids \in [Keys -> TraceID]
      BY DEF IInv, TypeOK
    <3> QED BY <1>7, <1>1, <3>1 DEF ReplaceAt
  <2> HIDE DEF one
  <2>4. Ordered(t.segs) => Ordered(one)
    BY <2>2 DEF Ordered
  <2>5. v \in TraceID /\ v.numsegments = Len(v.segs) /\ v.segs = one
    BY <1>5, <2>2 DEF TraceID
  <2> HIDE DEF v
  <2> QED BY <2>3, <2>4, <2>5 DEF IDOK, Becomes
<1> QED BY <1>2, <1>6, <1>7

-----------------------------------------------------------------------------
(* Theorems.                                                               *)

(* Every addition keeps the inductive invariant, and the order. *)
LEMMA AddMsrKeeps ==
  ASSUME IInv, NEW rec \in Records, AddMsr(rec), now' \in Nat
  PROVE  IInv' /\ (StartsInOrder => StartsInOrder')
<1>1. added' \in [Records -> Nat]
  <2>1. added \in [Records -> Nat]
    BY DEF IInv, TypeOK
  <2>2. added' = added \/ Stored(rec)
    BY DEF AddMsr, AddID, AddToSegment, MergeSegments, AddSegment, RejectMsr, listVars
  <2> QED BY <2>1, <2>2 DEF Stored
<1>2. ids' = ids \/ \E k \in Keys : \E t : Becomes(k, t)
  <2>1. CASE AddID(rec)
    BY <2>1, AddIDKeeps
  <2>2. ASSUME NEW k \in Matching(rec),
               AddToSegment(k, rec) \/ MergeSegments(k, rec) \/ AddSegment(k, rec) \/ RejectMsr(k, rec)
        PROVE  ids' = ids \/ \E l \in Keys : \E t : Becomes(l, t)
    <3>1. k \in Keys
      BY MatchingID
    <3>2. CASE AddToSegment(k, rec)
      BY <3>1, <3>2, AddToSegmentKeeps
    <3>3. CASE MergeSegments(k, rec)
      BY <3>1, <3>3, MergeSegmentsKeeps
    <3>4. CASE AddSegment(k, rec)
      BY <3>1, <3>4, AddSegmentKeeps
    <3>5. CASE RejectMsr(k, rec)
      BY <3>5 DEF RejectMsr, listVars
    <3> QED BY <2>2, <3>2, <3>3, <3>4, <3>5
  <2> QED BY <2>1, <2>2 DEF AddMsr
<1>3. ids \in [Keys -> TraceID] /\ \A k \in Keys : IDOK(ids[k])
  BY IInvByID
<1>4. ids' \in [Keys -> TraceID] /\ \A k \in Keys : IDOK(ids'[k])
  BY <1>2, <1>3 DEF IDOK, Becomes
<1>5. ASSUME \A k \in Keys : Ordered(ids[k].segs) PROVE \A k \in Keys : Ordered(ids'[k].segs)
  BY <1>2, <1>3, <1>5 DEF Becomes
<1>6. StartsInOrder => StartsInOrder'
  BY <1>5 DEF StartsInOrder, Ordered
<1> QED BY <1>1, <1>4, <1>6 DEF IInv, TypeOK, SegmentsCounted, IDOK

(* Every step keeps the inductive invariant, and the order. *)
LEMMA NextKeeps ==
  ASSUME IInv, [Next]_vars
  PROVE  IInv' /\ (StartsInOrder => StartsInOrder')
<1>1. CASE UNCHANGED vars
  BY <1>1 DEF IInv, TypeOK, SegmentsCounted, StartsInOrder, vars
<1>2. CASE Next
  <2>1. PICK rec \in Records : AddMsr(rec) /\ now' = now
    BY <1>2 DEF Next
  <2>2. now' \in Nat
    BY <2>1 DEF IInv, TypeOK
  <2> QED BY <2>1, <2>2, AddMsrKeeps
<1> QED BY <1>1, <1>2

(* The inductive invariant holds of every reachable trace list. *)
THEOREM Invariance == Spec => []IInv
<1>1. Init => IInv
  <2> SUFFICES ASSUME Init PROVE IInv
    OBVIOUS
  <2>1. NoTraceID \in TraceID
    BY DEF NoTraceID, TraceID, Version
  <2>2. NoTraceID.numsegments = Len(NoTraceID.segs)
    BY DEF NoTraceID
  <2>3. \A k \in Keys : IDOK(ids[k])
    BY <2>1, <2>2 DEF Init, IDOK
  <2> QED BY <2>1, <2>3, IInvByID DEF Init
<1>2. IInv /\ [Next]_vars => IInv'
  BY NextKeeps
<1> QED BY <1>1, <1>2, PTL DEF Spec

(* mstl3_addmsr() keeps every trace ID and segment well formed, for every  *)
(* set of records, tolerance and flag.                                     *)
THEOREM TypeCorrect == Spec => []TypeOK
<1>1. IInv => TypeOK
  BY DEF IInv
<1> QED BY <1>1, Invariance, PTL

(* numsegments is the number of segments in the list, whatever is added. *)
THEOREM SegmentsAreCounted == Spec => []SegmentsCounted
<1>1. IInv => SegmentsCounted
  BY DEF IInv
<1> QED BY <1>1, Invariance, PTL

(* The segments of every trace ID are in the order of their start times,   *)
(* also after an autohealing merge that failed half way.                   *)
THEOREM SegmentsStartInOrder == Spec => []StartsInOrder
<1>1. Init => StartsInOrder
  BY DEF Init, StartsInOrder, NoTraceID
<1>2. IInv /\ StartsInOrder /\ [Next]_vars => StartsInOrder'
  BY NextKeeps
<1> QED BY <1>1, <1>2, Invariance, PTL DEF Spec

(* Autohealing never unlinks the first segment of a trace ID, whatever     *)
(* tolerance the caller gives: leaving id->first alone is safe.            *)
THEOREM FirstSegmentKept == Spec => []FirstNeverMerged
<1>1. IInv => FirstNeverMerged
  <2> SUFFICES ASSUME IInv, NEW k \in Keys, InList(k), NEW rec \in Records
               PROVE  Placement(ids[k], rec).merge # 1
    BY DEF FirstNeverMerged
  <2>1. ids[k].segs \in Seq(Segment) /\ ids[k].segs # <<>>
    BY IInvByID DEF IDOK, TraceID, InList
  <2>2. ~FitsBefore(rec, ids[k].segs[1]) => SearchPlace(ids[k].segs, rec).merge # 1
    BY <2>1, SearchSparesFirst
  <2> QED BY <2>2 DEF Placement, Place
<1> QED BY <1>1, Invariance, PTL

-----------------------------------------------------------------------------
(* Which records the segments hold: of which version, rate and sample      *)
(* type.  Every action is first reduced to the set of segments it leaves;  *)
(* a property of single segments then only has to survive the four ways    *)
(* the code makes one.                                                     *)

(* The segments an action leaves. *)
Members(s) == {s[m] : m \in 1 .. Len(s)}

(* The elements of s at positions outside X. *)
Others(s, X) == {s[m] : m \in (1 .. Len(s)) \ X}

(* Sorting one segment into place only permutes the list. *)
LEMMA SortKeepsMembers ==
  ASSUME NEW S, NEW s \in Seq(S), NEW i \in 1 .. Len(s)
  PROVE  Members(SortInPlace(s, i)) = Members(s)
<1> DEFINE j == SortTarget(s, i)
           r == Move(s, i, j)
           N == Len(s)
<1>1. j \in 1 .. N
  BY SortTargetProperties
<1>2. SortInPlace(s, i) = r
  BY DEF SortInPlace
<1> HIDE DEF j
<1>3. /\ r \in Seq(S) /\ Len(r) = N /\ N \in Nat
      /\ \A m \in 1 .. N :
           r[m] = IF m = j THEN s[i]
                  ELSE IF i <= m /\ m < j THEN s[m + 1]
                  ELSE IF j < m /\ m <= i THEN s[m - 1]
                  ELSE s[m]
  BY <1>1, MoveProperties
<1> HIDE DEF r
<1>4. ASSUME NEW m \in 1 .. N PROVE \E n \in 1 .. N : r[m] = s[n]
  <2>1. CASE m = j
    BY <2>1, <1>3
  <2>2. CASE m # j /\ i <= m /\ m < j
    <3>1. r[m] = s[m + 1] /\ m + 1 \in 1 .. N
      BY <2>2, <1>1, <1>3
    <3> QED BY <3>1
  <2>3. CASE m # j /\ j < m /\ m <= i
    <3>1. r[m] = s[m - 1] /\ m - 1 \in 1 .. N
      BY <2>3, <1>1, <1>3
    <3> QED BY <3>1
  <2>4. CASE m # j /\ ~(i <= m /\ m < j) /\ ~(j < m /\ m <= i)
    <3>1. r[m] = s[m]
      BY <2>4, <1>3
    <3> QED BY <3>1
  <2> QED BY <2>1, <2>2, <2>3, <2>4
<1>5. ASSUME NEW n \in 1 .. N PROVE \E m \in 1 .. N : r[m] = s[n]
  <2>1. CASE n = i
    <3>1. r[j] = s[n]
      BY <2>1, <1>1, <1>3
    <3> QED BY <3>1, <1>1
  <2>2. CASE i < n /\ n <= j
    <3>1. n - 1 \in 1 .. N /\ r[n - 1] = s[n]
      BY <2>2, <1>1, <1>3
    <3> QED BY <3>1
  <2>3. CASE j <= n /\ n < i
    <3>1. n + 1 \in 1 .. N /\ r[n + 1] = s[n]
      BY <2>3, <1>1, <1>3
    <3> QED BY <3>1
  <2>4. CASE n # i /\ ~(i < n /\ n <= j) /\ ~(j <= n /\ n < i)
    <3>1. r[n] = s[n]
      BY <2>4, <1>1, <1>3
    <3> QED BY <3>1
  <2> QED BY <2>1, <2>2, <2>3, <2>4, <1>1
<1>6. Members(r) = {r[m] : m \in 1 .. N} /\ Members(s) = {s[m] : m \in 1 .. N}
  BY <1>3 DEF Members
<1>7. {r[m] : m \in 1 .. N} = {s[m] : m \in 1 .. N}
  <2>1. ASSUME NEW x \in {r[m] : m \in 1 .. N} PROVE x \in {s[m] : m \in 1 .. N}
    BY <1>4
  <2>2. ASSUME NEW x \in {s[m] : m \in 1 .. N} PROVE x \in {r[m] : m \in 1 .. N}
    BY <1>5
  <2> QED BY <2>1, <2>2
<1> QED BY <1>2, <1>6, <1>7

(* What every successful branch does to the fields of the trace ID. *)
Tracks(t, u, rec) ==
  /\ u.pubversion = Greater(PubVersion(rec), t.pubversion)
  /\ u.earliest = Lesser(rec.start, t.earliest)
  /\ u.latest = Greater(EndTime(rec), t.latest)

LEMMA TrackedMembers ==
  ASSUME NEW t, NEW rec, NEW segs \in Seq(Segment), NEW at \in 1 .. Len(segs), now \in Nat
  PROVE  /\ Members(Tracked(t, rec, segs, at).segs) = Others(segs, {at}) \cup {Stamp(segs[at])}
         /\ Tracks(t, Tracked(t, rec, segs, at), rec)
<1> DEFINE s == ReplaceAt(segs, at, Stamp(segs[at]))
<1>1. Stamp(segs[at]) \in Segment
  BY StampFields, ElementOfSeq
<1>2. /\ s \in Seq(Segment) /\ Len(s) = Len(segs)
      /\ \A m \in 1 .. Len(segs) : s[m] = IF m = at THEN Stamp(segs[at]) ELSE segs[m]
  BY <1>1, SegmentReplaced
<1> HIDE DEF s
<1>3. Members(SortInPlace(s, at)) = Members(s)
  BY <1>2, SortKeepsMembers
<1>4. Members(s) = Others(segs, {at}) \cup {Stamp(segs[at])}
  BY <1>2 DEF Members, Others
<1>5. Tracked(t, rec, segs, at).segs = SortInPlace(s, at)
  BY DEF Tracked, s
<1>6. Tracks(t, Tracked(t, rec, segs, at), rec)
  BY DEF Tracks, Tracked
<1> QED BY <1>3, <1>4, <1>5, <1>6

(* The trace ID of one key changes, the others do not. *)
OnlyID(k) == \A l \in Keys : l # k => ids'[l] = ids[l]

(* Where a record goes in the trace ID of key k. *)
PutAt(k, rec) == Placement(ids[k], rec).at
Joins(k, rec) == Placement(ids[k], rec).merge
SegPut(k, rec) == ids[k].segs[PutAt(k, rec)]

(* The segment that has taken the record in. *)
Grown(k, rec) ==
  IF Placement(ids[k], rec).how = "append" THEN AddMsrToEnd(SegPut(k, rec), rec)
                                           ELSE AddMsrToStart(SegPut(k, rec), rec)

-----------------------------------------------------------------------------
(* What the search finds.                                                  *)

(* The answer of SelectInSeq on the first n segments: none fits, or the    *)
(* first that does.                                                        *)
LEMMA FirstFit ==
  ASSUME NEW n \in Nat, NEW I \in SUBSET (1 .. n),
         NEW f, f = IF I = {} THEN 0 ELSE Min(I)
  PROVE  f \in 0 .. n /\ (f = 0 => I = {}) /\ (f # 0 => f \in I)
<1>1. I # {} => Min(I) \in I
  BY MinIn
<1> QED BY <1>1

(* The search of mstl3_addmsr() in terms of the segments: up to the exact  *)
(* match, if there is one, it knows the first that the record fits after   *)
(* and the first that it fits before.                                      *)
Searched(segs, rec, exact, before, after) ==
  LET n == IF exact = 0 THEN Len(segs) ELSE exact - 1
  IN  /\ exact \in 0 .. Len(segs) /\ n \in 0 .. Len(segs)
      /\ exact # 0 => /\ AutoHeal /\ HasTimeCoverage(segs[exact])
                      /\ segs[exact].start = rec.start /\ segs[exact].end = EndTime(rec)
      /\ before \in 0 .. n /\ after \in 0 .. n
      /\ before # 0 => FitsAfter(rec, segs[before])
      /\ before = 0 => \A m \in 1 .. n : ~FitsAfter(rec, segs[m])
      /\ after # 0 => FitsBefore(rec, segs[after])
      /\ after = 0 => \A m \in 1 .. n : ~FitsBefore(rec, segs[m])

LEMMA SearchFacts ==
  ASSUME NEW S, NEW segs \in Seq(S), NEW rec
  PROVE  \E exact, before, after, follow :
           /\ Searched(segs, rec, exact, before, after)
           /\ SearchPlace(segs, rec) =
                IF before # 0 /\ (AutoHeal \/ after = 0 \/ before <= after)
                THEN Place("append", before, IF AutoHeal /\ after # before THEN after ELSE 0)
                ELSE IF after # 0 THEN Place("prepend", after, 0)
                ELSE Place("insert", follow + 1, 0)
<1> DEFINE exact == ExactMatch(segs, rec)
           searched == IF exact = 0 THEN segs ELSE SubSeq(segs, 1, exact - 1)
           before == SelectInSeq(searched, LAMBDA s : FitsAfter(rec, s))
           after == SelectInSeq(searched, LAMBDA s : FitsBefore(rec, s))
           last == SelectLastInSeq(segs, LAMBDA s : HasTimeCoverage(s) /\ rec.start > s.start)
           follow == IF exact # 0 THEN exact ELSE last
           N == Len(segs)
           n == IF exact = 0 THEN N ELSE exact - 1
<1>1. exact \in 0 .. N /\ N \in Nat
  BY ExactInList
<1>2. exact # 0 => /\ AutoHeal /\ HasTimeCoverage(segs[exact])
                   /\ segs[exact].start = rec.start /\ segs[exact].end = EndTime(rec)
  <2> DEFINE I == {i \in 1 .. N : /\ HasTimeCoverage(segs[i])
                                  /\ segs[i].start = rec.start
                                  /\ segs[i].end = EndTime(rec)}
  <2>1. exact = IF AutoHeal THEN IF I = {} THEN 0 ELSE Min(I) ELSE 0
    BY DEF ExactMatch, SelectInSeq
  <2>2. I \in SUBSET (1 .. N)
    OBVIOUS
  <2>3. I # {} => Min(I) \in I
    <3> HIDE DEF I
    <3> QED BY <1>1, <2>2, MinIn
  <2> QED BY <2>1, <2>3
<1>3. n \in 0 .. N /\ Len(searched) = n /\ \A m \in 1 .. n : searched[m] = segs[m]
  <2>1. CASE exact = 0
    BY <2>1, <1>1
  <2>2. CASE exact # 0
    <3>1. \A i \in 1 .. exact - 1 : segs[i] \in S
      BY <1>1, ElementOfSeq
    <3>2. /\ Len(SubSeq(segs, 1, exact - 1)) = IF 1 <= exact - 1 THEN exact - 1 - 1 + 1 ELSE 0
          /\ \A i \in 1 .. exact - 1 - 1 + 1 : SubSeq(segs, 1, exact - 1)[i] = segs[1 + i - 1]
      BY <1>1, <3>1, SubSeqProperties
    <3> QED BY <2>2, <3>2, <1>1
  <2> QED BY <2>1, <2>2
<1>4. SearchPlace(segs, rec) =
        IF before # 0 /\ (AutoHeal \/ after = 0 \/ before <= after)
        THEN Place("append", before, IF AutoHeal /\ after # before THEN after ELSE 0)
        ELSE IF after # 0 THEN Place("prepend", after, 0)
        ELSE Place("insert", follow + 1, 0)
  BY DEF SearchPlace
<1> HIDE DEF exact, searched, n, last
<1>5. /\ before \in 0 .. n
      /\ before # 0 => FitsAfter(rec, segs[before])
      /\ before = 0 => \A m \in 1 .. n : ~FitsAfter(rec, segs[m])
  <2> DEFINE I == {i \in 1 .. Len(searched) : FitsAfter(rec, searched[i])}
  <2>1. I \in SUBSET (1 .. n) /\ n \in Nat /\ before = IF I = {} THEN 0 ELSE Min(I)
    BY <1>1, <1>3 DEF SelectInSeq
  <2>2. before \in 0 .. n /\ (before = 0 => I = {}) /\ (before # 0 => before \in I)
    <3> HIDE DEF I, before
    <3> QED BY <2>1, FirstFit
  <2> HIDE DEF before
  <2> QED BY <2>2, <1>3
<1>6. /\ after \in 0 .. n
      /\ after # 0 => FitsBefore(rec, segs[after])
      /\ after = 0 => \A m \in 1 .. n : ~FitsBefore(rec, segs[m])
  <2> DEFINE I == {i \in 1 .. Len(searched) : FitsBefore(rec, searched[i])}
  <2>1. I \in SUBSET (1 .. n) /\ n \in Nat /\ after = IF I = {} THEN 0 ELSE Min(I)
    BY <1>1, <1>3 DEF SelectInSeq
  <2>2. after \in 0 .. n /\ (after = 0 => I = {}) /\ (after # 0 => after \in I)
    <3> HIDE DEF I, after
    <3> QED BY <2>1, FirstFit
  <2> HIDE DEF after
  <2> QED BY <2>2, <1>3
<1>7. Searched(segs, rec, exact, before, after)
  <2> HIDE DEF before, after
  <2> QED BY <1>1, <1>2, <1>3, <1>5, <1>6 DEF Searched, n
<1> HIDE DEF before, after, follow
<1> QED BY <1>4, <1>7

(* A record is appended only where it fits after, prepended only where it  *)
(* fits before, and joins two segments only when healing and both fit.     *)
LEMMA PlacementFits ==
  ASSUME NEW S, NEW t, t.segs \in Seq(S), t.segs # <<>>, NEW rec,
         NEW p, p = Placement(t, rec)
  PROVE  /\ p.how = "append" => FitsAfter(rec, t.segs[p.at])
         /\ p.how = "prepend" => FitsBefore(rec, t.segs[p.at]) /\ p.merge = 0
         /\ p.how # "insert" /\ p.merge # 0 => AutoHeal /\ FitsBefore(rec, t.segs[p.merge])
<1>1. PICK exact, before, after, follow :
        /\ Searched(t.segs, rec, exact, before, after)
        /\ SearchPlace(t.segs, rec) =
             IF before # 0 /\ (AutoHeal \/ after = 0 \/ before <= after)
             THEN Place("append", before, IF AutoHeal /\ after # before THEN after ELSE 0)
             ELSE IF after # 0 THEN Place("prepend", after, 0)
             ELSE Place("insert", follow + 1, 0)
  BY SearchFacts
<1>2. CASE p = SearchPlace(t.segs, rec)
  BY <1>1, <1>2 DEF Searched, Place
<1>3. CASE p # SearchPlace(t.segs, rec)
  BY <1>3 DEF Placement, Place
<1> QED BY <1>2, <1>3

-----------------------------------------------------------------------------
(* The actions, reduced to the segments they leave.                        *)

LEMMA UpdateOne ==
  ASSUME IInv, NEW k \in Keys, NEW t, ids' = [ids EXCEPT ![k] = t]
  PROVE  ids'[k] = t /\ OnlyID(k) /\ DOMAIN ids' = Keys
<1>1. ids \in [Keys -> TraceID]
  BY DEF IInv, TypeOK
<1> QED BY <1>1 DEF OnlyID

(* A new trace ID has the record as its only segment. *)
LEMMA AddIDLeaves ==
  ASSUME IInv, NEW rec \in Records, AddID(rec)
  PROVE  /\ KeyOf(rec) \in Keys /\ OnlyID(KeyOf(rec)) /\ Matching(rec) = {} /\ Stored(rec)
         /\ Members(ids'[KeyOf(rec)].segs) = {Stamp(Msr2Seg(rec))}
         /\ ids'[KeyOf(rec)].segs = <<Stamp(Msr2Seg(rec))>>
         /\ ids'[KeyOf(rec)].pubversion = ToUint8(PubVersion(rec))
         /\ ids'[KeyOf(rec)].earliest = rec.start
         /\ ids'[KeyOf(rec)].latest = EndTime(rec)
<1> DEFINE seg == Stamp(Msr2Seg(rec))
           t == [pubversion |-> ToUint8(PubVersion(rec)), earliest |-> rec.start,
                 latest |-> EndTime(rec), numsegments |-> 1, segs |-> <<seg>>]
<1>1. KeyOf(rec) \in Keys
  BY RecordFields
<1>2. ids' = [ids EXCEPT ![KeyOf(rec)] = t] /\ Matching(rec) = {} /\ Stored(rec)
  BY DEF AddID
<1>3. /\ t.segs = <<seg>> /\ t.pubversion = ToUint8(PubVersion(rec))
      /\ t.earliest = rec.start /\ t.latest = EndTime(rec)
  OBVIOUS
<1> HIDE DEF t, seg
<1>4. ids'[KeyOf(rec)] = t /\ OnlyID(KeyOf(rec))
  BY <1>1, <1>2, UpdateOne
<1>5. Members(<<seg>>) = {seg}
  BY DEF Members
<1> QED BY <1>1, <1>2, <1>3, <1>4, <1>5 DEF seg

(* A record extends the segment it fits. *)
LEMMA AddToSegmentLeaves ==
  ASSUME IInv, NEW rec \in Records, NEW k \in Matching(rec), AddToSegment(k, rec)
  PROVE  /\ PutAt(k, rec) \in 1 .. Len(ids[k].segs) /\ SegPut(k, rec) \in Segment
         /\ Joins(k, rec) = 0
         /\ \/ /\ Placement(ids[k], rec).how = "append"
               /\ FitsAfter(rec, SegPut(k, rec))
               /\ Grown(k, rec) = AddMsrToEnd(SegPut(k, rec), rec)
            \/ /\ Placement(ids[k], rec).how = "prepend"
               /\ FitsBefore(rec, SegPut(k, rec))
               /\ Grown(k, rec) = AddMsrToStart(SegPut(k, rec), rec)
         /\ ~TypeClash(SegPut(k, rec), rec)
         /\ OnlyID(k) /\ Stored(rec)
         /\ ids'[k] = Tracked(ids[k], rec, ReplaceAt(ids[k].segs, PutAt(k, rec), Grown(k, rec)), PutAt(k, rec))
         /\ Members(ids'[k].segs) = Others(ids[k].segs, {PutAt(k, rec)}) \cup {Stamp(Grown(k, rec))}
         /\ Tracks(ids[k], ids'[k], rec)
<1> DEFINE t == ids[k]
           p == Placement(t, rec)
           grown == Grown(k, rec)
           segs == ReplaceAt(t.segs, p.at, grown)
<1>1. /\ IDOK(t) /\ now \in Nat /\ t.segs \in Seq(Segment) /\ t.segs # <<>>
      /\ PlaceOK(p, Len(t.segs)) /\ k \in Keys
  BY MatchingID
<1>2. /\ p.how \in {"append", "prepend"} /\ p.merge = 0
      /\ ids' = [ids EXCEPT ![k] = Tracked(t, rec, segs, p.at)]
      /\ ~TypeClash(SegPut(k, rec), rec) /\ Stored(rec)
  BY DEF AddToSegment, Grown, SegPut, PutAt
<1>3. /\ p.how = "append" => FitsAfter(rec, t.segs[p.at])
      /\ p.how = "prepend" => FitsBefore(rec, t.segs[p.at])
  BY <1>1, PlacementFits
<1>4. /\ p.how = "append" => grown = AddMsrToEnd(t.segs[p.at], rec)
      /\ p.how # "append" => grown = AddMsrToStart(t.segs[p.at], rec)
      /\ SegPut(k, rec) = t.segs[p.at] /\ PutAt(k, rec) = p.at /\ Joins(k, rec) = p.merge
  BY DEF Grown, SegPut, PutAt, Joins
<1> HIDE DEF p, grown
<1>5. p.at \in 1 .. Len(t.segs)
  BY <1>1, <1>2 DEF PlaceOK
<1>6. t.segs[p.at] \in Segment
  BY <1>1, <1>5, ElementOfSeq
<1>7. grown \in Segment
  BY <1>4, <1>6, SegmentFields
<1>8. /\ segs \in Seq(Segment) /\ Len(segs) = Len(t.segs)
      /\ \A m \in 1 .. Len(t.segs) : segs[m] = IF m = p.at THEN grown ELSE t.segs[m]
  <2> DEFINE s == t.segs
             i == p.at
  <2>1. s \in Seq(Segment) /\ i \in 1 .. Len(s) /\ segs = ReplaceAt(s, i, grown)
    BY <1>1, <1>5
  <2> HIDE DEF s, i, segs
  <2> HIDE DEF t
  <2>2. ReplaceAt(s, i, grown) \in Seq(Segment) /\ Len(ReplaceAt(s, i, grown)) = Len(s)
    BY <2>1, <1>7, SegmentReplaced
  <2>3. ASSUME NEW m \in 1 .. Len(s)
        PROVE  ReplaceAt(s, i, grown)[m] = IF m = i THEN grown ELSE s[m]
    BY <2>1, LenProperties DEF ReplaceAt
  <2> QED BY <2>1, <2>2, <2>3 DEF s, i
<1> HIDE DEF segs
<1>9. /\ Members(Tracked(t, rec, segs, p.at).segs) = Others(segs, {p.at}) \cup {Stamp(segs[p.at])}
      /\ Tracks(t, Tracked(t, rec, segs, p.at), rec)
  BY <1>1, <1>5, <1>8, TrackedMembers
<1>10. Others(segs, {p.at}) = Others(t.segs, {p.at}) /\ segs[p.at] = grown
  BY <1>5, <1>8 DEF Others
<1>11. ids'[k] = Tracked(t, rec, segs, p.at) /\ OnlyID(k)
  BY <1>1, <1>2, UpdateOne
<1>12. /\ Members(ids'[k].segs) = Others(t.segs, {p.at}) \cup {Stamp(grown)}
       /\ Tracks(t, ids'[k], rec)
  BY <1>9, <1>10, <1>11
<1>13. /\ \/ p.how = "append" /\ FitsAfter(rec, t.segs[p.at]) /\ grown = AddMsrToEnd(t.segs[p.at], rec)
          \/ p.how = "prepend" /\ FitsBefore(rec, t.segs[p.at]) /\ grown = AddMsrToStart(t.segs[p.at], rec)
       /\ Placement(ids[k], rec) = p
  BY <1>2, <1>3, <1>4 DEF p
<1>14. ids'[k] = Tracked(ids[k], rec, ReplaceAt(ids[k].segs, PutAt(k, rec), Grown(k, rec)), PutAt(k, rec))
  BY <1>11, <1>4 DEF segs, grown
<1> QED BY <1>2, <1>4, <1>5, <1>6, <1>11, <1>12, <1>13, <1>14 DEF grown

(* InsertAt puts the new element where it is asked to. *)
LEMMA InsertedElement ==
  ASSUME NEW S, NEW s \in Seq(S), NEW i \in 1 .. Len(s) + 1, NEW e \in S
  PROVE  InsertAt(s, i, e)[i] = e
<1> DEFINE front == SubSeq(s, 1, i - 1)
           back == SubSeq(s, i, Len(s))
           head == front \o <<e>>
<1>1. front \in Seq(S) /\ Len(front) = i - 1
  BY SubSeqProperties, ElementOfSeq
<1>2. back \in Seq(S)
  BY SubSeqProperties, ElementOfSeq
<1> HIDE DEF front, back
<1>3. <<e>> \in Seq(S) /\ Len(<<e>>) = 1 /\ <<e>>[1] = e
  OBVIOUS
<1>4. head \in Seq(S) /\ Len(head) = i /\ head[i] = e
  BY <1>1, <1>3, ConcatProperties
<1> HIDE DEF head
<1>5. (head \o back)[i] = head[i]
  BY <1>2, <1>4, ConcatProperties
<1>6. InsertAt(s, i, e) = head \o back
  BY DEF InsertAt, front, back, head
<1> QED BY <1>4, <1>5, <1>6

(* A record that fits nowhere becomes a segment. *)
LEMMA AddSegmentLeaves ==
  ASSUME IInv, NEW rec \in Records, NEW k \in Matching(rec), AddSegment(k, rec)
  PROVE  /\ PutAt(k, rec) \in 1 .. Len(ids[k].segs) + 1
         /\ Placement(ids[k], rec).how = "insert"
         /\ OnlyID(k) /\ Stored(rec)
         /\ ids'[k] = Tracked(Linked(ids[k]), rec,
                              InsertAt(ids[k].segs, PutAt(k, rec), Msr2Seg(rec)), PutAt(k, rec))
         /\ Members(ids'[k].segs) = Members(ids[k].segs) \cup {Stamp(Msr2Seg(rec))}
         /\ Tracks(ids[k], ids'[k], rec)
<1> DEFINE t == ids[k]
           p == Placement(t, rec)
           seg == Msr2Seg(rec)
           segs == InsertAt(t.segs, p.at, seg)
           N == Len(t.segs)
<1>1. /\ IDOK(t) /\ now \in Nat /\ t.segs \in Seq(Segment) /\ N \in Nat
      /\ PlaceOK(p, N) /\ k \in Keys
  BY MatchingID
<1>2. /\ p.how = "insert" /\ Stored(rec)
      /\ ids' = [ids EXCEPT ![k] = Tracked(Linked(t), rec, segs, p.at)]
  BY DEF AddSegment
<1>3. PutAt(k, rec) = p.at /\ Placement(ids[k], rec) = p
  BY DEF PutAt
<1> HIDE DEF p
<1>4. p.at \in 1 .. N + 1
  BY <1>1, <1>2 DEF PlaceOK
<1>5. seg \in Segment
  <2>1. rec \in RecordType /\ EndTime(rec) \in Int /\ RecordPtrs(rec) \in Seq(Records)
    BY RecordFields
  <2> QED BY <2>1 DEF RecordType, Msr2Seg, Segment
<1>6. /\ segs \in Seq(Segment) /\ Len(segs) = N + 1
      /\ \A m \in 1 .. p.at - 1 : segs[m] = t.segs[m]
      /\ \A m \in p.at + 1 .. N + 1 : segs[m] = t.segs[m - 1]
  <2> DEFINE s == t.segs
             i == p.at
  <2>1. s \in Seq(Segment) /\ i \in 1 .. Len(s) + 1 /\ segs = InsertAt(s, i, seg)
    BY <1>1, <1>4
  <2> HIDE DEF s, i, segs, seg
  <2>2. /\ segs \in Seq(Segment) /\ Len(segs) = Len(s) + 1
        /\ \A m \in 1 .. i - 1 : segs[m] = s[m]
        /\ \A m \in i + 1 .. Len(s) + 1 : segs[m] = s[m - 1]
    BY <2>1, <1>5, InsertAtProperties, ZenonT(30)
  <2> QED BY <2>2 DEF s, i
<1>7. segs[p.at] = seg
  BY <1>1, <1>4, <1>5, InsertedElement
<1> HIDE DEF segs
<1>8. /\ Members(Tracked(Linked(t), rec, segs, p.at).segs)
           = Others(segs, {p.at}) \cup {Stamp(segs[p.at])}
      /\ Tracks(Linked(t), Tracked(Linked(t), rec, segs, p.at), rec)
  BY <1>1, <1>4, <1>6, TrackedMembers
<1>9. Others(segs, {p.at}) = Members(t.segs)
  <2>1. ASSUME NEW m \in (1 .. Len(segs)) \ {p.at} PROVE \E n \in 1 .. N : segs[m] = t.segs[n]
    <3>1. CASE m < p.at
      <4>1. m \in 1 .. N /\ segs[m] = t.segs[m]
        BY <3>1, <1>1, <1>4, <1>6
      <4> QED BY <4>1
    <3>2. CASE m > p.at
      <4>1. m - 1 \in 1 .. N /\ segs[m] = t.segs[m - 1]
        BY <3>2, <1>1, <1>4, <1>6
      <4> QED BY <4>1
    <3> QED BY <3>1, <3>2, <1>4
  <2>2. ASSUME NEW n \in 1 .. N PROVE \E m \in (1 .. Len(segs)) \ {p.at} : segs[m] = t.segs[n]
    <3>1. CASE n < p.at
      <4>1. n \in (1 .. Len(segs)) \ {p.at} /\ segs[n] = t.segs[n]
        BY <3>1, <1>1, <1>4, <1>6
      <4> QED BY <4>1
    <3>2. CASE n >= p.at
      <4>1. n + 1 \in (1 .. Len(segs)) \ {p.at} /\ segs[n + 1] = t.segs[n]
        BY <3>2, <1>1, <1>4, <1>6
      <4> QED BY <4>1
    <3> QED BY <3>1, <3>2, <1>4
  <2>3. ASSUME NEW x \in Others(segs, {p.at}) PROVE x \in Members(t.segs)
    BY <2>1 DEF Others, Members
  <2>4. ASSUME NEW x \in Members(t.segs) PROVE x \in Others(segs, {p.at})
    BY <2>2 DEF Others, Members
  <2> QED BY <2>3, <2>4
<1>10. ids'[k] = Tracked(Linked(t), rec, segs, p.at) /\ OnlyID(k)
  BY <1>1, <1>2, UpdateOne
<1>11. /\ Linked(t).pubversion = t.pubversion /\ Linked(t).earliest = t.earliest
       /\ Linked(t).latest = t.latest
  BY <1>1 DEF Linked, IDOK, TraceID
<1>12. Tracks(t, ids'[k], rec)
  BY <1>8, <1>10, <1>11 DEF Tracks
<1>13. ids'[k] = Tracked(Linked(ids[k]), rec,
                         InsertAt(ids[k].segs, PutAt(k, rec), Msr2Seg(rec)), PutAt(k, rec))
  BY <1>10, <1>3 DEF segs
<1> QED BY <1>2, <1>3, <1>4, <1>7, <1>8, <1>9, <1>10, <1>12, <1>13

(* The segment the record makes of the two it connects. *)
Joined(k, rec) == AddSegToSeg(AddMsrToEnd(SegPut(k, rec), rec), ids[k].segs[Joins(k, rec)])

(* The list once segment Joins(k, rec) is unlinked, and where the joined   *)
(* segment is then.                                                        *)
JoinedList(k, rec) == RemoveAt(ReplaceAt(ids[k].segs, PutAt(k, rec), Joined(k, rec)), Joins(k, rec))
JoinedAt(k, rec) == IF Joins(k, rec) < PutAt(k, rec) THEN PutAt(k, rec) - 1 ELSE PutAt(k, rec)

(* r is s with element i changed to e, now at position at, and element j   *)
(* removed.                                                                *)
Removed(r, at, s, i, j, e) ==
  /\ r \in Seq(Segment) /\ Len(r) = Len(s) - 1 /\ at \in 1 .. Len(r)
  /\ r[at] = e
  /\ \A m \in 1 .. Len(r) : m # at => r[m] = IF m < j THEN s[m] ELSE s[m + 1]
  /\ Others(r, {at}) = Others(s, {i, j})

LEMMA RemoveReplaced ==
  ASSUME NEW s \in Seq(Segment), NEW i \in 1 .. Len(s), NEW j \in 1 .. Len(s), i # j,
         NEW e \in Segment, NEW at, at = IF j < i THEN i - 1 ELSE i,
         NEW r, r = RemoveAt(ReplaceAt(s, i, e), j)
  PROVE  Removed(r, at, s, i, j, e)
<1> DEFINE a == ReplaceAt(s, i, e)
           N == Len(s)
<1>1. a \in Seq(Segment) /\ Len(a) = N /\ N \in Nat
  BY ReplaceAtProperties
<1>2. \A m \in 1 .. N : a[m] = IF m = i THEN e ELSE s[m]
  BY LenProperties DEF ReplaceAt
<1> HIDE DEF a
<1>3. /\ RemoveAt(a, j) \in Seq(Segment) /\ Len(RemoveAt(a, j)) = N - 1
      /\ \A m \in 1 .. N - 1 : RemoveAt(a, j)[m] = IF m < j THEN a[m] ELSE a[m + 1]
  BY <1>1, RemoveAtProperties
<1>4. r = RemoveAt(a, j)
  BY DEF a
<1>5. /\ r \in Seq(Segment) /\ Len(r) = N - 1
      /\ \A m \in 1 .. N - 1 : r[m] = IF m < j THEN a[m] ELSE a[m + 1]
  BY <1>3, <1>4
<1>6. at \in 1 .. N - 1 /\ r[at] = e
  BY <1>1, <1>2, <1>5
<1>7. \A m \in 1 .. N - 1 : m # at => r[m] = IF m < j THEN s[m] ELSE s[m + 1]
  <2> SUFFICES ASSUME NEW m \in 1 .. N - 1, m # at PROVE r[m] = IF m < j THEN s[m] ELSE s[m + 1]
    OBVIOUS
  <2>1. r[m] = IF m < j THEN a[m] ELSE a[m + 1]
    BY <1>5
  <2>2. (m < j => m # i) /\ (~(m < j) => m + 1 # i)
    BY <1>1
  <2> QED BY <1>1, <1>2, <2>1, <2>2
<1>8. Others(r, {at}) = Others(s, {i, j})
  <2>1. ASSUME NEW x \in Others(r, {at}) PROVE x \in Others(s, {i, j})
    <3>1. PICK m \in 1 .. N - 1 : m # at /\ x = r[m]
      BY <1>5 DEF Others
    <3>2. CASE m < j
      <4>1. x = s[m] /\ m \in (1 .. N) \ {i, j}
        BY <3>1, <3>2, <1>1, <1>7
      <4> QED BY <4>1 DEF Others
    <3>3. CASE ~(m < j)
      <4>1. x = s[m + 1] /\ m + 1 \in (1 .. N) \ {i, j}
        BY <3>1, <3>3, <1>1, <1>7
      <4> QED BY <4>1 DEF Others
    <3> QED BY <3>2, <3>3
  <2>2. ASSUME NEW x \in Others(s, {i, j}) PROVE x \in Others(r, {at})
    <3>1. PICK m \in (1 .. N) \ {i, j} : x = s[m]
      BY DEF Others
    <3>2. CASE m < j
      <4>1. m \in (1 .. N - 1) \ {at}
        BY <3>1, <3>2, <1>1
      <4>2. x = r[m] /\ m \in (1 .. Len(r)) \ {at}
        BY <4>1, <3>1, <3>2, <1>5, <1>7
      <4> QED BY <4>2 DEF Others
    <3>3. CASE m > j
      <4>1. m - 1 \in (1 .. N - 1) \ {at} /\ ~(m - 1 < j)
        BY <3>1, <3>3, <1>1
      <4>2. r[m - 1] = s[m - 1 + 1]
        BY <4>1, <1>7
      <4>3. x = r[m - 1] /\ m - 1 \in (1 .. Len(r)) \ {at}
        BY <4>1, <4>2, <3>1, <1>1, <1>5
      <4> QED BY <4>3 DEF Others
    <3> QED BY <3>1, <3>2, <3>3
  <2> QED BY <2>1, <2>2
<1> QED BY <1>5, <1>6, <1>7, <1>8 DEF Removed

(* A record that connects two segments makes them one; when the samples    *)
(* of the second are refused, only the first has grown.                    *)
LEMMA MergeLeaves ==
  ASSUME IInv, NEW rec \in Records, NEW k \in Matching(rec), MergeSegments(k, rec)
  PROVE  /\ PutAt(k, rec) \in 1 .. Len(ids[k].segs) /\ Joins(k, rec) \in 1 .. Len(ids[k].segs)
         /\ PutAt(k, rec) # Joins(k, rec)
         /\ SegPut(k, rec) \in Segment /\ ids[k].segs[Joins(k, rec)] \in Segment
         /\ Placement(ids[k], rec).how = "append" /\ AutoHeal
         /\ FitsAfter(rec, SegPut(k, rec)) /\ FitsBefore(rec, ids[k].segs[Joins(k, rec)])
         /\ ~TypeClash(SegPut(k, rec), rec)
         /\ OnlyID(k) /\ Stored(rec)
         /\ \/ /\ ~TypeClash(AddMsrToEnd(SegPut(k, rec), rec), ids[k].segs[Joins(k, rec)])
               /\ JoinedAt(k, rec) \in 1 .. Len(JoinedList(k, rec))
               /\ JoinedList(k, rec) \in Seq(Segment)
               /\ ids'[k] = Tracked(Unlinked(ids[k]), rec, JoinedList(k, rec), JoinedAt(k, rec))
               /\ Members(ids'[k].segs) = Others(ids[k].segs, {PutAt(k, rec), Joins(k, rec)})
                                            \cup {Stamp(Joined(k, rec))}
               /\ Tracks(ids[k], ids'[k], rec)
            \/ /\ TypeClash(AddMsrToEnd(SegPut(k, rec), rec), ids[k].segs[Joins(k, rec)])
               /\ ids'[k] = [ids[k] EXCEPT !.segs[PutAt(k, rec)] = AddMsrToEnd(SegPut(k, rec), rec)]
               /\ Members(ids'[k].segs) = Others(ids[k].segs, {PutAt(k, rec)})
                                            \cup {AddMsrToEnd(SegPut(k, rec), rec)}
<1> DEFINE t == ids[k]
           s == ids[k].segs
           p == Placement(ids[k], rec)
           i == PutAt(k, rec)
           j == Joins(k, rec)
           grown == AddMsrToEnd(SegPut(k, rec), rec)
           joined == Joined(k, rec)
           segs == JoinedList(k, rec)
           at == JoinedAt(k, rec)
<1>1. /\ IDOK(t) /\ now \in Nat /\ s \in Seq(Segment) /\ s # <<>>
      /\ PlaceOK(p, Len(s)) /\ k \in Keys
  BY MatchingID
<1>2. p.at = i /\ p.merge = j /\ SegPut(k, rec) = s[i]
  BY DEF PutAt, Joins, SegPut
<1>3. /\ p.how = "append" /\ j # 0 /\ Stored(rec)
      /\ ~TypeClash(s[i], rec)
      /\ \/ /\ ~TypeClash(grown, s[j])
            /\ ids' = [ids EXCEPT ![k] = Tracked(Unlinked(t), rec, segs, at)]
         \/ /\ TypeClash(grown, s[j])
            /\ ids' = [ids EXCEPT ![k].segs[i] = grown]
  BY DEF MergeSegments, PutAt, Joins, SegPut, Joined, JoinedList, JoinedAt
<1>4. i \in 1 .. Len(s) /\ j \in 1 .. Len(s) /\ i # j
  BY <1>1, <1>2, <1>3 DEF PlaceOK
<1>5. FitsAfter(rec, s[i]) /\ FitsBefore(rec, s[j]) /\ AutoHeal
  <2>1. /\ p.how = "append" => FitsAfter(rec, s[p.at])
        /\ (p.how # "insert" /\ p.merge # 0) => (AutoHeal /\ FitsBefore(rec, s[p.merge]))
    BY <1>1, PlacementFits
  <2> HIDE DEF p
  <2> QED BY <2>1, <1>2, <1>3
<1>6. s[i] \in Segment /\ s[j] \in Segment
  BY <1>1, <1>4, ElementOfSeq
<1>7. grown \in Segment
  BY <1>2, <1>6, SegmentFields
<1>8. joined = AddSegToSeg(grown, s[j])
  BY DEF Joined
<1> HIDE DEF grown, joined, i, j
<1>9. joined \in Segment
  BY <1>6, <1>7, <1>8, MergedFields
<1>10. ASSUME ids' = [ids EXCEPT ![k] = Tracked(Unlinked(t), rec, segs, at)]
       PROVE  /\ OnlyID(k)
              /\ at \in 1 .. Len(segs) /\ segs \in Seq(Segment)
              /\ ids'[k] = Tracked(Unlinked(t), rec, segs, at)
              /\ Members(ids'[k].segs) = Others(s, {i, j}) \cup {Stamp(joined)}
              /\ Tracks(t, ids'[k], rec)
  <2>1. segs = RemoveAt(ReplaceAt(s, i, joined), j) /\ at = IF j < i THEN i - 1 ELSE i
    BY DEF JoinedList, JoinedAt, i, j, joined
  <2> HIDE DEF segs, at
  <2>2. /\ segs \in Seq(Segment) /\ at \in 1 .. Len(segs) /\ segs[at] = joined
        /\ Others(segs, {at}) = Others(s, {i, j})
    <3> HIDE DEF s
    <3>1. s \in Seq(Segment) /\ i \in 1 .. Len(s) /\ j \in 1 .. Len(s) /\ i # j
      BY <1>1, <1>4
    <3>2. Removed(segs, at, s, i, j, joined)
      BY <3>1, <1>9, <2>1, RemoveReplaced
    <3> QED BY <3>2 DEF Removed
  <2>3. /\ Members(Tracked(Unlinked(t), rec, segs, at).segs)
             = Others(segs, {at}) \cup {Stamp(segs[at])}
        /\ Tracks(Unlinked(t), Tracked(Unlinked(t), rec, segs, at), rec)
    BY <1>1, <2>2, TrackedMembers
  <2>4. ids'[k] = Tracked(Unlinked(t), rec, segs, at) /\ OnlyID(k)
    BY <1>1, <1>10, UpdateOne
  <2>5. /\ Unlinked(t).pubversion = t.pubversion /\ Unlinked(t).earliest = t.earliest
        /\ Unlinked(t).latest = t.latest
    BY <1>1 DEF Unlinked, IDOK, TraceID
  <2>6. /\ Members(ids'[k].segs) = Others(s, {i, j}) \cup {Stamp(joined)}
        /\ Tracks(t, ids'[k], rec)
    BY <2>2, <2>3, <2>4, <2>5 DEF Tracks
  <2> QED BY <2>2, <2>4, <2>6
<1>11. ASSUME ids' = [ids EXCEPT ![k].segs[i] = grown]
       PROVE  /\ OnlyID(k)
              /\ ids'[k] = [t EXCEPT !.segs[i] = grown]
              /\ Members(ids'[k].segs) = Others(s, {i}) \cup {grown}
  <2> DEFINE one == [s EXCEPT ![i] = grown]
  <2>1. ids'[k] = [t EXCEPT !.segs[i] = grown] /\ OnlyID(k)
    <3>1. ids \in [Keys -> TraceID]
      BY DEF IInv, TypeOK
    <3> QED BY <1>1, <1>11, <3>1 DEF OnlyID
  <2>2. ids'[k].segs = one
    BY <1>1, <2>1 DEF IDOK, TraceID
  <2>3. /\ Len(one) = Len(s)
        /\ \A m \in 1 .. Len(s) : one[m] = IF m = i THEN grown ELSE s[m]
    <3> HIDE DEF s
    <3> QED BY <1>1, <1>4, <1>7, LenProperties, ExceptSeq
  <2>4. Members(one) = Others(s, {i}) \cup {grown}
    <3> HIDE DEF one
    <3> QED BY <1>4, <2>3 DEF Members, Others
  <2> QED BY <2>1, <2>2, <2>4
<1> HIDE DEF segs, at, t
<1>12. /\ OnlyID(k)
       /\ \/ /\ ~TypeClash(grown, s[j])
             /\ at \in 1 .. Len(segs) /\ segs \in Seq(Segment)
             /\ ids'[k] = Tracked(Unlinked(t), rec, segs, at)
             /\ Members(ids'[k].segs) = Others(s, {i, j}) \cup {Stamp(joined)}
             /\ Tracks(t, ids'[k], rec)
          \/ /\ TypeClash(grown, s[j])
             /\ ids'[k] = [t EXCEPT !.segs[i] = grown]
             /\ Members(ids'[k].segs) = Others(s, {i}) \cup {grown}
  <2>1. CASE ids' = [ids EXCEPT ![k] = Tracked(Unlinked(t), rec, segs, at)] /\ ~TypeClash(grown, s[j])
    BY <1>10, <2>1
  <2>2. CASE ids' = [ids EXCEPT ![k].segs[i] = grown] /\ TypeClash(grown, s[j])
    BY <1>11, <2>2
  <2> QED BY <1>3, <2>1, <2>2
<1> HIDE DEF s, p
<1> QED BY <1>2, <1>3, <1>4, <1>5, <1>6, <1>12, Zenon DEF i, j, grown, s, p, t, segs, at, joined

-----------------------------------------------------------------------------
(* Properties of single segments.                                          *)

(* G[k] holds the segments that are right for key k.  What rec makes of    *)
(* right segments is right again.                                          *)
Closed(G, rec) ==
  /\ Msr2Seg(rec) \in G[KeyOf(rec)]
  /\ \A k \in Matching(rec) : Msr2Seg(rec) \in G[k]
  /\ \A k \in Matching(rec) : \A s \in G[k] :
       s \in Segment /\ ~TypeClash(s, rec) =>
         /\ FitsAfter(rec, s) => AddMsrToEnd(s, rec) \in G[k]
         /\ FitsBefore(rec, s) => AddMsrToStart(s, rec) \in G[k]
  /\ \A k \in Matching(rec) : \A s1, s2 \in G[k] :
       /\ s1 \in Segment /\ s2 \in Segment
       /\ FitsAfter(rec, s1) /\ FitsBefore(rec, s2)
       /\ ~TypeClash(s1, rec) /\ ~TypeClash(AddMsrToEnd(s1, rec), s2)
       => AddSegToSeg(AddMsrToEnd(s1, rec), s2) \in G[k]
  /\ \A k \in Keys : \A s \in G[k] : s \in Segment => Stamp(s) \in G[k]

AllIn(G) == \A k \in Keys : Members(ids[k].segs) \subseteq G[k]

(* Then adding rec leaves only right segments, in whatever way it is done. *)
LEMMA ClosedStep ==
  ASSUME IInv, NEW rec \in Records, AddMsr(rec), NEW G, Closed(G, rec), AllIn(G)
  PROVE  AllIn(G)'
<1>1. \A k \in Keys : ids[k].segs \in Seq(Segment)
  BY IInvByID DEF IDOK, TraceID
<1>2. \A k \in Keys : \A i \in 1 .. Len(ids[k].segs) :
        ids[k].segs[i] \in Segment /\ ids[k].segs[i] \in G[k]
  <2> SUFFICES ASSUME NEW k \in Keys, NEW i \in 1 .. Len(ids[k].segs)
               PROVE  ids[k].segs[i] \in Segment /\ ids[k].segs[i] \in G[k]
    OBVIOUS
  <2>1. ids[k].segs[i] \in Members(ids[k].segs)
    BY DEF Members
  <2> QED BY <1>1, <2>1, ElementOfSeq DEF AllIn
<1>3. \A k \in Keys : \A X : Others(ids[k].segs, X) \subseteq G[k]
  BY <1>2 DEF Others
<1>4. ASSUME NEW k \in Keys, OnlyID(k), Members(ids'[k].segs) \subseteq G[k]
      PROVE  AllIn(G)'
  <2> SUFFICES ASSUME NEW l \in Keys PROVE Members(ids'[l].segs) \subseteq G[l]
    BY DEF AllIn, Members
  <2>1. CASE l = k
    BY <2>1, <1>4
  <2>2. CASE l # k
    BY <2>2, <1>4 DEF OnlyID, AllIn
  <2> QED BY <2>1, <2>2
<1>5. now \in Nat /\ Msr2Seg(rec) \in Segment
  <2>1. rec \in RecordType /\ EndTime(rec) \in Int /\ RecordPtrs(rec) \in Seq(Records)
    BY RecordFields
  <2>2. Msr2Seg(rec) \in Segment
    BY <2>1 DEF RecordType, Msr2Seg, Segment
  <2> QED BY <2>2 DEF IInv, TypeOK
<1>6. CASE AddID(rec)
  <2>1. /\ KeyOf(rec) \in Keys /\ OnlyID(KeyOf(rec))
        /\ Members(ids'[KeyOf(rec)].segs) = {Stamp(Msr2Seg(rec))}
    BY <1>6, AddIDLeaves
  <2>2. Stamp(Msr2Seg(rec)) \in G[KeyOf(rec)]
    BY <2>1, <1>5 DEF Closed
  <2> QED BY <2>1, <2>2, <1>4
<1>7. ASSUME NEW k \in Matching(rec),
             AddToSegment(k, rec) \/ MergeSegments(k, rec) \/ AddSegment(k, rec) \/ RejectMsr(k, rec)
      PROVE  AllIn(G)'
  <2>1. k \in Keys
    BY DEF Matching, FindID
  <2> DEFINE seg == SegPut(k, rec)
             nxt == ids[k].segs[Joins(k, rec)]
  <2>2. CASE AddToSegment(k, rec)
    <3>1. /\ PutAt(k, rec) \in 1 .. Len(ids[k].segs)
          /\ \/ FitsAfter(rec, seg) /\ Grown(k, rec) = AddMsrToEnd(seg, rec)
             \/ FitsBefore(rec, seg) /\ Grown(k, rec) = AddMsrToStart(seg, rec)
          /\ ~TypeClash(seg, rec) /\ OnlyID(k)
          /\ Members(ids'[k].segs) = Others(ids[k].segs, {PutAt(k, rec)}) \cup {Stamp(Grown(k, rec))}
      BY <2>2, AddToSegmentLeaves
    <3>2. seg \in Segment /\ seg \in G[k]
      BY <3>1, <2>1, <1>2 DEF SegPut
    <3> HIDE DEF seg
    <3>3. Grown(k, rec) \in Segment
      BY <3>1, <3>2, SegmentFields
    <3>4. Grown(k, rec) \in G[k]
      BY <3>1, <3>2 DEF Closed
    <3>5. Stamp(Grown(k, rec)) \in G[k]
      BY <3>3, <3>4, <2>1 DEF Closed
    <3> QED BY <3>1, <3>5, <2>1, <1>3, <1>4
  <2>3. CASE MergeSegments(k, rec)
    <3>1. /\ PutAt(k, rec) \in 1 .. Len(ids[k].segs) /\ Joins(k, rec) \in 1 .. Len(ids[k].segs)
          /\ FitsAfter(rec, seg) /\ FitsBefore(rec, nxt)
          /\ ~TypeClash(seg, rec) /\ OnlyID(k)
          /\ \/ /\ ~TypeClash(AddMsrToEnd(seg, rec), nxt)
                /\ Members(ids'[k].segs) = Others(ids[k].segs, {PutAt(k, rec), Joins(k, rec)})
                                             \cup {Stamp(Joined(k, rec))}
             \/ Members(ids'[k].segs) = Others(ids[k].segs, {PutAt(k, rec)})
                                          \cup {AddMsrToEnd(seg, rec)}
      BY <2>3, MergeLeaves
    <3>2. seg \in Segment /\ seg \in G[k] /\ nxt \in Segment /\ nxt \in G[k]
      BY <3>1, <2>1, <1>2 DEF SegPut
    <3>3. Joined(k, rec) = AddSegToSeg(AddMsrToEnd(seg, rec), nxt)
      BY DEF Joined
    <3> HIDE DEF seg, nxt
    <3>4. AddMsrToEnd(seg, rec) \in Segment /\ AddMsrToEnd(seg, rec) \in G[k]
      BY <3>1, <3>2, SegmentFields DEF Closed
    <3>5. Joined(k, rec) \in Segment
      BY <3>2, <3>3, <3>4, MergedFields
    <3>6. CASE ~TypeClash(AddMsrToEnd(seg, rec), nxt)
               /\ Members(ids'[k].segs) = Others(ids[k].segs, {PutAt(k, rec), Joins(k, rec)})
                                            \cup {Stamp(Joined(k, rec))}
      <4>1. Joined(k, rec) \in G[k]
        BY <3>1, <3>2, <3>3, <3>6 DEF Closed
      <4>2. Stamp(Joined(k, rec)) \in G[k]
        BY <4>1, <3>5, <2>1 DEF Closed
      <4> QED BY <3>1, <3>6, <4>2, <2>1, <1>3, <1>4
    <3>7. CASE Members(ids'[k].segs) = Others(ids[k].segs, {PutAt(k, rec)}) \cup {AddMsrToEnd(seg, rec)}
      BY <3>1, <3>4, <3>7, <2>1, <1>3, <1>4
    <3> QED BY <3>1, <3>6, <3>7
  <2>4. CASE AddSegment(k, rec)
    <3>1. /\ OnlyID(k)
          /\ Members(ids'[k].segs) = Members(ids[k].segs) \cup {Stamp(Msr2Seg(rec))}
      BY <2>4, AddSegmentLeaves
    <3>2. Stamp(Msr2Seg(rec)) \in G[k]
      BY <2>1, <1>5 DEF Closed
    <3>3. Members(ids[k].segs) \subseteq G[k]
      BY <2>1 DEF AllIn
    <3> QED BY <3>1, <3>2, <3>3, <2>1, <1>4
  <2>5. CASE RejectMsr(k, rec)
    BY <2>5 DEF RejectMsr, listVars, AllIn, Members
  <2> QED BY <1>7, <2>2, <2>3, <2>4, <2>5
<1> QED BY <1>6, <1>7 DEF AddMsr

(* The list is empty at the start. *)
LEMMA ClosedInit ==
  ASSUME Init, NEW G
  PROVE  AllIn(G)
BY DEF Init, AllIn, Members, NoTraceID

(* A step that is not an addition changes nothing. *)
LEMMA StepAdds ==
  ASSUME [Next]_vars
  PROVE  UNCHANGED listVars \/ \E rec \in Records : AddMsr(rec)
BY DEF Next, vars, listVars

(* The fields of a segment made from a record and others. *)
LEMMA MadeFields ==
  ASSUME NEW rec \in Records, NEW seg \in Segment, NEW nxt \in Segment, now \in Nat
  PROVE  /\ Msr2Seg(rec) \in Segment
         /\ AddMsrToEnd(seg, rec) \in Segment /\ AddMsrToStart(seg, rec) \in Segment
         /\ AddSegToSeg(AddMsrToEnd(seg, rec), nxt) \in Segment
         /\ Stamp(seg) \in Segment
BY SegmentFields, MergedFields, StampFields

(* The elements of two sequences put together. *)
LEMMA RangeConcat ==
  ASSUME NEW S, NEW a \in Seq(S), NEW b \in Seq(S), NEW x \in Range(a \o b)
  PROVE  x \in Range(a) \/ x \in Range(b)
<1>1. PICK i \in 1 .. Len(a) + Len(b) : x = (a \o b)[i]
  BY DEF Range
<1>2. CASE i <= Len(a)
  <2>1. x = a[i] /\ i \in DOMAIN a
    BY <1>1, <1>2
  <2> QED BY <2>1 DEF Range
<1>3. CASE ~(i <= Len(a))
  <2>1. x = b[i - Len(a)] /\ i - Len(a) \in DOMAIN b
    BY <1>1, <1>3
  <2> QED BY <2>1 DEF Range
<1> QED BY <1>2, <1>3

LEMMA RangePtrs ==
  ASSUME NEW rec \in Records, NEW x \in Range(RecordPtrs(rec))
  PROVE  x = rec
BY DEF Range, RecordPtrs

(* What is true of every record of a segment stays true of every record    *)
(* of the segments made from it.                                           *)
LEMMA MadeOfRecords ==
  ASSUME NEW R, NEW rec \in Records, rec \in R, NEW seg \in Segment, NEW nxt \in Segment
  PROVE  /\ Range(Msr2Seg(rec).recordlist) \subseteq R
         /\ Range(seg.recordlist) \subseteq R =>
              /\ Range(AddMsrToEnd(seg, rec).recordlist) \subseteq R
              /\ Range(AddMsrToStart(seg, rec).recordlist) \subseteq R
              /\ Range(Stamp(seg).recordlist) \subseteq R
         /\ Range(seg.recordlist) \subseteq R /\ Range(nxt.recordlist) \subseteq R =>
              Range(AddSegToSeg(seg, nxt).recordlist) \subseteq R
<1>1. /\ seg.recordlist \in Seq(Records) /\ nxt.recordlist \in Seq(Records)
      /\ RecordPtrs(rec) \in Seq(Records)
  BY RecordFields DEF Segment
<1>2. /\ Msr2Seg(rec).recordlist = RecordPtrs(rec)
      /\ AddMsrToEnd(seg, rec).recordlist = seg.recordlist \o RecordPtrs(rec)
      /\ AddMsrToStart(seg, rec).recordlist = RecordPtrs(rec) \o seg.recordlist
      /\ Stamp(seg).recordlist = seg.recordlist
      /\ AddSegToSeg(seg, nxt).recordlist = seg.recordlist \o nxt.recordlist
  BY DEF Msr2Seg, AddMsrToEnd, AddMsrToStart, Stamp, AddSegToSeg, Segment
<1>3. Range(RecordPtrs(rec)) \subseteq R
  BY RangePtrs
<1> DEFINE a == seg.recordlist
           b == nxt.recordlist
           c == RecordPtrs(rec)
<1> HIDE DEF a, b, c
<1>4. /\ Range(a) \subseteq R => Range(a \o c) \subseteq R /\ Range(c \o a) \subseteq R
      /\ Range(a) \subseteq R /\ Range(b) \subseteq R => Range(a \o b) \subseteq R
  <2>1. a \in Seq(Records) /\ b \in Seq(Records) /\ c \in Seq(Records) /\ Range(c) \subseteq R
    BY <1>1, <1>3 DEF a, b, c
  <2> QED BY <2>1, RangeConcat
<1> QED BY <1>2, <1>3, <1>4 DEF a, b, c

-----------------------------------------------------------------------------
(* Rates.                                                                  *)

(* Segments whose records all have the segment's rate, for every key. *)
SameRate == [k \in Keys |-> {s \in Segment : Range(s.recordlist) \subseteq {r \in Records : r.rate = s.rate}}]

(* Only the rate of the segment matters for SameRate. *)
LEMMA SameRateClosed ==
  ASSUME UserRateTol = 0, now \in Nat, NEW rec \in Records
  PROVE  Closed(SameRate, rec)
<1> DEFINE R(rate) == {r \in Records : r.rate = rate}
           Good == {s \in Segment : Range(s.recordlist) \subseteq R(s.rate)}
<1>1. KeyOf(rec) \in Keys /\ Matching(rec) \subseteq Keys
  BY RecordFields DEF Matching, FindID
<1>2. \A k \in Keys : SameRate[k] = Good
  BY DEF SameRate
<1>3. \A s : FitsAfter(rec, s) \/ FitsBefore(rec, s) => rec.rate = s.rate
  BY DEF FitsAfter, FitsBefore, IsSampRateSimilar
<1>4. rec \in R(rec.rate)
  OBVIOUS
<1>5. \A s \in Segment : /\ AddMsrToEnd(s, rec).rate = s.rate
                         /\ AddMsrToStart(s, rec).rate = s.rate
                         /\ Stamp(s).rate = s.rate
                         /\ Msr2Seg(rec).rate = rec.rate
  BY DEF AddMsrToEnd, AddMsrToStart, Stamp, Msr2Seg, Segment
<1>6. \A s1, s2 \in Segment : AddSegToSeg(s1, s2).rate = s1.rate
  BY DEF AddSegToSeg, Segment
<1>7. Msr2Seg(rec) \in Segment /\ Msr2Seg(rec).rate = rec.rate
  <2>1. rec \in RecordType /\ EndTime(rec) \in Int /\ RecordPtrs(rec) \in Seq(Records)
    BY RecordFields
  <2> QED BY <2>1 DEF RecordType, Msr2Seg, Segment
<1>8. Msr2Seg(rec) \in Good
  <2>1. Range(Msr2Seg(rec).recordlist) \subseteq R(rec.rate)
    <3> HIDE DEF R
    <3> QED BY <1>4, <1>7, MadeOfRecords
  <2> QED BY <1>7, <2>1
<1>9. ASSUME NEW s \in Good, rec.rate = s.rate
      PROVE  AddMsrToEnd(s, rec) \in Good /\ AddMsrToStart(s, rec) \in Good
  <2>1. Range(s.recordlist) \subseteq R(s.rate) /\ rec \in R(s.rate) /\ s \in Segment
    BY <1>9
  <2> HIDE DEF R
  <2>2. /\ Range(AddMsrToEnd(s, rec).recordlist) \subseteq R(s.rate)
        /\ Range(AddMsrToStart(s, rec).recordlist) \subseteq R(s.rate)
    BY <2>1, MadeOfRecords
  <2> QED BY <2>1, <2>2, <1>5, MadeFields
<1>10. ASSUME NEW s1 \in Good, NEW s2 \in Good, s1.rate = s2.rate
       PROVE  AddSegToSeg(s1, s2) \in Good
  <2>1. /\ Range(s1.recordlist) \subseteq R(s1.rate) /\ Range(s2.recordlist) \subseteq R(s1.rate)
        /\ s1 \in Segment /\ s2 \in Segment
    BY <1>10
  <2>2. AddSegToSeg(s1, s2).recordlist = s1.recordlist \o s2.recordlist
    BY <2>1 DEF AddSegToSeg, Segment
  <2>3. s1.recordlist \in Seq(Records) /\ s2.recordlist \in Seq(Records)
    BY <2>1 DEF Segment
  <2> HIDE DEF R
  <2>4. Range(AddSegToSeg(s1, s2).recordlist) \subseteq R(s1.rate)
    BY <2>1, <2>2, <2>3, RangeConcat
  <2> QED BY <2>1, <2>4, <1>6, MergedFields
<1>11. ASSUME NEW s \in Good PROVE Stamp(s) \in Good
  <2>1. Stamp(s).recordlist = s.recordlist /\ s \in Segment
    BY DEF Stamp, Segment
  <2> QED BY <2>1, <1>5, StampFields
<1>12. ASSUME NEW s1 \in Good, NEW s2 \in Good, FitsAfter(rec, s1), FitsBefore(rec, s2)
       PROVE  AddSegToSeg(AddMsrToEnd(s1, rec), s2) \in Good
  <2>1. rec.rate = s1.rate /\ rec.rate = s2.rate
    BY <1>12, <1>3
  <2>2. AddMsrToEnd(s1, rec) \in Good /\ AddMsrToEnd(s1, rec).rate = s1.rate
    BY <2>1, <1>9, <1>5
  <2> HIDE DEF Good
  <2> QED BY <2>1, <2>2, <1>10
<1> HIDE DEF Good
<1> QED BY <1>1, <1>2, <1>3, <1>8, <1>9, <1>11, <1>12 DEF Closed

(* With the default rate tolerance every record of a segment has the rate  *)
(* of the segment, however the segments were extended and merged: the      *)
(* sample times computed from a segment are those of its records.  A rate  *)
(* tolerance of the caller is the case where the code gets this wrong.     *)
THEOREM RatesAgree ==
  ASSUME UserRateTol = 0
  PROVE  Spec => []RatesWithinTolerance
<1>1. Init => AllIn(SameRate)
  BY ClosedInit
<1>2. IInv /\ AllIn(SameRate) /\ [Next]_vars => AllIn(SameRate)'
  <2> SUFFICES ASSUME IInv, AllIn(SameRate), [Next]_vars PROVE AllIn(SameRate)'
    OBVIOUS
  <2>1. CASE UNCHANGED listVars
    BY <2>1 DEF listVars, AllIn, Members
  <2>2. ASSUME NEW rec \in Records, AddMsr(rec) PROVE AllIn(SameRate)'
    BY <2>2, SameRateClosed, ClosedStep DEF IInv, TypeOK
  <2> QED BY <2>1, <2>2, StepAdds
<1>3. IInv /\ AllIn(SameRate) => RatesWithinTolerance
  <2> SUFFICES ASSUME IInv, AllIn(SameRate), NEW k \in Keys, NEW i \in 1 .. Len(ids[k].segs),
                      NEW rec \in Range(ids[k].segs[i].recordlist)
               PROVE  RateDistance(rec.rate, ids[k].segs[i].rate) <= UserRateTol
    BY DEF RatesWithinTolerance
  <2>1. ids[k].segs[i] \in SameRate[k]
    BY DEF AllIn, Members
  <2>2. rec.rate = ids[k].segs[i].rate /\ rec \in Records
    BY <2>1 DEF SameRate
  <2>3. rec.rate \in Nat
    BY <2>2, RecordFields DEF RecordType
  <2> QED BY <2>2, <2>3 DEF RateDistance
<1> QED BY <1>1, <1>2, <1>3, Invariance, PTL DEF Spec

-----------------------------------------------------------------------------
(* Publication versions.                                                   *)

(* Segments whose records have the version of the key. *)
SameVersion ==
  [k \in Keys |-> {s \in Segment : Range(s.recordlist) \subseteq
                                     {r \in Records : r.pubversion \in {0, k[2]}}}]

(* The int8_t comes back as the version it was made from. *)
LEMMA VersionBack ==
  ASSUME NEW v \in Version
  PROVE  /\ ToUint8(ToInt8(v)) = v /\ ToInt8(v) <= v
         /\ v < 128 => ToInt8(v) = v
         /\ ToInt8(v) = 0 <=> v = 0
BY DEF Version, ToUint8, ToInt8

(* With splitversion a matching ID has the record's version. *)
LEMMA MatchingVersion ==
  ASSUME SplitVersion # 0, ~SplitIsVersion, NEW rec \in Records,
         \A k \in Keys : InList(k) => ids[k].pubversion = k[2]
  PROVE  /\ rec.pubversion \in Version /\ PubVersion(rec) = ToInt8(rec.pubversion)
         /\ KeyOf(rec)[2] = rec.pubversion
         /\ \A k \in Matching(rec) : rec.pubversion \in {0, k[2]}
<1>1. rec.pubversion \in Version
  BY RecordFields DEF RecordType
<1>2. PubVersion(rec) = ToInt8(rec.pubversion)
  BY DEF PubVersion
<1>3. ToUint8(PubVersion(rec)) = rec.pubversion
  BY <1>1, <1>2, VersionBack
<1> QED BY <1>1, <1>2, <1>3 DEF KeyOf, Matching, FindID

LEMMA SameVersionClosed ==
  ASSUME SplitVersion # 0, ~SplitIsVersion, now \in Nat, NEW rec \in Records,
         \A k \in Keys : InList(k) => ids[k].pubversion = k[2]
  PROVE  Closed(SameVersion, rec)
<1> DEFINE R(k) == {r \in Records : r.pubversion \in {0, k[2]}}
           Good(k) == {s \in Segment : Range(s.recordlist) \subseteq R(k)}
<1>1. KeyOf(rec) \in Keys /\ Matching(rec) \subseteq Keys
  BY RecordFields DEF Matching, FindID
<1>2. \A k \in Keys : SameVersion[k] = Good(k)
  BY DEF SameVersion
<1>3. /\ rec \in R(KeyOf(rec))
      /\ \A k \in Matching(rec) : rec \in R(k)
  BY MatchingVersion
<1>4. Msr2Seg(rec) \in Segment
  <2>1. rec \in RecordType /\ EndTime(rec) \in Int /\ RecordPtrs(rec) \in Seq(Records)
    BY RecordFields
  <2> QED BY <2>1 DEF RecordType, Msr2Seg, Segment
<1> HIDE DEF R
<1>5. ASSUME NEW k, rec \in R(k) PROVE Msr2Seg(rec) \in Good(k)
  BY <1>4, <1>5, MadeOfRecords
<1>6. ASSUME NEW k, rec \in R(k), NEW s \in Good(k)
      PROVE  AddMsrToEnd(s, rec) \in Good(k) /\ AddMsrToStart(s, rec) \in Good(k)
  BY <1>6, MadeOfRecords, MadeFields
<1>7. ASSUME NEW k, rec \in R(k), NEW s1 \in Good(k), NEW s2 \in Good(k)
      PROVE  AddSegToSeg(s1, s2) \in Good(k)
  BY <1>7, MadeOfRecords, MergedFields
<1>8. ASSUME NEW k, NEW s \in Good(k) PROVE Stamp(s) \in Good(k)
  <2>1. Stamp(s).recordlist = s.recordlist /\ s \in Segment
    BY DEF Stamp, Segment
  <2> QED BY <2>1, StampFields
<1> HIDE DEF Good
<1>9. ASSUME NEW k, rec \in R(k), NEW s1 \in Good(k), NEW s2 \in Good(k)
      PROVE  AddSegToSeg(AddMsrToEnd(s1, rec), s2) \in Good(k)
  BY <1>6, <1>7, <1>9
<1> QED BY <1>1, <1>2, <1>3, <1>5, <1>6, <1>8, <1>9 DEF Closed

(* The half-failed merge: the record is stored, nothing is tracked. *)
HalfMerged(k, rec) ==
  MergeSegments(k, rec) /\ TypeClash(AddMsrToEnd(SegPut(k, rec), rec), ids[k].segs[Joins(k, rec)])

(* What an addition to an existing trace ID does to its fields. *)
LEMMA StepTracks ==
  ASSUME IInv, NEW rec \in Records, NEW k \in Matching(rec),
         AddToSegment(k, rec) \/ MergeSegments(k, rec) \/ AddSegment(k, rec)
  PROVE  /\ k \in Keys /\ OnlyID(k) /\ Stored(rec) /\ ids'[k].segs # <<>>
         /\ \/ Tracks(ids[k], ids'[k], rec)
            \/ /\ HalfMerged(k, rec)
               /\ ids'[k].pubversion = ids[k].pubversion
               /\ ids'[k].earliest = ids[k].earliest
               /\ ids'[k].latest = ids[k].latest
<1>0. k \in Keys /\ ids[k] \in TraceID
  BY IInvByID DEF Matching, FindID, IDOK
<1>1. \A s : s = <<>> => Members(s) = {}
  BY DEF Members
<1>2. CASE AddToSegment(k, rec)
  <2>1. /\ OnlyID(k) /\ Stored(rec) /\ Tracks(ids[k], ids'[k], rec)
        /\ Members(ids'[k].segs) = Others(ids[k].segs, {PutAt(k, rec)}) \cup {Stamp(Grown(k, rec))}
    BY <1>2, AddToSegmentLeaves
  <2> QED BY <2>1, <1>0, <1>1
<1>3. CASE AddSegment(k, rec)
  <2>1. /\ OnlyID(k) /\ Stored(rec) /\ Tracks(ids[k], ids'[k], rec)
        /\ Members(ids'[k].segs) = Members(ids[k].segs) \cup {Stamp(Msr2Seg(rec))}
    BY <1>3, AddSegmentLeaves
  <2> QED BY <2>1, <1>0, <1>1
<1>4. CASE MergeSegments(k, rec)
  <2> DEFINE g == AddMsrToEnd(SegPut(k, rec), rec)
             nxt == ids[k].segs[Joins(k, rec)]
  <2>1. /\ OnlyID(k) /\ Stored(rec)
        /\ \/ /\ Tracks(ids[k], ids'[k], rec)
              /\ Members(ids'[k].segs) = Others(ids[k].segs, {PutAt(k, rec), Joins(k, rec)})
                                           \cup {Stamp(Joined(k, rec))}
           \/ /\ TypeClash(g, nxt)
              /\ ids'[k] = [ids[k] EXCEPT !.segs[PutAt(k, rec)] = g]
              /\ Members(ids'[k].segs) = Others(ids[k].segs, {PutAt(k, rec)}) \cup {g}
    BY <1>4, MergeLeaves
  <2>2. ids'[k].segs # <<>>
    BY <2>1, <1>1
  <2>3. TypeClash(g, nxt) => HalfMerged(k, rec)
    BY <1>4 DEF HalfMerged
  <2> HIDE DEF g, nxt
  <2>4. CASE Tracks(ids[k], ids'[k], rec)
    BY <2>1, <2>2, <2>4, <1>0
  <2>5. CASE TypeClash(g, nxt) /\ ids'[k] = [ids[k] EXCEPT !.segs[PutAt(k, rec)] = g]
    BY <2>1, <2>2, <2>3, <2>5, <1>0 DEF TraceID
  <2> QED BY <2>1, <2>4, <2>5
<1> QED BY <1>2, <1>3, <1>4

(* With splitversion, the version of an ID is the one it was created with, *)
(* and its records have it.                                                *)
VersionInv ==
  (SplitVersion # 0 /\ ~SplitIsVersion) =>
    /\ AllIn(SameVersion)
    /\ \A k \in Keys : InList(k) => ids[k].pubversion = k[2]

(* An addition leaves every ID with the version of its key. *)
LEMMA KeyVersionStep ==
  ASSUME IInv, SplitVersion # 0, ~SplitIsVersion, NEW rec \in Records, AddMsr(rec),
         \A k \in Keys : InList(k) => ids[k].pubversion = k[2],
         NEW l \in Keys, ids'[l].segs # <<>>
  PROVE  ids'[l].pubversion = l[2]
<1>1. /\ rec.pubversion \in Version /\ PubVersion(rec) = ToInt8(rec.pubversion)
      /\ KeyOf(rec)[2] = rec.pubversion
      /\ \A k \in Matching(rec) : rec.pubversion \in {0, k[2]}
  BY MatchingVersion
<1>2. ASSUME NEW k \in Keys, OnlyID(k), ids'[k].pubversion = k[2]
      PROVE  ids'[l].pubversion = l[2]
  <2>1. CASE l = k
    BY <2>1, <1>2
  <2>2. CASE l # k
    BY <2>2, <1>2 DEF OnlyID, InList
  <2> QED BY <2>1, <2>2
<1>3. CASE AddID(rec)
  <2>1. /\ KeyOf(rec) \in Keys /\ OnlyID(KeyOf(rec))
        /\ ids'[KeyOf(rec)].pubversion = ToUint8(PubVersion(rec))
    BY <1>3, AddIDLeaves
  <2>2. ids'[KeyOf(rec)].pubversion = KeyOf(rec)[2]
    BY <2>1 DEF KeyOf
  <2> QED BY <2>1, <2>2, <1>2
<1>4. ASSUME NEW k \in Matching(rec), AddToSegment(k, rec) \/ MergeSegments(k, rec) \/ AddSegment(k, rec)
      PROVE  ids'[l].pubversion = l[2]
  <2>1. /\ k \in Keys /\ OnlyID(k)
        /\ \/ ids'[k].pubversion = Greater(PubVersion(rec), ids[k].pubversion)
           \/ ids'[k].pubversion = ids[k].pubversion
    BY <1>4, StepTracks DEF Tracks
  <2>2. ids[k].pubversion = k[2]
    BY <2>1 DEF Matching, FindID
  <2>3. ids[k].pubversion \in Version
    BY <2>1 DEF IInv, TypeOK, TraceID
  <2>4. Greater(PubVersion(rec), ids[k].pubversion) = ids[k].pubversion
    <3>1. rec.pubversion \in {0, ids[k].pubversion}
      BY <2>2, <1>1
    <3>2. \A v, w \in Version : v \in {0, w} => Greater(ToInt8(v), w) = w
      BY DEF Version, ToInt8, Greater
    <3> QED BY <3>1, <3>2, <2>3, <1>1
  <2> QED BY <2>1, <2>2, <2>4, <1>2
<1>5. ASSUME NEW k \in Matching(rec), RejectMsr(k, rec)
      PROVE  ids'[l].pubversion = l[2]
  BY <1>5 DEF RejectMsr, listVars, InList
<1> QED BY <1>3, <1>4, <1>5 DEF AddMsr

(* mstl3_addmsr() with splitversion keeps every version other than 0 in a  *)
(* trace ID of its own, also those that are negative as an int8_t.         *)
THEOREM VersionsKeptApart == Spec => []VersionsSeparate
<1>1. Init => VersionInv
  <2> SUFFICES ASSUME Init PROVE VersionInv
    OBVIOUS
  <2>1. AllIn(SameVersion)
    BY ClosedInit
  <2>2. \A k \in Keys : ~InList(k)
    BY DEF Init, InList, NoTraceID
  <2> QED BY <2>1, <2>2 DEF VersionInv
<1>2. IInv /\ VersionInv /\ [Next]_vars => VersionInv'
  <2> SUFFICES ASSUME IInv, VersionInv, [Next]_vars, SplitVersion # 0, ~SplitIsVersion
               PROVE  /\ AllIn(SameVersion)'
                      /\ \A k \in Keys : ids'[k].segs # <<>> => ids'[k].pubversion = k[2]
    BY DEF VersionInv, InList
  <2>1. CASE UNCHANGED listVars
    BY <2>1 DEF listVars, VersionInv, AllIn, Members, InList
  <2>2. ASSUME NEW rec \in Records, AddMsr(rec)
        PROVE  /\ AllIn(SameVersion)'
               /\ \A k \in Keys : ids'[k].segs # <<>> => ids'[k].pubversion = k[2]
    <3>1. AllIn(SameVersion) /\ \A k \in Keys : InList(k) => ids[k].pubversion = k[2]
      BY DEF VersionInv
    <3>2. Closed(SameVersion, rec)
      BY <3>1, SameVersionClosed DEF IInv, TypeOK
    <3>3. AllIn(SameVersion)'
      BY <2>2, <3>1, <3>2, ClosedStep
    <3>4. \A k \in Keys : ids'[k].segs # <<>> => ids'[k].pubversion = k[2]
      BY <2>2, <3>1, KeyVersionStep
    <3> QED BY <3>3, <3>4
  <2> QED BY <2>1, <2>2, StepAdds
<1>3. IInv /\ VersionInv => VersionsSeparate
  <2> SUFFICES ASSUME IInv, VersionInv, SplitVersion # 0, ~SplitIsVersion,
                      NEW k \in Keys, NEW i \in 1 .. Len(ids[k].segs),
                      NEW rec \in Range(ids[k].segs[i].recordlist)
               PROVE  rec.pubversion \in {0, ids[k].pubversion}
    BY DEF VersionsSeparate
  <2>1. ids[k].segs[i] \in SameVersion[k]
    BY DEF VersionInv, AllIn, Members
  <2>2. rec.pubversion \in {0, k[2]}
    BY <2>1 DEF SameVersion
  <2>3. InList(k)
    BY DEF InList
  <2> QED BY <2>2, <2>3 DEF VersionInv
<1> QED BY <1>1, <1>2, <1>3, Invariance, PTL DEF Spec

-----------------------------------------------------------------------------
(* Merges that cannot fail half way.                                       *)

(* No healing, or the decoded records have the sample type of all others:  *)
(* then no two segments to be merged differ in sample type.                *)
WholeMerges ==
  AutoHeal => \A r1, r2 \in Records : r1.data # <<>> => r2.type = r1.type

(* A segment has the type of a record, and samples only if a record does. *)
RecordTypes ==
  [k \in Keys |-> {s \in Segment : /\ \E r \in Records : s.type = r.type
                                   /\ s.data # <<>> => \E r \in Records : r.data # <<>>}]

LEMMA RecordTypesClosed ==
  ASSUME now \in Nat, NEW rec \in Records
  PROVE  Closed(RecordTypes, rec)
<1> DEFINE Good == {s \in Segment : /\ \E r \in Records : s.type = r.type
                                    /\ s.data # <<>> => \E r \in Records : r.data # <<>>}
<1>1. KeyOf(rec) \in Keys /\ Matching(rec) \subseteq Keys
  BY RecordFields DEF Matching, FindID
<1>2. \A k \in Keys : RecordTypes[k] = Good
  BY DEF RecordTypes
<1>3. Msr2Seg(rec) \in Good
  <2>1. rec \in RecordType /\ EndTime(rec) \in Int /\ RecordPtrs(rec) \in Seq(Records)
    BY RecordFields
  <2>2. Msr2Seg(rec) \in Segment /\ Msr2Seg(rec).type = rec.type /\ Msr2Seg(rec).data = rec.data
    BY <2>1 DEF RecordType, Msr2Seg, Segment
  <2> QED BY <2>2
<1>4. \A a, b \in Seq(Int) : a \o b # <<>> => a # <<>> \/ b # <<>>
  <2> SUFFICES ASSUME NEW a \in Seq(Int), NEW b \in Seq(Int), a = <<>>, b = <<>>
               PROVE  a \o b = <<>>
    OBVIOUS
  <2>1. a \o b \in Seq(Int) /\ Len(a \o b) = 0
    OBVIOUS
  <2> QED BY <2>1, EmptySeq
<1>5. rec.data \in Seq(Int)
  BY RecordFields DEF RecordType
<1>6. ASSUME NEW s \in Good
      PROVE  /\ AddMsrToEnd(s, rec) \in Good /\ AddMsrToStart(s, rec) \in Good
             /\ Stamp(s) \in Good
  <2>1. s \in Segment /\ s.data \in Seq(Int)
    BY DEF Segment
  <2>2. /\ AddMsrToEnd(s, rec).type = s.type /\ AddMsrToEnd(s, rec).data = s.data \o rec.data
        /\ AddMsrToStart(s, rec).type = s.type /\ AddMsrToStart(s, rec).data = rec.data \o s.data
        /\ Stamp(s).type = s.type /\ Stamp(s).data = s.data
    BY <2>1 DEF AddMsrToEnd, AddMsrToStart, Stamp, Segment
  <2>3. /\ AddMsrToEnd(s, rec) \in Segment /\ AddMsrToStart(s, rec) \in Segment
        /\ Stamp(s) \in Segment
    BY <2>1, MadeFields
  <2>4. /\ s.data \o rec.data # <<>> => \E r \in Records : r.data # <<>>
        /\ rec.data \o s.data # <<>> => \E r \in Records : r.data # <<>>
    BY <2>1, <1>4, <1>5
  <2> QED BY <2>2, <2>3, <2>4
<1>7. ASSUME NEW s1 \in Good, NEW s2 \in Good PROVE AddSegToSeg(s1, s2) \in Good
  <2>1. s1 \in Segment /\ s1.data \in Seq(Int) /\ s2 \in Segment /\ s2.data \in Seq(Int)
    BY DEF Segment
  <2>2. AddSegToSeg(s1, s2).type = s1.type /\ AddSegToSeg(s1, s2).data = s1.data \o s2.data
    BY <2>1 DEF AddSegToSeg, Segment
  <2>3. AddSegToSeg(s1, s2) \in Segment
    BY <2>1, MergedFields
  <2>4. s1.data \o s2.data # <<>> => \E r \in Records : r.data # <<>>
    BY <2>1, <1>4
  <2> QED BY <2>2, <2>3, <2>4
<1> HIDE DEF Good
<1>8. ASSUME NEW s1 \in Good, NEW s2 \in Good
      PROVE  AddSegToSeg(AddMsrToEnd(s1, rec), s2) \in Good
  BY <1>6, <1>7
<1> QED BY <1>1, <1>2, <1>3, <1>6, <1>8 DEF Closed

(* The types of segments, in every reachable list. *)
LEMMA TypesInvariant == Spec => []AllIn(RecordTypes)
<1>1. Init => AllIn(RecordTypes)
  BY ClosedInit
<1>2. IInv /\ AllIn(RecordTypes) /\ [Next]_vars => AllIn(RecordTypes)'
  <2> SUFFICES ASSUME IInv, AllIn(RecordTypes), [Next]_vars PROVE AllIn(RecordTypes)'
    OBVIOUS
  <2>1. CASE UNCHANGED listVars
    BY <2>1 DEF listVars, AllIn, Members
  <2>2. ASSUME NEW rec \in Records, AddMsr(rec) PROVE AllIn(RecordTypes)'
    BY <2>2, RecordTypesClosed, ClosedStep DEF IInv, TypeOK
  <2> QED BY <2>1, <2>2, StepAdds
<1> QED BY <1>1, <1>2, Invariance, PTL DEF Spec

LEMMA NeverHalfMerged ==
  ASSUME WholeMerges, IInv, AllIn(RecordTypes), NEW rec \in Records, NEW k \in Matching(rec)
  PROVE  ~HalfMerged(k, rec)
<1> SUFFICES ASSUME HalfMerged(k, rec) PROVE FALSE
  OBVIOUS
<1> DEFINE s == SegPut(k, rec)
           n == ids[k].segs[Joins(k, rec)]
<1>1. MergeSegments(k, rec) /\ TypeClash(AddMsrToEnd(s, rec), n)
  BY DEF HalfMerged
<1>2. /\ PutAt(k, rec) \in 1 .. Len(ids[k].segs) /\ Joins(k, rec) \in 1 .. Len(ids[k].segs)
      /\ s \in Segment /\ n \in Segment /\ AutoHeal
  BY <1>1, MergeLeaves
<1>3. s \in RecordTypes[k] /\ n \in RecordTypes[k] /\ k \in Keys
  BY <1>2 DEF AllIn, Members, SegPut, Matching, FindID
<1> HIDE DEF s, n
<1>4. AddMsrToEnd(s, rec).type = s.type
  BY <1>2 DEF AddMsrToEnd, Segment
<1>5. n.data # <<>> /\ n.type # s.type
  BY <1>1, <1>4 DEF TypeClash
<1>6. PICK r1 \in Records : r1.data # <<>>
  BY <1>3, <1>5 DEF RecordTypes
<1>7. s.type = r1.type /\ n.type = r1.type
  BY <1>2, <1>3, <1>6 DEF RecordTypes, WholeMerges
<1> QED BY <1>5, <1>7

(* Without half-failed merges the version of an ID is the largest of the   *)
(* records stored for it, of those whose version an int8_t holds.          *)
LEMMA LargestStep ==
  ASSUME WholeMerges, IInv, AllIn(RecordTypes), NEW rec \in Records, AddMsr(rec),
         SplitVersion = 0, ~SplitIsVersion, PubVersionLargest,
         NEW r \in Records, added'[r] > 0, r.pubversion < 128
  PROVE  \E l \in Keys : l[1] = r.sid /\ ids'[l].segs # <<>> /\ r.pubversion <= ids'[l].pubversion
<1>1. added \in [Records -> Nat] /\ ids \in [Keys -> TraceID]
  BY DEF IInv, TypeOK
<1>2. rec.pubversion \in Version /\ r.pubversion \in Version
  BY RecordFields DEF RecordType
<1>3. PubVersion(rec) = ToInt8(rec.pubversion)
  BY DEF PubVersion
<1>4. added[r] > 0 => \E l \in Keys : l[1] = r.sid /\ InList(l) /\ r.pubversion <= ids[l].pubversion
  BY DEF PubVersionLargest
<1>5. CASE AddID(rec)
  <2> DEFINE k == KeyOf(rec)
  <2>1. /\ k \in Keys /\ OnlyID(k) /\ Matching(rec) = {} /\ Stored(rec)
        /\ ids'[k].segs = <<Stamp(Msr2Seg(rec))>>
        /\ ids'[k].pubversion = ToUint8(PubVersion(rec))
    BY <1>5, AddIDLeaves
  <2>2. k[1] = rec.sid /\ ids'[k].segs # <<>> /\ ids'[k].pubversion = rec.pubversion
    BY <2>1, <1>2, <1>3, VersionBack DEF KeyOf
  <2>3. CASE r = rec
    <3>1. \A v \in Version : v <= v
      BY DEF Version
    <3>2. r.pubversion <= ids'[k].pubversion
      BY <3>1, <2>2, <2>3, <1>2, Zenon
    <3> QED BY <3>2, <2>1, <2>2, <2>3
  <2>4. CASE r # rec
    <3>1. added[r] > 0
      BY <2>1, <2>4, <1>1 DEF Stored
    <3>2. PICK l \in Keys : l[1] = r.sid /\ InList(l) /\ r.pubversion <= ids[l].pubversion
      BY <3>1, <1>4
    <3>3. l[1] # rec.sid
      BY <2>1, <3>2 DEF Matching, FindID
    <3>4. ids'[l] = ids[l]
      BY <2>1, <2>2, <3>3 DEF OnlyID
    <3> QED BY <3>2, <3>4 DEF InList
  <2> QED BY <2>3, <2>4
<1>6. ASSUME NEW k \in Matching(rec), AddToSegment(k, rec) \/ MergeSegments(k, rec) \/ AddSegment(k, rec)
      PROVE  \E l \in Keys : l[1] = r.sid /\ ids'[l].segs # <<>> /\ r.pubversion <= ids'[l].pubversion
  <2>1. /\ k \in Keys /\ OnlyID(k) /\ Stored(rec) /\ ids'[k].segs # <<>>
        /\ ids'[k].pubversion = Greater(PubVersion(rec), ids[k].pubversion)
    BY <1>6, StepTracks, NeverHalfMerged DEF Tracks
  <2>2. k[1] = rec.sid
    BY DEF Matching, FindID
  <2>3. ids[k].pubversion \in Version
    BY <2>1, <1>1 DEF TraceID
  <2>4. ids'[k].pubversion >= ids[k].pubversion
        /\ (rec.pubversion < 128 => ids'[k].pubversion >= rec.pubversion)
    <3>1. ASSUME NEW v \in Version, NEW w \in Version
          PROVE  /\ Greater(ToInt8(v), w) >= w
                 /\ v < 128 => Greater(ToInt8(v), w) >= v
      <4>1. v \in Int /\ w \in Int /\ ToInt8(v) \in Int /\ (v < 128 => ToInt8(v) = v)
        BY DEF Version, ToInt8
      <4>2. \A a \in Int : Greater(a, w) >= w /\ Greater(a, w) >= a
        BY <4>1 DEF Greater
      <4> QED BY <4>1, <4>2
    <3> QED BY <3>1, <2>1, <2>3, <1>2, <1>3
  <2>5. ids'[k].pubversion \in Int
    <3>1. Greater(PubVersion(rec), ids[k].pubversion) \in Version
      BY <2>3, RecordFields, VersionTracked
    <3> QED BY <3>1, <2>1 DEF Version
  <2>6. CASE r = rec
    <3>1. r.pubversion <= ids'[k].pubversion
      BY <2>4, <2>5, <2>6, <1>2 DEF Version
    <3> QED BY <3>1, <2>1, <2>2, <2>6
  <2>7. CASE r # rec
    <3>1. added[r] > 0
      BY <2>1, <2>7, <1>1 DEF Stored
    <3>2. PICK l \in Keys : l[1] = r.sid /\ InList(l) /\ r.pubversion <= ids[l].pubversion
      BY <3>1, <1>4
    <3>3. CASE l = k
      <4>1. \A x, y, z \in Int : x <= y /\ z >= y => x <= z
        OBVIOUS
      <4>2. r.pubversion \in Int /\ ids[k].pubversion \in Int
        BY <2>3, <1>2 DEF Version
      <4>3. r.pubversion <= ids[k].pubversion
        BY <3>2, <3>3
      <4>4. r.pubversion <= ids'[k].pubversion
        BY <4>1, <4>2, <4>3, <2>4, <2>5, Zenon
      <4> QED BY <4>4, <3>2, <3>3, <2>1
    <3>4. CASE l # k
      BY <3>2, <3>4, <2>1 DEF OnlyID, InList
    <3> QED BY <3>3, <3>4
  <2> QED BY <2>6, <2>7
<1>7. ASSUME NEW k \in Matching(rec), RejectMsr(k, rec)
      PROVE  \E l \in Keys : l[1] = r.sid /\ ids'[l].segs # <<>> /\ r.pubversion <= ids'[l].pubversion
  BY <1>4, <1>7 DEF RejectMsr, listVars, InList
<1> QED BY <1>5, <1>6, <1>7 DEF AddMsr

(* As long as merges cannot fail half way, the version of a trace ID is    *)
(* the largest that an int8_t holds of the records stored for it.          *)
THEOREM VersionIsLargest ==
  ASSUME WholeMerges
  PROVE  Spec => []PubVersionLargest
<1>1. Init => PubVersionLargest
  BY DEF Init, PubVersionLargest
<1>2. IInv /\ AllIn(RecordTypes) /\ PubVersionLargest /\ [Next]_vars => PubVersionLargest'
  <2> SUFFICES ASSUME IInv, AllIn(RecordTypes), PubVersionLargest, [Next]_vars,
                      SplitVersion = 0, ~SplitIsVersion,
                      NEW r \in Records, added'[r] > 0, r.pubversion < 128
               PROVE  \E l \in Keys : l[1] = r.sid /\ ids'[l].segs # <<>>
                                      /\ r.pubversion <= ids'[l].pubversion
    BY DEF PubVersionLargest, InList
  <2>1. CASE UNCHANGED listVars
    BY <2>1 DEF listVars, PubVersionLargest, InList
  <2>2. ASSUME NEW rec \in Records, AddMsr(rec)
        PROVE  \E l \in Keys : l[1] = r.sid /\ ids'[l].segs # <<>>
                               /\ r.pubversion <= ids'[l].pubversion
    BY <2>2, LargestStep
  <2> QED BY <2>1, <2>2, StepAdds
<1> QED BY <1>1, <1>2, TypesInvariant, Invariance, PTL DEF Spec
=============================================================================
