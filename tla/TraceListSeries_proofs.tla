----------------------- MODULE TraceListSeries_proofs -----------------------
(***************************************************************************)
(* Proofs about the segments of a trace ID taken together and in time: the *)
(* order the list is sorted into and the extent tracked with it, which     *)
(* rest on merges that cannot fail half way; that a segment is a time      *)
(* series; and that healing leaves no two segments that continue each      *)
(* other.                                                                  *)
(***************************************************************************)
EXTENDS TraceList_proofs

-----------------------------------------------------------------------------
(* The full order of the list: by start time, longest first.               *)

Sorted(s) == \A m, n \in 1 .. Len(s) : m < n => ~Later(s[m], s[n])

(* Sorted but for one segment, the one just modified. *)
SortedBut(s, i) ==
  \A m, n \in 1 .. Len(s) : (m < n /\ m # i /\ n # i) => ~Later(s[m], s[n])

(* "not later" is a total order of segments, up to equal extents. *)
LEMMA LaterOrder ==
  ASSUME NEW a \in Segment, NEW b \in Segment, NEW c \in Segment
  PROVE  /\ Later(a, b) => ~Later(b, a)
         /\ ~Later(a, b) /\ ~Later(b, c) => ~Later(a, c)
<1>1. /\ a.start \in Int /\ b.start \in Int /\ c.start \in Int
      /\ a.end \in Int /\ b.end \in Int /\ c.end \in Int
  BY DEF Segment
<1> QED BY <1>1 DEF Later

LEMMA SegmentsOf ==
  ASSUME NEW s \in Seq(Segment)
  PROVE  Len(s) \in Nat /\ \A m \in 1 .. Len(s) : s[m] \in Segment
BY ElementOfSeq

(* A segment moved down passes exactly the segments it is later than. *)
LEMMA MoveDownSorts ==
  ASSUME NEW s \in Seq(Segment), NEW i \in 1 .. Len(s), NEW j \in i + 1 .. Len(s),
         SortedBut(s, i),
         j = Len(s) \/ ~Later(s[i], s[j + 1]),
         \A m \in i .. j - 1 : Later(s[i], s[m + 1])
  PROVE  Sorted(Move(s, i, j))
<1> DEFINE r == Move(s, i, j)
           N == Len(s)
<1>1. /\ r \in Seq(Segment) /\ Len(r) = N
      /\ \A m \in 1 .. N : r[m] = IF m = j THEN s[i] ELSE IF i <= m /\ m < j THEN s[m + 1] ELSE s[m]
  BY MoveProperties
<1>2. N \in Nat /\ \A m \in 1 .. N : s[m] \in Segment
  BY SegmentsOf
<1>3. \A m \in i + 1 .. j : ~Later(s[m], s[i])
  <2> SUFFICES ASSUME NEW m \in i + 1 .. j PROVE ~Later(s[m], s[i])
    OBVIOUS
  <2>1. m - 1 \in i .. j - 1 /\ m \in 1 .. N
    OBVIOUS
  <2>2. Later(s[i], s[m])
    BY <2>1
  <2> QED BY <2>1, <2>2, <1>2, LaterOrder
<1>4. \A m \in 1 .. i - 1 : ~Later(s[m], s[i])
  <2> SUFFICES ASSUME NEW m \in 1 .. i - 1 PROVE ~Later(s[m], s[i])
    OBVIOUS
  <2>1. ~Later(s[m], s[i + 1])
    BY DEF SortedBut
  <2>2. ~Later(s[i + 1], s[i])
    BY <1>3
  <2>3. m \in 1 .. N /\ i + 1 \in 1 .. N
    BY <1>2
  <2> QED BY <2>1, <2>2, <2>3, <1>2, LaterOrder
<1>5. \A m \in j + 1 .. N : ~Later(s[i], s[m])
  <2> SUFFICES ASSUME NEW m \in j + 1 .. N PROVE ~Later(s[i], s[m])
    OBVIOUS
  <2>1. ~Later(s[i], s[j + 1])
    OBVIOUS
  <2>2. m = j + 1 \/ ~Later(s[j + 1], s[m])
    BY <1>2 DEF SortedBut
  <2>3. m \in 1 .. N /\ j + 1 \in 1 .. N
    BY <1>2
  <2> QED BY <2>1, <2>2, <2>3, <1>2, LaterOrder
<1> HIDE DEF r
<1>6. ASSUME NEW m \in 1 .. N, NEW n \in 1 .. N, m < n
      PROVE  ~Later(r[m], r[n])
  <2>1. CASE m = j
    BY <2>1, <1>6, <1>1, <1>5
  <2>2. CASE n = j
    BY <2>2, <1>6, <1>1, <1>3, <1>4
  <2>3. CASE m # j /\ n # j
    <3> DEFINE a == IF i <= m /\ m < j THEN m + 1 ELSE m
               b == IF i <= n /\ n < j THEN n + 1 ELSE n
    <3>1. /\ a \in 1 .. N /\ b \in 1 .. N /\ a < b /\ a # i /\ b # i
          /\ r[m] = s[a] /\ r[n] = s[b]
      BY <2>3, <1>6, <1>1
    <3> QED BY <3>1 DEF SortedBut
  <2> QED BY <2>1, <2>2, <2>3
<1> QED BY <1>1, <1>6 DEF Sorted, r

(* A segment moved up, or left where it is. *)
LEMMA MoveUpSorts ==
  ASSUME NEW s \in Seq(Segment), NEW i \in 1 .. Len(s), NEW j \in 1 .. i,
         SortedBut(s, i),
         i = Len(s) \/ ~Later(s[i], s[i + 1]),
         j = 1 \/ ~Later(s[j - 1], s[i]),
         \A m \in j + 1 .. i : Later(s[m - 1], s[i])
  PROVE  Sorted(Move(s, i, j))
<1> DEFINE r == Move(s, i, j)
           N == Len(s)
<1>1. /\ r \in Seq(Segment) /\ Len(r) = N
      /\ \A m \in 1 .. N : r[m] = IF m = j THEN s[i] ELSE IF j < m /\ m <= i THEN s[m - 1] ELSE s[m]
  BY MoveProperties
<1>2. N \in Nat /\ \A m \in 1 .. N : s[m] \in Segment
  BY SegmentsOf
<1>3. \A m \in j .. i - 1 : ~Later(s[i], s[m])
  <2> SUFFICES ASSUME NEW m \in j .. i - 1 PROVE ~Later(s[i], s[m])
    OBVIOUS
  <2>1. m + 1 \in j + 1 .. i /\ m \in 1 .. N
    OBVIOUS
  <2>2. Later(s[m], s[i])
    BY <2>1
  <2> QED BY <2>1, <2>2, <1>2, LaterOrder
<1>4. \A m \in i + 1 .. N : ~Later(s[i], s[m])
  <2> SUFFICES ASSUME NEW m \in i + 1 .. N PROVE ~Later(s[i], s[m])
    OBVIOUS
  <2>1. ~Later(s[i], s[i + 1])
    OBVIOUS
  <2>2. m = i + 1 \/ ~Later(s[i + 1], s[m])
    BY <1>2 DEF SortedBut
  <2>3. m \in 1 .. N /\ i + 1 \in 1 .. N
    BY <1>2
  <2> QED BY <2>1, <2>2, <2>3, <1>2, LaterOrder
<1>5. \A m \in 1 .. j - 1 : ~Later(s[m], s[i])
  <2> SUFFICES ASSUME NEW m \in 1 .. j - 1 PROVE ~Later(s[m], s[i])
    OBVIOUS
  <2>1. ~Later(s[j - 1], s[i])
    OBVIOUS
  <2>2. m = j - 1 \/ ~Later(s[m], s[j - 1])
    BY <1>2 DEF SortedBut
  <2>3. m \in 1 .. N /\ j - 1 \in 1 .. N
    BY <1>2
  <2> QED BY <2>1, <2>2, <2>3, <1>2, LaterOrder
<1> HIDE DEF r
<1>6. ASSUME NEW m \in 1 .. N, NEW n \in 1 .. N, m < n
      PROVE  ~Later(r[m], r[n])
  <2>1. CASE n = j
    BY <2>1, <1>6, <1>1, <1>5
  <2>2. CASE m = j
    BY <2>2, <1>6, <1>1, <1>3, <1>4
  <2>3. CASE m # j /\ n # j
    <3> DEFINE a == IF j < m /\ m <= i THEN m - 1 ELSE m
               b == IF j < n /\ n <= i THEN n - 1 ELSE n
    <3>1. /\ a \in 1 .. N /\ b \in 1 .. N /\ a < b /\ a # i /\ b # i
          /\ r[m] = s[a] /\ r[n] = s[b]
      BY <2>3, <1>6, <1>1
    <3> QED BY <3>1 DEF SortedBut
  <2> QED BY <2>1, <2>2, <2>3
<1> QED BY <1>1, <1>6 DEF Sorted, r

LEMMA SortInPlaceSorts ==
  ASSUME NEW s \in Seq(Segment), NEW i \in 1 .. Len(s), SortedBut(s, i)
  PROVE  Sorted(SortInPlace(s, i))
<1> DEFINE j == SortTarget(s, i)
<1>1. /\ j \in 1 .. Len(s)
      /\ \/ /\ j > i
            /\ j = Len(s) \/ ~Later(s[i], s[j + 1])
            /\ \A m \in i .. j - 1 : Later(s[i], s[m + 1])
         \/ /\ j <= i
            /\ i = Len(s) \/ ~Later(s[i], s[i + 1])
            /\ j = 1 \/ ~Later(s[j - 1], s[i])
            /\ \A m \in j + 1 .. i : Later(s[m - 1], s[i])
  BY SortTargetProperties
<1>0. SortInPlace(s, i) = Move(s, i, j)
  BY DEF SortInPlace
<1> HIDE DEF j
<1>3. CASE j > i
  <2>1. j \in i + 1 .. Len(s)
    BY <1>1, <1>3
  <2>2. /\ j = Len(s) \/ ~Later(s[i], s[j + 1])
        /\ \A m \in i .. j - 1 : Later(s[i], s[m + 1])
    BY <1>1, <1>3
  <2> QED BY <1>0, <2>1, <2>2, MoveDownSorts
<1>4. CASE j <= i
  <2>1. j \in 1 .. i
    BY <1>1, <1>4
  <2>2. /\ i = Len(s) \/ ~Later(s[i], s[i + 1])
        /\ j = 1 \/ ~Later(s[j - 1], s[i])
        /\ \A m \in j + 1 .. i : Later(s[m - 1], s[i])
    BY <1>1, <1>4
  <2> QED BY <1>0, <2>1, <2>2, MoveUpSorts
<1> QED BY <1>1, <1>3, <1>4

LEMMA TrackedSorted ==
  ASSUME NEW t, NEW rec, NEW segs \in Seq(Segment), NEW at \in 1 .. Len(segs),
         SortedBut(segs, at), now \in Nat
  PROVE  Sorted(Tracked(t, rec, segs, at).segs)
<1> DEFINE s == ReplaceAt(segs, at, Stamp(segs[at]))
<1>1. Stamp(segs[at]) \in Segment
  BY StampFields, ElementOfSeq
<1>2. /\ s \in Seq(Segment) /\ Len(s) = Len(segs)
      /\ \A m \in 1 .. Len(segs) : s[m] = IF m = at THEN Stamp(segs[at]) ELSE segs[m]
  BY <1>1, SegmentReplaced, ZenonT(30)
<1> HIDE DEF s
<1>3. SortedBut(s, at) /\ at \in 1 .. Len(s)
  BY <1>2 DEF SortedBut
<1>4. Sorted(SortInPlace(s, at))
  BY <1>2, <1>3, SortInPlaceSorts
<1>5. Tracked(t, rec, segs, at).segs = SortInPlace(s, at)
  BY DEF Tracked, s
<1> QED BY <1>4, <1>5

(* Changing, inserting or removing a segment of a sorted list leaves one   *)
(* to be sorted.                                                           *)
LEMMA ReplaceSortedBut ==
  ASSUME NEW s \in Seq(Segment), NEW i \in 1 .. Len(s), NEW e \in Segment, Sorted(s),
         NEW r, r = ReplaceAt(s, i, e)
  PROVE  r \in Seq(Segment) /\ i \in 1 .. Len(r) /\ SortedBut(r, i)
<1>1. r \in Seq(Segment) /\ Len(r) = Len(s)
  BY SegmentReplaced
<1>2. \A m \in 1 .. Len(s) : m # i => r[m] = s[m]
  BY LenProperties DEF ReplaceAt
<1>3. SortedBut(r, i)
  BY <1>1, <1>2 DEF Sorted, SortedBut
<1> QED BY <1>1, <1>3

LEMMA InsertSortedBut ==
  ASSUME NEW s \in Seq(Segment), NEW i \in 1 .. Len(s) + 1, NEW e \in Segment, Sorted(s),
         NEW r, r = InsertAt(s, i, e)
  PROVE  r \in Seq(Segment) /\ i \in 1 .. Len(r) /\ SortedBut(r, i)
<1>1. /\ r \in Seq(Segment) /\ Len(r) = Len(s) + 1
      /\ \A m \in 1 .. i - 1 : r[m] = s[m]
      /\ \A m \in i + 1 .. Len(s) + 1 : r[m] = s[m - 1]
  BY InsertAtProperties, ZenonT(30)
<1>2. ASSUME NEW m \in 1 .. Len(r), NEW n \in 1 .. Len(r), m < n, m # i, n # i
      PROVE  ~Later(r[m], r[n])
  <2> DEFINE a == IF m < i THEN m ELSE m - 1
             b == IF n < i THEN n ELSE n - 1
  <2>1. a \in 1 .. Len(s) /\ b \in 1 .. Len(s) /\ a < b
    BY <1>1, <1>2
  <2>2. /\ m < i => m \in 1 .. i - 1
        /\ ~(m < i) => m \in i + 1 .. Len(s) + 1
        /\ n < i => n \in 1 .. i - 1
        /\ ~(n < i) => n \in i + 1 .. Len(s) + 1
    BY <1>1, <1>2
  <2>3. r[m] = s[a] /\ r[n] = s[b]
    BY <1>1, <2>2
  <2> HIDE DEF a, b
  <2> QED BY <2>1, <2>3 DEF Sorted
<1> QED BY <1>1, <1>2 DEF SortedBut

LEMMA RemoveSortedBut ==
  ASSUME NEW s \in Seq(Segment), NEW i \in 1 .. Len(s), NEW j \in 1 .. Len(s), i # j,
         NEW e \in Segment, NEW at, at = IF j < i THEN i - 1 ELSE i,
         NEW r, Removed(r, at, s, i, j, e), Sorted(s)
  PROVE  SortedBut(r, at)
<1>1. /\ r \in Seq(Segment) /\ Len(r) = Len(s) - 1 /\ at \in 1 .. Len(r) /\ Len(s) \in Nat
      /\ \A m \in 1 .. Len(r) : m # at => r[m] = IF m < j THEN s[m] ELSE s[m + 1]
  BY DEF Removed
<1>2. ASSUME NEW m \in 1 .. Len(r), NEW n \in 1 .. Len(r), m < n, m # at, n # at
      PROVE  ~Later(r[m], r[n])
  <2> DEFINE a == IF m < j THEN m ELSE m + 1
             b == IF n < j THEN n ELSE n + 1
  <2>1. a \in 1 .. Len(s) /\ b \in 1 .. Len(s) /\ a < b
    BY <1>1, <1>2
  <2>2. r[m] = s[a] /\ r[n] = s[b]
    BY <1>1, <1>2
  <2> HIDE DEF a, b
  <2> QED BY <2>1, <2>2 DEF Sorted
<1> QED BY <1>1, <1>2 DEF SortedBut

(* A new segment of a record is a segment. *)
LEMMA RecordSegment ==
  ASSUME NEW rec \in Records
  PROVE  Msr2Seg(rec) \in Segment
<1>1. rec \in RecordType /\ EndTime(rec) \in Int /\ RecordPtrs(rec) \in Seq(Records)
  BY RecordFields
<1> QED BY <1>1 DEF RecordType, Msr2Seg, Segment

(* Every addition leaves the list of its trace ID sorted. *)
LEMMA SortedStep ==
  ASSUME WholeMerges, IInv, AllIn(RecordTypes), NEW rec \in Records, NEW k \in Matching(rec),
         AddToSegment(k, rec) \/ MergeSegments(k, rec) \/ AddSegment(k, rec), Sorted(ids[k].segs)
  PROVE  Sorted(ids'[k].segs)
<1> DEFINE s == ids[k].segs
           i == PutAt(k, rec)
           j == Joins(k, rec)
<1>1. s \in Seq(Segment) /\ now \in Nat /\ k \in Keys
  BY MatchingID
<1>2. CASE AddToSegment(k, rec)
  <2> DEFINE r == ReplaceAt(s, i, Grown(k, rec))
  <2>1. /\ i \in 1 .. Len(s) /\ SegPut(k, rec) \in Segment
        /\ \/ Grown(k, rec) = AddMsrToEnd(SegPut(k, rec), rec)
           \/ Grown(k, rec) = AddMsrToStart(SegPut(k, rec), rec)
        /\ ids'[k] = Tracked(ids[k], rec, r, i)
    BY <1>2, AddToSegmentLeaves
  <2>2. Grown(k, rec) \in Segment
    BY <2>1, SegmentFields
  <2> HIDE DEF i
  <2>3. r \in Seq(Segment) /\ i \in 1 .. Len(r) /\ SortedBut(r, i)
    <3> HIDE DEF r
    <3>1. r = ReplaceAt(s, i, Grown(k, rec)) /\ Sorted(s)
      BY DEF r
    <3> HIDE DEF s
    <3> QED BY <1>1, <2>1, <2>2, <3>1, ReplaceSortedBut
  <2> HIDE DEF r
  <2> QED BY <2>1, <2>3, <1>1, TrackedSorted
<1>3. CASE AddSegment(k, rec)
  <2> DEFINE r == InsertAt(s, i, Msr2Seg(rec))
  <2>1. i \in 1 .. Len(s) + 1 /\ ids'[k] = Tracked(Linked(ids[k]), rec, r, i)
    BY <1>3, AddSegmentLeaves
  <2>2. Msr2Seg(rec) \in Segment
    BY RecordSegment
  <2> HIDE DEF i
  <2>3. r \in Seq(Segment) /\ i \in 1 .. Len(r) /\ SortedBut(r, i)
    <3> HIDE DEF r
    <3>1. r = InsertAt(s, i, Msr2Seg(rec)) /\ Sorted(s)
      BY DEF r
    <3> HIDE DEF s
    <3> QED BY <1>1, <2>1, <2>2, <3>1, InsertSortedBut
  <2> HIDE DEF r
  <2> QED BY <2>1, <2>3, <1>1, TrackedSorted
<1>4. CASE MergeSegments(k, rec)
  <2> DEFINE r == JoinedList(k, rec)
             at == JoinedAt(k, rec)
             g == AddMsrToEnd(SegPut(k, rec), rec)
             nxt == ids[k].segs[Joins(k, rec)]
             e == Joined(k, rec)
  <2>0. ~TypeClash(g, nxt)
    BY <1>4, NeverHalfMerged DEF HalfMerged
  <2>1. /\ i \in 1 .. Len(s) /\ j \in 1 .. Len(s) /\ i # j
        /\ SegPut(k, rec) \in Segment /\ nxt \in Segment
    BY <1>4, MergeLeaves
  <2>2. /\ at \in 1 .. Len(r) /\ r \in Seq(Segment)
        /\ ids'[k] = Tracked(Unlinked(ids[k]), rec, r, at)
    BY <1>4, <2>0, MergeLeaves
  <2>3. e \in Segment
    BY <2>1, SegmentFields, MergedFields DEF Joined
  <2>4. r = RemoveAt(ReplaceAt(s, i, e), j) /\ at = IF j < i THEN i - 1 ELSE i
    BY DEF JoinedList, JoinedAt
  <2>5. Sorted(s)
    OBVIOUS
  <2> HIDE DEF r, at, e, i, j, s
  <2>6. Removed(r, at, s, i, j, e)
    BY <1>1, <2>1, <2>3, <2>4, RemoveReplaced
  <2>7. SortedBut(r, at)
    BY <1>1, <2>1, <2>3, <2>4, <2>5, <2>6, RemoveSortedBut
  <2> QED BY <2>2, <2>7, <1>1, TrackedSorted
<1> QED BY <1>2, <1>3, <1>4

(* As long as merges cannot fail half way, the segments of a trace ID are  *)
(* always in the order mstl3_addmsr() sorts by: start time, for equal      *)
(* starts the longest first, whatever is added and with any tolerance.     *)
THEOREM SegmentsStaySorted ==
  ASSUME WholeMerges
  PROVE  Spec => []SegmentsSorted
<1>0. SegmentsSorted <=> \A k \in Keys : Sorted(ids[k].segs)
  BY DEF SegmentsSorted, Sorted
<1>1. Init => SegmentsSorted
  BY DEF Init, SegmentsSorted, NoTraceID
<1>2. IInv /\ AllIn(RecordTypes) /\ SegmentsSorted /\ [Next]_vars => SegmentsSorted'
  <2> SUFFICES ASSUME IInv, AllIn(RecordTypes), SegmentsSorted, [Next]_vars, NEW l \in Keys
               PROVE  Sorted(ids'[l].segs)
    BY DEF SegmentsSorted, Sorted
  <2>1. CASE UNCHANGED listVars
    BY <2>1, <1>0 DEF listVars
  <2>2. ASSUME NEW rec \in Records, AddID(rec) PROVE Sorted(ids'[l].segs)
    <3>1. OnlyID(KeyOf(rec)) /\ ids'[KeyOf(rec)].segs = <<Stamp(Msr2Seg(rec))>>
      BY <2>2, AddIDLeaves
    <3>2. \A x : Sorted(<<x>>)
      BY DEF Sorted
    <3> QED BY <3>1, <3>2, <1>0 DEF OnlyID
  <2>3. ASSUME NEW rec \in Records, NEW k \in Matching(rec),
               AddToSegment(k, rec) \/ MergeSegments(k, rec) \/ AddSegment(k, rec)
        PROVE  Sorted(ids'[l].segs)
    <3>1. k \in Keys /\ OnlyID(k)
      BY <2>3, StepTracks
    <3>2. Sorted(ids'[k].segs)
      BY <2>3, <3>1, <1>0, SortedStep
    <3> QED BY <3>1, <3>2, <1>0 DEF OnlyID
  <2>4. ASSUME NEW rec \in Records, NEW k \in Matching(rec), RejectMsr(k, rec)
        PROVE  Sorted(ids'[l].segs)
    BY <2>4, <1>0 DEF RejectMsr, listVars
  <2> QED BY <2>1, <2>2, <2>3, <2>4, StepAdds DEF AddMsr
<1> QED BY <1>1, <1>2, TypesInvariant, Invariance, PTL DEF Spec

-----------------------------------------------------------------------------
(* The extent of a trace ID.                                               *)

(* A tolerance of at most the sample period, as the default of half of it  *)
(* is: a record that continues a segment does not begin before its end.    *)
FineTolerance == \A rec \in Records : TimeTol(rec) <= NsPeriod(rec.rate)

LEMMA DefaultIsFine == UserTimeTol = -1 => FineTolerance
<1> SUFFICES ASSUME UserTimeTol = -1, NEW rec \in Records
             PROVE  TimeTol(rec) <= NsPeriod(rec.rate)
  BY DEF FineTolerance
<1>1. rec.rate \in Nat
  BY RecordFields DEF RecordType
<1>2. NsPeriod(rec.rate) \in Nat
  BY <1>1, ConstantsAssumption DEF NsPeriod
<1>3. \A x \in Nat : x \div 2 <= x
  OBVIOUS
<1>4. TimeTol(rec) = NsPeriod(rec.rate) \div 2
  BY DEF TimeTol
<1> QED BY <1>2, <1>3, <1>4

(* The times of a record are in order. *)
LEMMA RecordTimes ==
  ASSUME NEW rec \in Records
  PROVE  /\ rec.start \in Int /\ EndTime(rec) \in Int /\ NsPeriod(rec.rate) \in Nat
         /\ TimeTol(rec) \in Nat
         /\ rec.start <= EndTime(rec)
<1>1. rec.start \in Int /\ rec.rate \in Nat /\ rec.cnt \in Nat /\ EndTime(rec) \in Int
  BY RecordFields DEF RecordType
<1>2. NsPeriod(rec.rate) \in Nat
  BY <1>1, ConstantsAssumption DEF NsPeriod
<1> DEFINE P == NsPeriod(rec.rate)
           n == IF rec.cnt > 0 THEN rec.cnt - 1 ELSE 0
<1>3. n \in Nat
  BY <1>1
<1>4. EndTime(rec) = rec.start + n * P
  BY DEF EndTime, SampleTime
<1> HIDE DEF P, n
<1>5. n * P \in Nat
  BY <1>2, <1>3 DEF P
<1>6. TimeTol(rec) \in Nat
  BY <1>2, ConstantsAssumption DEF TimeTol
<1> QED BY <1>1, <1>2, <1>4, <1>5, <1>6

(* With such a tolerance what fits after begins after, what fits before    *)
(* ends before.                                                            *)
LEMMA FitTimes ==
  ASSUME FineTolerance, NEW rec \in Records, NEW seg \in Segment
  PROVE  /\ FitsAfter(rec, seg) => seg.end <= rec.start
         /\ FitsBefore(rec, seg) => EndTime(rec) <= seg.start
<1>1. /\ rec.start \in Int /\ EndTime(rec) \in Int /\ NsPeriod(rec.rate) \in Nat
      /\ TimeTol(rec) \in Nat
  BY RecordTimes
<1>2. TimeTol(rec) <= NsPeriod(rec.rate)
  BY DEF FineTolerance
<1>3. seg.start \in Int /\ seg.end \in Int
  BY DEF Segment
<1>4. FitsAfter(rec, seg) => -TimeTol(rec) <= rec.start - seg.end - NsPeriod(rec.rate)
  BY DEF FitsAfter, WithinTol
<1>5. FitsBefore(rec, seg) => -TimeTol(rec) <= seg.start - EndTime(rec) - NsPeriod(rec.rate)
  BY DEF FitsBefore, WithinTol
<1> QED BY <1>1, <1>2, <1>3, <1>4, <1>5

(* Segments that do not end before they start. *)
Forward == [k \in Keys |-> {s \in Segment : s.start <= s.end}]

(* The start and end of the segments made from others. *)
LEMMA MadeExtents ==
  ASSUME NEW rec \in Records, NEW s1 \in Segment, NEW s2 \in Segment
  PROVE  /\ Msr2Seg(rec).start = rec.start /\ Msr2Seg(rec).end = EndTime(rec)
         /\ AddMsrToEnd(s1, rec).start = s1.start /\ AddMsrToEnd(s1, rec).end = EndTime(rec)
         /\ AddMsrToStart(s1, rec).start = rec.start /\ AddMsrToStart(s1, rec).end = s1.end
         /\ AddSegToSeg(s1, s2).start = s1.start /\ AddSegToSeg(s1, s2).end = s2.end
         /\ Stamp(s1).start = s1.start /\ Stamp(s1).end = s1.end
BY DEF Msr2Seg, AddMsrToEnd, AddMsrToStart, AddSegToSeg, Stamp, Segment

LEMMA ForwardClosed ==
  ASSUME FineTolerance, now \in Nat, NEW rec \in Records
  PROVE  Closed(Forward, rec)
<1> DEFINE Good == {s \in Segment : s.start <= s.end}
<1>1. KeyOf(rec) \in Keys /\ Matching(rec) \subseteq Keys
  BY RecordFields DEF Matching, FindID
<1>2. \A k \in Keys : Forward[k] = Good
  BY DEF Forward
<1>3. rec.start \in Int /\ EndTime(rec) \in Int /\ rec.start <= EndTime(rec)
  BY RecordTimes
<1>4. Msr2Seg(rec) \in Good
  BY <1>3, RecordSegment, MadeExtents
<1>5. \A s \in Good : s \in Segment /\ s.start \in Int /\ s.end \in Int /\ s.start <= s.end
  BY DEF Segment
<1>6. ASSUME NEW s \in Good, FitsAfter(rec, s) PROVE AddMsrToEnd(s, rec) \in Good
  <2>1. s.end <= rec.start
    BY <1>5, <1>6, FitTimes
  <2>2. s.start <= EndTime(rec)
    BY <2>1, <1>3, <1>5
  <2>3. AddMsrToEnd(s, rec).start = s.start /\ AddMsrToEnd(s, rec).end = EndTime(rec)
    BY <1>5, MadeExtents
  <2> QED BY <2>2, <2>3, <1>5, MadeFields
<1>7. ASSUME NEW s \in Good, FitsBefore(rec, s) PROVE AddMsrToStart(s, rec) \in Good
  <2>1. EndTime(rec) <= s.start
    BY <1>5, <1>7, FitTimes
  <2>2. rec.start <= s.end
    BY <2>1, <1>3, <1>5
  <2>3. AddMsrToStart(s, rec).start = rec.start /\ AddMsrToStart(s, rec).end = s.end
    BY <1>5, MadeExtents
  <2> QED BY <2>2, <2>3, <1>5, MadeFields
<1>8. ASSUME NEW s1 \in Good, NEW s2 \in Good, FitsAfter(rec, s1), FitsBefore(rec, s2)
      PROVE  AddSegToSeg(AddMsrToEnd(s1, rec), s2) \in Good
  <2> DEFINE g == AddMsrToEnd(s1, rec)
  <2>1. s1.end <= rec.start /\ EndTime(rec) <= s2.start
    BY <1>5, <1>8, FitTimes
  <2>2. s1.start <= s2.end
    BY <2>1, <1>3, <1>5
  <2>3. g \in Segment /\ g.start = s1.start
    BY <1>5, SegmentFields
  <2> HIDE DEF g
  <2>4. AddSegToSeg(g, s2) \in Segment
    BY <2>3, <1>5, MergedFields
  <2>5. AddSegToSeg(g, s2).start = g.start /\ AddSegToSeg(g, s2).end = s2.end
    BY <2>3, <1>5, MadeExtents
  <2>6. AddSegToSeg(g, s2) \in Good
    BY <2>2, <2>3, <2>4, <2>5
  <2> QED BY <2>6 DEF g
<1>9. ASSUME NEW s \in Good PROVE Stamp(s) \in Good
  BY <1>5, StampFields, MadeExtents
<1> HIDE DEF Good
<1> QED BY <1>1, <1>2, <1>4, <1>6, <1>7, <1>8, <1>9 DEF Closed

(* In every reachable list, with such a tolerance. *)
LEMMA ForwardInvariant ==
  ASSUME FineTolerance
  PROVE  Spec => []AllIn(Forward)
<1>1. Init => AllIn(Forward)
  BY ClosedInit
<1>2. IInv /\ AllIn(Forward) /\ [Next]_vars => AllIn(Forward)'
  <2> SUFFICES ASSUME IInv, AllIn(Forward), [Next]_vars PROVE AllIn(Forward)'
    OBVIOUS
  <2>1. CASE UNCHANGED listVars
    BY <2>1 DEF listVars, AllIn, Members
  <2>2. ASSUME NEW rec \in Records, AddMsr(rec) PROVE AllIn(Forward)'
    BY <2>2, ForwardClosed, ClosedStep DEF IInv, TypeOK
  <2> QED BY <2>1, <2>2, StepAdds
<1> QED BY <1>1, <1>2, Invariance, PTL DEF Spec

(* lo and hi are the extent of the segments in S. *)
ExtentOf(S, lo, hi) ==
  /\ \A s \in S : lo <= s.start /\ s.end <= hi
  /\ \E s \in S : s.start = lo
  /\ \E s \in S : s.end = hi

(* The extent is exact again when one segment replaces others and covers   *)
(* them and the record, without reaching beyond.                           *)
LEMMA ExtentKept ==
  ASSUME NEW O \in SUBSET Segment, NEW X \in SUBSET Segment, NEW y \in Segment,
         NEW lo \in Int, NEW hi \in Int, NEW rs \in Int, NEW re \in Int,
         ExtentOf(O \cup X, lo, hi),
         \A x \in X : y.start <= x.start /\ x.end <= y.end,
         y.start <= rs, re <= y.end,
         y.start = rs \/ \E x \in X : y.start = x.start,
         y.end = re \/ \E x \in X : y.end = x.end
  PROVE  ExtentOf(O \cup {y}, Lesser(rs, lo), Greater(re, hi))
<1>1. \A s \in O \cup X \cup {y} : s.start \in Int /\ s.end \in Int
  BY DEF Segment
<1>2. \A s \in O \cup X : lo <= s.start /\ s.end <= hi
  BY DEF ExtentOf
<1> DEFINE a == Lesser(rs, lo)
           b == Greater(re, hi)
<1>3. a \in Int /\ a <= rs /\ a <= lo /\ (a = rs \/ a = lo)
  BY DEF Lesser
<1>4. b \in Int /\ re <= b /\ hi <= b /\ (b = re \/ b = hi)
  BY DEF Greater
<1> HIDE DEF a, b
<1>5. a <= y.start /\ y.end <= b
  BY <1>1, <1>2, <1>3, <1>4
<1>6. \A s \in O \cup {y} : a <= s.start /\ s.end <= b
  BY <1>1, <1>2, <1>3, <1>4, <1>5
<1>7. \E s \in O \cup {y} : s.start = a
  <2>1. CASE y.start <= a
    BY <2>1, <1>1, <1>3, <1>5
  <2>2. CASE ~(y.start <= a)
    <3>1. PICK s \in O \cup X : s.start = lo
      BY DEF ExtentOf
    <3>2. a = lo
      BY <2>2, <1>1, <1>3
    <3>3. s \notin X
      BY <3>1, <3>2, <2>2, <1>1
    <3> QED BY <3>1, <3>2, <3>3
  <2> QED BY <2>1, <2>2
<1>8. \E s \in O \cup {y} : s.end = b
  <2>1. CASE b <= y.end
    BY <2>1, <1>1, <1>4, <1>5
  <2>2. CASE ~(b <= y.end)
    <3>1. PICK s \in O \cup X : s.end = hi
      BY DEF ExtentOf
    <3>2. b = hi
      BY <2>2, <1>1, <1>4
    <3>3. s \notin X
      BY <3>1, <3>2, <2>2, <1>1
    <3> QED BY <3>1, <3>2, <3>3
  <2> QED BY <2>1, <2>2
<1> QED BY <1>6, <1>7, <1>8 DEF ExtentOf, a, b

(* The segments of a list and those at some of its positions. *)
LEMMA OthersAndThese ==
  ASSUME NEW s, NEW i \in 1 .. Len(s), NEW j \in 1 .. Len(s)
  PROVE  /\ Members(s) = Others(s, {i}) \cup {s[i]}
         /\ Members(s) = Others(s, {i, j}) \cup {s[i], s[j]}
<1>1. ASSUME NEW X \in SUBSET (1 .. Len(s))
      PROVE  Members(s) = Others(s, X) \cup {s[m] : m \in X}
  BY DEF Members, Others
<1>2. Members(s) = Others(s, {i}) \cup {s[m] : m \in {i}}
  BY <1>1
<1>3. Members(s) = Others(s, {i, j}) \cup {s[m] : m \in {i, j}}
  BY <1>1
<1>4. {s[m] : m \in {i}} = {s[i]} /\ {s[m] : m \in {i, j}} = {s[i], s[j]}
  OBVIOUS
<1> QED BY <1>2, <1>3, <1>4

(* Every addition keeps the extent of its trace ID exact. *)
LEMMA ExtentStep ==
  ASSUME WholeMerges, FineTolerance, IInv, AllIn(RecordTypes), AllIn(Forward),
         NEW rec \in Records, NEW k \in Matching(rec),
         AddToSegment(k, rec) \/ MergeSegments(k, rec) \/ AddSegment(k, rec),
         ExtentOf(Members(ids[k].segs), ids[k].earliest, ids[k].latest)
  PROVE  ExtentOf(Members(ids'[k].segs), ids'[k].earliest, ids'[k].latest)
<1> DEFINE s == ids[k].segs
           i == PutAt(k, rec)
           j == Joins(k, rec)
           lo == ids[k].earliest
           hi == ids[k].latest
           rs == rec.start
           re == EndTime(rec)
           seg == SegPut(k, rec)
           nxt == ids[k].segs[Joins(k, rec)]
<1>1. /\ s \in Seq(Segment) /\ now \in Nat /\ k \in Keys /\ lo \in Int /\ hi \in Int
      /\ \A X : Others(s, X) \in SUBSET Segment
  <2>1. s \in Seq(Segment) /\ now \in Nat /\ k \in Keys /\ IDOK(ids[k])
    BY MatchingID
  <2>2. \A m \in 1 .. Len(s) : s[m] \in Segment
    BY <2>1, ElementOfSeq
  <2> QED BY <2>1, <2>2 DEF IDOK, TraceID, Others
<1>2. rs \in Int /\ re \in Int /\ rs <= re
  BY RecordTimes
<1>3. /\ ids'[k].earliest = Lesser(rs, lo) /\ ids'[k].latest = Greater(re, hi)
  BY StepTracks, NeverHalfMerged DEF Tracks
<1>4. ExtentOf(Members(s), lo, hi)
  OBVIOUS
<1>5. \A x \in Members(s) : x \in Segment /\ x.start \in Int /\ x.end \in Int /\ x.start <= x.end
  BY <1>1 DEF AllIn, Forward, Segment
<1> HIDE DEF lo, hi, rs, re
<1>6. CASE AddToSegment(k, rec)
  <2> DEFINE g == Grown(k, rec)
             y == Stamp(g)
  <2>1. /\ i \in 1 .. Len(s) /\ seg = s[i]
        /\ \/ FitsAfter(rec, seg) /\ g = AddMsrToEnd(seg, rec)
           \/ FitsBefore(rec, seg) /\ g = AddMsrToStart(seg, rec)
        /\ Members(ids'[k].segs) = Others(s, {i}) \cup {y}
    BY <1>6, AddToSegmentLeaves DEF SegPut
  <2> HIDE DEF s, i, seg
  <2>2. Members(s) = Others(s, {i}) \cup {seg}
    BY <2>1, OthersAndThese
  <2>3. seg \in Segment /\ seg.start \in Int /\ seg.end \in Int /\ seg.start <= seg.end
    BY <2>2, <1>5
  <2>4. g \in Segment
    BY <2>1, <2>3, SegmentFields
  <2> HIDE DEF g
  <2>5. y \in Segment /\ y.start = g.start /\ y.end = g.end
    BY <2>4, <1>1, MadeFields, MadeExtents
  <2> HIDE DEF y
  <2>6. \/ seg.end <= rs /\ y.start = seg.start /\ y.end = re
        \/ re <= seg.start /\ y.start = rs /\ y.end = seg.end
    BY <2>1, <2>3, <2>5, FitTimes, MadeExtents DEF rs, re
  <2>7. /\ y.start <= seg.start /\ seg.end <= y.end /\ y.start <= rs /\ re <= y.end
        /\ y.start = rs \/ y.start = seg.start
        /\ y.end = re \/ y.end = seg.end
    BY <2>3, <2>6, <1>2
  <2>8. ExtentOf(Others(s, {i}) \cup {seg}, lo, hi) /\ {seg} \in SUBSET Segment
    BY <2>2, <2>3, <1>4
  <2>9. ExtentOf(Others(s, {i}) \cup {y}, Lesser(rs, lo), Greater(re, hi))
    BY <2>5, <2>7, <2>8, <1>1, <1>2, ExtentKept
  <2> QED BY <2>1, <2>9, <1>3
<1>7. CASE AddSegment(k, rec)
  <2> DEFINE y == Stamp(Msr2Seg(rec))
  <2>1. Members(ids'[k].segs) = Members(s) \cup {y}
    BY <1>7, AddSegmentLeaves
  <2>2. Msr2Seg(rec) \in Segment
    BY RecordSegment
  <2>3. y \in Segment /\ y.start = rs /\ y.end = re
    BY <2>2, <1>1, MadeFields, MadeExtents DEF rs, re
  <2> HIDE DEF y, s
  <2> DEFINE X == {x \in Segment : FALSE}
  <2>4. /\ ExtentOf(Members(s) \cup X, lo, hi) /\ Members(s) \in SUBSET Segment
        /\ X \in SUBSET Segment /\ \A x \in X : y.start <= x.start /\ x.end <= y.end
    <3>1. Members(s) \cup X = Members(s)
      OBVIOUS
    <3> QED BY <3>1, <1>4, <1>5
  <2> HIDE DEF X
  <2>5. y.start <= rs /\ re <= y.end
    BY <2>3, <1>2
  <2>6. ExtentOf(Members(s) \cup {y}, Lesser(rs, lo), Greater(re, hi))
    BY <2>3, <2>4, <2>5, <1>1, <1>2, ExtentKept
  <2> QED BY <2>1, <2>6, <1>3
<1>8. CASE MergeSegments(k, rec)
  <2> DEFINE g == AddMsrToEnd(seg, rec)
             y == Stamp(Joined(k, rec))
  <2>0. ~TypeClash(g, nxt)
    BY <1>8, NeverHalfMerged DEF HalfMerged
  <2>1. /\ i \in 1 .. Len(s) /\ j \in 1 .. Len(s) /\ seg = s[i] /\ nxt = s[j]
        /\ FitsAfter(rec, seg) /\ FitsBefore(rec, nxt)
        /\ Members(ids'[k].segs) = Others(s, {i, j}) \cup {y}
    BY <1>8, <2>0, MergeLeaves DEF SegPut
  <2>2. Joined(k, rec) = AddSegToSeg(g, nxt)
    BY DEF Joined
  <2> HIDE DEF s, i, j, seg, nxt
  <2>3. Members(s) = Others(s, {i, j}) \cup {seg, nxt}
    BY <2>1, OthersAndThese
  <2>4. /\ seg \in Segment /\ seg.start \in Int /\ seg.end \in Int /\ seg.start <= seg.end
        /\ nxt \in Segment /\ nxt.start \in Int /\ nxt.end \in Int /\ nxt.start <= nxt.end
    BY <2>3, <1>5
  <2>5. g \in Segment /\ g.start = seg.start
    BY <2>4, SegmentFields
  <2> HIDE DEF g
  <2>6. Joined(k, rec) \in Segment /\ Joined(k, rec).start = seg.start /\ Joined(k, rec).end = nxt.end
    BY <2>2, <2>4, <2>5, MergedFields, MadeExtents
  <2>7. y \in Segment /\ y.start = seg.start /\ y.end = nxt.end
    BY <2>6, <1>1, MadeFields, MadeExtents
  <2> HIDE DEF y
  <2>8. seg.end <= rs /\ re <= nxt.start
    BY <2>1, <2>4, FitTimes DEF rs, re
  <2>9. /\ y.start <= seg.start /\ seg.end <= y.end /\ y.start <= nxt.start /\ nxt.end <= y.end
        /\ y.start <= rs /\ re <= y.end
    BY <2>4, <2>7, <2>8, <1>2
  <2>10. ExtentOf(Others(s, {i, j}) \cup {seg, nxt}, lo, hi) /\ {seg, nxt} \in SUBSET Segment
    BY <2>3, <2>4, <1>4
  <2>11. ExtentOf(Others(s, {i, j}) \cup {y}, Lesser(rs, lo), Greater(re, hi))
    BY <2>7, <2>9, <2>10, <1>1, <1>2, ExtentKept
  <2> QED BY <2>1, <2>11, <1>3
<1> QED BY <1>6, <1>7, <1>8

(* The extent of one trace ID in terms of its set of segments. *)
LEMMA ExtentByID ==
  ExtentExact <=>
    \A k \in Keys : ids[k].segs # <<>> =>
      ExtentOf(Members(ids[k].segs), ids[k].earliest, ids[k].latest)
BY DEF ExtentExact, InList, ExtentOf, Members

(* With a tolerance of at most a sample period, and merges that cannot     *)
(* fail half way, earliest and latest are exactly the extent of the        *)
(* segments of a trace ID: the shortcuts of mstl3_addmsr() that skip the   *)
(* search on their account are right to do so.                             *)
THEOREM ExtentStaysExact ==
  ASSUME WholeMerges, FineTolerance
  PROVE  Spec => []ExtentExact
<1>1. Init => ExtentExact
  BY DEF Init, ExtentExact, InList, NoTraceID
<1>2. IInv /\ AllIn(RecordTypes) /\ AllIn(Forward) /\ ExtentExact /\ [Next]_vars => ExtentExact'
  <2> SUFFICES ASSUME IInv, AllIn(RecordTypes), AllIn(Forward), ExtentExact, [Next]_vars,
                      NEW l \in Keys, ids'[l].segs # <<>>
               PROVE  ExtentOf(Members(ids'[l].segs), ids'[l].earliest, ids'[l].latest)
    BY DEF ExtentExact, InList, ExtentOf, Members
  <2>0. ids[l].segs # <<>> => ExtentOf(Members(ids[l].segs), ids[l].earliest, ids[l].latest)
    BY ExtentByID
  <2>1. CASE UNCHANGED listVars
    BY <2>0, <2>1 DEF listVars
  <2>2. ASSUME NEW rec \in Records, AddID(rec)
        PROVE  ExtentOf(Members(ids'[l].segs), ids'[l].earliest, ids'[l].latest)
    <3> DEFINE y == Stamp(Msr2Seg(rec))
               kk == KeyOf(rec)
    <3>1. /\ OnlyID(kk) /\ Members(ids'[kk].segs) = {y}
          /\ ids'[kk].earliest = rec.start /\ ids'[kk].latest = EndTime(rec)
      BY <2>2, AddIDLeaves
    <3>2. Msr2Seg(rec) \in Segment /\ now \in Nat
      BY RecordSegment DEF IInv, TypeOK
    <3>3. y.start = rec.start /\ y.end = EndTime(rec)
      BY <3>2, MadeExtents
    <3> HIDE DEF y
    <3>4. rec.start \in Int /\ EndTime(rec) \in Int
      BY RecordTimes
    <3>5. ExtentOf({y}, rec.start, EndTime(rec))
      BY <3>3, <3>4 DEF ExtentOf
    <3>6. CASE l = kk
      BY <3>1, <3>5, <3>6
    <3>7. CASE l # kk
      BY <3>1, <3>7, <2>0 DEF OnlyID
    <3> QED BY <3>6, <3>7
  <2>3. ASSUME NEW rec \in Records, NEW k \in Matching(rec),
               AddToSegment(k, rec) \/ MergeSegments(k, rec) \/ AddSegment(k, rec)
        PROVE  ExtentOf(Members(ids'[l].segs), ids'[l].earliest, ids'[l].latest)
    <3>1. k \in Keys /\ OnlyID(k)
      BY <2>3, StepTracks
    <3>2. ids[k].segs # <<>>
      BY DEF Matching, FindID, InList
    <3>3. ExtentOf(Members(ids[k].segs), ids[k].earliest, ids[k].latest)
      BY <3>1, <3>2, ExtentByID
    <3>4. ExtentOf(Members(ids'[k].segs), ids'[k].earliest, ids'[k].latest)
      BY <2>3, <3>3, ExtentStep
    <3>5. CASE l = k
      BY <3>4, <3>5
    <3>6. CASE l # k
      BY <3>1, <3>6, <2>0 DEF OnlyID
    <3> QED BY <3>5, <3>6
  <2>4. ASSUME NEW rec \in Records, NEW k \in Matching(rec), RejectMsr(k, rec)
        PROVE  ExtentOf(Members(ids'[l].segs), ids'[l].earliest, ids'[l].latest)
    BY <2>0, <2>4 DEF RejectMsr, listVars
  <2> QED BY <2>1, <2>2, <2>3, <2>4, StepAdds DEF AddMsr
<1> QED BY <1>1, <1>2, TypesInvariant, ForwardInvariant, Invariance, PTL DEF Spec

-----------------------------------------------------------------------------
(* Samples taken at a nominal period.                                      *)

(* The samples are in strict time order from first to last, each within    *)
(* drift of where the period P puts it.                                    *)
TimeSeries(data, first, last, P, drift) ==
  /\ data \in Seq(Int) /\ Len(data) > 0
  /\ data[1] = first /\ data[Len(data)] = last
  /\ \A m \in 1 .. Len(data) - 1 : data[m] < data[m + 1]
  /\ \A m \in 1 .. Len(data) :
       /\ -drift <= data[m] - (first + (m - 1) * P)
       /\ data[m] - (first + (m - 1) * P) <= drift

(* A sum of sample counts times the period. *)
LEMMA Spread ==
  ASSUME NEW x \in Int, NEW y \in Int, NEW P \in Int
  PROVE  x * P \in Int /\ y * P \in Int /\ (x + y) * P = x * P + y * P
OBVIOUS

(* A concatenation by its two parts. *)
LEMMA ConcatParts ==
  ASSUME NEW S, NEW a \in Seq(S), NEW b \in Seq(S)
  PROVE  /\ a \o b \in Seq(S) /\ Len(a \o b) = Len(a) + Len(b)
         /\ Len(a) \in Nat /\ Len(b) \in Nat
         /\ \A m \in 1 .. Len(a) : (a \o b)[m] = a[m]
         /\ \A q \in 1 .. Len(b) : (a \o b)[Len(a) + q] = b[q]
<1>1. \A m \in 1 .. Len(a) : (a \o b)[m] = a[m]
  OBVIOUS
<1>2. ASSUME NEW q \in 1 .. Len(b) PROVE (a \o b)[Len(a) + q] = b[q]
  <2>1. Len(a) + q \in 1 .. Len(a) + Len(b) /\ ~(Len(a) + q <= Len(a)) /\ Len(a) + q - Len(a) = q
    OBVIOUS
  <2> QED BY <2>1, ConcatProperties
<1> QED BY <1>1, <1>2

(* Two time series of one period make one when the second starts within h  *)
(* of where the first would go on.                                         *)
LEMMA SeriesJoin ==
  ASSUME NEW a, NEW b, NEW P \in Nat, NEW h \in Nat, h < P,
         NEW f1 \in Int, NEW l1 \in Int, NEW d1 \in Nat, TimeSeries(a, f1, l1, P, d1),
         NEW f2 \in Int, NEW l2 \in Int, NEW d2 \in Nat, TimeSeries(b, f2, l2, P, d2),
         -h <= f2 - l1 - P, f2 - l1 - P <= h
  PROVE  TimeSeries(a \o b, f1, l2, P, d1 + d2 + h)
<1> DEFINE n1 == Len(a)
           n2 == Len(b)
           c == a \o b
<1>1. a \in Seq(Int) /\ b \in Seq(Int) /\ n1 \in Nat /\ n2 \in Nat /\ n1 > 0 /\ n2 > 0
  BY DEF TimeSeries
<1>2. /\ a[1] = f1 /\ a[n1] = l1 /\ b[1] = f2 /\ b[n2] = l2
      /\ \A m \in 1 .. n1 - 1 : a[m] < a[m + 1]
      /\ \A m \in 1 .. n2 - 1 : b[m] < b[m + 1]
  BY DEF TimeSeries
<1>3. /\ c \in Seq(Int) /\ Len(c) = n1 + n2
      /\ \A m \in 1 .. n1 : c[m] = a[m]
      /\ \A q \in 1 .. n2 : c[n1 + q] = b[q]
  BY <1>1, ConcatParts
<1>4. /\ \A m \in 1 .. n1 : a[m] \in Int
      /\ \A m \in 1 .. n2 : b[m] \in Int
  BY <1>1, ElementOfSeq
<1>5. /\ \A m \in 1 .. n1 : -d1 <= a[m] - (f1 + (m - 1) * P) /\ a[m] - (f1 + (m - 1) * P) <= d1
      /\ \A m \in 1 .. n2 : -d2 <= b[m] - (f2 + (m - 1) * P) /\ b[m] - (f2 + (m - 1) * P) <= d2
  BY DEF TimeSeries
<1> HIDE DEF c, n1, n2
<1>6. c[1] = f1 /\ c[Len(c)] = l2 /\ n1 \in 1 .. n1 /\ n2 \in 1 .. n2 /\ 1 \in 1 .. n1 /\ 1 \in 1 .. n2
  <2>1. n1 \in 1 .. n1 /\ n2 \in 1 .. n2 /\ 1 \in 1 .. n1 /\ 1 \in 1 .. n2
    BY <1>1
  <2>2. c[1] = f1 /\ c[n1 + n2] = l2
    BY <2>1, <1>2, <1>3
  <2> QED BY <2>1, <2>2, <1>3
<1>7. ASSUME NEW m \in 1 .. n1 + n2 - 1 PROVE c[m] < c[m + 1]
  <2>1. CASE m < n1
    <3>1. m \in 1 .. n1 - 1 /\ m \in 1 .. n1 /\ m + 1 \in 1 .. n1
      BY <2>1, <1>1
    <3> QED BY <3>1, <1>2, <1>3
  <2>2. CASE m = n1
    <3>1. c[m] = l1 /\ c[m + 1] = f2
      BY <2>2, <1>2, <1>3, <1>6
    <3>2. l1 < f2
      OBVIOUS
    <3> QED BY <3>1, <3>2
  <2>3. CASE m > n1
    <3> DEFINE q == m - n1
    <3>1. q \in 1 .. n2 - 1 /\ q \in 1 .. n2 /\ q + 1 \in 1 .. n2 /\ m = n1 + q /\ m + 1 = n1 + (q + 1)
      BY <2>3, <1>1
    <3> HIDE DEF q
    <3>2. c[m] = b[q] /\ c[m + 1] = b[q + 1]
      BY <3>1, <1>3
    <3> QED BY <3>1, <3>2, <1>2
  <2> QED BY <2>1, <2>2, <2>3, <1>1
<1>8. ASSUME NEW m \in 1 .. n1 + n2
      PROVE  /\ -(d1 + d2 + h) <= c[m] - (f1 + (m - 1) * P)
             /\ c[m] - (f1 + (m - 1) * P) <= d1 + d2 + h
  <2>1. CASE m <= n1
    <3> DEFINE x == (m - 1) * P
    <3>1. m \in 1 .. n1 /\ m - 1 \in Int
      BY <2>1, <1>1
    <3>2. -d1 <= a[m] - (f1 + x) /\ a[m] - (f1 + x) <= d1 /\ a[m] \in Int /\ c[m] = a[m]
      BY <3>1, <1>3, <1>4, <1>5
    <3>3. x \in Int
      BY <3>1
    <3> HIDE DEF x
    <3>4. -(d1 + d2 + h) <= c[m] - (f1 + x) /\ c[m] - (f1 + x) <= d1 + d2 + h
      BY <3>2, <3>3
    <3> QED BY <3>4 DEF x
  <2>2. CASE m > n1
    <3> DEFINE q == m - n1
               x == (n1 - 1) * P
               y == (q - 1) * P
               z == (m - 1) * P
    <3>1. q \in 1 .. n2 /\ q \in Int /\ m = n1 + q
      BY <2>2, <1>1
    <3>2. -d1 <= l1 - (f1 + x) /\ l1 - (f1 + x) <= d1
      BY <1>2, <1>5, <1>6
    <3>3. x \in Int /\ y \in Int /\ z = x + P + y
      <4> HIDE DEF q
      <4>1. n1 - 1 \in Int /\ q - 1 \in Int /\ 1 * P = P
        BY <1>1, <3>1
      <4>2. q * P = y + P /\ y \in Int
        <5>1. (q - 1 + 1) * P = (q - 1) * P + 1 * P /\ (q - 1) * P \in Int
          BY <4>1, Spread
        <5>2. q - 1 + 1 = q
          BY <3>1
        <5> QED BY <5>1, <5>2, <4>1
      <4>3. (n1 - 1 + q) * P = x + q * P /\ x \in Int /\ q * P \in Int
        BY <3>1, <4>1, Spread
      <4>4. n1 - 1 + q = m - 1
        BY <1>1, <3>1
      <4> QED BY <4>2, <4>3, <4>4
    <3> HIDE DEF x, z, q
    <3>4. -d2 <= b[q] - (f2 + y) /\ b[q] - (f2 + y) <= d2 /\ b[q] \in Int /\ c[m] = b[q]
      BY <3>1, <1>3, <1>4, <1>5
    <3> HIDE DEF y
    <3>5. -(d1 + d2 + h) <= c[m] - (f1 + z) /\ c[m] - (f1 + z) <= d1 + d2 + h
      BY <3>2, <3>3, <3>4
    <3> QED BY <3>5 DEF z
  <2> QED BY <2>1, <2>2, <1>1
<1>9. Len(c) > 0 /\ Len(c) = n1 + n2 /\ c \in Seq(Int)
  BY <1>1, <1>3
<1>10. ASSUME NEW m \in 1 .. Len(c) - 1 PROVE c[m] < c[m + 1]
  <2>1. m \in 1 .. n1 + n2 - 1
    BY <1>1, <1>9
  <2> QED BY <2>1, <1>7
<1>11. ASSUME NEW m \in 1 .. Len(c)
       PROVE  /\ -(d1 + d2 + h) <= c[m] - (f1 + (m - 1) * P)
              /\ c[m] - (f1 + (m - 1) * P) <= d1 + d2 + h
  <2>1. m \in 1 .. n1 + n2
    BY <1>9
  <2> QED BY <2>1, <1>8
<1>12. TimeSeries(c, f1, l2, P, d1 + d2 + h)
  BY <1>6, <1>9, <1>10, <1>11, Zenon DEF TimeSeries
<1> QED BY <1>12 DEF c

(* Samples of cnt taken in recs records, decoded or not: the decoded ones  *)
(* are a time series that drifts by half a period at most where a record   *)
(* meets the next.                                                         *)
Block(data, cnt, first, last, recs, P) ==
  /\ data \in Seq(Int) /\ cnt \in Nat \ {0} /\ Len(data) <= cnt /\ recs \in Nat \ {0}
  /\ Len(data) = cnt => TimeSeries(data, first, last, P, (recs - 1) * (P \div 2))

(* Samples at first go on where those at last stopped, within half a period. *)
Meets(first, last, P) == -(P \div 2) <= first - last - P /\ first - last - P <= P \div 2

LEMMA BlockJoin ==
  ASSUME NEW P \in Nat \ {0},
         NEW a, NEW c1, NEW f1 \in Int, NEW l1 \in Int, NEW r1, Block(a, c1, f1, l1, r1, P),
         NEW b, NEW c2, NEW f2 \in Int, NEW l2 \in Int, NEW r2, Block(b, c2, f2, l2, r2, P),
         Meets(f2, l1, P)
  PROVE  Block(a \o b, c1 + c2, f1, l2, r1 + r2, P)
<1> DEFINE h == P \div 2
           d1 == (r1 - 1) * h
           d2 == (r2 - 1) * h
<1>1. /\ a \in Seq(Int) /\ c1 \in Nat \ {0} /\ Len(a) <= c1 /\ r1 \in Nat \ {0}
      /\ b \in Seq(Int) /\ c2 \in Nat \ {0} /\ Len(b) <= c2 /\ r2 \in Nat \ {0}
  BY DEF Block
<1>2. /\ Len(a) = c1 => TimeSeries(a, f1, l1, P, d1)
      /\ Len(b) = c2 => TimeSeries(b, f2, l2, P, d2)
  BY DEF Block
<1>3. /\ a \o b \in Seq(Int) /\ Len(a \o b) = Len(a) + Len(b)
      /\ Len(a) \in Nat /\ Len(b) \in Nat
  BY <1>1, ConcatParts
<1>4. h \in Nat /\ h < P
  OBVIOUS
<1>5. -h <= f2 - l1 - P /\ f2 - l1 - P <= h
  BY DEF Meets
<1> HIDE DEF h
<1>6. d1 \in Nat /\ d2 \in Nat
  <2>1. r1 - 1 \in Nat /\ r2 - 1 \in Nat
    BY <1>1
  <2>2. \A x, y \in Nat : x * y \in Nat
    OBVIOUS
  <2> QED BY <2>1, <2>2, <1>4
<1>7. (r1 + r2 - 1) * h = d1 + d2 + h
  <2>1. r1 - 1 \in Int /\ r2 - 1 \in Int /\ r2 \in Int /\ h \in Int /\ 1 * h = h
    BY <1>1, <1>4
  <2>2. (r2 - 1 + 1) * h = (r2 - 1) * h + 1 * h
    BY <2>1, Spread
  <2>3. (r1 - 1 + r2) * h = (r1 - 1) * h + r2 * h
    BY <2>1, Spread
  <2>4. r2 - 1 + 1 = r2 /\ r1 - 1 + r2 = r1 + r2 - 1
    BY <1>1
  <2>5. r2 * h = d2 + h
    BY <2>1, <2>2, <2>4
  <2>6. (r1 + r2 - 1) * h = d1 + r2 * h
    BY <2>3, <2>4
  <2> HIDE DEF d1, d2
  <2> QED BY <2>5, <2>6, <1>4, <1>6
<1>8. ASSUME Len(a \o b) = c1 + c2 PROVE TimeSeries(a \o b, f1, l2, P, d1 + d2 + h)
  <2>1. Len(a) = c1 /\ Len(b) = c2
    BY <1>1, <1>3, <1>8
  <2>2. TimeSeries(a, f1, l1, P, d1) /\ TimeSeries(b, f2, l2, P, d2)
    BY <2>1, <1>2
  <2> HIDE DEF d1, d2
  <2> QED BY <2>2, <1>4, <1>5, <1>6, SeriesJoin
<1>9. Len(a \o b) <= c1 + c2 /\ c1 + c2 \in Nat \ {0} /\ r1 + r2 \in Nat \ {0}
  BY <1>1, <1>3
<1>10. Len(a \o b) = c1 + c2 => TimeSeries(a \o b, f1, l2, P, (r1 + r2 - 1) * h)
  BY <1>7, <1>8
<1> QED BY <1>3, <1>9, <1>10 DEF Block, h

(* The records of the theorem: a rate of at most one sample per tick, at   *)
(* least one sample, and data that is either not decoded or holds all the  *)
(* samples, each taken when the record says.                               *)
RegularRecords ==
  \A rec \in Records : rec.rate # 0 =>
    /\ rec.rate <= TickRate /\ rec.cnt > 0
    /\ \/ rec.data = <<>>
       \/ /\ Len(rec.data) = rec.cnt
          /\ \A m \in 1 .. rec.cnt : rec.data[m] = SampleTime(rec.start, m - 1, rec.rate)

(* A tolerance of at most half a sample period, as the default is. *)
HalfTolerance == \A rec \in Records : TimeTol(rec) <= NsPeriod(rec.rate) \div 2

LEMMA HalfIsFine == HalfTolerance => FineTolerance
<1> SUFFICES ASSUME HalfTolerance, NEW rec \in Records PROVE TimeTol(rec) <= NsPeriod(rec.rate)
  BY DEF FineTolerance
<1>1. TimeTol(rec) <= NsPeriod(rec.rate) \div 2
  BY DEF HalfTolerance
<1>2. NsPeriod(rec.rate) \in Nat /\ TimeTol(rec) \in Nat
  BY RecordTimes
<1>3. \A x, y \in Nat : y <= x \div 2 => y <= x
  OBVIOUS
<1> QED BY <1>1, <1>2, <1>3

(* A period of at least one tick. *)
LEMMA PeriodPositive ==
  ASSUME NEW rate \in Nat \ {0}, rate <= TickRate
  PROVE  NsPeriod(rate) \in Nat \ {0}
<1>1. TickRate \in Nat
  BY ConstantsAssumption
<1>2. TickRate \div rate \in Nat /\ TickRate \div rate > 0
  BY <1>1
<1> QED BY <1>2 DEF NsPeriod

(* A record is a block of one. *)
LEMMA RecordBlock ==
  ASSUME RegularRecords, NEW rec \in Records, rec.rate # 0
  PROVE  /\ NsPeriod(rec.rate) \in Nat \ {0}
         /\ Block(rec.data, rec.cnt, rec.start, EndTime(rec), 1, NsPeriod(rec.rate))
<1> DEFINE P == NsPeriod(rec.rate)
<1>1. /\ rec.start \in Int /\ rec.rate \in Nat /\ rec.cnt \in Nat /\ rec.data \in Seq(Int)
  BY RecordFields DEF RecordType
<1>2. /\ rec.rate <= TickRate /\ rec.cnt > 0
      /\ \/ rec.data = <<>>
         \/ /\ Len(rec.data) = rec.cnt
            /\ \A m \in 1 .. rec.cnt : rec.data[m] = SampleTime(rec.start, m - 1, rec.rate)
  BY DEF RegularRecords
<1>3. P \in Nat \ {0}
  BY <1>1, <1>2, PeriodPositive
<1>4. EndTime(rec) = rec.start + (rec.cnt - 1) * P
  BY <1>2 DEF EndTime, SampleTime
<1>5. \A m : SampleTime(rec.start, m - 1, rec.rate) = rec.start + (m - 1) * P
  BY DEF SampleTime
<1> HIDE DEF P
<1>6. 1 - 1 = 0 /\ 0 * (P \div 2) = 0
  BY <1>3
<1>7. ASSUME Len(rec.data) = rec.cnt
      PROVE  TimeSeries(rec.data, rec.start, EndTime(rec), P, 0)
  <2>1. rec.data # <<>>
    BY <1>2, <1>7
  <2>2. \A m \in 1 .. rec.cnt : rec.data[m] = rec.start + (m - 1) * P
    BY <2>1, <1>2, <1>5
  <2>3. rec.data[1] = rec.start
    <3>1. 1 \in 1 .. rec.cnt /\ (1 - 1) * P = 0
      BY <1>1, <1>2, <1>3
    <3> QED BY <3>1, <2>2, <1>1
  <2>4. rec.data[rec.cnt] = EndTime(rec)
    BY <2>2, <1>1, <1>2, <1>4
  <2>5. ASSUME NEW m \in 1 .. rec.cnt - 1 PROVE rec.data[m] < rec.data[m + 1]
    <3>1. m \in 1 .. rec.cnt /\ m + 1 \in 1 .. rec.cnt /\ m - 1 \in Int /\ m + 1 - 1 = m - 1 + 1
      BY <1>1
    <3>2. (m - 1 + 1) * P = (m - 1) * P + 1 * P /\ 1 * P = P /\ (m - 1) * P \in Int
      BY <3>1, <1>3, Spread
    <3> DEFINE x == (m - 1) * P
    <3>3. rec.data[m] = rec.start + x /\ rec.data[m + 1] = rec.start + (m + 1 - 1) * P
      BY <3>1, <2>2
    <3>4. (m + 1 - 1) * P = x + P /\ x \in Int
      BY <3>1, <3>2
    <3> HIDE DEF x
    <3> QED BY <3>3, <3>4, <1>1, <1>3
  <2>6. ASSUME NEW m \in 1 .. rec.cnt
        PROVE  /\ -0 <= rec.data[m] - (rec.start + (m - 1) * P)
               /\ rec.data[m] - (rec.start + (m - 1) * P) <= 0
    <3> DEFINE x == (m - 1) * P
    <3>1. m - 1 \in Int /\ x \in Int
      BY <1>1, <1>3
    <3>2. rec.data[m] = rec.start + x
      BY <2>2
    <3> HIDE DEF x
    <3>3. -0 <= rec.data[m] - (rec.start + x) /\ rec.data[m] - (rec.start + x) <= 0
      BY <3>1, <3>2, <1>1
    <3> QED BY <3>3 DEF x
  <2> QED BY <2>3, <2>4, <2>5, <2>6, <1>1, <1>2, <1>7 DEF TimeSeries
<1>8. Len(rec.data) <= rec.cnt
  BY <1>1, <1>2
<1>9. Len(rec.data) = rec.cnt => TimeSeries(rec.data, rec.start, EndTime(rec), P, (1 - 1) * (P \div 2))
  BY <1>6, <1>7
<1> QED BY <1>1, <1>2, <1>3, <1>8, <1>9 DEF Block, P

(* The segments that are time series, for every key. *)
IsSeries(s) ==
  s.rate # 0 => /\ NsPeriod(s.rate) \in Nat \ {0}
                /\ Block(s.data, s.cnt, s.start, s.end, Len(s.recordlist), NsPeriod(s.rate))

SeriesSegs == [k \in Keys |-> {s \in Segment : IsSeries(s)}]

(* The samples and the record lists of the segments made from others. *)
LEMMA MadeSamples ==
  ASSUME KeepRecordPtrs, NEW rec \in Records, NEW s1 \in Segment, NEW s2 \in Segment
  PROVE  /\ Msr2Seg(rec).rate = rec.rate /\ Msr2Seg(rec).cnt = rec.cnt
         /\ Msr2Seg(rec).data = rec.data /\ Len(Msr2Seg(rec).recordlist) = 1
         /\ AddMsrToEnd(s1, rec).rate = s1.rate /\ AddMsrToEnd(s1, rec).cnt = s1.cnt + rec.cnt
         /\ AddMsrToEnd(s1, rec).data = s1.data \o rec.data
         /\ Len(AddMsrToEnd(s1, rec).recordlist) = Len(s1.recordlist) + 1
         /\ AddMsrToStart(s1, rec).rate = s1.rate /\ AddMsrToStart(s1, rec).cnt = s1.cnt + rec.cnt
         /\ AddMsrToStart(s1, rec).data = rec.data \o s1.data
         /\ Len(AddMsrToStart(s1, rec).recordlist) = Len(s1.recordlist) + 1
         /\ AddSegToSeg(s1, s2).rate = s1.rate /\ AddSegToSeg(s1, s2).cnt = s1.cnt + s2.cnt
         /\ AddSegToSeg(s1, s2).data = s1.data \o s2.data
         /\ Len(AddSegToSeg(s1, s2).recordlist) = Len(s1.recordlist) + Len(s2.recordlist)
         /\ Stamp(s1).rate = s1.rate /\ Stamp(s1).cnt = s1.cnt /\ Stamp(s1).data = s1.data
         /\ Len(Stamp(s1).recordlist) = Len(s1.recordlist)
<1>1. s1.recordlist \in Seq(Records) /\ s2.recordlist \in Seq(Records)
  BY DEF Segment
<1>2. /\ Msr2Seg(rec).rate = rec.rate /\ Msr2Seg(rec).cnt = rec.cnt
      /\ Msr2Seg(rec).data = rec.data
      /\ AddMsrToEnd(s1, rec).rate = s1.rate /\ AddMsrToEnd(s1, rec).cnt = s1.cnt + rec.cnt
      /\ AddMsrToEnd(s1, rec).data = s1.data \o rec.data
      /\ AddMsrToStart(s1, rec).rate = s1.rate /\ AddMsrToStart(s1, rec).cnt = s1.cnt + rec.cnt
      /\ AddMsrToStart(s1, rec).data = rec.data \o s1.data
      /\ AddSegToSeg(s1, s2).rate = s1.rate /\ AddSegToSeg(s1, s2).cnt = s1.cnt + s2.cnt
      /\ AddSegToSeg(s1, s2).data = s1.data \o s2.data
      /\ Stamp(s1).rate = s1.rate /\ Stamp(s1).cnt = s1.cnt /\ Stamp(s1).data = s1.data
  BY DEF Msr2Seg, AddMsrToEnd, AddMsrToStart, AddSegToSeg, Stamp, Segment
<1>3. /\ Msr2Seg(rec).recordlist = RecordPtrs(rec)
      /\ AddMsrToEnd(s1, rec).recordlist = s1.recordlist \o RecordPtrs(rec)
      /\ AddMsrToStart(s1, rec).recordlist = RecordPtrs(rec) \o s1.recordlist
      /\ Stamp(s1).recordlist = s1.recordlist
      /\ AddSegToSeg(s1, s2).recordlist = s1.recordlist \o s2.recordlist
  BY DEF Msr2Seg, AddMsrToEnd, AddMsrToStart, Stamp, AddSegToSeg, Segment
<1>4. RecordPtrs(rec) \in Seq(Records) /\ Len(RecordPtrs(rec)) = 1
  BY DEF RecordPtrs
<1> DEFINE a == s1.recordlist
           b == s2.recordlist
           c == RecordPtrs(rec)
<1>5. a \in Seq(Records) /\ b \in Seq(Records) /\ c \in Seq(Records) /\ Len(c) = 1
  BY <1>1, <1>4
<1> HIDE DEF a, b, c
<1>6. Len(a \o c) = Len(a) + 1 /\ Len(c \o a) = Len(a) + 1 /\ Len(a \o b) = Len(a) + Len(b)
  <2>1. /\ Len(a \o c) = Len(a) + Len(c) /\ Len(c \o a) = Len(c) + Len(a)
        /\ Len(a \o b) = Len(a) + Len(b) /\ Len(a) \in Nat
    BY <1>5, ConcatParts
  <2>2. 1 + Len(a) = Len(a) + 1
    BY <2>1
  <2> QED BY <2>1, <2>2, <1>5
<1>7. /\ Len(Msr2Seg(rec).recordlist) = 1
      /\ Len(AddMsrToEnd(s1, rec).recordlist) = Len(s1.recordlist) + 1
      /\ Len(AddMsrToStart(s1, rec).recordlist) = Len(s1.recordlist) + 1
      /\ Len(Stamp(s1).recordlist) = Len(s1.recordlist)
      /\ Len(AddSegToSeg(s1, s2).recordlist) = Len(s1.recordlist) + Len(s2.recordlist)
  BY <1>3, <1>5, <1>6 DEF a, b, c
<1> QED BY <1>2, <1>7

LEMMA HalfFits ==
  ASSUME UserRateTol = 0, HalfTolerance, NEW rec \in Records, NEW seg \in Segment
  PROVE  /\ FitsAfter(rec, seg) =>
              rec.rate = seg.rate /\ seg.rate # 0 /\ Meets(rec.start, seg.end, NsPeriod(seg.rate))
         /\ FitsBefore(rec, seg) =>
              rec.rate = seg.rate /\ seg.rate # 0 /\ Meets(seg.start, EndTime(rec), NsPeriod(seg.rate))
<1>1. /\ rec.start \in Int /\ EndTime(rec) \in Int /\ NsPeriod(rec.rate) \in Nat
      /\ TimeTol(rec) \in Nat
  BY RecordTimes
<1>2. TimeTol(rec) <= NsPeriod(rec.rate) \div 2 /\ NsPeriod(rec.rate) \div 2 \in Nat
  BY <1>1 DEF HalfTolerance
<1>3. seg.start \in Int /\ seg.end \in Int
  BY DEF Segment
<1>4. FitsAfter(rec, seg) =>
        /\ rec.rate = seg.rate /\ seg.rate # 0
        /\ -TimeTol(rec) <= rec.start - seg.end - NsPeriod(rec.rate)
        /\ rec.start - seg.end - NsPeriod(rec.rate) <= TimeTol(rec)
  BY DEF FitsAfter, WithinTol, IsSampRateSimilar, HasTimeCoverage
<1>5. FitsBefore(rec, seg) =>
        /\ rec.rate = seg.rate /\ seg.rate # 0
        /\ -TimeTol(rec) <= seg.start - EndTime(rec) - NsPeriod(rec.rate)
        /\ seg.start - EndTime(rec) - NsPeriod(rec.rate) <= TimeTol(rec)
  BY DEF FitsBefore, WithinTol, IsSampRateSimilar, HasTimeCoverage
<1> DEFINE P == NsPeriod(rec.rate)
           h == P \div 2
           T == TimeTol(rec)
           E == EndTime(rec)
<1>6. P \in Nat /\ h \in Nat /\ T \in Nat /\ E \in Int /\ T <= h
  BY <1>1, <1>2
<1> HIDE DEF P, h, T, E
<1>7. ASSUME NEW x \in Int, -T <= x, x <= T PROVE -h <= x /\ x <= h
  BY <1>6, <1>7
<1>8. FitsAfter(rec, seg) => -h <= rec.start - seg.end - P /\ rec.start - seg.end - P <= h
  <2>1. rec.start - seg.end - P \in Int
    BY <1>1, <1>3, <1>6
  <2> QED BY <2>1, <1>4, <1>7 DEF P, T
<1>9. FitsBefore(rec, seg) => -h <= seg.start - E - P /\ seg.start - E - P <= h
  <2>1. seg.start - E - P \in Int
    BY <1>1, <1>3, <1>6
  <2> QED BY <2>1, <1>5, <1>7 DEF P, T, E
<1> QED BY <1>4, <1>5, <1>8, <1>9, Zenon DEF P, h, E, Meets

(* Adding a regular record keeps segments time series. *)
LEMMA SeriesClosed ==
  ASSUME UserRateTol = 0, HalfTolerance, RegularRecords, KeepRecordPtrs, now \in Nat,
         NEW rec \in Records
  PROVE  Closed(SeriesSegs, rec)
<1> DEFINE Good == {s \in Segment : IsSeries(s)}
<1>1. KeyOf(rec) \in Keys /\ Matching(rec) \subseteq Keys
  BY RecordFields DEF Matching, FindID
<1>2. \A k \in Keys : SeriesSegs[k] = Good
  BY DEF SeriesSegs
<1>3. /\ rec.start \in Int /\ EndTime(rec) \in Int
      /\ rec.rate # 0 => /\ NsPeriod(rec.rate) \in Nat \ {0}
                         /\ Block(rec.data, rec.cnt, rec.start, EndTime(rec), 1, NsPeriod(rec.rate))
  BY RecordTimes, RecordBlock
<1>4. \A s \in Good : s \in Segment /\ s.start \in Int /\ s.end \in Int /\ s.cnt \in Nat /\ IsSeries(s)
  BY DEF Segment
<1>5. Msr2Seg(rec) \in Good
  <2>1. Msr2Seg(rec) \in Segment
    BY RecordSegment
  <2>2. /\ Msr2Seg(rec).rate = rec.rate /\ Msr2Seg(rec).cnt = rec.cnt
        /\ Msr2Seg(rec).data = rec.data /\ Len(Msr2Seg(rec).recordlist) = 1
        /\ Msr2Seg(rec).start = rec.start /\ Msr2Seg(rec).end = EndTime(rec)
    BY <2>1, MadeSamples, MadeExtents
  <2>3. IsSeries(Msr2Seg(rec))
    BY <2>2, <1>3, Zenon DEF IsSeries
  <2> QED BY <2>1, <2>3
<1>6. ASSUME NEW s \in Good, FitsAfter(rec, s) PROVE AddMsrToEnd(s, rec) \in Good
  <2> DEFINE g == AddMsrToEnd(s, rec)
             P == NsPeriod(s.rate)
             n == Len(s.recordlist)
  <2>1. rec.rate = s.rate /\ s.rate # 0 /\ Meets(rec.start, s.end, P)
    BY <1>4, <1>6, HalfFits
  <2>2. P \in Nat \ {0} /\ Block(s.data, s.cnt, s.start, s.end, n, P)
    BY <1>4, <2>1 DEF IsSeries
  <2>3. Block(rec.data, rec.cnt, rec.start, EndTime(rec), 1, P)
    BY <1>3, <2>1
  <2> HIDE DEF P, n
  <2>4. Block(s.data \o rec.data, s.cnt + rec.cnt, s.start, EndTime(rec), n + 1, P)
    BY <1>3, <1>4, <2>1, <2>2, <2>3, BlockJoin
  <2>5. g \in Segment
    BY <1>4, MadeFields
  <2>6. /\ g.rate = s.rate /\ g.cnt = s.cnt + rec.cnt /\ g.data = s.data \o rec.data
        /\ Len(g.recordlist) = n + 1 /\ g.start = s.start /\ g.end = EndTime(rec)
    BY <1>4, MadeSamples, MadeExtents DEF n
  <2> HIDE DEF g
  <2>7. IsSeries(g)
    BY <2>2, <2>4, <2>6, Zenon DEF IsSeries, P
  <2>8. g \in Good
    BY <2>5, <2>7
  <2> QED BY <2>8 DEF g
<1>7. ASSUME NEW s \in Good, FitsBefore(rec, s) PROVE AddMsrToStart(s, rec) \in Good
  <2> DEFINE g == AddMsrToStart(s, rec)
             P == NsPeriod(s.rate)
             n == Len(s.recordlist)
  <2>1. rec.rate = s.rate /\ s.rate # 0 /\ Meets(s.start, EndTime(rec), P)
    BY <1>4, <1>7, HalfFits
  <2>2. P \in Nat \ {0} /\ Block(s.data, s.cnt, s.start, s.end, n, P)
    BY <1>4, <2>1 DEF IsSeries
  <2>3. Block(rec.data, rec.cnt, rec.start, EndTime(rec), 1, P)
    BY <1>3, <2>1
  <2>0. n \in Nat /\ rec.cnt \in Nat
    BY <2>2, <2>3 DEF Block
  <2> HIDE DEF P, n
  <2>4. Block(rec.data \o s.data, rec.cnt + s.cnt, rec.start, s.end, 1 + n, P)
    BY <1>3, <1>4, <2>1, <2>2, <2>3, BlockJoin
  <2>5. g \in Segment
    BY <1>4, MadeFields
  <2>6. /\ g.rate = s.rate /\ g.cnt = rec.cnt + s.cnt /\ g.data = rec.data \o s.data
        /\ Len(g.recordlist) = 1 + n /\ g.start = rec.start /\ g.end = s.end
    <3>1. /\ g.rate = s.rate /\ g.cnt = s.cnt + rec.cnt /\ g.data = rec.data \o s.data
          /\ Len(g.recordlist) = n + 1 /\ g.start = rec.start /\ g.end = s.end
      BY <1>4, MadeSamples, MadeExtents DEF n
    <3>2. s.cnt + rec.cnt = rec.cnt + s.cnt /\ n + 1 = 1 + n
      BY <2>0, <1>4
    <3> QED BY <3>1, <3>2
  <2> HIDE DEF g
  <2>7. IsSeries(g)
    BY <2>2, <2>4, <2>6, Zenon DEF IsSeries, P
  <2>8. g \in Good
    BY <2>5, <2>7
  <2> QED BY <2>8 DEF g
<1>8. ASSUME NEW s1 \in Good, NEW s2 \in Good, FitsAfter(rec, s1), FitsBefore(rec, s2)
      PROVE  AddSegToSeg(AddMsrToEnd(s1, rec), s2) \in Good
  <2> DEFINE g == AddMsrToEnd(s1, rec)
             P == NsPeriod(s1.rate)
             c == AddSegToSeg(g, s2)
  <2>1. /\ rec.rate = s1.rate /\ rec.rate = s2.rate /\ s2.rate # 0
        /\ Meets(s2.start, EndTime(rec), NsPeriod(s2.rate))
    BY <1>4, <1>8, HalfFits
  <2>2. g \in Good
    BY <1>6, <1>8
  <2>3. g.rate = s1.rate /\ g.end = EndTime(rec)
    BY <1>4, MadeSamples, MadeExtents
  <2> HIDE DEF g
  <2>4. g \in Segment /\ g.start \in Int /\ g.end \in Int /\ g.cnt \in Nat /\ IsSeries(g)
    BY <2>2, <1>4
  <2>5. /\ P \in Nat \ {0} /\ Block(g.data, g.cnt, g.start, g.end, Len(g.recordlist), P)
        /\ Block(s2.data, s2.cnt, s2.start, s2.end, Len(s2.recordlist), P)
        /\ Meets(s2.start, g.end, P)
    BY <1>4, <2>1, <2>3, <2>4, Zenon DEF IsSeries
  <2> HIDE DEF P
  <2>6. Block(g.data \o s2.data, g.cnt + s2.cnt, g.start, s2.end,
              Len(g.recordlist) + Len(s2.recordlist), P)
    BY <1>4, <2>4, <2>5, BlockJoin
  <2>7. c \in Segment
    BY <1>4, <2>4, MergedFields
  <2>8. /\ c.rate = s1.rate /\ c.cnt = g.cnt + s2.cnt /\ c.data = g.data \o s2.data
        /\ Len(c.recordlist) = Len(g.recordlist) + Len(s2.recordlist)
        /\ c.start = g.start /\ c.end = s2.end
    BY <1>4, <2>3, <2>4, MadeSamples, MadeExtents, ZenonT(30)
  <2> HIDE DEF c
  <2>9. IsSeries(c)
    BY <2>5, <2>6, <2>8, Zenon DEF IsSeries, P
  <2>10. c \in Good
    BY <2>7, <2>9
  <2> QED BY <2>10 DEF c, g
<1>9. ASSUME NEW s \in Good PROVE Stamp(s) \in Good
  <2>1. Stamp(s) \in Segment
    BY <1>4, StampFields
  <2>2. /\ Stamp(s).rate = s.rate /\ Stamp(s).cnt = s.cnt /\ Stamp(s).data = s.data
        /\ Len(Stamp(s).recordlist) = Len(s.recordlist)
        /\ Stamp(s).start = s.start /\ Stamp(s).end = s.end
    BY <1>4, MadeSamples, MadeExtents
  <2>3. IsSeries(Stamp(s))
    BY <1>4, <2>2, Zenon DEF IsSeries
  <2> QED BY <2>1, <2>3
<1> HIDE DEF Good
<1> QED BY <1>1, <1>2, <1>5, <1>6, <1>7, <1>8, <1>9 DEF Closed

(* Regular records, added with the default rate tolerance and at most half *)
(* a period of time tolerance, make segments that are time series: the     *)
(* samples are in strict time order, the first and the last are where the  *)
(* segment says, and they drift from the nominal rate by half a period for *)
(* every record boundary at most.                                          *)
THEOREM SegmentsAreSeries ==
  ASSUME UserRateTol = 0, HalfTolerance, RegularRecords, KeepRecordPtrs
  PROVE  Spec => []SeriesContinuous
<1>1. Init => AllIn(SeriesSegs)
  BY ClosedInit
<1>2. IInv /\ AllIn(SeriesSegs) /\ [Next]_vars => AllIn(SeriesSegs)'
  <2> SUFFICES ASSUME IInv, AllIn(SeriesSegs), [Next]_vars PROVE AllIn(SeriesSegs)'
    OBVIOUS
  <2>1. CASE UNCHANGED listVars
    BY <2>1 DEF listVars, AllIn, Members
  <2>2. ASSUME NEW rec \in Records, AddMsr(rec) PROVE AllIn(SeriesSegs)'
    BY <2>2, SeriesClosed, ClosedStep DEF IInv, TypeOK
  <2> QED BY <2>1, <2>2, StepAdds
<1>3. AllIn(SeriesSegs) => SeriesContinuous
  <2> SUFFICES ASSUME AllIn(SeriesSegs), NEW k \in Keys, NEW i \in 1 .. Len(ids[k].segs),
                      NEW seg, seg = ids[k].segs[i],
                      HasTimeCoverage(seg), Len(seg.data) = seg.cnt
               PROVE  LET n == Len(seg.data)
                          drift == (Len(seg.recordlist) - 1) * (NsPeriod(seg.rate) \div 2)
                      IN  /\ seg.data[1] = seg.start /\ seg.data[n] = seg.end
                          /\ \A m \in 1 .. n - 1 : seg.data[m] < seg.data[m + 1]
                          /\ \A m \in 1 .. n :
                               LET nominal == SampleTime(seg.start, m - 1, seg.rate)
                               IN  -drift <= seg.data[m] - nominal /\ seg.data[m] - nominal <= drift
    BY Zenon DEF SeriesContinuous
  <2>1. seg \in SeriesSegs[k]
    BY DEF AllIn, Members
  <2>2. IsSeries(seg) /\ seg.rate # 0
    BY <2>1 DEF SeriesSegs, HasTimeCoverage
  <2> DEFINE drift == (Len(seg.recordlist) - 1) * (NsPeriod(seg.rate) \div 2)
  <2>3. TimeSeries(seg.data, seg.start, seg.end, NsPeriod(seg.rate), drift)
    BY <2>2 DEF IsSeries, Block
  <2>4. \A m : SampleTime(seg.start, m - 1, seg.rate) = seg.start + (m - 1) * NsPeriod(seg.rate)
    BY DEF SampleTime
  <2> QED BY <2>3, <2>4, Zenon DEF TimeSeries
<1> QED BY <1>1, <1>2, <1>3, Invariance, PTL DEF Spec

-----------------------------------------------------------------------------
(* Healing.                                                                *)

(* Every source has one sample rate, of at most one sample per tick; some  *)
(* of its records may have none.                                           *)
SteadyRates ==
  \A r1, r2 \in Records :
    /\ r1.rate <= TickRate
    /\ r1.sid = r2.sid /\ r1.rate # 0 /\ r2.rate # 0 => r1.rate = r2.rate

(* The segments of the rate of their source. *)
SourceRate ==
  [k \in Keys |-> {s \in Segment : s.rate # 0 => \E r \in Records : r.sid = k[1] /\ r.rate = s.rate}]

LEMMA SourceRateClosed ==
  ASSUME now \in Nat, NEW rec \in Records
  PROVE  Closed(SourceRate, rec)
<1> DEFINE Good(k) == {s \in Segment : s.rate # 0 => \E r \in Records : r.sid = k[1] /\ r.rate = s.rate}
<1>1. KeyOf(rec) \in Keys /\ KeyOf(rec)[1] = rec.sid
  BY RecordFields DEF KeyOf
<1>2. \A k \in Matching(rec) : k \in Keys /\ k[1] = rec.sid
  BY DEF Matching, FindID
<1>3. \A k \in Keys : SourceRate[k] = Good(k)
  BY DEF SourceRate
<1>4. Msr2Seg(rec) \in Segment /\ Msr2Seg(rec).rate = rec.rate
  BY RecordSegment DEF Msr2Seg
<1>5. \A k : k[1] = rec.sid => Msr2Seg(rec) \in Good(k)
  BY <1>4
<1>6. \A s \in Segment : /\ AddMsrToEnd(s, rec) \in Segment /\ AddMsrToEnd(s, rec).rate = s.rate
                         /\ AddMsrToStart(s, rec) \in Segment /\ AddMsrToStart(s, rec).rate = s.rate
                         /\ Stamp(s) \in Segment /\ Stamp(s).rate = s.rate
  BY MadeFields DEF AddMsrToEnd, AddMsrToStart, Stamp, Segment
<1>7. \A s1, s2 \in Segment : AddSegToSeg(s1, s2) \in Segment /\ AddSegToSeg(s1, s2).rate = s1.rate
  BY MergedFields DEF AddSegToSeg, Segment
<1>8. ASSUME NEW k, NEW s \in Good(k)
      PROVE  AddMsrToEnd(s, rec) \in Good(k) /\ AddMsrToStart(s, rec) \in Good(k) /\ Stamp(s) \in Good(k)
  BY <1>6
<1>9. ASSUME NEW k, NEW s1 \in Good(k), NEW s2 \in Good(k)
      PROVE  AddSegToSeg(AddMsrToEnd(s1, rec), s2) \in Good(k)
  BY <1>6, <1>7
<1> HIDE DEF Good
<1> QED BY <1>1, <1>2, <1>3, <1>5, <1>8, <1>9 DEF Closed

LEMMA SourceRateInvariant == Spec => []AllIn(SourceRate)
<1>1. Init => AllIn(SourceRate)
  BY ClosedInit
<1>2. IInv /\ AllIn(SourceRate) /\ [Next]_vars => AllIn(SourceRate)'
  <2> SUFFICES ASSUME IInv, AllIn(SourceRate), [Next]_vars PROVE AllIn(SourceRate)'
    OBVIOUS
  <2>1. CASE UNCHANGED listVars
    BY <2>1 DEF listVars, AllIn, Members
  <2>2. ASSUME NEW rec \in Records, AddMsr(rec) PROVE AllIn(SourceRate)'
    BY <2>2, SourceRateClosed, ClosedStep DEF IInv, TypeOK
  <2> QED BY <2>1, <2>2, StepAdds
<1> QED BY <1>1, <1>2, Invariance, PTL DEF Spec

(* A segment that begins, or ends, with the record continues, or is        *)
(* continued by, exactly the segments the record fits.                     *)
LEMMA ContinuesFits ==
  ASSUME UserTimeTol = -1, UserRateTol = 0, NEW rec \in Records,
         NEW a \in Segment, NEW b \in Segment, b.rate = rec.rate
  PROVE  /\ b.start = rec.start => (Continues(a, b) <=> FitsAfter(rec, a) /\ HasTimeCoverage(b))
         /\ b.end = EndTime(rec) => (Continues(b, a) <=> FitsBefore(rec, a) /\ HasTimeCoverage(b))
<1>1. TimeTol(rec) = NsPeriod(rec.rate) \div 2
  BY DEF TimeTol
<1>2. \A s : IsSampRateSimilar(rec.rate, s.rate) <=> rec.rate = s.rate
  BY DEF IsSampRateSimilar
<1>3. FitsAfter(rec, a) <=>
        /\ WithinTol(rec.start - a.end - NsPeriod(rec.rate), rec)
        /\ rec.rate = a.rate /\ HasTimeCoverage(a)
  BY <1>2 DEF FitsAfter
<1>4. FitsBefore(rec, a) <=>
        /\ WithinTol(a.start - EndTime(rec) - NsPeriod(rec.rate), rec)
        /\ rec.rate = a.rate /\ HasTimeCoverage(a)
  BY <1>2 DEF FitsBefore
<1>5. b.start = rec.start => (Continues(a, b) <=> FitsAfter(rec, a) /\ HasTimeCoverage(b))
  BY <1>1, <1>3, Zenon DEF Continues, WithinTol
<1>6. b.end = EndTime(rec) => (Continues(b, a) <=> FitsBefore(rec, a) /\ HasTimeCoverage(b))
  BY <1>1, <1>4, Zenon DEF Continues, WithinTol
<1> QED BY <1>5, <1>6

(* Only the start, the end, the rate and the coverage of a segment count. *)
LEMMA ContinuesSame ==
  ASSUME NEW a, NEW b, NEW u, a.rate = b.rate, HasTimeCoverage(b)
  PROVE  /\ a.start = b.start /\ Continues(u, a) => Continues(u, b)
         /\ a.end = b.end /\ Continues(a, u) => Continues(b, u)
BY Zenon DEF Continues

(* What fits leaves a gap, of no more than the reach of the search. *)
LEMMA FitReach ==
  ASSUME UserTimeTol = -1, UserRateTol = 0, SteadyRates, NEW rec \in Records, NEW seg \in Segment
  PROVE  /\ FitsAfter(rec, seg) =>
              /\ rec.rate = seg.rate /\ seg.rate # 0 /\ seg.end < rec.start
              /\ rec.start - (NsPeriod(rec.rate) + TimeTol(rec)) <= seg.end
         /\ FitsBefore(rec, seg) =>
              /\ rec.rate = seg.rate /\ seg.rate # 0 /\ EndTime(rec) < seg.start
              /\ seg.start <= EndTime(rec) + (NsPeriod(rec.rate) + TimeTol(rec))
<1> DEFINE P == NsPeriod(rec.rate)
           T == TimeTol(rec)
           E == EndTime(rec)
           b == rec.start
<1>1. b \in Int /\ E \in Int /\ P \in Nat /\ T \in Nat
  BY RecordTimes
<1>2. rec.rate \in Nat /\ rec.rate <= TickRate
  BY RecordFields DEF RecordType, SteadyRates
<1>3. rec.rate # 0 => P > 0 /\ T < P
  <2>1. rec.rate # 0 => P \in Nat \ {0}
    BY <1>2, PeriodPositive
  <2>2. T = P \div 2
    BY DEF TimeTol
  <2>3. \A x \in Nat \ {0} : x > 0 /\ x \div 2 < x
    OBVIOUS
  <2> QED BY <2>1, <2>2, <2>3
<1>4. seg.start \in Int /\ seg.end \in Int
  BY DEF Segment
<1>5. FitsAfter(rec, seg) =>
        rec.rate = seg.rate /\ seg.rate # 0 /\ -T <= b - seg.end - P /\ b - seg.end - P <= T
  BY DEF FitsAfter, WithinTol, IsSampRateSimilar, HasTimeCoverage
<1>6. FitsBefore(rec, seg) =>
        rec.rate = seg.rate /\ seg.rate # 0 /\ -T <= seg.start - E - P /\ seg.start - E - P <= T
  BY DEF FitsBefore, WithinTol, IsSampRateSimilar, HasTimeCoverage
<1> DEFINE rr == rec.rate
<1> HIDE DEF P, T, E, b
<1>7. FitsAfter(rec, seg) => seg.end < b /\ b - (P + T) <= seg.end
  BY <1>1, <1>3, <1>4, <1>5
<1>8. FitsBefore(rec, seg) => E < seg.start /\ seg.start <= E + (P + T)
  BY <1>1, <1>3, <1>4, <1>6
<1> QED BY <1>5, <1>6, <1>7, <1>8 DEF P, T, E, b

(* The segments among which nothing is left to heal. *)
Healed(S) == \A x, y \in S : ~Continues(x, y)

(* No segment of S ends where the record starts, none starts where it ends. *)
NoneBefore(S, rec) == \A x \in S : ~FitsAfter(rec, x)
NoneAfter(S, rec) == \A x \in S : ~FitsBefore(rec, x)

(* A record that fits between two segments leaves them in that order. *)
LEMMA FitOrder ==
  ASSUME UserTimeTol = -1, UserRateTol = 0, SteadyRates, NEW rec \in Records,
         NEW x \in Segment, NEW y \in Segment, x.start <= x.end,
         FitsAfter(rec, x), FitsBefore(rec, y)
  PROVE  x.start < y.start
<1>1. x.end < rec.start /\ EndTime(rec) < y.start
  BY FitReach
<1>2. rec.start \in Int /\ EndTime(rec) \in Int /\ rec.start <= EndTime(rec)
  BY RecordTimes
<1>3. x.start \in Int /\ x.end \in Int /\ y.start \in Int
  BY DEF Segment
<1> QED BY <1>1, <1>2, <1>3

(* In a healed, sorted list whose extent is known the search misses        *)
(* nothing, however early it stops: a record that joins only one segment   *)
(* fits no other on its other side, and a new segment fits none.           *)
LEMMA NothingMissed ==
  ASSUME UserTimeTol = -1, UserRateTol = 0, SteadyRates, AutoHeal, NEW rec \in Records,
         NEW t, t.segs \in Seq(Segment), t.segs # <<>>, t.earliest \in Int, t.latest \in Int,
         Sorted(t.segs), ExtentOf(Members(t.segs), t.earliest, t.latest), Healed(Members(t.segs)),
         \A x \in Members(t.segs) : x.start <= x.end,
         \A x \in Members(t.segs) : x.rate # 0 /\ rec.rate # 0 => x.rate = rec.rate,
         NEW p, p = Placement(t, rec)
  PROVE  /\ p.how = "append" /\ p.merge = 0 => NoneAfter(Members(t.segs), rec)
         /\ p.how = "prepend" => NoneBefore(Members(t.segs), rec)
         /\ p.how = "insert" => NoneBefore(Members(t.segs), rec) /\ NoneAfter(Members(t.segs), rec)
<1> DEFINE s == t.segs
           N == Len(s)
           reach == NsPeriod(rec.rate) + TimeTol(rec)
           M == Members(s)
<1>1. N \in Nat /\ N > 0 /\ \A m \in 1 .. N : s[m] \in Segment
  BY EmptySeq, SegmentsOf
<1>2. \A x \in M : x \in Segment /\ \E m \in 1 .. N : x = s[m]
  BY <1>1 DEF Members
<1>3. \A m \in 1 .. N : s[m] \in M
  BY DEF Members
<1>4. /\ rec.start \in Int /\ EndTime(rec) \in Int /\ rec.start <= EndTime(rec) /\ reach \in Nat
      /\ \A x \in M : x.start \in Int /\ x.end \in Int
  <2>1. /\ rec.start \in Int /\ EndTime(rec) \in Int /\ rec.start <= EndTime(rec)
        /\ NsPeriod(rec.rate) \in Nat /\ TimeTol(rec) \in Nat
    BY RecordTimes
  <2>2. \A x \in Segment : x.start \in Int /\ x.end \in Int
    BY DEF Segment
  <2>3. reach \in Nat
    BY <2>1
  <2> QED BY <2>1, <2>2, <2>3, <1>2
<1>5. \A x \in M : t.earliest <= x.start /\ x.end <= t.latest
  BY DEF ExtentOf
<1>6. CASE FitsAfter(rec, s[N])
  <2>1. p = Place("append", N, 0)
    BY <1>6 DEF Placement
  <2>2. ASSUME NEW x \in M, FitsBefore(rec, x) PROVE FALSE
    <3>1. PICK m \in 1 .. N : x = s[m]
      BY <1>2
    <3>2. s[N] \in M /\ s[N].start <= s[N].end
      BY <1>1, <1>3
    <3>3. s[N].start < x.start
      BY <2>2, <3>2, <1>2, <1>6, FitOrder
    <3>4. m # N
      BY <3>1, <3>2, <3>3, <1>4
    <3>5. ~Later(x, s[N])
      BY <3>1, <3>4, <1>1 DEF Sorted
    <3> QED BY <3>2, <3>3, <3>5, <1>4 DEF Later
  <2> QED BY <2>1, <2>2 DEF Place, NoneAfter
<1>7. CASE ~FitsAfter(rec, s[N]) /\ rec.start - reach > t.latest
  <2>1. p = Place("insert", N + 1, 0)
    BY <1>7 DEF Placement
  <2>2. ASSUME NEW x \in M PROVE ~FitsAfter(rec, x) /\ ~FitsBefore(rec, x)
    <3>1. FitsAfter(rec, x) => rec.start - reach <= x.end
      BY <1>2, FitReach
    <3>2. FitsBefore(rec, x) => EndTime(rec) < x.start
      BY <1>2, FitReach
    <3>3. x.end <= t.latest /\ x.start <= x.end /\ x.start \in Int /\ x.end \in Int
      BY <1>4, <1>5
    <3> HIDE DEF reach
    <3> QED BY <3>1, <3>2, <3>3, <1>4, <1>7
  <2> QED BY <2>1, <2>2 DEF Place, NoneAfter, NoneBefore
<1>8. CASE ~FitsAfter(rec, s[N]) /\ ~(rec.start - reach > t.latest) /\ EndTime(rec) + reach < t.earliest
  <2>1. p = Place("insert", 1, 0)
    BY <1>8 DEF Placement
  <2>2. ASSUME NEW x \in M PROVE ~FitsAfter(rec, x) /\ ~FitsBefore(rec, x)
    <3>1. FitsBefore(rec, x) => x.start <= EndTime(rec) + reach
      BY <1>2, FitReach
    <3>2. FitsAfter(rec, x) => x.end < rec.start
      BY <1>2, FitReach
    <3>3. t.earliest <= x.start /\ x.start <= x.end /\ x.start \in Int /\ x.end \in Int
      BY <1>4, <1>5
    <3> HIDE DEF reach
    <3> QED BY <3>1, <3>2, <3>3, <1>4, <1>8
  <2> QED BY <2>1, <2>2 DEF Place, NoneAfter, NoneBefore
<1>9. CASE /\ ~FitsAfter(rec, s[N]) /\ ~(rec.start - reach > t.latest)
           /\ ~(EndTime(rec) + reach < t.earliest) /\ FitsBefore(rec, s[1])
  <2>1. p = Place("prepend", 1, 0)
    BY <1>9 DEF Placement
  <2>2. ASSUME NEW x \in M, FitsAfter(rec, x) PROVE FALSE
    <3>1. PICK m \in 1 .. N : x = s[m]
      BY <1>2
    <3>2. s[1] \in M /\ x.start <= x.end
      BY <1>1, <1>3
    <3>3. x.start < s[1].start
      BY <2>2, <3>2, <1>2, <1>9, FitOrder
    <3>4. m # 1
      BY <3>1, <3>2, <3>3, <1>4
    <3>5. ~Later(s[1], x)
      BY <3>1, <3>4, <1>1 DEF Sorted
    <3> QED BY <3>2, <3>3, <3>5, <1>4 DEF Later
  <2> QED BY <2>1, <2>2 DEF Place, NoneBefore
<1>10. CASE /\ ~FitsAfter(rec, s[N]) /\ ~(rec.start - reach > t.latest)
            /\ ~(EndTime(rec) + reach < t.earliest) /\ ~FitsBefore(rec, s[1])
  <2>1. p = SearchPlace(s, rec)
    BY <1>10 DEF Placement
  <2>2. PICK exact, before, after, follow :
          /\ Searched(s, rec, exact, before, after)
          /\ SearchPlace(s, rec) =
               IF before # 0 /\ (AutoHeal \/ after = 0 \/ before <= after)
               THEN Place("append", before, IF AutoHeal /\ after # before THEN after ELSE 0)
               ELSE IF after # 0 THEN Place("prepend", after, 0)
               ELSE Place("insert", follow + 1, 0)
    BY SearchFacts
  <2>3. CASE exact # 0
    <3> DEFINE e == s[exact]
    <3>1. exact \in 1 .. N /\ HasTimeCoverage(e) /\ e.start = rec.start /\ e.end = EndTime(rec)
      BY <2>2, <2>3, <1>1 DEF Searched
    <3>2. e \in M /\ e \in Segment /\ e.rate # 0
      BY <3>1, <1>1, <1>3 DEF HasTimeCoverage
    <3> HIDE DEF e
    <3>3. ASSUME NEW x \in M, FitsAfter(rec, x) PROVE FALSE
      <4>1. rec.rate # 0
        BY <3>3, <1>2, FitReach
      <4>2. e.rate = rec.rate
        BY <3>2, <4>1
      <4>3. Continues(x, e)
        BY <3>1, <3>2, <3>3, <4>2, <1>2, ContinuesFits
      <4> QED BY <4>3, <3>2 DEF Healed
    <3>4. ASSUME NEW x \in M, FitsBefore(rec, x) PROVE FALSE
      <4>1. rec.rate # 0
        BY <3>4, <1>2, FitReach
      <4>2. e.rate = rec.rate
        BY <3>2, <4>1
      <4>3. Continues(e, x)
        BY <3>1, <3>2, <3>4, <4>2, <1>2, ContinuesFits
      <4> QED BY <4>3, <3>2 DEF Healed
    <3> QED BY <3>3, <3>4 DEF NoneAfter, NoneBefore
  <2>4. CASE exact = 0
    <3>1. /\ before \in 0 .. N /\ after \in 0 .. N
          /\ before # 0 => FitsAfter(rec, s[before])
          /\ before = 0 => \A m \in 1 .. N : ~FitsAfter(rec, s[m])
          /\ after # 0 => FitsBefore(rec, s[after])
          /\ after = 0 => \A m \in 1 .. N : ~FitsBefore(rec, s[m])
      BY <2>2, <2>4 DEF Searched
    <3>2. /\ before = 0 => NoneBefore(M, rec)
          /\ after = 0 => NoneAfter(M, rec)
      BY <3>1, <1>2 DEF NoneBefore, NoneAfter
    <3>3. before # 0 => before # after
      <4> SUFFICES ASSUME before # 0, before = after PROVE FALSE
        OBVIOUS
      <4>1. before \in 1 .. N /\ FitsAfter(rec, s[before]) /\ FitsBefore(rec, s[before])
        BY <3>1, <1>1
      <4>2. s[before] \in M /\ s[before] \in Segment /\ s[before].start <= s[before].end
        BY <4>1, <1>1, <1>3
      <4>3. s[before].start < s[before].start
        BY <4>1, <4>2, FitOrder
      <4> QED BY <4>2, <4>3, <1>4
    <3> HIDE DEF M, s
    <3>4. p = IF before # 0 THEN Place("append", before, after)
              ELSE IF after # 0 THEN Place("prepend", after, 0)
              ELSE Place("insert", follow + 1, 0)
      BY <2>1, <2>2, <3>3
    <3>5. /\ p.how = "append" /\ p.merge = 0 => after = 0
          /\ p.how = "prepend" => before = 0
          /\ p.how = "insert" => before = 0 /\ after = 0
      BY <3>4 DEF Place
    <3> QED BY <3>2, <3>5 DEF M, s
  <2> QED BY <2>3, <2>4
<1> QED BY <1>6, <1>7, <1>8, <1>9, <1>10

(* No segment continues itself. *)
LEMMA NotItself ==
  ASSUME NEW y \in Segment, y.start <= y.end, y.rate <= TickRate
  PROVE  ~Continues(y, y)
<1> SUFFICES ASSUME Continues(y, y) PROVE FALSE
  OBVIOUS
<1>1. y.start \in Int /\ y.end \in Int /\ y.rate \in Nat
  BY DEF Segment
<1>2. /\ y.rate # 0
      /\ -(NsPeriod(y.rate) \div 2) <= y.start - y.end - NsPeriod(y.rate)
  BY DEF Continues, HasTimeCoverage
<1>3. NsPeriod(y.rate) \in Nat \ {0}
  BY <1>1, <1>2, PeriodPositive
<1>4. \A P \in Nat \ {0} : \A b, e \in Int : b <= e => ~(-(P \div 2) <= b - e - P)
  OBVIOUS
<1> QED BY <1>1, <1>2, <1>3, <1>4

(* One segment in place of others, that nothing around it continues. *)
LEMMA HealedWith ==
  ASSUME NEW O, NEW X, NEW y, Healed(O \cup X), ~Continues(y, y),
         \A u \in O : ~Continues(u, y) /\ ~Continues(y, u)
  PROVE  Healed(O \cup {y})
BY DEF Healed

(* Every addition leaves nothing to heal. *)
LEMMA HealedStep ==
  ASSUME WholeMerges, UserTimeTol = -1, UserRateTol = 0, SteadyRates, AutoHeal,
         IInv, AllIn(RecordTypes), AllIn(Forward), AllIn(Forward)',
         AllIn(SourceRate), AllIn(SourceRate)', SegmentsSorted, ExtentExact,
         NEW rec \in Records, NEW k \in Matching(rec),
         AddToSegment(k, rec) \/ MergeSegments(k, rec) \/ AddSegment(k, rec),
         Healed(Members(ids[k].segs))
  PROVE  Healed(Members(ids'[k].segs))
<1> DEFINE s == ids[k].segs
           M == Members(s)
           p == Placement(ids[k], rec)
           i == PutAt(k, rec)
           j == Joins(k, rec)
           seg == SegPut(k, rec)
           nxt == ids[k].segs[Joins(k, rec)]
<1>1. s \in Seq(Segment) /\ s # <<>> /\ now \in Nat /\ k \in Keys /\ IDOK(ids[k]) /\ k[1] = rec.sid
  BY MatchingID DEF Matching, FindID
<1>2. /\ Sorted(s) /\ ExtentOf(M, ids[k].earliest, ids[k].latest)
      /\ ids[k].earliest \in Int /\ ids[k].latest \in Int
  BY <1>1, ExtentByID DEF SegmentsSorted, Sorted, IDOK, TraceID
<1>3. /\ \A x \in M : x \in Segment /\ x.start <= x.end
      /\ \A x \in M : x.rate # 0 /\ rec.rate # 0 => x.rate = rec.rate
  BY <1>1 DEF AllIn, Forward, SourceRate, SteadyRates
<1>4. \A y \in Members(ids'[k].segs) : y \in Segment /\ y.start <= y.end /\ y.rate <= TickRate
  <2> SUFFICES ASSUME NEW y \in Members(ids'[k].segs)
               PROVE  y \in Segment /\ y.start <= y.end /\ y.rate <= TickRate
    OBVIOUS
  <2>1. y \in Forward[k] /\ y \in SourceRate[k]
    BY <1>1 DEF AllIn, Members
  <2>2. TickRate \in Nat
    BY ConstantsAssumption
  <2>3. y.rate = 0 \/ \E r \in Records : r.rate = y.rate
    BY <2>1, <1>1 DEF SourceRate
  <2>4. y.rate <= TickRate
    BY <2>2, <2>3 DEF SteadyRates
  <2> QED BY <2>1, <2>4, <1>1 DEF Forward
<1>5. \A y \in Members(ids'[k].segs) : ~Continues(y, y)
  BY <1>4, NotItself
<1>6. Healed(M)
  OBVIOUS
<1>7. /\ p.how = "append" /\ p.merge = 0 => NoneAfter(M, rec)
      /\ p.how = "prepend" => NoneBefore(M, rec)
      /\ p.how = "insert" => NoneBefore(M, rec) /\ NoneAfter(M, rec)
  <2> HIDE DEF p, M
  <2>1. p = Placement(ids[k], rec)
    BY DEF p
  <2> QED BY <1>1, <1>2, <1>3, <1>6, <2>1, NothingMissed DEF M
<1>8. \A x \in Segment : FitsAfter(rec, x) \/ FitsBefore(rec, x) => x.rate = rec.rate /\ HasTimeCoverage(x)
  BY DEF FitsAfter, FitsBefore, IsSampRateSimilar
<1>0. \A x, y \in Segment : /\ AddMsrToEnd(x, rec).rate = x.rate /\ AddMsrToStart(x, rec).rate = x.rate
                            /\ AddSegToSeg(x, y).rate = x.rate /\ Stamp(x).rate = x.rate
  BY DEF AddMsrToEnd, AddMsrToStart, AddSegToSeg, Stamp, Segment
<1>9. CASE AddToSegment(k, rec)
  <2> DEFINE g == Grown(k, rec)
             y == Stamp(g)
             O == Others(s, {i})
  <2>1. /\ i \in 1 .. Len(s) /\ seg = s[i] /\ p.merge = 0
        /\ \/ p.how = "append" /\ FitsAfter(rec, seg) /\ g = AddMsrToEnd(seg, rec)
           \/ p.how = "prepend" /\ FitsBefore(rec, seg) /\ g = AddMsrToStart(seg, rec)
        /\ Members(ids'[k].segs) = O \cup {y}
    BY <1>9, AddToSegmentLeaves DEF SegPut, Joins
  <2>2. M = O \cup {seg}
    <3> HIDE DEF s, i, seg
    <3> QED BY <2>1, OthersAndThese
  <2>3. seg \in Segment /\ seg \in M /\ seg.rate = rec.rate /\ HasTimeCoverage(seg)
    BY <2>1, <2>2, <1>3, <1>8
  <2> HIDE DEF s, M, i, seg, O, p
  <2>4. g \in Segment /\ g.rate = seg.rate
    BY <2>1, <2>3, <1>0, SegmentFields
  <2>5. \/ NoneAfter(M, rec) /\ g.start = seg.start /\ g.end = EndTime(rec)
        \/ NoneBefore(M, rec) /\ g.start = rec.start /\ g.end = seg.end
    BY <2>1, <2>3, <1>7, MadeExtents
  <2> HIDE DEF g
  <2>6. y \in Segment /\ y.start = g.start /\ y.end = g.end /\ y.rate = rec.rate
    BY <2>3, <2>4, <1>1, StampFields, MadeExtents DEF Stamp, Segment
  <2> HIDE DEF y
  <2>7. ASSUME NEW u \in O PROVE ~Continues(u, y) /\ ~Continues(y, u)
    <3>1. u \in M /\ u \in Segment /\ ~Continues(u, seg) /\ ~Continues(seg, u)
      BY <2>2, <2>3, <1>3, <1>6 DEF Healed
    <3>2. CASE NoneAfter(M, rec) /\ g.start = seg.start /\ g.end = EndTime(rec)
      <4>1. ~Continues(u, y)
        BY <3>1, <3>2, <2>3, <2>6, ContinuesSame
      <4>2. ~Continues(y, u)
        BY <3>1, <3>2, <2>6, ContinuesFits DEF NoneAfter
      <4> QED BY <4>1, <4>2
    <3>3. CASE NoneBefore(M, rec) /\ g.start = rec.start /\ g.end = seg.end
      <4>1. ~Continues(y, u)
        BY <3>1, <3>3, <2>3, <2>6, ContinuesSame
      <4>2. ~Continues(u, y)
        BY <3>1, <3>3, <2>6, ContinuesFits DEF NoneBefore
      <4> QED BY <4>1, <4>2
    <3> QED BY <2>5, <3>2, <3>3
  <2>8. Healed(O \cup {seg}) /\ ~Continues(y, y)
    BY <2>1, <2>2, <1>5, <1>6
  <2>9. Healed(O \cup {y})
    BY <2>7, <2>8, HealedWith
  <2> QED BY <2>1, <2>9
<1>10. CASE AddSegment(k, rec)
  <2> DEFINE y == Stamp(Msr2Seg(rec))
  <2>1. Members(ids'[k].segs) = M \cup {y} /\ p.how = "insert"
    BY <1>10, AddSegmentLeaves
  <2>2. Msr2Seg(rec) \in Segment /\ Msr2Seg(rec).rate = rec.rate
    BY RecordSegment DEF Msr2Seg
  <2>3. y \in Segment /\ y.start = rec.start /\ y.end = EndTime(rec) /\ y.rate = rec.rate
    BY <2>2, <1>1, StampFields, MadeExtents DEF Stamp, Segment
  <2> HIDE DEF y, s, M, p
  <2>4. ASSUME NEW u \in M PROVE ~Continues(u, y) /\ ~Continues(y, u)
    BY <2>1, <2>3, <1>3, <1>7, ContinuesFits DEF NoneBefore, NoneAfter
  <2>5. Healed(M \cup {}) /\ ~Continues(y, y)
    BY <2>1, <1>5, <1>6
  <2>6. Healed(M \cup {y})
    BY <2>4, <2>5, HealedWith
  <2> QED BY <2>1, <2>6
<1>11. CASE MergeSegments(k, rec)
  <2> DEFINE g == AddMsrToEnd(seg, rec)
             y == Stamp(Joined(k, rec))
             O == Others(s, {i, j})
  <2>0. ~TypeClash(g, nxt)
    BY <1>11, NeverHalfMerged DEF HalfMerged
  <2>1. /\ i \in 1 .. Len(s) /\ j \in 1 .. Len(s) /\ seg = s[i] /\ nxt = s[j]
        /\ FitsAfter(rec, seg) /\ FitsBefore(rec, nxt)
        /\ Members(ids'[k].segs) = O \cup {y}
    BY <1>11, <2>0, MergeLeaves DEF SegPut
  <2>2. Joined(k, rec) = AddSegToSeg(g, nxt)
    BY DEF Joined
  <2>3. M = O \cup {seg, nxt}
    <3> HIDE DEF s, i, j, seg, nxt
    <3> QED BY <2>1, OthersAndThese, ZenonT(30)
  <2>4. /\ seg \in Segment /\ seg \in M /\ seg.rate = rec.rate /\ HasTimeCoverage(seg)
        /\ nxt \in Segment /\ nxt \in M /\ nxt.rate = rec.rate /\ HasTimeCoverage(nxt)
    BY <2>1, <2>3, <1>3, <1>8
  <2> HIDE DEF s, M, i, j, seg, nxt, O, p
  <2>5. g \in Segment /\ g.start = seg.start /\ g.rate = seg.rate
    BY <2>4, SegmentFields DEF AddMsrToEnd, Segment
  <2> HIDE DEF g
  <2>6. /\ Joined(k, rec) \in Segment /\ Joined(k, rec).start = seg.start
        /\ Joined(k, rec).end = nxt.end /\ Joined(k, rec).rate = rec.rate
    BY <2>2, <2>4, <2>5, <1>0, MergedFields, MadeExtents
  <2>7. y \in Segment /\ y.start = seg.start /\ y.end = nxt.end /\ y.rate = rec.rate
    BY <2>6, <1>1, StampFields, MadeExtents DEF Stamp, Segment
  <2> HIDE DEF y
  <2>8. ASSUME NEW u \in O PROVE ~Continues(u, y) /\ ~Continues(y, u)
    <3>1. ~Continues(u, seg) /\ ~Continues(nxt, u)
      BY <2>3, <2>4, <1>6 DEF Healed
    <3> QED BY <3>1, <2>4, <2>7, ContinuesSame
  <2>9. Healed(O \cup {seg, nxt}) /\ ~Continues(y, y)
    BY <2>1, <2>3, <1>5, <1>6
  <2>10. Healed(O \cup {y})
    BY <2>8, <2>9, HealedWith
  <2> QED BY <2>1, <2>10
<1> QED BY <1>9, <1>10, <1>11

(* Nothing is left to heal in any trace ID. *)
AllHealed == \A k \in Keys : Healed(Members(ids[k].segs))

(* With healing, the default tolerances, one sample rate for each source   *)
(* and merges that cannot fail half way, no two segments are ever left     *)
(* that continue each other, in whatever order the records arrive: the     *)
(* shortcuts of mstl3_addmsr() and the early end of its search never miss  *)
(* a segment the record could have been joined to.                         *)
THEOREM AlwaysHealed ==
  ASSUME WholeMerges, UserTimeTol = -1, UserRateTol = 0, SteadyRates
  PROVE  Spec => []FullyHealed
<1> DEFINE H == AutoHeal => AllHealed
<1>0. FineTolerance
  BY DefaultIsFine
<1>1. Init => H
  BY DEF Init, AllHealed, Healed, Members, NoTraceID
<1>2. /\ IInv /\ AllIn(RecordTypes) /\ AllIn(Forward) /\ AllIn(Forward)'
      /\ AllIn(SourceRate) /\ AllIn(SourceRate)' /\ SegmentsSorted /\ ExtentExact
      /\ H /\ [Next]_vars
      => H'
  <2> SUFFICES ASSUME IInv, AllIn(RecordTypes), AllIn(Forward), AllIn(Forward)',
                      AllIn(SourceRate), AllIn(SourceRate)', SegmentsSorted, ExtentExact,
                      AutoHeal, AllHealed, [Next]_vars, NEW l \in Keys
               PROVE  Healed(Members(ids'[l].segs))
    BY DEF AllHealed, Healed, Members
  <2>0. Healed(Members(ids[l].segs))
    BY DEF AllHealed
  <2>1. CASE UNCHANGED listVars
    BY <2>0, <2>1 DEF listVars
  <2>2. ASSUME NEW rec \in Records, AddID(rec) PROVE Healed(Members(ids'[l].segs))
    <3> DEFINE y == Stamp(Msr2Seg(rec))
               kk == KeyOf(rec)
    <3>1. kk \in Keys /\ OnlyID(kk) /\ Members(ids'[kk].segs) = {y}
      BY <2>2, AddIDLeaves
    <3>2. Msr2Seg(rec) \in Segment /\ Msr2Seg(rec).rate = rec.rate /\ now \in Nat
      BY RecordSegment DEF Msr2Seg, IInv, TypeOK
    <3>3. y \in Segment /\ y.start = rec.start /\ y.end = EndTime(rec) /\ y.rate = rec.rate
      BY <3>2, StampFields, MadeExtents DEF Stamp, Segment
    <3> HIDE DEF y
    <3>4. rec.start <= EndTime(rec) /\ rec.rate <= TickRate
      BY RecordTimes DEF SteadyRates
    <3>5. Healed({y})
      BY <3>3, <3>4, NotItself DEF Healed
    <3> QED BY <3>1, <3>5, <2>0 DEF OnlyID
  <2>3. ASSUME NEW rec \in Records, NEW k \in Matching(rec),
               AddToSegment(k, rec) \/ MergeSegments(k, rec) \/ AddSegment(k, rec)
        PROVE  Healed(Members(ids'[l].segs))
    <3>1. k \in Keys /\ OnlyID(k)
      BY <2>3, StepTracks
    <3>2. Healed(Members(ids'[k].segs))
      BY <2>3, <3>1, HealedStep DEF AllHealed
    <3> QED BY <3>1, <3>2, <2>0 DEF OnlyID
  <2>4. ASSUME NEW rec \in Records, NEW k \in Matching(rec), RejectMsr(k, rec)
        PROVE  Healed(Members(ids'[l].segs))
    BY <2>0, <2>4 DEF RejectMsr, listVars
  <2> QED BY <2>1, <2>2, <2>3, <2>4, StepAdds DEF AddMsr
<1>3. H => FullyHealed
  BY DEF FullyHealed, AllHealed, Healed, Members
<1>4. Spec => []SegmentsSorted
  BY SegmentsStaySorted
<1>5. Spec => []ExtentExact
  BY <1>0, ExtentStaysExact
<1>6. Spec => []AllIn(Forward)
  BY <1>0, ForwardInvariant
<1> HIDE DEF H
<1> QED BY <1>1, <1>2, <1>3, <1>4, <1>5, <1>6, SourceRateInvariant, TypesInvariant, Invariance, PTL
    DEF Spec
=============================================================================
